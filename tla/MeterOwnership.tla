--------------------------- MODULE MeterOwnership ---------------------------
(***************************************************************************)
(* What the lock rows promise: every meter is free, owned by one session,  *)
(* or lost.  A lost meter is busy in the database with nobody left to free *)
(* it, after a crash or a lock whose reply was lost.                       *)
(***************************************************************************)
CONSTANTS Session, Meter, Free, Lost

VARIABLE owner

Init == owner = [m \in Meter |-> Free]

Acquire(s, m) ==
  /\ owner[m] = Free
  /\ owner' = [owner EXCEPT ![m] = s]

Release(s, m) ==
  /\ owner[m] = s
  /\ owner' = [owner EXCEPT ![m] = Free]

Leak(m) ==
  /\ owner[m] = Free
  /\ owner' = [owner EXCEPT ![m] = Lost]

\* The session dies with everything it still owned.
Abandon(s) ==
  owner' = [m \in Meter |-> IF owner[m] = s THEN Lost ELSE owner[m]]

Next ==
  \/ \E s \in Session, m \in Meter : Acquire(s, m) \/ Release(s, m)
  \/ \E m \in Meter : Leak(m)
  \/ \E s \in Session : Abandon(s)

Spec == Init /\ [][Next]_owner

=============================================================================
