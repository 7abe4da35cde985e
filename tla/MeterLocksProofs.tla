-------------------------- MODULE MeterLocksProofs --------------------------
(***************************************************************************)
(* Theorems about MeterLocks.  OpInv and ListMatchesInstances hold under   *)
(* every fault; OwnInv, and with it mutual exclusion, as long as no unlock *)
(* reply is lost, no operator frees rows by force and no outage makes a    *)
(* close raise, which is then repeated.                                    *)
(***************************************************************************)
EXTENDS MeterLocks, TLAPS

\* The operation of a session is idle, an unlock of one tracked meter, or a
\* close that has some tracked meters left, the current one among them; of a
\* session whose close raised, the repeat of that close.
OpInv ==
  \A s \in Session :
    /\ op[s].kind = "none" <=> op[s] = Idle
    /\ op[s] # Idle => /\ life[s] \in {"open", "failed"}
                       /\ op[s].meter \in op[s].todo
                       /\ op[s].todo \subseteq tracked[s]
    /\ op[s].kind = "unlock" => life[s] = "open" /\ op[s].todo = {op[s].meter}

BaseInv == TypeOK /\ OpInv /\ ListMatchesInstances

-----------------------------------------------------------------------------
(* The values of op that the actions build. *)

LEMMA IdleIsOperation == Idle \in Operation /\ Idle.kind = "none" /\ Idle.todo = {}
  BY RetriesAssumption DEF Idle, Operation

LEMMA UnlockingIsOperation ==
  ASSUME NEW kind \in {"unlock", "close"}, NEW m \in Meter, NEW todo \in SUBSET Meter
  PROVE  /\ Unlocking(kind, m, todo) \in Operation
         /\ Unlocking(kind, m, todo).kind = kind
         /\ Unlocking(kind, m, todo).meter = m
         /\ Unlocking(kind, m, todo).todo = todo
  BY RetriesAssumption DEF Unlocking, Operation

\* One attempt less leaves the rest of the operation as it was.
LEMMA FewerAttempts ==
  ASSUME NEW o \in Operation, o.left > 1
  PROVE  LET p == [o EXCEPT !.left = @ - 1]
         IN p \in Operation /\ p.kind = o.kind /\ p.meter = o.meter /\ p.todo = o.todo
  BY RetriesAssumption DEF Operation

-----------------------------------------------------------------------------

(* How an attempt of unlock_node can end: each way keeps the base invariant *)
(* whatever the UPDATE did to the rows.                                     *)

LEMMA RaiseBase ==
  ASSUME BaseInv, NEW s \in Session, op[s] # Idle, Raise(s),
         busy' \subseteq Meter, UNCHANGED <<lock_host, reset>>
  PROVE  BaseInv'
<1> USE IdleIsOperation DEF BaseInv, TypeOK, OpInv, ListMatchesInstances, Raise
<1>1. /\ \A t \in Session \ {s} : op'[t] = op[t] /\ life'[t] = life[t]
      /\ op'[s] = Idle
      /\ life'[s] \in {life[s], "failed"}
  OBVIOUS
<1>2. TypeOK'
  OBVIOUS
<1>3. OpInv'
  BY <1>1
<1>4. ListMatchesInstances'
  BY <1>1
<1> QED
  BY <1>2, <1>3, <1>4

LEMMA RetryBase ==
  ASSUME BaseInv, NEW s \in Session, op[s] # Idle, Retry(s),
         busy' \subseteq Meter, UNCHANGED <<lock_host, reset>>
  PROVE  BaseInv'
<1>1. CASE op[s].left > 1
  <2> DEFINE p == [op[s] EXCEPT !.left = @ - 1]
  <2>1. op[s] \in Operation /\ op[s].kind # "none"
    BY DEF BaseInv, TypeOK, OpInv
  <2>2. /\ p \in Operation /\ p.kind = op[s].kind /\ p.meter = op[s].meter
        /\ p.todo = op[s].todo
    BY <1>1, <2>1, FewerAttempts
  <2>3. p # Idle
    BY <2>1, <2>2, IdleIsOperation
  <2>4. op' = [op EXCEPT ![s] = p] /\ UNCHANGED <<life, tracked, locked>>
    BY <1>1 DEF Retry
  <2> HIDE DEF p
  <2>5. TypeOK'
    BY <2>2, <2>4 DEF BaseInv, TypeOK
  <2>6. OpInv'
    BY <2>1, <2>2, <2>3, <2>4 DEF BaseInv, TypeOK, OpInv
  <2>7. ListMatchesInstances'
    BY <2>4 DEF BaseInv, ListMatchesInstances
  <2> QED
    BY <2>5, <2>6, <2>7 DEF BaseInv
<1>2. CASE ~(op[s].left > 1)
  BY <1>2, RaiseBase DEF Retry
<1> QED
  BY <1>1, <1>2

LEMMA FreedBase ==
  ASSUME BaseInv, NEW s \in Session, op[s] # Idle, Freed(s),
         busy' \subseteq Meter, UNCHANGED <<lock_host, reset>>
  PROVE  BaseInv'
<1> DEFINE rest == op[s].todo \ {op[s].meter}
<1>0. /\ op[s] \in Operation
      /\ rest \subseteq tracked[s] /\ rest \subseteq Meter /\ life[s] \in {"open", "failed"}
  BY DEF BaseInv, TypeOK, OpInv, Operation
<1>1. CASE op[s].kind = "unlock"
  <2> DEFINE m == op[s].meter
  <2>1. /\ tracked' = [tracked EXCEPT ![s] = @ \ {m}]
        /\ locked' = [locked EXCEPT ![s] = @ \ {m}]
        /\ op' = [op EXCEPT ![s] = Idle]
        /\ UNCHANGED life
    BY <1>1 DEF Freed
  <2> HIDE DEF m
  <2>2. TypeOK'
    BY <2>1, IdleIsOperation DEF BaseInv, TypeOK
  <2>3. OpInv'
    BY <2>1, IdleIsOperation DEF BaseInv, TypeOK, OpInv
  <2>4. ListMatchesInstances'
    BY <2>1 DEF BaseInv, TypeOK, ListMatchesInstances
  <2> QED
    BY <2>2, <2>3, <2>4 DEF BaseInv
<1>2. ASSUME op[s].kind = "close", NEW n \in rest,
             op' = [op EXCEPT ![s] = Unlocking("close", n, rest)],
             UNCHANGED <<life, tracked, locked>>
      PROVE  BaseInv'
  <2> DEFINE p == Unlocking("close", n, rest)
  <2>1. p \in Operation /\ p.kind = "close" /\ p.meter = n /\ p.todo = rest
    BY <1>0, <1>2, UnlockingIsOperation
  <2>2. p # Idle
    BY <2>1, IdleIsOperation
  <2>3. op' = [op EXCEPT ![s] = p] /\ n \in rest
    BY <1>2
  <2> HIDE DEF p, rest
  <2>4. TypeOK'
    BY <1>2, <2>1, <2>3 DEF BaseInv, TypeOK
  <2>5. OpInv'
    BY <1>0, <1>2, <2>1, <2>2, <2>3 DEF BaseInv, TypeOK, OpInv
  <2>6. ListMatchesInstances'
    BY <1>2 DEF BaseInv, TypeOK, ListMatchesInstances
  <2> QED
    BY <2>4, <2>5, <2>6 DEF BaseInv
<1>3. CASE op[s].kind = "close" /\ rest = {}
  BY <1>0, <1>3, IdleIsOperation
     DEF Freed, BaseInv, TypeOK, OpInv, ListMatchesInstances
<1> QED
  BY <1>1, <1>2, <1>3 DEF Freed

-----------------------------------------------------------------------------

\* A step taken by one session keeps the base invariant.
LEMMA SessionStepBase ==
  ASSUME BaseInv, NEW s \in Session, SessionStep(s)
  PROVE  BaseInv'
<1>1. ASSUME NEW m \in Meter, LockNode(s, m) PROVE BaseInv'
  BY <1>1, LockHostAssumption, IdleIsOperation
     DEF LockNode, UpdateLock, BaseInv, TypeOK, OpInv, ListMatchesInstances
<1>2. ASSUME NEW m \in Meter, LockReplyLost(s, m) PROVE BaseInv'
  BY <1>2, LockHostAssumption
     DEF LockReplyLost, UpdateLock, BaseInv, TypeOK, OpInv, ListMatchesInstances
<1>3. ASSUME NEW m \in Meter, BeginUnlock(s, m) PROVE BaseInv'
  BY <1>3, IdleIsOperation, UnlockingIsOperation
     DEF BeginUnlock, BaseInv, TypeOK, OpInv, ListMatchesInstances
<1>4. CASE BeginClose(s)
  BY <1>4, IdleIsOperation, UnlockingIsOperation
     DEF BeginClose, BaseInv, TypeOK, OpInv, ListMatchesInstances
<1>10. CASE CloseAgain(s)
  <2>1. PICK m \in tracked[s] : op' = [op EXCEPT ![s] = Unlocking("close", m, tracked[s])]
    BY <1>10 DEF CloseAgain
  <2> DEFINE p == Unlocking("close", m, tracked[s])
  <2>2. /\ p \in Operation /\ p.kind = "close" /\ p.meter = m /\ p.todo = tracked[s]
        /\ p # Idle
    BY UnlockingIsOperation, IdleIsOperation DEF BaseInv, TypeOK
  <2>3. op' = [op EXCEPT ![s] = p] /\ life[s] = "failed"
    BY <1>10, <2>1 DEF CloseAgain
  <2> HIDE DEF p
  <2> QED
    BY <1>10, <2>2, <2>3 DEF CloseAgain, BaseInv, TypeOK, OpInv, ListMatchesInstances
<1>5. CASE UpdateUnlock(s)
  BY <1>5, FreedBase, RaiseBase DEF UpdateUnlock, BaseInv, TypeOK
<1>6. CASE UnlockRequestLost(s)
  BY <1>6, RetryBase DEF UnlockRequestLost, BaseInv, TypeOK
<1>7. CASE UnlockReplyLost(s)
  BY <1>7, RetryBase DEF UnlockReplyLost, BaseInv, TypeOK
<1>8. CASE Crash(s)
  BY <1>8, IdleIsOperation DEF Crash, BaseInv, TypeOK, OpInv, ListMatchesInstances
<1>9. CASE Open(s)
  BY <1>9, IdleIsOperation DEF Open, BaseInv, TypeOK, OpInv, ListMatchesInstances
<1> QED
  BY <1>1, <1>2, <1>3, <1>4, <1>5, <1>6, <1>7, <1>8, <1>9, <1>10 DEF SessionStep

LEMMA OperatorStepBase ==
  ASSUME BaseInv, OperatorStep
  PROVE  BaseInv'
<1> USE DEF BaseInv, TypeOK, OpInv, ListMatchesInstances
<1>1. ASSUME NEW m \in Meter, MdbUnlock(m) PROVE BaseInv'
  BY <1>1 DEF MdbUnlock
<1>2. ASSUME NEW m \in Meter, MdbResetNext(m) PROVE BaseInv'
  BY <1>2 DEF MdbResetNext
<1>3. ASSUME NEW m \in Meter, NEW h \in Host, MdbLock(m, h) PROVE BaseInv'
  BY <1>3 DEF MdbLock, UpdateLock
<1>4. ASSUME NEW h \in Host, NEW all \in BOOLEAN, MdbResetRead(h, all) PROVE BaseInv'
  BY <1>4 DEF MdbResetRead
<1> QED
  BY <1>1, <1>2, <1>3, <1>4 DEF OperatorStep

LEMMA BaseInductive ==
  /\ Init => BaseInv
  /\ BaseInv /\ [Next]_vars => BaseInv'
<1>1. Init => BaseInv
  BY IdleIsOperation DEF Init, BaseInv, TypeOK, OpInv, ListMatchesInstances, NoReset
<1>2. BaseInv /\ Next => BaseInv'
  BY SessionStepBase, OperatorStepBase DEF Next
<1>3. BaseInv /\ UNCHANGED vars => BaseInv'
  BY DEF vars, BaseInv, TypeOK, OpInv, ListMatchesInstances
<1> QED
  BY <1>1, <1>2, <1>3

LEMMA BaseInvariant == Spec => []BaseInv
  BY BaseInductive, PTL DEF Spec

\* The values of the variables: rows, lists, flags and operations.
THEOREM TypeCorrect == Spec => []TypeOK
<1>1. BaseInv => TypeOK
  BY DEF BaseInv
<1> QED
  BY <1>1, BaseInvariant, PTL

\* Under every fault the list of a running session is the set of its locked
\* instances, so that closing the session reaches every meter it claims.
THEOREM ListsMatch == Spec => []ListMatchesInstances
<1>1. BaseInv => ListMatchesInstances
  BY DEF BaseInv
<1> QED
  BY <1>1, BaseInvariant, PTL

-----------------------------------------------------------------------------
(* What a step does to the rows and to the meters the sessions own. *)

\* An UPDATE locked a free row; the session owns it unless the reply was lost.
Took(s) ==
  \E m \in Meter \ busy :
    busy' = busy \cup {m} /\ Owned(s)' \in {Owned(s), Owned(s) \cup {m}}

Kept(s) == busy' = busy /\ Owned(s)' = Owned(s)

\* A crash or a close that raised.
GaveUp(s) == Owned(s)' = {} /\ life'[s] \in {"crashed", "failed"}

FreedOne(s) ==
  \E m \in Owned(s) \cap busy :
    busy' = busy \ {m} /\ Owned(s)' = Owned(s) \ {m} /\ m \notin InUse(s)

\* The row was freed and the session does not know.
FreedUnaware(s) ==
  /\ "unlock_reply" \in Fault
  /\ Owned(s)' = Owned(s) \/ GaveUp(s)

\* The repeat of a close that raised: the session owns nothing any more, and
\* frees at most one row that is on its list.
Again(s) ==
  /\ life[s] = "failed" /\ Owned(s) = {} /\ Owned(s)' = {}
  /\ \E m \in Meter : busy' \in {busy, busy \ {m}}

LEMMA RaiseEffect ==
  ASSUME BaseInv, NEW s \in Session, op[s] # Idle, life[s] = "open", Raise(s)
  PROVE  Owned(s)' = Owned(s) \/ GaveUp(s)
<1>1. life[s] = "open" /\ op'[s] = Idle /\ tracked' = tracked
  BY DEF BaseInv, TypeOK, OpInv, Raise
<1>2. CASE op[s].kind = "close"
  BY <1>1, <1>2 DEF BaseInv, TypeOK, Raise, GaveUp, Owned
<1>3. CASE op[s].kind # "close"
  BY <1>1, <1>3, IdleIsOperation DEF BaseInv, TypeOK, Raise, Owned
<1> QED
  BY <1>2, <1>3

LEMMA RetryEffect ==
  ASSUME BaseInv, NEW s \in Session, op[s] # Idle, life[s] = "open", Retry(s)
  PROVE  Owned(s)' = Owned(s) \/ GaveUp(s)
<1>1. CASE op[s].left > 1
  <2>1. op[s] \in Operation /\ op'[s] = [op[s] EXCEPT !.left = @ - 1]
    BY <1>1 DEF Retry, BaseInv, TypeOK
  <2>2. op'[s].kind = op[s].kind /\ op'[s].todo = op[s].todo
    BY <1>1, <2>1, FewerAttempts
  <2> QED
    BY <1>1, <2>2 DEF Retry, Owned
<1>2. CASE ~(op[s].left > 1)
  BY <1>2, RaiseEffect DEF Retry
<1> QED
  BY <1>1, <1>2

LEMMA FreedEffect ==
  ASSUME BaseInv, NEW s \in Session, op[s] # Idle, life[s] = "open", Freed(s),
         op[s].meter \in busy, busy' = busy \ {op[s].meter}
  PROVE  FreedOne(s)
<1> DEFINE m == op[s].meter
           rest == op[s].todo \ {m}
<1>1. /\ op[s] \in Operation /\ life[s] = "open" /\ m \in op[s].todo
      /\ op[s].todo \subseteq tracked[s] /\ op[s].kind \in {"unlock", "close"}
      /\ op[s].kind = "unlock" => op[s].todo = {m}
  BY DEF BaseInv, TypeOK, OpInv, Operation
<1>2. m \in Owned(s) /\ m \notin InUse(s)
  BY <1>1 DEF Owned, InUse
<1>3. Owned(s)' = Owned(s) \ {m}
  <2>1. CASE op[s].kind = "unlock"
    <3>1. /\ tracked'[s] = tracked[s] \ {m} /\ op'[s] = Idle /\ life' = life
      BY <2>1 DEF Freed, BaseInv, TypeOK
    <3> QED
      BY <1>1, <2>1, <3>1, IdleIsOperation DEF Owned
  <2>2. ASSUME op[s].kind = "close", NEW n \in rest,
               op' = [op EXCEPT ![s] = Unlocking("close", n, rest)], life' = life
        PROVE  Owned(s)' = Owned(s) \ {m}
    <3>1. n \in Meter /\ rest \subseteq Meter
      BY <1>1 DEF Operation
    <3>2. op'[s].kind = "close" /\ op'[s].todo = rest
      BY <2>2, <3>1, UnlockingIsOperation DEF BaseInv, TypeOK
    <3> QED
      BY <1>1, <2>2, <3>2 DEF Owned
  <2>3. CASE op[s].kind = "close" /\ rest = {}
    <3>1. life'[s] = "closed"
      BY <2>3 DEF Freed, BaseInv, TypeOK
    <3> QED
      BY <1>1, <2>3, <3>1 DEF Owned
  <2> QED
    BY <1>1, <2>1, <2>2, <2>3 DEF Freed
<1> QED
  BY <1>2, <1>3 DEF FreedOne

\* Any step of a session whose close raised, but for a new run.
LEMMA AgainEffect ==
  ASSUME BaseInv, NEW s \in Session, op[s] # Idle, life[s] = "failed",
         UpdateUnlock(s) \/ UnlockRequestLost(s) \/ UnlockReplyLost(s)
  PROVE  Again(s)
<1>1. op[s].kind = "close" /\ op[s].meter \in Meter
  BY DEF BaseInv, TypeOK, OpInv, Operation
<1>2. life'[s] # "open"
  <2>1. CASE Freed(s) \/ Raise(s)
    BY <1>1, <2>1 DEF Freed, Raise, BaseInv, TypeOK
  <2>2. CASE op[s].left > 1 /\ Retry(s)
    BY <2>2 DEF Retry
  <2> QED
    BY <2>1, <2>2 DEF UpdateUnlock, UnlockRequestLost, UnlockReplyLost, Retry
<1>3. busy' \in {busy, busy \ {op[s].meter}}
  BY DEF UpdateUnlock, UnlockRequestLost, UnlockReplyLost
<1> QED
  BY <1>1, <1>2, <1>3 DEF Again, Owned

LEMMA SessionEffect ==
  ASSUME BaseInv, NEW s \in Session, SessionStep(s)
  PROVE  /\ \A t \in Session \ {s} : Owned(t)' = Owned(t)
         /\ \/ Took(s)
            \/ Kept(s)
            \/ busy' = busy /\ GaveUp(s)
            \/ FreedOne(s)
            \/ FreedUnaware(s) /\ \E m \in Owned(s) : busy' = busy \ {m}
            \/ Again(s)
<1> USE DEF BaseInv, TypeOK
<1>0. \A t \in Session \ {s} : Owned(t)' = Owned(t)
  <2>1. \A t \in Session \ {s} :
          life'[t] = life[t] /\ op'[t] = op[t] /\ tracked'[t] = tracked[t]
    <3>1. CASE UpdateUnlock(s)
      BY <3>1 DEF UpdateUnlock, Freed, Raise
    <3>2. CASE UnlockRequestLost(s) \/ UnlockReplyLost(s)
      BY <3>2 DEF UnlockRequestLost, UnlockReplyLost, Retry, Raise
    <3>3. CASE \E m \in Meter : LockNode(s, m) \/ LockReplyLost(s, m) \/ BeginUnlock(s, m)
      BY <3>3 DEF LockNode, LockReplyLost, BeginUnlock
    <3>4. CASE BeginClose(s) \/ CloseAgain(s) \/ Crash(s) \/ Open(s)
      BY <3>4 DEF BeginClose, CloseAgain, Crash, Open
    <3> QED
      BY <3>1, <3>2, <3>3, <3>4 DEF SessionStep
  <2> QED
    BY <2>1 DEF Owned
<1>1. ASSUME NEW m \in Meter, LockNode(s, m) PROVE Took(s)
  <2>1. Owned(s)' = Owned(s) \cup {m}
    BY <1>1, IdleIsOperation DEF LockNode, Owned
  <2> QED
    BY <1>1, <2>1 DEF LockNode, UpdateLock, Took
<1>2. ASSUME NEW m \in Meter, LockReplyLost(s, m) PROVE Took(s)
  <2>1. Owned(s)' = Owned(s)
    BY <1>2 DEF LockReplyLost, Owned
  <2> QED
    BY <1>2, <2>1 DEF LockReplyLost, UpdateLock, Took
<1>3. ASSUME NEW m \in Meter, BeginUnlock(s, m) PROVE Kept(s)
  <2>1. op[s].kind = "none" /\ op'[s].kind = "unlock"
    BY <1>3, UnlockingIsOperation, IdleIsOperation DEF BeginUnlock
  <2>2. life' = life /\ tracked' = tracked /\ busy' = busy
    BY <1>3 DEF BeginUnlock
  <2> QED
    BY <2>1, <2>2 DEF Kept, Owned
<1>4. CASE BeginClose(s)
  <2>1. CASE tracked[s] = {}
    BY <1>4, <2>1, IdleIsOperation DEF BeginClose, Kept, Owned
  <2>2. CASE tracked[s] # {}
    <3>1. op'[s].kind = "close" /\ op'[s].todo = tracked[s] /\ life' = life
      BY <1>4, <2>2, UnlockingIsOperation DEF BeginClose
    <3> QED
      BY <1>4, <3>1, IdleIsOperation DEF BeginClose, Kept, Owned
  <2> QED
    BY <2>1, <2>2
<1>10. op[s] # Idle => life[s] \in {"open", "failed"}
  BY DEF OpInv
<1>5. CASE UpdateUnlock(s)
  BY <1>0, <1>5, <1>10, FreedEffect, RaiseEffect, AgainEffect DEF UpdateUnlock, Kept
<1>6. CASE UnlockRequestLost(s)
  BY <1>0, <1>6, <1>10, RetryEffect, AgainEffect DEF UnlockRequestLost, Kept
<1>7. CASE UnlockReplyLost(s)
  <2>1. CASE life[s] = "open"
    <3>1. op[s].meter \in Owned(s)
      BY <1>7, <2>1 DEF UnlockReplyLost, OpInv, Owned
    <3> QED
      BY <1>0, <1>7, <2>1, <3>1, RetryEffect DEF UnlockReplyLost, FreedUnaware
  <2>2. CASE life[s] = "failed"
    <3>1. op[s] # Idle
      BY <1>7 DEF UnlockReplyLost
    <3>2. Again(s)
      BY <1>7, <2>2, <3>1, AgainEffect
    <3> QED
      BY <1>0, <3>2
  <2>3. op[s] # Idle
    BY <1>7 DEF UnlockReplyLost
  <2> QED
    BY <1>10, <2>1, <2>2, <2>3
<1>8. CASE Crash(s)
  BY <1>8 DEF Crash, GaveUp, Owned
<1>9. CASE Open(s)
  BY <1>9, IdleIsOperation DEF Open, Kept, Owned
<1>11. CASE CloseAgain(s)
  BY <1>11 DEF CloseAgain, Kept, Owned
<1> QED
  BY <1>0, <1>1, <1>2, <1>3, <1>4, <1>5, <1>6, <1>7, <1>8, <1>9, <1>11 DEF SessionStep

-----------------------------------------------------------------------------
(* What holds under every fault. *)

\* Whatever is lost on the network and whatever the operator does, a session
\* that neither crashes nor sees its close raise gives a meter up only by
\* freeing its row.
THEOREM GivesUp == Spec => GivesUpByFreeing
<1> DEFINE Given(s) == life'[s] \notin {"crashed", "failed"} =>
                         (Owned(s) \ Owned(s)') \cap busy' = {}
<1>1. BaseInv /\ [Next]_vars => [\A s \in Session : Given(s)]_vars
  <2> SUFFICES ASSUME BaseInv, Next, NEW s \in Session PROVE Given(s)
    OBVIOUS
  <2>1. CASE SessionStep(s)
    BY <2>1, SessionEffect DEF Took, Kept, GaveUp, FreedOne, FreedUnaware, Again
  <2>2. ASSUME NEW t \in Session, t # s, SessionStep(t) PROVE Given(s)
    <3>1. Owned(s)' = Owned(s)
      BY <2>2, SessionEffect
    <3> QED
      BY <3>1
  <2>3. CASE OperatorStep
    <3>1. UNCHANGED <<life, op, tracked>>
      BY <2>3 DEF OperatorStep, MdbUnlock, MdbResetNext, MdbLock, MdbResetRead
    <3> QED
      BY <3>1 DEF Owned
  <2> QED
    BY <2>1, <2>2, <2>3 DEF Next
<1> QED
  BY <1>1, BaseInvariant, PTL DEF Spec, GivesUpByFreeing

\* A row that stays busy keeps its lock_host, under every fault.
THEOREM HostKept == Spec => BusyRowKeepsHost
<1> DEFINE KeepsHost == \A m \in busy \cap busy' : lock_host'[m] = lock_host[m]
<1>1. BaseInv /\ [Next]_vars => [KeepsHost]_vars
  <2> SUFFICES ASSUME BaseInv, Next PROVE KeepsHost
    OBVIOUS
  <2>1. ASSUME NEW m \in Meter, NEW h \in Host, UpdateLock(m, h) PROVE KeepsHost
    BY <2>1 DEF UpdateLock, BaseInv, TypeOK
  <2>2. ASSUME NEW s \in Session, SessionStep(s) PROVE KeepsHost
    <3>1. CASE \E m \in Meter : LockNode(s, m) \/ LockReplyLost(s, m)
      BY <2>1, <2>2, <3>1, LockHostAssumption DEF LockNode, LockReplyLost
    <3>2. CASE lock_host' = lock_host
      BY <3>2
    <3> QED
      BY <2>2, <3>1, <3>2 DEF SessionStep, BeginUnlock, BeginClose, CloseAgain, UpdateUnlock,
         UnlockRequestLost, UnlockReplyLost, Crash, Open
  <2>3. CASE OperatorStep
    BY <2>1, <2>3 DEF OperatorStep, MdbUnlock, MdbResetNext, MdbLock, MdbResetRead
  <2> QED
    BY <2>2, <2>3 DEF Next
<1> QED
  BY <1>1, BaseInvariant, PTL DEF Spec, BusyRowKeepsHost

-----------------------------------------------------------------------------
(* What holds while no unlock reply is lost, no operator intervenes and no  *)
(* outage makes a close raise.                                              *)

NoForeignUnlock == Fault \cap {"unlock_reply", "operator", "outage"} = {}

\* Every owned meter has a busy row and one owner, and no close has raised.
OwnInv ==
  /\ reset.todo = {}
  /\ \A s \in Session : life[s] # "failed"
  /\ \A s \in Session : Owned(s) \subseteq busy
  /\ \A s, t \in Session : s # t => Owned(s) \cap Owned(t) = {}

\* Without an outage the rows a close goes over are busy and the last attempt
\* is answered, so it does not raise.
LEMMA NoCloseRaises ==
  ASSUME NoForeignUnlock, BaseInv, OwnInv, NEW s \in Session, SessionStep(s)
  PROVE  \A t \in Session : life'[t] # "failed"
<1>0. /\ life \in [Session -> {"open", "closed", "failed", "crashed"}]
      /\ op[s] \in Operation /\ \A t \in Session : life[t] # "failed"
  BY DEF BaseInv, TypeOK, OwnInv
<1>1. CASE UpdateUnlock(s)
  <2>1. life[s] = "open" /\ op[s].meter \in op[s].todo
    BY <1>1 DEF UpdateUnlock, BaseInv, OpInv, OwnInv
  <2>2. op[s].kind = "close" => op[s].meter \in busy
    BY <2>1 DEF OwnInv, Owned
  <2> QED
    BY <1>0, <1>1, <2>2 DEF UpdateUnlock, Freed, Raise
<1>2. CASE UnlockRequestLost(s)
  <2>1. op[s].kind = "unlock" \/ op[s].left > 1
    BY <1>2 DEF UnlockRequestLost, NoForeignUnlock
  <2> QED
    BY <1>0, <1>2, <2>1 DEF UnlockRequestLost, Retry, Raise
<1>3. CASE ~(UpdateUnlock(s) \/ UnlockRequestLost(s))
  BY <1>0, <1>3 DEF SessionStep, NoForeignUnlock, LockNode, LockReplyLost, BeginUnlock,
     BeginClose, CloseAgain, UnlockReplyLost, Crash, Open
<1> QED
  BY <1>1, <1>2, <1>3

LEMMA OwnInductive ==
  ASSUME NoForeignUnlock
  PROVE  /\ Init => OwnInv
         /\ BaseInv /\ OwnInv /\ [Next]_vars => OwnInv'
<1>1. Init => OwnInv
  BY IdleIsOperation DEF Init, OwnInv, Owned, NoReset
<1>2. ASSUME BaseInv, OwnInv, NEW s \in Session, SessionStep(s) PROVE OwnInv'
  <2>1. reset' = reset
    BY <1>2 DEF SessionStep, LockNode, LockReplyLost, BeginUnlock, BeginClose, CloseAgain,
       UpdateUnlock, UnlockRequestLost, UnlockReplyLost, Crash, Open
  <2>2. \A t \in Session \ {s} : Owned(t)' = Owned(t)
    BY <1>2, SessionEffect
  <2>3. \/ Took(s) \/ Kept(s) \/ (busy' = busy /\ GaveUp(s)) \/ FreedOne(s)
    BY <1>2, SessionEffect DEF FreedUnaware, Again, OwnInv, NoForeignUnlock
  <2>4. \A t \in Session : Owned(t)' \subseteq busy'
    BY <1>2, <2>2, <2>3 DEF OwnInv, Took, Kept, GaveUp, FreedOne
  <2>5. \A t \in Session \ {s} : Owned(s)' \cap Owned(t) = {}
    BY <1>2, <2>3 DEF OwnInv, Took, Kept, GaveUp, FreedOne
  <2> QED
    BY <1>2, <2>1, <2>2, <2>4, <2>5, NoCloseRaises DEF OwnInv
<1>3. ASSUME OwnInv, OperatorStep PROVE OwnInv'
  BY <1>3 DEF OwnInv, NoForeignUnlock, OperatorStep, MdbUnlock, MdbResetNext, MdbLock,
     MdbResetRead
<1>4. ASSUME OwnInv, UNCHANGED vars PROVE OwnInv'
  BY <1>4 DEF OwnInv, vars, Owned
<1> QED
  BY <1>1, <1>2, <1>3, <1>4 DEF Next

LEMMA OwnInvariant ==
  ASSUME NoForeignUnlock
  PROVE  Spec => [](BaseInv /\ OwnInv)
BY OwnInductive, BaseInductive, PTL DEF Spec

LEMMA InUseIsOwned ==
  ASSUME BaseInv, NEW s \in Session
  PROVE  InUse(s) \subseteq Owned(s)
BY DEF BaseInv, TypeOK, ListMatchesInstances, InUse, Owned

\* Two sessions never use one meter at a time, as long as nothing but its own
\* session frees the row of a meter.
THEOREM MutualExclusion ==
  ASSUME NoForeignUnlock
  PROVE  Spec => []Exclusive
<1>1. BaseInv /\ OwnInv => Exclusive
  BY InUseIsOwned DEF OwnInv, Exclusive
<1> QED
  BY <1>1, OwnInvariant, PTL

\* No step frees the row of a meter that is in use before and after it.
THEOREM NoRowTaken ==
  ASSUME NoForeignUnlock
  PROVE  Spec => RowsInUseStay
<1> DEFINE Stays == \A t \in Session : InUse(t) \cap InUse(t)' \cap busy \subseteq busy'
<1>1. BaseInv /\ OwnInv /\ [Next]_vars => [Stays]_vars
  <2> SUFFICES ASSUME BaseInv, OwnInv, Next, NEW t \in Session
               PROVE  InUse(t) \cap busy \subseteq busy'
    OBVIOUS
  <2>1. ASSUME NEW s \in Session, SessionStep(s)
        PROVE  InUse(t) \cap busy \subseteq busy'
    <3>1. \/ Took(s) \/ Kept(s) \/ (busy' = busy /\ GaveUp(s)) \/ FreedOne(s)
      BY <2>1, SessionEffect DEF FreedUnaware, Again, OwnInv, NoForeignUnlock
    <3>2. CASE FreedOne(s)
      BY <3>2, InUseIsOwned DEF FreedOne, OwnInv
    <3> QED
      BY <3>1, <3>2 DEF Took, Kept
  <2>2. CASE OperatorStep
    BY <2>2 DEF OwnInv, NoForeignUnlock, OperatorStep, MdbUnlock, MdbResetNext, MdbLock,
       MdbResetRead
  <2> QED
    BY <2>1, <2>2 DEF Next
<1> QED
  BY <1>1, OwnInvariant, PTL DEF Spec, RowsInUseStay

-----------------------------------------------------------------------------
(* The refinement: rows, lists and operations implement MeterOwnership. *)

\* The owner of a row under the mapping, without the CHOOSE.
LEMMA OwnerOf ==
  ASSUME BaseInv, OwnInv, NEW m \in Meter
  PROVE  /\ m \notin busy => owner[m] = NoOwner
         /\ \A s \in Session : m \in Owned(s) => owner[m] = s
         /\ m \in busy /\ (\A s \in Session : m \notin Owned(s)) => owner[m] = LostOwner
<1>1. ASSUME NEW s \in Session, m \in Owned(s) PROVE owner[m] = s
  <2>1. m \in busy
    BY <1>1 DEF OwnInv
  <2>2. \A t \in Session : m \in Owned(t) => t = s
    BY <1>1 DEF OwnInv
  <2> QED
    BY <1>1, <2>1, <2>2 DEF owner
<1> QED
  BY <1>1 DEF owner

LEMMA OwnerOfNext ==
  ASSUME BaseInv', OwnInv', NEW m \in Meter
  PROVE  /\ m \notin busy' => owner'[m] = NoOwner
         /\ \A s \in Session : m \in Owned(s)' => owner'[m] = s
         /\ m \in busy' /\ (\A s \in Session : m \notin Owned(s)') => owner'[m] = LostOwner
<1>1. ASSUME NEW s \in Session, m \in Owned(s)' PROVE owner'[m] = s
  <2>1. m \in busy'
    BY <1>1 DEF OwnInv
  <2>2. \A t \in Session : m \in Owned(t)' => t = s
    BY <1>1 DEF OwnInv
  <2> QED
    BY <1>1, <2>1, <2>2 DEF owner
<1> QED
  BY <1>1 DEF owner

\* The step of a session is a step of MeterOwnership, or leaves the owners.
LEMMA SessionStepImplements ==
  ASSUME NoForeignUnlock, BaseInv, OwnInv, BaseInv', OwnInv',
         NEW s \in Session, SessionStep(s)
  PROVE  Ownership!Next \/ owner' = owner
<1>0. /\ owner = [m \in Meter |-> owner[m]] /\ owner' = [m \in Meter |-> owner'[m]]
      /\ \A t \in Session \ {s} : Owned(t)' = Owned(t)
      /\ \A t \in Session : Owned(t) \subseteq busy /\ Owned(t)' \subseteq busy'
      /\ busy \subseteq Meter
  BY SessionEffect DEF owner, OwnInv, BaseInv, TypeOK
<1>1. ASSUME NEW m \in Meter \ busy, busy' = busy \cup {m}, Owned(s)' = Owned(s) \cup {m}
      PROVE  Ownership!Acquire(s, m)
  <2>1. owner[m] = NoOwner /\ owner'[m] = s
    BY <1>1, OwnerOf, OwnerOfNext
  <2>2. ASSUME NEW n \in Meter, n # m PROVE owner'[n] = owner[n]
    BY <1>0, <1>1, <2>2, OwnerOf, OwnerOfNext
  <2> QED
    BY <1>0, <2>1, <2>2 DEF Ownership!Acquire
<1>2. ASSUME NEW m \in Meter \ busy, busy' = busy \cup {m}, Owned(s)' = Owned(s)
      PROVE  Ownership!Leak(m)
  <2>1. owner[m] = NoOwner /\ owner'[m] = LostOwner
    BY <1>0, <1>2, OwnerOf, OwnerOfNext
  <2>2. ASSUME NEW n \in Meter, n # m PROVE owner'[n] = owner[n]
    BY <1>0, <1>2, <2>2, OwnerOf, OwnerOfNext
  <2> QED
    BY <1>0, <2>1, <2>2 DEF Ownership!Leak
<1>3. CASE Kept(s)
  <2>1. ASSUME NEW n \in Meter PROVE owner'[n] = owner[n]
    BY <1>0, <1>3, OwnerOf, OwnerOfNext DEF Kept
  <2> QED
    BY <1>0, <2>1
<1>4. CASE busy' = busy /\ GaveUp(s)
  <2>1. ASSUME NEW n \in Meter
        PROVE  owner'[n] = IF owner[n] = s THEN LostOwner ELSE owner[n]
    <3>1. CASE n \in Owned(s)
      BY <1>0, <1>4, <3>1, OwnerOf, OwnerOfNext DEF GaveUp, OwnInv
    <3>2. CASE n \notin Owned(s)
      <4>1. owner[n] # s
        BY <3>2, OwnerAssumption, OwnerOf
      <4> QED
        BY <1>0, <1>4, <3>2, <4>1, OwnerOf, OwnerOfNext DEF GaveUp
    <3> QED
      BY <3>1, <3>2
  <2> QED
    BY <1>0, <2>1 DEF Ownership!Abandon, Ownership!Next
<1>5. ASSUME NEW m \in Owned(s) \cap busy, busy' = busy \ {m}, Owned(s)' = Owned(s) \ {m}
      PROVE  m \in Meter /\ Ownership!Release(s, m)
  <2>1. m \in Meter /\ owner[m] = s /\ owner'[m] = NoOwner
    BY <1>0, <1>5, OwnerOf, OwnerOfNext
  <2>2. ASSUME NEW n \in Meter, n # m PROVE owner'[n] = owner[n]
    BY <1>0, <1>5, <2>2, OwnerOf, OwnerOfNext
  <2> QED
    BY <1>0, <2>1, <2>2 DEF Ownership!Release
<1>6. \/ Took(s) \/ Kept(s) \/ (busy' = busy /\ GaveUp(s)) \/ FreedOne(s)
  BY SessionEffect DEF FreedUnaware, Again, OwnInv, NoForeignUnlock
<1>7. CASE Took(s)
  BY <1>1, <1>2, <1>7 DEF Took, Ownership!Next
<1>8. CASE FreedOne(s)
  BY <1>5, <1>8 DEF FreedOne, Ownership!Next
<1> QED
  BY <1>3, <1>4, <1>6, <1>7, <1>8

\* One owner per meter: MeterLocks implements MeterOwnership.
THEOREM OwnershipRefined ==
  ASSUME NoForeignUnlock
  PROVE  Spec => ImplementsOwnership
<1>1. Init => Ownership!Init
  BY DEF Init, Ownership!Init, owner
<1>2. BaseInv /\ OwnInv /\ BaseInv' /\ OwnInv' /\ [Next]_vars => [Ownership!Next]_owner
  <2> SUFFICES ASSUME BaseInv, OwnInv, BaseInv', OwnInv', [Next]_vars
               PROVE  Ownership!Next \/ owner' = owner
    OBVIOUS
  <2>1. ASSUME NEW s \in Session, SessionStep(s) PROVE Ownership!Next \/ owner' = owner
    BY <2>1, SessionStepImplements
  <2>2. CASE OperatorStep
    BY <2>2 DEF OwnInv, NoForeignUnlock, OperatorStep, MdbUnlock, MdbResetNext, MdbLock,
       MdbResetRead
  <2>3. CASE UNCHANGED vars
    BY <2>3 DEF vars, owner, Owned
  <2> QED
    BY <2>1, <2>2, <2>3 DEF Next
<1> QED
  BY <1>1, <1>2, OwnInvariant, PTL DEF Spec, ImplementsOwnership, Ownership!Spec

=============================================================================
