----------------------------- MODULE MeterLocks -----------------------------
(***************************************************************************)
(* The rows of the Node table (meter/MeterDB.py, class db_pgre) and the    *)
(* sessions that lock meters in it through a MeterDB object (MeterDBBase)  *)
(* and its meter instances (meter/MeterInstance.py), together with the     *)
(* operator's commands of scripts/mdb.py, which change the same rows.      *)
(*                                                                         *)
(* A session is one process: the xdist master, mm, or the parent of        *)
(* parallel.py.  The reentrant lock of MeterDBBase makes its operations    *)
(* sequential, so a session has at most one unlock_node or unlock_all in   *)
(* progress, even while that one sleeps between two attempts.              *)
(***************************************************************************)
EXTENDS Naturals

CONSTANTS Session,    \* processes that lock meters
          Meter,      \* rows of the Node table
          Host,       \* values a lock_host column can have
          LockHost,   \* LockHost[s]: hostname[-BUILD_BUILDID] of session s
          Retries,    \* attempts of db_pgre.unlock_node (10 in the code)
          Fault,      \* what may go wrong, a subset of Faults
          NoMeter, NoHost

Faults == {"lock_reply",      \* an UPDATE that locks commits, its reply is lost
           "unlock_request",  \* an UPDATE that unlocks never reaches the server
           "outage",          \* nor does any attempt for a row of unlock_all
           "unlock_reply",    \* an UPDATE that unlocks commits, its reply is lost
           "operator"}        \* somebody runs mdb lock, unlock or resetlocks

ASSUME LockHostAssumption == LockHost \in [Session -> Host]
ASSUME RetriesAssumption == Retries \in Nat \ {0}
ASSUME FaultAssumption == Fault \subseteq Faults
ASSUME NullAssumption == NoMeter \notin Meter /\ NoHost \notin Host

VARIABLES busy,       \* rows whose node_busy is 'yes'
          lock_host,  \* the column of that name; unlocking leaves it alone
          life,       \* "open", "closed", "failed" (close raised) or "crashed"
          tracked,    \* lock_result of the session's MeterDB: a set, as the
                      \* properties hold in whatever order the list has
          locked,     \* its instances whose attribute locked is True
          op,         \* the unlock_node or unlock_all that holds the RLock
          reset       \* the running "mdb resetlocks": host, --all_hosts, rows
                      \* it has read and still has to unlock

vars == <<busy, lock_host, life, tracked, locked, op, reset>>

\* At most one operation per session: which one, the meter whose UPDATE is
\* being tried, the attempts left, and the meters still to unlock.
Operation == [kind : {"none", "unlock", "close"}, meter : Meter \cup {NoMeter},
              left : 0..Retries, todo : SUBSET Meter]

Idle == [kind |-> "none", meter |-> NoMeter, left |-> 0, todo |-> {}]

NoReset == [host |-> NoHost, all |-> FALSE, todo |-> {}]

Unlocking(kind, m, todo) ==
  [kind |-> kind, meter |-> m, left |-> Retries, todo |-> todo]

Init ==
  /\ busy = {}
  /\ lock_host = [m \in Meter |-> NoHost]
  /\ life = [s \in Session |-> "open"]
  /\ tracked = [s \in Session |-> {}]
  /\ locked = [s \in Session |-> {}]
  /\ op = [s \in Session |-> Idle]
  /\ reset = NoReset

-----------------------------------------------------------------------------
(* Locking: MeterInstanceDB.lock, MeterDBBase.lock_node, db_pgre.lock_node. *)

\* Mutant: without WHERE node_busy = 'no'.
UpdateLockAny(m, host) ==
  /\ busy' = busy \cup {m}
  /\ lock_host' = [lock_host EXCEPT ![m] = host]

\* UPDATE ... SET node_busy = 'yes', lock_host = ... WHERE node_busy = 'no'
UpdateLock(m, host) ==
  /\ m \notin busy
  /\ busy' = busy \cup {m}
  /\ lock_host' = [lock_host EXCEPT ![m] = host]

\* The row was free: it is tracked, and the instance is locked.  The other
\* outcome, a row that is busy, returns False and changes nothing.
LockNode(s, m) ==
  /\ life[s] = "open" /\ op[s] = Idle
  /\ m \notin locked[s]
  /\ UpdateLock(m, LockHost[s])
  /\ tracked' = [tracked EXCEPT ![s] = @ \cup {m}]
  /\ locked' = [locked EXCEPT ![s] = @ \cup {m}]
  /\ UNCHANGED <<life, op, reset>>

\* The commit succeeded and the connection failed before the row count came
\* back: the exception handler returns False for a row that is now busy.
LockReplyLost(s, m) ==
  /\ "lock_reply" \in Fault
  /\ life[s] = "open" /\ op[s] = Idle
  /\ m \notin locked[s]
  /\ UpdateLock(m, LockHost[s])
  /\ UNCHANGED <<life, tracked, locked, op, reset>>

-----------------------------------------------------------------------------
(* Unlocking: unlock_node for one meter, unlock_all when a session closes.  *)

BeginUnlock(s, m) ==
  /\ life[s] = "open" /\ op[s] = Idle
  /\ m \in locked[s] /\ m \in tracked[s]
  /\ op' = [op EXCEPT ![s] = Unlocking("unlock", m, {m})]
  /\ UNCHANGED <<busy, lock_host, life, tracked, locked, reset>>

BeginClose(s) ==
  /\ life[s] = "open" /\ op[s] = Idle
  /\ \/ /\ tracked[s] = {}
        /\ life' = [life EXCEPT ![s] = "closed"]
        /\ UNCHANGED op
     \/ \E m \in tracked[s] :
          /\ op' = [op EXCEPT ![s] = Unlocking("close", m, tracked[s])]
          /\ UNCHANGED life
  /\ UNCHANGED <<busy, lock_host, tracked, locked, reset>>

\* A close that raised is run again: __del__ calls close, and the exit handler
\* of parallel.py calls unlock_all.  It goes over the whole list, also over rows
\* the first run has freed: one that is free still raises, one that somebody
\* has locked since is freed under him.
CloseAgain(s) ==
  /\ life[s] = "failed" /\ op[s] = Idle
  /\ \E m \in tracked[s] : op' = [op EXCEPT ![s] = Unlocking("close", m, tracked[s])]
  /\ UNCHANGED <<busy, lock_host, life, tracked, locked, reset>>

\* Mutant: the instance gives its flag up although the row stays busy.
RaiseUnflagged(s) ==
  /\ op' = [op EXCEPT ![s] = Idle]
  /\ life' = IF op[s].kind = "close" THEN [life EXCEPT ![s] = "failed"] ELSE life
  /\ locked' = [locked EXCEPT ![s] = @ \ {op[s].meter}]
  /\ UNCHANGED tracked

\* The exception leaves unlock_node: the list and the instance keep the meter.
\* It also leaves unlock_all, and with it close, with the list as it was: the
\* rows that were freed before the exception are still on it.
Raise(s) ==
  /\ op' = [op EXCEPT ![s] = Idle]
  /\ life' = IF op[s].kind = "close" THEN [life EXCEPT ![s] = "failed"] ELSE life
  /\ UNCHANGED <<tracked, locked>>

\* Mutant: unlock_all stops after one row.
FreedOnce(s) ==
  /\ tracked' = [tracked EXCEPT ![s] =
                   IF op[s].kind = "close" THEN {} ELSE @ \ {op[s].meter}]
  /\ locked' = [locked EXCEPT ![s] = IF op[s].kind = "close" THEN @ ELSE @ \ {op[s].meter}]
  /\ op' = [op EXCEPT ![s] = Idle]
  /\ life' = IF op[s].kind = "close" THEN [life EXCEPT ![s] = "closed"] ELSE life

\* One row was freed: unlock_node drops it from the list and the instance,
\* unlock_all goes on to the next entry and empties the list after the last.
Freed(s) ==
  LET m == op[s].meter
      rest == op[s].todo \ {m}
  IN \/ /\ op[s].kind = "unlock"
        /\ tracked' = [tracked EXCEPT ![s] = @ \ {m}]
        /\ locked' = [locked EXCEPT ![s] = @ \ {m}]
        /\ op' = [op EXCEPT ![s] = Idle]
        /\ UNCHANGED life
     \/ /\ op[s].kind = "close" /\ rest # {}
        /\ \E n \in rest : op' = [op EXCEPT ![s] = Unlocking("close", n, rest)]
        /\ UNCHANGED <<life, tracked, locked>>
     \/ /\ op[s].kind = "close" /\ rest = {}
        /\ tracked' = [tracked EXCEPT ![s] = {}]
        /\ op' = [op EXCEPT ![s] = Idle]
        /\ life' = [life EXCEPT ![s] = "closed"]
        /\ UNCHANGED locked

\* UPDATE ... SET node_busy = 'no' WHERE node_busy = 'yes', answered.  The
\* condition names no owner; a row count of 0 raises ValueError.
UpdateUnlock(s) ==
  /\ op[s] # Idle
  /\ \/ op[s].meter \in busy /\ busy' = busy \ {op[s].meter} /\ Freed(s)
     \/ op[s].meter \notin busy /\ Raise(s) /\ UNCHANGED busy
  /\ UNCHANGED <<lock_host, reset>>

\* Mutant: the attempts are not counted.
RetryForever(s) == op' = op /\ UNCHANGED <<life, tracked, locked>>

\* The attempt fails; unlock_node sleeps and tries again, ten times in all.
Retry(s) ==
  IF op[s].left > 1
  THEN /\ op' = [op EXCEPT ![s].left = @ - 1]
       /\ UNCHANGED <<life, tracked, locked>>
  ELSE Raise(s)

\* The last attempt for a row of unlock_all fails in an outage only.
UnlockRequestLost(s) ==
  /\ "unlock_request" \in Fault
  /\ op[s] # Idle
  /\ op[s].kind = "unlock" \/ op[s].left > 1 \/ "outage" \in Fault
  /\ Retry(s)
  /\ UNCHANGED <<busy, lock_host, reset>>

UnlockReplyLost(s) ==
  /\ "unlock_reply" \in Fault
  /\ op[s] # Idle
  /\ busy' = busy \ {op[s].meter}
  /\ Retry(s)
  /\ UNCHANGED <<lock_host, reset>>

-----------------------------------------------------------------------------
(* The life of a session's process. *)

\* SIGKILL, a power cut, os._exit: the process is gone, its rows stay busy.
Crash(s) ==
  /\ life[s] = "open"
  /\ life' = [life EXCEPT ![s] = "crashed"]
  /\ tracked' = [tracked EXCEPT ![s] = {}]
  /\ locked' = [locked EXCEPT ![s] = {}]
  /\ op' = [op EXCEPT ![s] = Idle]
  /\ UNCHANGED <<busy, lock_host, reset>>

\* A later run on the same host creates a new MeterDB with an empty list.  The
\* repeat of a close that raised may have been cut short.
Open(s) ==
  /\ life[s] # "open"
  /\ life' = [life EXCEPT ![s] = "open"]
  /\ tracked' = [tracked EXCEPT ![s] = {}]
  /\ locked' = [locked EXCEPT ![s] = {}]
  /\ op' = [op EXCEPT ![s] = Idle]
  /\ UNCHANGED <<busy, lock_host, reset>>

-----------------------------------------------------------------------------
(* The operator's commands (scripts/mdb.py).  Each is a process of its own  *)
(* whose MeterDB tracks nothing, so force_unlock_node always goes to the    *)
(* row; exceptions are printed and the command goes on.                     *)

MdbLock(m, host) ==
  /\ "operator" \in Fault
  /\ UpdateLock(m, host)
  /\ UNCHANGED <<life, tracked, locked, op, reset>>

MdbUnlock(m) ==
  /\ "operator" \in Fault
  /\ m \in busy
  /\ busy' = busy \ {m}
  /\ UNCHANGED <<lock_host, life, tracked, locked, op, reset>>

\* get_meters reads all rows at once; the rows to reset are chosen from that
\* reading, with --all_hosts or by lock_host.
MdbResetRead(host, all) ==
  /\ "operator" \in Fault
  /\ reset.todo = {}
  /\ reset' = [host |-> host, all |-> all,
               todo |-> {m \in busy : all \/ lock_host[m] = host}]
  /\ UNCHANGED <<busy, lock_host, life, tracked, locked, op>>

MdbResetNext(m) ==
  /\ m \in reset.todo
  /\ reset' = [reset EXCEPT !.todo = @ \ {m}]
  /\ busy' = busy \ {m}
  /\ UNCHANGED <<lock_host, life, tracked, locked, op>>

-----------------------------------------------------------------------------

SessionStep(s) ==
  \/ \E m \in Meter : LockNode(s, m) \/ LockReplyLost(s, m) \/ BeginUnlock(s, m)
  \/ BeginClose(s) \/ CloseAgain(s)
  \/ UpdateUnlock(s) \/ UnlockRequestLost(s) \/ UnlockReplyLost(s)
  \/ Crash(s) \/ Open(s)

OperatorStep ==
  \/ \E m \in Meter : MdbUnlock(m) \/ MdbResetNext(m)
  \/ \E m \in Meter, h \in Host : MdbLock(m, h)
  \/ \E h \in Host, all \in BOOLEAN : MdbResetRead(h, all)

Next == (\E s \in Session : SessionStep(s)) \/ OperatorStep

\* An unlock in progress goes on: it is a loop without waiting for anybody.
Fairness ==
  \A s \in Session :
    WF_vars(UpdateUnlock(s) \/ UnlockRequestLost(s) \/ UnlockReplyLost(s))

Spec == Init /\ [][Next]_vars /\ Fairness

-----------------------------------------------------------------------------
(* Properties *)

TypeOK ==
  /\ busy \subseteq Meter
  /\ lock_host \in [Meter -> Host \cup {NoHost}]
  /\ life \in [Session -> {"open", "closed", "failed", "crashed"}]
  /\ tracked \in [Session -> SUBSET Meter]
  /\ locked \in [Session -> SUBSET Meter]
  /\ op \in [Session -> Operation]
  /\ reset \in [host : Host \cup {NoHost}, all : BOOLEAN, todo : SUBSET Meter]

\* The meters the session's own code may talk to: locked instances, until the
\* session starts to give them back.
InUse(s) ==
  IF life[s] # "open" \/ op[s].kind = "close" THEN {}
  ELSE locked[s] \ op[s].todo

\* The rows the session would still free if it closed normally.
Owned(s) ==
  IF life[s] # "open" THEN {}
  ELSE IF op[s].kind = "close" THEN op[s].todo ELSE tracked[s]

\* Two sessions never use one meter at a time, whatever locks, unlocks,
\* crashes, lost lock replies and lost unlock requests came before, an
\* unlock_node that raised included.  This is what node_busy is for.  It fails
\* when an unlock reply is lost, when an operator unlocks a meter by force, and
\* when an outage makes a close raise that has freed a row: the repeat of the
\* close frees that row again, whoever has locked it since.
Exclusive ==
  \A s, t \in Session : s # t => InUse(s) \cap InUse(t) = {}

\* A meter that is in use before and after a step keeps its busy row in that
\* step: no session's unlock, retry or close takes it away.
RowsInUseStay ==
  [][\A t \in Session : InUse(t) \cap InUse(t)' \cap busy \subseteq busy']_vars

\* The list that unlock_all works through and the flags of the instances agree
\* while the session runs, also after an unlock that raised: so a close covers
\* every meter an instance still claims, and asserts of lock and unlock hold.
ListMatchesInstances ==
  \A s \in Session : life[s] = "open" => locked[s] = tracked[s]

\* A session that has not crashed and whose close did not raise gives a meter
\* up only by freeing its row, under every fault: nothing leaks silently.
GivesUpByFreeing ==
  [][\A s \in Session : life'[s] \notin {"crashed", "failed"} =>
       (Owned(s) \ Owned(s)') \cap busy' = {}]_vars

\* A row that stays busy keeps the host that locked it: whoever else runs the
\* locking UPDATE leaves it alone, so lock_host names the true holder.
BusyRowKeepsHost ==
  [][\A m \in busy \cap busy' : lock_host'[m] = lock_host[m]]_vars

\* An unlock_node or unlock_all ends, by success or by exception, however many
\* requests and replies are lost; else the RLock it holds would block every
\* other thread of the session for good.
UnlockTerminates ==
  \A s \in Session : op[s] # Idle ~> op[s] = Idle

\* Who a row belongs to, for MeterOwnership.
NoOwner == "free"
LostOwner == "lost"
ASSUME OwnerAssumption == NoOwner \notin Session /\ LostOwner \notin Session

owner ==
  [m \in Meter |->
    IF m \notin busy THEN NoOwner
    ELSE IF \E s \in Session : m \in Owned(s)
         THEN CHOOSE s \in Session : m \in Owned(s)
         ELSE LostOwner]

Ownership == INSTANCE MeterOwnership WITH Free <- NoOwner, Lost <- LostOwner

\* The rows and lists implement one owner per meter.
ImplementsOwnership == Ownership!Spec

=============================================================================
