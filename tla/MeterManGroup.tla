--------------------------- MODULE MeterManGroup ---------------------------
(***************************************************************************)
(* mm --dut-db: one command of mm on all active meters of the database     *)
(* (scripts/mm.py, curses_run).  A thread per meter spins until it has     *)
(* locked its row, runs the command and unlocks; all threads share one     *)
(* MeterDB.  The main thread shows results as they come, until one holds   *)
(* an exception, and in either case waits for every thread.                *)
(*                                                                         *)
(* Every step on a row is a step of MeterLocks, taken by a thread of mm    *)
(* for the sessions in Group, by whatever else locks meters for the rest.  *)
(* For a session in Group, locked[s] is the local variable of that name,   *)
(* true from the lock to the unlock.                                       *)
(***************************************************************************)
EXTENDS MeterLocks

CONSTANTS Group,    \* the sessions that are an mm --dut-db
          Serviced  \* meters that are taken out of service and back

ASSUME GroupAssumption == Group \subseteq Session
ASSUME ServicedAssumption == Serviced \subseteq Meter

VARIABLES active,   \* rows whose node_status is 'active'
          thread,   \* thread[s][m]: where ProcessMeter of m is
          main      \* main[s]: the main thread

gvars == <<vars, active, thread, main>>

Others == Session \ Group

\* "ended": the row was given back; "kept": the thread has ended and its row is
\* still locked, as addstr raised before the try or unlock_node in the finally.
Ended == {"none", "ended", "kept"}
ThreadStates == {"lock", "run", "unlock"} \cup Ended

NoThreads == [m \in Meter |-> "none"]

GInit ==
  /\ Init
  /\ active = Meter
  /\ thread = [s \in Group |-> NoThreads]
  /\ main = [s \in Group |-> "start"]

-----------------------------------------------------------------------------
(* The main thread. *)

\* get_meters reads the active rows once.  With none of them the executor is
\* asked for no threads at all, which raises.
Start(s) ==
  /\ main[s] = "start" /\ life[s] = "open"
  /\ thread' = [thread EXCEPT ![s] = [m \in Meter |-> IF m \in active THEN "lock" ELSE "none"]]
  /\ main' = [main EXCEPT ![s] = IF active = {} THEN "left" ELSE "results"]
  /\ UNCHANGED <<vars, active>>

\* Mutant: the executor does not wait for its threads.
LeaveAtOnce(s) ==
  /\ main[s] = "results"
  /\ main' = [main EXCEPT ![s] = "left"]
  /\ UNCHANGED <<vars, active, thread>>

\* An exception in a result ends the loop over as_completed, but the end of
\* "with ThreadPoolExecutor" waits for all threads.
Leave(s) ==
  /\ main[s] = "results"
  /\ \A m \in Meter : thread[s][m] \in Ended
  /\ main' = [main EXCEPT ![s] = "left"]
  /\ UNCHANGED <<vars, active, thread>>

\* db goes out of scope: __del__ closes it, the only close of mm, so none that
\* raises is repeated.
Close(s) ==
  /\ main[s] = "left"
  /\ BeginClose(s)
  /\ UNCHANGED <<active, thread, main>>

Killed(s) ==
  /\ Crash(s)
  /\ thread' = [thread EXCEPT ![s] = NoThreads]
  /\ main' = [main EXCEPT ![s] = "left"]
  /\ UNCHANGED active

-----------------------------------------------------------------------------
(* ProcessMeter, one thread per meter. *)

\* while True: a busy row, or an answer that is lost, is tried again at once.
Lock(s, m) ==
  /\ thread[s][m] = "lock"
  /\ LockNode(s, m)
  /\ thread' = [thread EXCEPT ![s][m] = "run"]
  /\ UNCHANGED <<active, main>>

\* The row is locked, and addstr or refresh of the status line raises: the try
\* with its finally comes only after them.
LockThenRaise(s, m) ==
  /\ thread[s][m] = "lock"
  /\ LockNode(s, m)
  /\ thread' = [thread EXCEPT ![s][m] = "kept"]
  /\ UNCHANGED <<active, main>>

LockLost(s, m) ==
  /\ thread[s][m] = "lock"
  /\ LockReplyLost(s, m)
  /\ UNCHANGED <<active, thread, main>>

\* Mutant: without "finally", an exception may leave the row locked.
CommandEndsOpen(s, m) ==
  /\ thread[s][m] = "run"
  /\ \E next \in {"unlock", "ended"} : thread' = [thread EXCEPT ![s][m] = next]
  /\ UNCHANGED <<vars, active, main>>

\* run_command returns or raises; the handler of an exception raises one of its
\* own ("Status: ..." + e), and finally unlocks in each case.
CommandEnds(s, m) ==
  /\ thread[s][m] = "run"
  /\ thread' = [thread EXCEPT ![s][m] = "unlock"]
  /\ UNCHANGED <<vars, active, main>>

\* finally: db.unlock_node, once the RLock is free.
Unlock(s, m) ==
  /\ thread[s][m] = "unlock"
  /\ BeginUnlock(s, m)
  /\ UNCHANGED <<active, thread, main>>

\* Mutant: an unlock that raises goes unnoticed.
UnlockReturnsQuietly(s) ==
  IF op[s].kind = "unlock" /\ op'[s] = Idle
  THEN thread' = [thread EXCEPT ![s][op[s].meter] = "ended"]
  ELSE UNCHANGED thread

\* The unlock in progress is over: it raised if the meter is still on the list.
UnlockReturns(s) ==
  IF op[s].kind = "unlock" /\ op'[s] = Idle
  THEN thread' = [thread EXCEPT ![s][op[s].meter] =
                    IF op[s].meter \in tracked'[s] THEN "kept" ELSE "ended"]
  ELSE UNCHANGED thread

Unlocks(s) ==
  /\ UpdateUnlock(s) \/ UnlockRequestLost(s) \/ UnlockReplyLost(s)
  /\ UnlockReturns(s)
  /\ UNCHANGED <<active, main>>

-----------------------------------------------------------------------------
(* Everybody else. *)

\* mdb deactivate, mdb activate: the status, whatever the row is used for.
Deactivate(m) ==
  /\ active' = active \ {m}
  /\ UNCHANGED <<vars, thread, main>>

Activate(m) ==
  /\ active' = active \cup {m}
  /\ UNCHANGED <<vars, thread, main>>

Aside == UNCHANGED <<active, thread, main>>

OthersStep == Aside /\ ((\E s \in Others : SessionStep(s)) \/ OperatorStep)

-----------------------------------------------------------------------------

GroupStep(s) ==
  \/ Start(s) \/ Leave(s) \/ Close(s) \/ Killed(s) \/ Unlocks(s)
  \/ \E m \in Meter :
       \/ Lock(s, m) \/ LockThenRaise(s, m) \/ LockLost(s, m)
       \/ CommandEnds(s, m) \/ Unlock(s, m)

GNext ==
  \/ \E s \in Group : GroupStep(s)
  \/ OthersStep
  \/ \E m \in Serviced : Deactivate(m) \/ Activate(m)

\* Threads are scheduled, commands end, and the RLock and a free row do not
\* evade the threads of one mm for ever.  Other sessions end.
GFairness ==
  /\ \A s \in Group :
       /\ WF_gvars(Leave(s) \/ Close(s) \/ Unlocks(s))
       /\ WF_gvars(\E m \in Meter : CommandEnds(s, m))
       /\ SF_gvars(\E m \in Meter : Lock(s, m))
       /\ SF_gvars(\E m \in Meter : Unlock(s, m))
  /\ \A s \in Others :
       /\ WF_gvars(Aside /\ (UpdateUnlock(s) \/ UnlockRequestLost(s) \/ UnlockReplyLost(s)))
       /\ SF_gvars(Aside /\ BeginClose(s))

GSpec == GInit /\ [][GNext]_gvars /\ GFairness

-----------------------------------------------------------------------------
(* Properties *)

GTypeOK ==
  /\ active \subseteq Meter
  /\ thread \in [Group -> [Meter -> ThreadStates]]
  /\ main \in [Group -> {"start", "results", "left"}]

\* A command runs only on a meter whose row this mm has locked, and which no
\* other session may use: not another mm on the same group, not a test run.
CommandsOnOwnMeters ==
  \A s \in Group, m \in Meter :
    thread[s][m] = "run" =>
      m \in busy /\ m \in InUse(s) /\ \A t \in Session \ {s} : m \notin InUse(t)

\* While threads run, the list of mm's MeterDB is exactly the meters that still
\* have to be freed: those of threads that run or unlock, and those of threads
\* that an exception ended between lock and try or in their unlock, which the
\* close of mm tries.  So no thread, whatever exception ends it, leaves a row
\* locked that nobody knows of.
ListIsWhatRuns ==
  \A s \in Group : life[s] = "open" /\ op[s].kind # "close" =>
    tracked[s] = {m \in Meter : thread[s][m] \in {"run", "unlock", "kept"}}

\* A row that can only be freed by hand, or by an mm that waits itself: nobody
\* owns it, or the mm whose thread has left it locked holds it until it leaves.
Stranded(m) ==
  \/ m \in busy /\ \A s \in Session : m \notin Owned(s)
  \/ \E s \in Group : thread[s][m] = "kept" /\ m \in Owned(s)

\* Every meter's turn comes: a thread that waits for its row runs its command,
\* unless mm is killed or the row is stranded by a lost reply, a crash, an
\* unlock that failed ten times or a status line that could not be written.
TurnComes ==
  \A s \in Group, m \in Meter :
    thread[s][m] = "lock" ~> (thread[s][m] # "lock" \/ Stranded(m))

=============================================================================
