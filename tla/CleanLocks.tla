----------------------------- MODULE CleanLocks -----------------------------
(***************************************************************************)
(* The script clean_locks beside a session of plugins/parallel.py: it      *)
(* signals the pytest process until it is gone and then unlocks, with mdb, *)
(* the rows that parallel.locks.json lists.                                *)
(*                                                                         *)
(* The first SIGHUP or SIGTERM raises KeyboardInterrupt in the parent,     *)
(* which puts back the dispositions it found; the next one ends the        *)
(* process at once and leaves its workers and its manager without parent.  *)
(***************************************************************************)
EXTENDS ParallelRunner

CONSTANTS PidFile,   \* whether it finds pytest.pid, which pytest_configure writes
          OldHups,   \* what SIGHUP did before the run: "kill", or "ignore" (nohup)
          MaxHups,   \* SIGHUPs that fit into three minutes
          MaxTerms   \* SIGTERMs that fit into two minutes

ASSUME PidAssumption == PidFile \in BOOLEAN
ASSUME HupAssumption == OldHups \subseteq {"kill", "ignore"}
ASSUME SignalsAssumption == MaxHups \in Nat /\ MaxTerms \in Nat

VARIABLES
  cl,     \* where clean_locks is: "off", "hup", "term", "read", "unlock", "done", "failed"
  sent,   \* signals sent in this loop
  nodes,  \* rows of the file still to be unlocked
  disp,   \* what a signal does to the parent: "raise", or the "old" disposition
  oldhup

scriptVars == <<cl, sent, nodes>>
signalVars == <<disp, oldhup>>
allVars    == <<vars, scriptVars, signalVars>>

Gone == parent \in {"exit", "killed"}

\* Where the parent can be for as long as the script waits between two signals.
\* All its other steps are taken to be done within those thirty seconds.
Waits ==
  \/ parent \in {"start", "join", "joinnm"}
  \/ parent = "joinq" /\ open[Current] > 0
  \/ parent = "end" /\ \E w \in Active : Running(w)

CInit ==
  /\ Init
  /\ cl = "off" /\ sent = 0 /\ nodes = {}
  /\ disp = (IF MissingMeters THEN "old" ELSE "raise")
  /\ oldhup \in OldHups

-----------------------------------------------------------------------------
(* What a signal does. *)

\* Mutant: the dispositions are not put back.
SighupRaisesAgain ==
  /\ disp = "raise" /\ parent \in {"start", "join", "joinnm"}
  /\ Advance("signal")
  /\ UNCHANGED <<setup, workerVars, queueVars, lockVars, procVars, endVars, testVars, signalVars>>

\* sighup raises KeyboardInterrupt.  A signal to the parent alone: the workers
\* are not in its way until terminate_children.
SighupRaises ==
  /\ disp = "raise" /\ parent \in {"start", "join", "joinnm"}
  /\ disp' = "old"
  /\ Advance("signal")
  /\ UNCHANGED <<setup, workerVars, queueVars, lockVars, procVars, endVars, testVars, oldhup>>

\* Meters whose row a thread of the parent may be updating.
BeingLocked == {rpc[w].meter : w \in {v \in Worker :
                  rpc[v].meter # NoMeter /\ rpc[v].answer = "none" /\ row[rpc[v].meter] = "free"}}
BeingUnlocked == {NextHeld(w) : w \in {v \in Worker :
                  pc[v] \in {"rollback", "release"} /\ got[v] # {} /\ ~Local(v)}}

\* The process ends in the middle of whatever its threads do: a row may be
\* updated and the file not yet.
Killed ==
  /\ Advance("killed")
  /\ processor' = "off"
  /\ \E on \in SUBSET BeingLocked, off \in SUBSET (IF ServersUp THEN BeingUnlocked ELSE {}) :
       row' = [m \in Meter |-> IF m \in on THEN "mine"
                               ELSE IF m \in off THEN "free" ELSE row[m]]
  /\ UNCHANGED <<setup, workerVars, queueVars, tracked, locks, file, procVars, cleaning,
                 outcome, joined, testVars, signalVars>>

Deliver(sig) ==
  /\ Waits
  /\ \/ SighupRaises
     \/ /\ disp = "old"
        /\ IF sig = "hup" /\ oldhup = "ignore" THEN UNCHANGED <<vars, signalVars>> ELSE Killed

-----------------------------------------------------------------------------
(* The script. *)

Begin ==
  /\ cl = "off"
  /\ cl' = (IF PidFile THEN "hup" ELSE "read")
  /\ UNCHANGED <<vars, signalVars, sent, nodes>>

Budget == IF cl = "hup" THEN MaxHups ELSE MaxTerms

\* os.kill.  To a process that has ended since its status was read it raises,
\* unless it is still a zombie.
SendSignal ==
  /\ cl \in {"hup", "term"} /\ sent < Budget
  /\ \/ Deliver(cl) /\ sent' = sent + 1 /\ UNCHANGED cl
     \/ Gone /\ sent' = sent + 1 /\ UNCHANGED <<vars, signalVars, cl>>
     \/ Gone /\ cl' = "failed" /\ UNCHANGED <<vars, signalVars, sent>>
  /\ UNCHANGED nodes

\* procStatus finds no process.
SeesItGone ==
  /\ cl \in {"hup", "term"} /\ Gone
  /\ cl' = "read"
  /\ UNCHANGED <<vars, signalVars, sent, nodes>>

\* Mutant: no SIGTERM after the SIGHUPs.
TimesOutOnce ==
  /\ cl \in {"hup", "term"} /\ sent = Budget
  /\ cl' = "read" /\ sent' = 0
  /\ UNCHANGED <<vars, signalVars, nodes>>

TimesOut ==
  /\ cl \in {"hup", "term"} /\ sent = Budget
  /\ cl' = (IF cl = "hup" THEN "term" ELSE "read")
  /\ sent' = 0
  /\ UNCHANGED <<vars, signalVars, nodes>>

ReadsFile ==
  /\ cl = "read"
  /\ nodes' = file /\ cl' = "unlock"
  /\ UNCHANGED <<vars, signalVars, sent>>

\* mdb unlock: whoever has locked the row.
MdbUnlock(m) ==
  /\ cl = "unlock" /\ m \in nodes
  /\ row' = [row EXCEPT ![m] = "free"]
  /\ nodes' = nodes \ {m}
  /\ UNCHANGED <<sessionVars, workerVars, queueVars, tracked, locks, file, signalVars, cl, sent>>

Finish ==
  /\ cl = "unlock" /\ nodes = {}
  /\ cl' = "done"
  /\ UNCHANGED <<vars, signalVars, sent, nodes>>

Script ==
  \/ Begin \/ SendSignal \/ SeesItGone \/ TimesOut \/ ReadsFile \/ Finish
  \/ \E m \in Meter : MdbUnlock(m)

-----------------------------------------------------------------------------

Beside(step) == step /\ UNCHANGED <<scriptVars, signalVars>>

\* Workers outlive a parent that was killed; its threads do not.
ServesLock(w) == parent # "killed" /\ ServeLock(w)

CNext ==
  \/ Script
  \/ Beside(\E w \in Worker : WorkerStep(w) \/ ServesLock(w))
  \/ Beside(ParentStep \/ process_responses)
  \/ Beside(\E m \in Meter : OtherSession(m))

\* As in ParallelRunner; the script runs, and does not stop on the way.
CFairness ==
  /\ \A w \in Worker : /\ WF_allVars(Beside(WorkerStep(w)))
                       /\ WF_allVars(Beside(ServesLock(w)))
  /\ WF_allVars(Beside(ParentStep))
  /\ WF_allVars(Beside(process_responses))
  /\ WF_allVars(Script)

CSpec == CInit /\ [][CNext]_allVars /\ CFairness

-----------------------------------------------------------------------------
(* Properties *)

\* "this script is will clean locks ... on abnormal abort.  Signal the process
\* ... then wait for it to shutdown" (clean_locks:3): no row is unlocked while
\* pytest lives, whatever its clean-up waits for and whatever SIGHUP does to it.
CleansAfterEnd == [][\A m \in Meter : MdbUnlock(m) => Gone]_allVars

\* After a session that ended without a signal the script frees nothing, another
\* session's row least of all: the last of the two lock servers to write the
\* file has written an empty list.  So it is while no unlock raises (no fault
\* "database"): one that does leaves its meter in the file.
HarmlessAfterQuietEnd ==
  [][\A m \in Meter : MdbUnlock(m) => ~(parent = "exit" /\ disp = "raise")]_allVars

\* Where one lock server wrote the file, the script frees every row that the
\* session left behind, killed or not, but for one whose locking the kill cut in
\* two: the row is updated before the file.  So it is while no unlock raises: one
\* that does drops the meter from the list that is written next, not from its row.
FreesWhatIsListed ==
  cl = "done" =>
    \A m \in Meter : row[m] = "mine" =>
      \/ \E w \in Worker : rpc[w].meter = m /\ rpc[w].answer \in {"none", "late"}
      \/ \A k \in MeterKinds : setup.tests[k] # <<>>

\* The script ends every session, also one whose clean-up hangs on a queue that
\* nobody will finish, or on a worker that still runs its test.
PytestEnds == <>Gone

=============================================================================
