-------------------------- MODULE CleanLocksProofs --------------------------
(***************************************************************************)
(* Theorems about CleanLocks.  A session with the script beside it takes   *)
(* the steps of ParallelRunner until a signal reaches the parent, so the   *)
(* lemmas of ParallelRunnerProofs about one step serve here as well.       *)
(***************************************************************************)
EXTENDS CleanLocks, ParallelRunnerProofs

\* The script finds the file with the process id, and each of its loops has the
\* time for a signal.
Signals == PidFile /\ MaxHups > 0 /\ MaxTerms > 0

\* No unlock raises.  One that does leaves the row busy, in the list of the
\* MeterDB and in the file, and out of the list that the file is written from.
EveryUnlockSucceeds == "database" \notin Fault

-----------------------------------------------------------------------------
(* The script reads the file of locks only when the parent has gone. *)

\* The first signal of a loop makes the next one deadly, or finds the parent gone.
ScriptInv ==
  /\ disp \in {"raise", "old"}
  /\ cl \in {"off", "hup", "term", "read", "unlock", "done", "failed"} /\ sent \in Nat
  /\ cl \in {"off", "failed"} \/ (cl = "hup" /\ sent = 0) \/ Gone \/ disp = "old"
  /\ cl = "off" => sent = 0
  /\ cl = "term" /\ sent > 0 => Gone
  /\ cl \in {"read", "unlock", "done"} => Gone

\* A step of the session, of other sessions or of nobody.  Of a parent that has
\* gone nothing is left that would serve a lock.
Aside ==
  /\ UNCHANGED <<scriptVars, signalVars>>
  /\ [Next]_vars
  /\ Gone => \/ \E w \in Worker : WorkerStep(w)
             \/ \E m \in Meter : OtherSession(m)
             \/ UNCHANGED <<setup, rpc, row, file>>

LEMMA StepKinds == [CNext]_allVars => Script \/ Aside
<1>1. CASE Beside(\E w \in Worker : WorkerStep(w) \/ ServesLock(w))
  BY <1>1 DEF Beside, ServesLock, ServeLock, Aside, Gone, Next
<1>2. CASE Beside(ParentStep)
  <2>1. ~Gone
    BY <1>2 DEF Beside, Gone, ParentStep, StartWorker, JoinWorker, AllStarted, AllJoined, JoinNoMeter,
       terminate_children, CloseServers, CheckErrors, PutQuit, JoinProcessor, CheckEmpty, Drain,
       JoinQueue, CloseClient, CloseRaises, cleanup, Exit
  <2> QED
    BY <1>2, <2>1 DEF Beside, Aside, Next
<1>3. CASE Beside(process_responses)
  <2>1. UNCHANGED <<setup, rpc, row, file>>
    BY <1>3 DEF Beside, process_responses, workerVars, lockVars
  <2> QED
    BY <1>3, <2>1 DEF Beside, Aside, Next
<1>4. CASE Beside(\E m \in Meter : OtherSession(m))
  BY <1>4 DEF Beside, Aside, Next
<1>5. CASE UNCHANGED allVars
  <2>1. UNCHANGED <<vars, scriptVars, signalVars, setup, rpc, row, file>>
    BY <1>5 DEF allVars, vars, workerVars, lockVars, sessionVars
  <2> QED
    BY <2>1 DEF Aside
<1> QED
  BY <1>1, <1>2, <1>3, <1>4, <1>5 DEF CNext, Beside

\* A parent that has gone stays away.
LEMMA StaysGone == Gone /\ [Next]_vars => UNCHANGED parent
<1> SUFFICES ASSUME Gone, [Next]_vars PROVE UNCHANGED parent
  OBVIOUS
<1>1. CASE \E w \in Worker : WorkerStep(w) \/ ServeLock(w)
  BY <1>1 DEF ServeLock, WorkerStep, Boot, CheckQueue, CallLock, LockReturns, LockDone, Rollback,
     TryAgain, Take, BeginItem, Report, TaskDone, RunRaises, Release, Interrupted, sessionVars,
     parentVars
<1>2. ~ParentStep /\ ~Interrupt
  BY DEF Gone, ParentStep, StartWorker, JoinWorker, AllStarted, AllJoined, JoinNoMeter,
     terminate_children, CloseServers, CheckErrors, PutQuit, JoinProcessor, CheckEmpty, Drain,
     JoinQueue, CloseClient, CloseRaises, cleanup, Exit, Interrupt
<1>3. CASE process_responses \/ (\E m \in Meter : OtherSession(m)) \/ Done \/ UNCHANGED vars
  BY <1>3 DEF process_responses, OtherSession, Done, vars, sessionVars, parentVars
<1> QED
  BY <1>1, <1>2, <1>3 DEF Next

\* What a step of the script does to the session.
LEMMA ScriptSteps ==
  ASSUME Script
  PROVE  \/ SighupRaises /\ SendSignal /\ Waits
         \/ Killed /\ SendSignal /\ Waits /\ disp = "old"
         \/ \E m \in Meter : MdbUnlock(m)
         \/ UNCHANGED <<vars, signalVars>> /\ ~(\E m \in Meter : MdbUnlock(m))
<1>1. CASE SendSignal
  BY <1>1 DEF SendSignal, Deliver, MdbUnlock
<1>2. CASE Begin \/ SeesItGone \/ TimesOut \/ ReadsFile \/ Finish
  BY <1>2 DEF Begin, SeesItGone, TimesOut, ReadsFile, Finish, MdbUnlock
<1> QED
  BY <1>1, <1>2 DEF Script

LEMMA ScriptNext == Signals /\ ScriptInv /\ [CNext]_allVars => ScriptInv'
<1> SUFFICES ASSUME Signals, ScriptInv, [CNext]_allVars PROVE ScriptInv'
  OBVIOUS
<1>0. MaxHups \in Nat \ {0} /\ MaxTerms \in Nat \ {0} /\ PidFile
  BY SignalsAssumption DEF Signals
<1>1. CASE Aside
  BY <1>1, StaysGone DEF Aside, ScriptInv, Gone, scriptVars, signalVars
<1>2. CASE SendSignal /\ Deliver(cl) /\ sent' = sent + 1 /\ cl' = cl
  <2>1. CASE SighupRaises
    BY <1>2, <2>1 DEF SighupRaises, SendSignal, ScriptInv, Waits, Gone
  <2>2. CASE Killed /\ disp = "old"
    BY <1>2, <2>2 DEF Killed, SendSignal, Advance, ScriptInv, Gone, signalVars
  <2>3. CASE disp = "old" /\ cl = "hup" /\ UNCHANGED <<vars, signalVars>>
    BY <1>2, <2>3 DEF ScriptInv, signalVars
  <2> QED
    BY <1>2, <2>1, <2>2, <2>3 DEF Deliver
<1>3. CASE Gone /\ UNCHANGED <<vars, signalVars>> /\ (SendSignal \/ SeesItGone)
           /\ sent' \in Nat /\ cl' \in {cl, "failed", "read"} /\ cl # "off"
  <2>1. Gone'
    BY <1>3 DEF Gone, vars, sessionVars, parentVars
  <2> QED
    BY <1>3, <2>1 DEF ScriptInv, signalVars
<1>4. CASE SendSignal
  BY <1>2, <1>3, <1>4 DEF SendSignal, ScriptInv
<1>5. CASE SeesItGone
  BY <1>3, <1>5 DEF SeesItGone, ScriptInv
<1>6. CASE Begin
  BY <1>0, <1>6 DEF Begin, ScriptInv, Gone, signalVars
<1>7. CASE TimesOut
  BY <1>0, <1>7 DEF TimesOut, Budget, ScriptInv, Gone, vars, sessionVars, parentVars, signalVars
<1>8. CASE ReadsFile \/ Finish
  BY <1>8 DEF ReadsFile, Finish, ScriptInv, Gone, vars, sessionVars, parentVars, signalVars
<1>9. CASE \E m \in Meter : MdbUnlock(m)
  BY <1>9 DEF MdbUnlock, ScriptInv, Gone, sessionVars, parentVars, signalVars
<1> QED
  BY <1>1, <1>4, <1>5, <1>6, <1>7, <1>8, <1>9, StepKinds DEF Script

LEMMA ScriptInvariant == Signals => (CSpec => []ScriptInv)
<1> SUFFICES ASSUME Signals PROVE CSpec => []ScriptInv
  OBVIOUS
<1>1. CInit => ScriptInv
  BY DEF CInit, ScriptInv
<1>2. ScriptInv /\ [CNext]_allVars => ScriptInv'
  BY ScriptNext
<1> QED
  BY <1>1, <1>2, PTL DEF CSpec

\* No row is unlocked while pytest lives: each loop of signals either ends it or
\* finds it gone, if the script knows its process id and sends signals at all.
THEOREM CleanUpWaits == Signals => (CSpec => CleansAfterEnd)
<1> SUFFICES ASSUME Signals PROVE CSpec => CleansAfterEnd
  OBVIOUS
<1>1. ScriptInv => [\A m \in Meter : MdbUnlock(m) => Gone]_allVars
  BY DEF ScriptInv, MdbUnlock
<1> QED
  BY <1>1, ScriptInvariant, PTL DEF CleansAfterEnd

-----------------------------------------------------------------------------
(* What the file lists while the parent lives. *)

\* Each server lists what its MeterDB lists, and where all tests with meters are
\* of one kind the file is the list of that kind's server.
FileInv ==
  /\ \A k \in MeterKinds : tracked[k] \subseteq locks[k]
  /\ \E k \in MeterKinds : file = locks[k]
  /\ \A j, k \in MeterKinds : j # k /\ setup.tests[k] = <<>> => locks[k] = {} /\ file = locks[j]

\* Which steps change the lists.
LEMMA ListSteps ==
  ASSUME EveryUnlockSucceeds, BasicInv, [Next]_vars
  PROVE  \/ \E w \in Worker :
              /\ ServeLock(w)
              /\ tracked' = [tracked EXCEPT ![Kind[w]] = @ \cup {rpc[w].meter}]
              /\ locks' = [locks EXCEPT ![Kind[w]] = @ \cup {rpc[w].meter}]
              /\ file' = locks'[Kind[w]]
         \/ \E w \in Worker :
              /\ Rollback(w) \/ Release(w)
              /\ tracked' = [tracked EXCEPT ![Kind[w]] = @ \ {NextHeld(w)}]
              /\ locks' = [locks EXCEPT ![Kind[w]] = @ \ {NextHeld(w)}]
              /\ file' = locks'[Kind[w]]
         \/ UNCHANGED <<locks, file>> /\ \A k \in MeterKinds : tracked'[k] \subseteq tracked[k]
<1>0. LockTypes
  BY DEF BasicInv, TypeOK
<1>1. CASE UNCHANGED <<tracked, locks, file>>
  BY <1>1
<1>2. ASSUME NEW w \in Worker, ServeLock(w), ~UNCHANGED <<tracked, locks, file>>
      PROVE  /\ tracked' = [tracked EXCEPT ![Kind[w]] = @ \cup {rpc[w].meter}]
             /\ locks' = [locks EXCEPT ![Kind[w]] = @ \cup {rpc[w].meter}]
             /\ file' = locks'[Kind[w]]
  BY <1>2 DEF ServeLock, update_locks, lockVars
<1>3. ASSUME NEW w \in Worker, Rollback(w) \/ Release(w), ~UNCHANGED <<tracked, locks, file>>
      PROVE  /\ tracked' = [tracked EXCEPT ![Kind[w]] = @ \ {NextHeld(w)}]
             /\ locks' = [locks EXCEPT ![Kind[w]] = @ \ {NextHeld(w)}]
             /\ file' = locks'[Kind[w]]
  BY <1>3 DEF Rollback, Release, UnlockNext, update_locks, EveryUnlockSucceeds, lockVars
<1>4. CASE \E w \in Worker : WorkerStep(w) /\ ~Rollback(w) /\ ~Release(w)
  BY <1>1, <1>4 DEF WorkerStep, Boot, CheckQueue, CallLock, LockReturns, LockDone, TryAgain, Take,
     BeginItem, Report, TaskDone, RunRaises, Interrupted, lockVars
<1>5. CASE CloseClient \/ CloseRaises \/ cleanup \/ Exit
  BY <1>0, <1>5, ClosingLocks DEF FreeTracked, LockTypes
<1>6. CASE ParentStep /\ ~CloseClient /\ ~CloseRaises /\ ~cleanup /\ ~Exit
  BY <1>1, <1>6 DEF ParentStep, StartWorker, JoinWorker, AllStarted, AllJoined, JoinNoMeter,
     terminate_children, CloseServers, CheckErrors, PutQuit, JoinProcessor, CheckEmpty, Drain,
     JoinQueue, outerVars, lockVars
<1>7. CASE process_responses \/ Interrupt \/ UNCHANGED vars
  BY <1>1, <1>7 DEF process_responses, Interrupt, vars, lockVars
<1>8. CASE \E m \in Meter : OtherSession(m)
  BY <1>8 DEF OtherSession
<1> QED
  BY <1>1, <1>2, <1>3, <1>4, <1>5, <1>6, <1>7, <1>8 DEF Next, WorkerStep, Done

LEMMA FileNext ==
  EveryUnlockSucceeds /\ BasicInv /\ PlaceInv /\ FileInv /\ [Next]_vars => FileInv'
<1> SUFFICES ASSUME EveryUnlockSucceeds, BasicInv, PlaceInv, FileInv, [Next]_vars PROVE FileInv'
  OBVIOUS
<1>0. LockTypes /\ setup' = setup
  BY SetupStays DEF BasicInv, TypeOK
<1>1. ASSUME NEW w \in Worker, pc[w] # "new", Kind[w] \in MeterKinds, NEW m,
             \/ /\ tracked' = [tracked EXCEPT ![Kind[w]] = @ \cup {m}]
                /\ locks' = [locks EXCEPT ![Kind[w]] = @ \cup {m}]
             \/ /\ tracked' = [tracked EXCEPT ![Kind[w]] = @ \ {m}]
                /\ locks' = [locks EXCEPT ![Kind[w]] = @ \ {m}],
             file' = locks'[Kind[w]]
      PROVE  FileInv'
  <2>1. setup.tests[Kind[w]] # <<>>
    BY <1>1 DEF PlaceInv, Active, MeterKinds
  <2>2. \A k \in MeterKinds \ {Kind[w]} : locks'[k] = locks[k] /\ tracked'[k] = tracked[k]
    BY <1>0, <1>1 DEF LockTypes
  <2>3. tracked'[Kind[w]] \subseteq locks'[Kind[w]]
    BY <1>0, <1>1 DEF LockTypes, FileInv
  <2> QED
    BY <1>0, <1>1, <2>1, <2>2, <2>3 DEF FileInv, MeterKinds
<1>2. ASSUME NEW w \in Worker, ServeLock(w)
      PROVE  pc[w] # "new" /\ Kind[w] \in MeterKinds
  BY <1>2, ServedMeter, NoneAssumption DEF ServeLock, BasicInv, Calls, Asks, NoCall
<1>3. ASSUME NEW w \in Worker, Rollback(w) \/ Release(w)
      PROVE  pc[w] # "new" /\ Kind[w] \in MeterKinds
  BY <1>3, FreedMeter DEF Rollback, Release
<1>4. CASE UNCHANGED <<locks, file>> /\ \A k \in MeterKinds : tracked'[k] \subseteq tracked[k]
  BY <1>0, <1>4 DEF FileInv
<1> QED
  BY <1>1, <1>2, <1>3, <1>4, ListSteps

\* Until the parent has gone, whatever signals it got.
AliveInv == BasicInv /\ BatchInv /\ PlaceInv /\ TrackInv /\ FileInv

LEMMA AliveNext == EveryUnlockSucceeds /\ AliveInv /\ [Next]_vars => AliveInv'
BY NextKeeps, BatchNext, PlaceNext, TrackNext, FileNext DEF AliveInv

LEMMA AliveSignalled == AliveInv /\ SighupRaises => AliveInv'
<1> SUFFICES ASSUME AliveInv, SighupRaises PROVE AliveInv'
  OBVIOUS
<1>1. parent' = "signal"
      /\ UNCHANGED <<setup, workerVars, queueVars, lockVars, procVars, endVars, testVars>>
  BY DEF SighupRaises, Advance
<1>2. BasicInv'
  <2>1. LockTypes' /\ SessionTypes'
    BY <1>1 DEF AliveInv, BasicInv, TypeOK, LockTypes, SessionTypes, Stages, Closing, lockVars, procVars,
       endVars, testVars
  <2> QED
    BY <1>1, <2>1, QuietParentKeeps DEF AliveInv
<1>3. BatchInv' /\ PlaceInv'
  BY <1>1 DEF AliveInv, BatchInv, PlaceInv, Batch, Active, FirstKinds, CommonMeters, MetersOf, Ended,
     workerVars, procVars
<1>4. TrackInv' /\ FileInv'
  BY <1>1 DEF AliveInv, TrackInv, FileInv, lockVars
<1> QED
  BY <1>2, <1>3, <1>4 DEF AliveInv

LEMMA AliveStarts == Init => AliveInv
<1>1. Init => PlaceInv
  BY DEF Init, PlaceInv, Plain
<1>2. Init => BatchInv /\ TrackInv /\ FileInv
  BY DEF Init, BatchInv, TrackInv, FileInv, MeterKinds
<1> QED
  BY <1>1, <1>2, InitKeeps DEF AliveInv

-----------------------------------------------------------------------------
(* A session without a signal leaves an empty file. *)

\* Who has ended has given back what it locked, and has no call open.
EmptyHands == \A w \in Worker : Ended(w) => got[w] = {} /\ rpc[w] = NoCall

\* What a server lists a worker has.
ListsHeld ==
  \A k \in MeterKinds : \A m \in locks[k] :
    \E w \in Worker : Kind[w] = k /\ ~Local(w) /\ Has(w, m)

Quiet == UnsignalledInv /\ QuietInv /\ EmptyHands /\ ListsHeld

\* The servers and the manager wait for the workers with meters, so none of them
\* ends with a lock.
LEMMA QuietWorker ==
  ASSUME EveryUnlockSucceeds, BasicInv, Quiet, NEW w \in Worker, WorkerStep(w), Kind[w] # "nometer"
  PROVE  /\ Ended(w)' => got'[w] = {} /\ rpc'[w] = NoCall
         /\ \A m \in locks'[Kind[w]] : ~Local(w) /\ Has(w, m) => Has(w, m)'
         /\ locks'[Kind[w]] \subseteq locks[Kind[w]]
         /\ \A k \in MeterKinds \ {Kind[w]} : locks'[k] = locks[k]
<1>0. WorkerTypes /\ LockTypes /\ Asks(w) /\ Kind[w] \in MeterKinds
  BY WorkerFacts DEF BasicInv, TypeOK, Calls
<1>1. ~Interrupted(w)
  BY DEF Interrupted, Quiet, UnsignalledInv
<1>2. Running(w)
  BY <1>1 DEF WorkerStep, Boot, CheckQueue, CallLock, LockReturns, LockDone, Rollback, TryAgain,
     Take, BeginItem, Report, TaskDone, RunRaises, Release, Running, Ended
<1>3. ServersUp /\ ManagerUp
  BY <1>2 DEF Quiet, QuietInv, ServersUp, ManagerUp, Closing
<1>4. CASE UNCHANGED <<got, rpc, lockVars>> /\ ~Ended(w)'
  BY <1>0, <1>4 DEF Has, lockVars
<1>5. CASE Boot(w) \/ CheckQueue(w) \/ LockDone(w) \/ BeginItem(w) \/ Report(w)
  <2>1. UNCHANGED <<got, rpc, lockVars>> /\ pc'[w] \in {"idle", "take", "lock", "rollback", "run", "ran"}
    BY <1>0, <1>3, <1>5 DEF Boot, CheckQueue, LockDone, BeginItem, Report, Goto, WorkerTypes, loopVars
  <2> QED
    BY <1>4, <2>1 DEF Ended
<1>6. CASE TaskDone(w) \/ RunRaises(w)
  <2>1. PICK raised \in BOOLEAN : ItemDone(w, raised) /\ UNCHANGED <<rpc, lockVars>>
    BY <1>3, <1>6 DEF TaskDone, RunRaises
  <2>2. UNCHANGED got /\ pc'[w] = "take"
    BY <1>0, <2>1 DEF ItemDone, Goto, WorkerTypes, loopVars
  <2> QED
    BY <1>4, <2>1, <2>2 DEF Ended
<1>7. CASE Take(w)
  <2>1. UNCHANGED <<got, rpc, lockVars>> /\ (pc'[w] = "exit" => got[w] = {}) /\ pc'[w] # "dead"
        /\ rpc[w] = NoCall
    BY <1>0, <1>3, <1>7 DEF Take, Goto, WorkerTypes, loopVars, Asks
  <2> QED
    BY <1>0, <2>1 DEF Has, lockVars, Ended
<1>8. CASE TryAgain(w)
  <2>1. got[w] = {} /\ rpc[w] = NoCall /\ got'[w] = {} /\ UNCHANGED <<rpc, lockVars>>
    BY <1>0, <1>8 DEF TryAgain, Asks, Fail, Die, WorkerTypes
  <2> QED
    BY <1>0, <2>1 DEF Has, NoCall, lockVars
<1>9. CASE CallLock(w)
  <2>1. rpc[w] = NoCall /\ got[w] \subseteq got'[w] /\ UNCHANGED lockVars /\ pc'[w] \in {"lock", "wait"}
    BY <1>0, <1>3, <1>9 DEF CallLock, Asks, Goto, WorkerTypes
  <2> QED
    BY <1>0, <2>1 DEF Has, NoCall, lockVars, Ended
<1>10. CASE LockReturns(w)
  <2>1. /\ got' = IF rpc[w].answer = "yes" THEN [got EXCEPT ![w] = @ \cup {rpc[w].meter}] ELSE got
        /\ UNCHANGED lockVars /\ pc'[w] = "lock"
    BY <1>0, <1>3, <1>10 DEF LockReturns, Goto, WorkerTypes
  <2> QED
    BY <1>0, <2>1 DEF Has, lockVars, Ended, WorkerTypes
<1>11. CASE Rollback(w) \/ Release(w)
  <2> DEFINE x == NextHeld(w)
  <2>0. got[w] # {} /\ got[w] \subseteq MeterSet(w) /\ rpc[w] = NoCall
    BY <1>0, <1>11 DEF Rollback, Release, Asks
  <2>1. x \in got[w]
    BY <2>0, NextIsHeld
  <2>2. /\ got' = [got EXCEPT ![w] = got[w] \ {x}] /\ rpc' = rpc
        /\ Local(w) => UNCHANGED lockVars
        /\ ~Local(w) => locks' = [locks EXCEPT ![Kind[w]] = @ \ {x}]
    BY <1>3, <1>11 DEF Rollback, Release, UnlockNext, EveryUnlockSucceeds
  <2>3. Ended(w)' => got'[w] = {}
    <3>1. Rollback(w) => pc'[w] = "rollback"
      BY <1>0, <1>3 DEF Rollback, UnlockNext, Goto, WorkerTypes, EveryUnlockSucceeds
    <3>2. Release(w) => (pc'[w] = "exit" => Cardinality(got[w]) = 1) /\ pc'[w] # "dead"
      BY <1>0, <1>3 DEF Release, UnlockNext, Goto, WorkerTypes, EveryUnlockSucceeds
    <3>3. IsFiniteSet(got[w])
      BY <2>0, FewMeters, FS_Subset
    <3>4. Cardinality(got[w]) = 1 => got[w] = {x}
      BY <2>1, <3>3, FS_Singleton
    <3> QED
      BY <1>0, <1>11, <2>2, <3>1, <3>2, <3>4 DEF Ended, WorkerTypes
  <2>4. \A m \in Meter : Has(w, m) => Has(w, m)' \/ m = x
    BY <1>0, <2>2 DEF Has, WorkerTypes
  <2>5. CASE Local(w)
    BY <2>0, <2>2, <2>3, <2>5 DEF lockVars
  <2>6. CASE ~Local(w)
    <3>1. /\ locks'[Kind[w]] = locks[Kind[w]] \ {x}
          /\ \A k \in MeterKinds \ {Kind[w]} : locks'[k] = locks[k]
      BY <1>0, <2>2, <2>6 DEF LockTypes
    <3>2. locks[Kind[w]] \subseteq Meter
      BY <1>0 DEF LockTypes
    <3>3. \A m \in locks'[Kind[w]] : Has(w, m) => Has(w, m)'
      BY <2>4, <3>1, <3>2
    <3> QED
      BY <2>0, <2>2, <2>3, <3>1, <3>3
  <2> QED
    BY <2>5, <2>6
<1> QED
  BY <1>1, <1>5, <1>6, <1>7, <1>8, <1>9, <1>10, <1>11 DEF WorkerStep

LEMMA HandsNext ==
  ASSUME EveryUnlockSucceeds, BasicInv, Quiet, [Next]_vars
  PROVE  EmptyHands'
<1>0. BasicInv' /\ WorkerTypes
  BY NextKeeps DEF BasicInv, TypeOK
<1> SUFFICES ASSUME NEW v \in Worker, Kind[v] # "nometer", Ended(v)'
             PROVE  got'[v] = {} /\ rpc'[v] = NoCall
  <2>1. ASSUME NEW w \in Worker, Kind[w] = "nometer"
        PROVE  got'[w] = {} /\ rpc'[w] = NoCall
    BY <1>0, <2>1, WorkerFacts DEF BasicInv, Calls, Asks, MeterSet
  <2> QED
    BY <2>1 DEF EmptyHands
<1>1. CASE pc'[v] = pc[v] /\ got'[v] = got[v] /\ rpc'[v] = rpc[v]
  BY <1>1 DEF Quiet, EmptyHands, Ended
<1>2. ASSUME NEW w \in Worker, WorkerStep(w)
      PROVE  got'[v] = {} /\ rpc'[v] = NoCall
  <2>1. CASE w = v
    BY <1>2, <2>1, QuietWorker
  <2>2. CASE w # v
    BY <1>1, <1>2, <2>2, StepsAlone DEF WorkerOnly, SameAsks
  <2> QED
    BY <2>1, <2>2
<1>3. ASSUME NEW w \in Worker, StartWorker(w)
      PROVE  got'[v] = {} /\ rpc'[v] = NoCall
  BY <1>0, <1>1, <1>3 DEF StartWorker, Goto, Ended, WorkerTypes, loopVars
<1>4. ASSUME NEW w \in Worker, ServeLock(w), UNCHANGED <<pc, got>>
      PROVE  got'[v] = {} /\ rpc'[v] = NoCall
  <2>1. rpc[w] # NoCall
    BY <1>4, ServedMeter, NoneAssumption DEF NoCall
  <2>2. rpc[v] = NoCall
    BY <1>4 DEF Quiet, EmptyHands, Ended
  <2>3. rpc'[v] = rpc[v]
    BY <1>0, <1>4, <2>1, <2>2 DEF ServeLock, WorkerTypes
  <2> QED
    BY <1>1, <1>4, <2>3
<1> QED
  BY <1>1, <1>2, <1>3, <1>4, NotWorkerStep

LEMMA ListsNext ==
  ASSUME EveryUnlockSucceeds, BasicInv, Quiet, [Next]_vars
  PROVE  ListsHeld'
<1>0. WorkerTypes /\ LockTypes /\ setup' = setup
  BY SetupStays DEF BasicInv, TypeOK
<1> SUFFICES ASSUME NEW k \in MeterKinds, NEW m \in locks'[k]
             PROVE  \E w \in Worker : Kind[w] = k /\ ~Local(w) /\ Has(w, m)'
  BY <1>0 DEF ListsHeld, Local
<1>1. CASE m \in locks[k] /\ \A w \in Worker : Kind[w] = k /\ ~Local(w) /\ Has(w, m) => Has(w, m)'
  BY <1>1 DEF Quiet, ListsHeld
<1>2. ASSUME NEW w \in Worker, WorkerStep(w)
      PROVE  \E v \in Worker : Kind[v] = k /\ ~Local(v) /\ Has(v, m)'
  <2>1. \A v \in Worker \ {w} : Has(v, m) <=> Has(v, m)'
    BY <1>2, StepsAlone DEF WorkerOnly, SameAsks, Has
  <2>2. CASE Kind[w] = "nometer"
    <3>1. ~(Rollback(w) \/ Release(w))
      BY <2>2, FreedMeter DEF MeterKinds
    <3>2. UNCHANGED locks
      BY <1>2, <3>1 DEF WorkerStep, Boot, CheckQueue, CallLock, LockReturns, LockDone, TryAgain,
         Take, BeginItem, Report, TaskDone, RunRaises, Interrupted, lockVars
    <3> QED
      BY <1>1, <2>1, <2>2, <3>2 DEF MeterKinds
  <2>3. CASE Kind[w] # "nometer"
    BY <1>1, <1>2, <2>1, <2>3, QuietWorker, WorkerFacts
  <2> QED
    BY <2>2, <2>3
<1>3. ASSUME NEW w \in Worker, ServeLock(w)
      PROVE  \E v \in Worker : Kind[v] = k /\ ~Local(v) /\ Has(v, m)'
  <2>1. /\ rpc[w].meter \in Meter /\ rpc[w].answer = "none" /\ Kind[w] \in MeterKinds
        /\ pc[w] = "wait" /\ ~Local(w)
    BY <1>3, ServedMeter, NoneAssumption DEF BasicInv, Calls, Asks, NoCall, Quiet, EmptyHands, Ended
  <2>2. ServersUp
    BY <2>1 DEF Quiet, QuietInv, ServersUp, Running, Ended, MeterKinds
  <2>3. \A v \in Worker : Has(v, m) => Has(v, m)'
    BY <1>0, <1>3, <2>1 DEF ServeLock, Has, WorkerTypes, loopVars
  <2>4. CASE m \in locks[k]
    BY <1>1, <2>3, <2>4
  <2>5. CASE m \notin locks[k]
    <3>1. k = Kind[w] /\ m = rpc[w].meter /\ rpc' = [rpc EXCEPT ![w].answer = "yes"]
      BY <1>0, <1>3, <2>1, <2>2, <2>5 DEF ServeLock, LockTypes, lockVars
    <3>2. Has(w, m)'
      BY <1>0, <3>1 DEF Has, WorkerTypes
    <3> QED
      BY <2>1, <3>1, <3>2
  <2> QED
    BY <2>4, <2>5
<1>4. CASE ~(\E w \in Worker : WorkerStep(w) \/ ServeLock(w))
  <2>1. UNCHANGED <<got, rpc>>
    BY <1>4, NotWorkerStep DEF StartWorker, loopVars
  <2>2. UNCHANGED locks
    BY <1>4, ListSteps DEF WorkerStep
  <2> QED
    BY <1>1, <2>1, <2>2 DEF Has
<1> QED
  BY <1>2, <1>3, <1>4

LEMMA QuietSessionNext ==
  EveryUnlockSucceeds /\ ~Interrupts /\ AliveInv /\ LoopInv /\ Quiet /\ [Next]_vars => LoopInv' /\ Quiet'
BY LoopNext, UnsignalledNext, QuietNext, HandsNext, ListsNext DEF AliveInv, Quiet

LEMMA QuietStarts == Init /\ ~MissingMeters => LoopInv /\ Quiet
<1> SUFFICES ASSUME Init, ~MissingMeters PROVE LoopInv /\ Quiet
  OBVIOUS
<1>1. LoopInv
  BY WorkerFacts DEF Init, LoopInv, HoldsAll, Busy
<1>2. UnsignalledInv /\ QuietInv
  BY DEF Init, UnsignalledInv, QuietInv, Running, Ended
<1>3. EmptyHands /\ ListsHeld
  BY DEF Init, EmptyHands, ListsHeld, Ended
<1> QED
  BY <1>1, <1>2, <1>3 DEF Quiet

\* When all workers with meters have ended, or never started, the file is empty.
LEMMA QuietFile == AliveInv /\ LoopInv /\ Quiet /\ parent = "exit" => file = {}
<1> SUFFICES ASSUME AliveInv, LoopInv, Quiet, parent = "exit" PROVE file = {}
  OBVIOUS
<1>1. ASSUME NEW w \in Worker, NEW m, Kind[w] \in MeterKinds
      PROVE  ~Has(w, m)
  <2>1. Ended(w) \/ pc[w] = "new"
    BY <1>1 DEF Quiet, QuietInv, Running, MeterKinds
  <2>2. got[w] = {} /\ rpc[w] = NoCall
    BY <2>1 DEF Quiet, EmptyHands, LoopInv, HoldsAll, AliveInv, BasicInv, Calls, Asks
  <2> QED
    BY <2>2 DEF Has, NoCall
<1>2. \A k \in MeterKinds : locks[k] = {}
  BY <1>1 DEF Quiet, ListsHeld
<1> QED
  BY <1>2 DEF AliveInv, FileInv

UnharmedInv == disp = "raise" => AliveInv /\ LoopInv /\ Quiet /\ nodes = {}

LEMMA UnharmedNext ==
  EveryUnlockSucceeds /\ ~Interrupts /\ ScriptInv /\ UnharmedInv /\ [CNext]_allVars
    => UnharmedInv'
<1> SUFFICES ASSUME EveryUnlockSucceeds, ~Interrupts, ScriptInv, UnharmedInv, [CNext]_allVars, disp' = "raise"
             PROVE  AliveInv' /\ LoopInv' /\ Quiet' /\ nodes' = {}
  BY DEF UnharmedInv
<1>1. CASE disp = "raise" /\ [Next]_vars /\ nodes' = {}
  BY <1>1, AliveNext, QuietSessionNext DEF UnharmedInv
<1>2. CASE Aside
  BY <1>1, <1>2 DEF Aside, scriptVars, signalVars, UnharmedInv
<1>3. CASE Script
  <2>1. ~SighupRaises
    BY DEF SighupRaises
  <2>2. ~(Killed /\ disp = "old")
    BY DEF Killed, signalVars
  <2>3. ~(\E m \in Meter : MdbUnlock(m))
    BY DEF MdbUnlock, signalVars, UnharmedInv
  <2>4. UNCHANGED <<vars, signalVars>>
    BY <1>3, <2>1, <2>2, <2>3, ScriptSteps
  <2>5. CASE ReadsFile
    <3>1. parent = "exit"
      BY <2>4, <2>5 DEF ReadsFile, ScriptInv, Gone, UnharmedInv, AliveInv, BasicInv, TypeOK,
         SessionTypes, Stages, Closing, signalVars
    <3>2. nodes' = {}
      BY <2>4, <2>5, <3>1, QuietFile DEF ReadsFile, UnharmedInv, signalVars
    <3> QED
      BY <1>1, <2>4, <3>2 DEF signalVars
  <2>6. CASE ~ReadsFile
    <3>1. nodes' = nodes
      BY <1>3, <2>3, <2>6 DEF Script, Begin, SendSignal, SeesItGone, TimesOut, Finish
    <3> QED
      BY <1>1, <2>4, <3>1 DEF UnharmedInv, signalVars
  <2> QED
    BY <2>5, <2>6
<1> QED
  BY <1>2, <1>3, StepKinds

\* After a session that ended without a signal the script frees nothing: every
\* worker gave back what it locked, so the list written last is empty.
THEOREM QuietUnharmed ==
  Signals /\ ~Interrupts /\ EveryUnlockSucceeds => (CSpec => HarmlessAfterQuietEnd)
<1> SUFFICES ASSUME Signals, ~Interrupts, EveryUnlockSucceeds PROVE CSpec => HarmlessAfterQuietEnd
  OBVIOUS
<1>1. CInit => UnharmedInv
  BY AliveStarts, QuietStarts DEF CInit, UnharmedInv
<1>2. ScriptInv /\ UnharmedInv /\ [CNext]_allVars => UnharmedInv'
  BY UnharmedNext
<1>3. UnharmedInv => [\A m \in Meter : MdbUnlock(m) => ~(parent = "exit" /\ disp = "raise")]_allVars
  BY DEF UnharmedInv, MdbUnlock
<1> QED
  BY <1>1, <1>2, <1>3, ScriptInvariant, PTL DEF CSpec, HarmlessAfterQuietEnd

-----------------------------------------------------------------------------
(* The script frees what a session left behind. *)

\* A row may be the session's and not in the file: while its locking is cut in
\* two, or where two servers wrote the file.
Serving(m) == \E w \in Worker : rpc[w].meter = m /\ rpc[w].answer \in {"none", "late"}
BothKinds == \A k \in MeterKinds : setup.tests[k] # <<>>
Left(m) == row[m] = "mine" /\ ~Serving(m) /\ ~BothKinds
Listed == \A m \in Meter : Left(m) => m \in file

CallTypes ==
  /\ rpc \in [Worker -> [meter : Meter \cup {NoMeter}, answer : {"none", "yes", "no", "late"}]]
  /\ row \in [Meter -> {"free", "mine", "other", "lost"}]

LEMMA AliveListed == AliveInv => Listed /\ CallTypes
<1> SUFFICES ASSUME AliveInv PROVE Listed
  BY DEF AliveInv, BasicInv, TypeOK, WorkerTypes, LockTypes, CallTypes
<1> SUFFICES ASSUME NEW m \in Meter, Left(m) PROVE m \in file
  BY DEF Listed
<1>1. PICK k \in MeterKinds : m \in locks[k]
  BY DEF Left, AliveInv, TrackInv, FileInv
<1>2. PICK j \in MeterKinds : setup.tests[j] = <<>>
  BY DEF Left, BothKinds
<1> QED
  BY <1>1, <1>2 DEF AliveInv, FileInv

LEMMA AliveListedNext == AliveInv' => Listed' /\ CallTypes'
BY AliveListed, PTL

LEMMA ListedKilled ==
  ASSUME AliveInv, Killed
  PROVE  Listed' /\ CallTypes'
<1>0. Listed /\ CallTypes
  BY AliveListed
<1>1. PICK on \in SUBSET BeingLocked, off \in SUBSET (IF ServersUp THEN BeingUnlocked ELSE {}) :
        row' = [m \in Meter |-> IF m \in on THEN "mine" ELSE IF m \in off THEN "free" ELSE row[m]]
  BY DEF Killed
<1>2. UNCHANGED <<setup, rpc, file>>
  BY DEF Killed, workerVars
<1>3. CallTypes'
  BY <1>0, <1>1, <1>2 DEF CallTypes
<1>4. \A m \in on : Serving(m)
  BY DEF BeingLocked, Serving
<1>5. Listed'
  BY <1>0, <1>1, <1>2, <1>4 DEF Listed, Left, Serving, BothKinds
<1> QED
  BY <1>3, <1>5

\* Workers that outlive the parent change no row and end no call.
LEMMA ListedGone ==
  ASSUME Gone, CallTypes, Aside
  PROVE  CallTypes' /\ file' = file /\ \A m \in Meter : Left(m)' => Left(m)
<1>1. CASE UNCHANGED <<setup, rpc, row, file>>
  BY <1>1 DEF CallTypes, Left, Serving, BothKinds
<1>2. ASSUME NEW w \in Worker, WorkerStep(w)
      PROVE  CallTypes' /\ file' = file /\ \A m \in Meter : Left(m)' => Left(m)
  <2>0. ~ServersUp
    BY DEF Gone, ServersUp
  <2>1. UNCHANGED <<setup, row, file>>
    BY <1>2, <2>0 DEF WorkerStep, Boot, CheckQueue, CallLock, LockReturns, LockDone, Rollback,
       UnlockNext, TryAgain, Take, BeginItem, Report, TaskDone, RunRaises, Release, Interrupted,
       sessionVars, lockVars
  <2>2. \/ rpc' = rpc
        \/ rpc[w].answer \in {"yes", "no"} /\ rpc' = [rpc EXCEPT ![w] = NoCall]
    BY <1>2, <2>0 DEF WorkerStep, Boot, CheckQueue, CallLock, LockReturns, LockDone, Rollback,
       TryAgain, Take, BeginItem, Report, TaskDone, RunRaises, Release, Interrupted
  <2>3. CASE rpc' = rpc
    BY <1>1, <2>1, <2>3
  <2>4. CASE rpc[w].answer \in {"yes", "no"} /\ rpc' = [rpc EXCEPT ![w] = NoCall]
    <3>1. \A m \in Meter : Serving(m) => Serving(m)'
      BY <2>4 DEF CallTypes, Serving
    <3>2. CallTypes'
      BY <2>1, <2>4 DEF CallTypes, NoCall
    <3> QED
      BY <2>1, <3>1, <3>2 DEF Left, BothKinds
  <2> QED
    BY <2>2, <2>3, <2>4
<1>3. ASSUME NEW x \in Meter, OtherSession(x)
      PROVE  CallTypes' /\ file' = file /\ \A m \in Meter : Left(m)' => Left(m)
  <2>1. UNCHANGED <<setup, rpc, file>>
    BY <1>3 DEF OtherSession, sessionVars, workerVars
  <2> QED
    BY <1>3, <2>1 DEF OtherSession, CallTypes, Left, Serving, BothKinds
<1> QED
  BY <1>1, <1>2, <1>3 DEF Aside

LeftInv ==
  /\ ~Gone => AliveInv
  /\ Gone => Listed /\ CallTypes
  /\ cl = "unlock" => \A m \in Meter : Left(m) => m \in nodes
  /\ cl = "done" => \A m \in Meter : ~Left(m)

LEMMA LeftNext == EveryUnlockSucceeds /\ ScriptInv /\ LeftInv /\ [CNext]_allVars => LeftInv'
<1> SUFFICES ASSUME EveryUnlockSucceeds, ScriptInv, LeftInv, [CNext]_allVars PROVE LeftInv'
  OBVIOUS
<1>1. CASE Aside /\ ~Gone
  <2>1. AliveInv'
    BY <1>1, AliveNext DEF Aside, LeftInv
  <2>2. cl' \notin {"unlock", "done"}
    BY <1>1 DEF Aside, scriptVars, ScriptInv
  <2> QED
    BY <2>1, <2>2, AliveListedNext DEF LeftInv
<1>2. CASE Aside /\ Gone
  <2>1. CallTypes' /\ file' = file /\ \A m \in Meter : Left(m)' => Left(m)
    BY <1>2, ListedGone DEF LeftInv
  <2>2. UNCHANGED <<cl, nodes>> /\ Gone'
    BY <1>2, StaysGone DEF Aside, Gone, scriptVars
  <2> QED
    BY <1>2, <2>1, <2>2 DEF LeftInv, Listed
<1>3. CASE SighupRaises /\ SendSignal /\ Waits
  <2>1. AliveInv'
    BY <1>3, AliveSignalled DEF LeftInv, SighupRaises, Gone
  <2>2. cl' \notin {"unlock", "done"}
    BY <1>3 DEF SendSignal
  <2> QED
    BY <2>1, <2>2, AliveListedNext DEF LeftInv
<1>4. CASE Killed /\ SendSignal /\ Waits
  <2>1. ~Gone
    BY <1>4 DEF Waits, Gone
  <2>2. Listed' /\ CallTypes'
    BY <1>4, <2>1, ListedKilled DEF LeftInv
  <2>3. cl' \notin {"unlock", "done"} /\ Gone'
    BY <1>4 DEF SendSignal, Killed, Advance, Gone
  <2> QED
    BY <2>2, <2>3 DEF LeftInv
<1>5. ASSUME NEW x \in Meter, MdbUnlock(x)
      PROVE  LeftInv'
  <2>1. /\ Gone /\ Gone' /\ UNCHANGED <<setup, rpc, file>>
        /\ row' = [row EXCEPT ![x] = "free"] /\ nodes' = nodes \ {x} /\ cl = "unlock" /\ cl' = cl
    BY <1>5 DEF MdbUnlock, ScriptInv, Gone, sessionVars, parentVars, workerVars
  <2>2. Listed /\ CallTypes
    BY <2>1 DEF LeftInv
  <2>3. CallTypes'
    BY <2>1, <2>2 DEF CallTypes
  <2>4. \A m \in Meter : Left(m)' => Left(m) /\ m # x
    BY <2>1, <2>2 DEF CallTypes, Left, Serving, BothKinds
  <2> QED
    BY <2>1, <2>2, <2>3, <2>4 DEF LeftInv, Listed
<1>6. CASE UNCHANGED <<vars, signalVars>> /\ Script /\ ~(\E m \in Meter : MdbUnlock(m))
  <2>1. UNCHANGED <<setup, rpc, row, file, parent>>
    BY <1>6 DEF vars, sessionVars, parentVars, workerVars, lockVars
  <2>2. \A m \in Meter : Left(m)' <=> Left(m)
    BY <2>1 DEF Left, Serving, BothKinds
  <2>3. (~Gone => AliveInv') /\ (Gone => Listed' /\ CallTypes')
    <3>1. CASE Gone
      BY <2>1, <2>2, <3>1 DEF LeftInv, Listed, CallTypes
    <3>2. CASE ~Gone
      BY <1>6, <3>2, AliveNext DEF LeftInv
    <3> QED
      BY <3>1, <3>2
  <2>4. CASE ReadsFile
    <3>1. cl' = "unlock" /\ nodes' = file /\ Gone
      BY <2>4 DEF ReadsFile, ScriptInv
    <3> QED
      BY <2>1, <2>2, <2>3, <3>1 DEF LeftInv, Listed, Gone
  <2>5. CASE Finish
    <3>1. cl = "unlock" /\ cl' = "done" /\ nodes = {}
      BY <2>5 DEF Finish
    <3> QED
      BY <2>1, <2>2, <2>3, <3>1 DEF LeftInv, Gone
  <2>6. CASE Begin \/ SendSignal \/ SeesItGone \/ TimesOut
    <3>1. cl' \notin {"unlock", "done"}
      BY <2>6 DEF Begin, SendSignal, SeesItGone, TimesOut
    <3> QED
      BY <2>1, <2>3, <3>1 DEF LeftInv, Gone
  <2> QED
    BY <1>6, <2>4, <2>5, <2>6 DEF Script
<1> QED
  BY <1>1, <1>2, <1>3, <1>4, <1>5, <1>6, StepKinds, ScriptSteps

\* The script frees every row that the session left behind, killed or not, where
\* one lock server wrote the file; but for a row whose locking a kill cut in two.
THEOREM RowsFreed == Signals /\ EveryUnlockSucceeds => (CSpec => []FreesWhatIsListed)
<1> SUFFICES ASSUME Signals, EveryUnlockSucceeds PROVE CSpec => []FreesWhatIsListed
  OBVIOUS
<1>1. CInit => LeftInv
  BY AliveStarts DEF CInit, LeftInv, Init, Gone
<1>2. LeftInv => FreesWhatIsListed
  BY DEF LeftInv, Left, Serving, BothKinds, FreesWhatIsListed
<1> QED
  BY <1>1, <1>2, LeftNext, ScriptInvariant, PTL DEF CSpec
=============================================================================
