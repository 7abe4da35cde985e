------------------------ MODULE ParallelRunnerProofs ------------------------
(***************************************************************************)
(* Theorems about ParallelRunner, for every set of workers, meters and     *)
(* tests and every setup.                                                  *)
(***************************************************************************)
EXTENDS ParallelRunner, SequenceTheorems, FiniteSetTheorems, WellFoundedInduction, TLAPS

-----------------------------------------------------------------------------
(* The meters of a worker, and the first of those it holds. *)

\* That < is well-founded, in a form that speaks of sets only.
LEMMA LeastNatural ==
  ASSUME NEW T \in SUBSET Nat, T # {}
  PROVE  \E x \in T : \A y \in T : x <= y
<1> DEFINE R == {ss \in Nat \X Nat : ss[1] < ss[2]}
<1>1. IsWellFoundedOn(R, Nat)
  BY NatLessThanWellFounded DEF OpToRel
<1>2. \E x \in T : \A y \in T : ~(<<y, x>> \in R)
  <2> HIDE DEF R
  <2> QED
    BY <1>1, WFMin
<1>3. PICK x \in T : \A y \in T : ~(<<y, x>> \in R)
  BY <1>2
<1>4. \A y \in T : x <= y
  <2> TAKE y \in T
  <2>1. <<y, x>> \in Nat \X Nat /\ <<y, x>>[1] = y /\ <<y, x>>[2] = x
    OBVIOUS
  <2>2. ~(y < x)
    BY <1>3, <2>1, Zenon
  <2> QED
    BY <2>2
<1> QED
  BY <1>4

\* What the assumptions on the constants say of one worker.
LEMMA WorkerFacts ==
  ASSUME NEW w \in Worker
  PROVE  /\ Kind[w] \in Kinds
         /\ Needs[w] \in Seq(Meter) /\ MeterSet(w) \subseteq Meter
         /\ Kind[w] = "nometer" => MeterSet(w) = {}
         /\ Kind[w] # "nometer" => Kind[w] \in MeterKinds
BY WorkerAssumption, ElementOfSeq, LenProperties DEF MeterSet, Kinds, MeterKinds

LEMMA FewMeters ==
  ASSUME NEW w \in Worker
  PROVE  IsFiniteSet(MeterSet(w))
<1> DEFINE n == Len(Needs[w])
<1>1. DOMAIN Needs[w] = 1..n /\ n \in Nat
  BY WorkerFacts, LenProperties
<1>2. Needs[w] \in Surjection(1..n, MeterSet(w))
  BY <1>1, WorkerFacts, LenProperties DEF MeterSet, Surjection
<1>3. IsFiniteSet(1..n)
  BY <1>1, FS_Interval
<1> QED
  BY <1>2, <1>3, FS_Surjection, Zenon

\* unlock is called for a meter that the worker holds.
LEMMA NextIsHeld ==
  ASSUME NEW w \in Worker, got[w] \subseteq MeterSet(w), got[w] # {}
  PROVE  NextHeld(w) \in got[w]
<1> DEFINE T == {i \in DOMAIN Needs[w] : Needs[w][i] \in got[w]}
<1>1. DOMAIN Needs[w] \subseteq Nat
  BY WorkerFacts, LenProperties
<1>2. T \in SUBSET Nat /\ T # {}
  BY <1>1 DEF MeterSet
<1>3. PICK i \in T : \A j \in T : i <= j
  <2> HIDE DEF T
  <2> QED
    BY <1>2, LeastNatural
<1>4. \A j \in 1..(i - 1) : Needs[w][j] \notin got[w]
  BY <1>1, <1>3, WorkerFacts, LenProperties
<1> QED
  BY <1>3, <1>4 DEF NextHeld

-----------------------------------------------------------------------------
(* Types, and what the queues of tests count. *)

\* A worker has a test in its hands from the moment it takes one to task_done;
\* a worker that died may have taken one with it.
Busy == {"taken", "run", "ran"}
Items ==
  \A w \in Worker : /\ pc[w] \in Busy => item[w] \in Test
                    /\ pc[w] \notin Busy \cup {"dead"} => item[w] = NoTest

\* Nobody takes items from the other queues, so they count what waits in them.
Balanced == \A q \in {"responses", "errors"} : open[q] = Len(queue[q])

Holders(k) == {w \in Worker : Kind[w] = k /\ item[w] # NoTest}

LEMMA Queued == Kinds \subseteq Queues /\ "responses" \in Queues \ Kinds /\ "errors" \in Queues \ Kinds
                /\ MeterKinds \subseteq Kinds
BY DEF Kinds, Queues, MeterKinds

LEMMA HolderCount ==
  ASSUME NEW k \in Kinds
  PROVE  /\ IsFiniteSet(Holders(k)) /\ Cardinality(Holders(k)) \in Nat
         /\ Holders(k) # {} => Cardinality(Holders(k)) > 0
<1>1. Holders(k) \in SUBSET Worker
  BY DEF Holders
<1>2. IsFiniteSet(Holders(k))
  BY <1>1, WorkerAssumption, FS_Subset
<1> QED
  BY <1>2, FS_CardinalityType, FS_EmptySet

LEMMA Putting ==
  ASSUME QueueTypes, Balanced, NEW q \in {"responses", "errors"}, NEW x, Put(q, x),
         q = "errors" => x \in Worker, q = "responses" => x \in Test \cup {Quit}
  PROVE  /\ QueueTypes' /\ Balanced'
         /\ \A k \in Kinds : queue'[k] = queue[k] /\ open'[k] = open[k]
<1>1. QueueTypes' /\ \A k \in Kinds : queue'[k] = queue[k] /\ open'[k] = open[k]
  BY Queued, AppendProperties DEF QueueTypes, Put
<1>2. Len(Append(queue[q], x)) = Len(queue[q]) + 1
  BY AppendProperties DEF QueueTypes
<1> QED
  BY <1>1, <1>2, Queued DEF QueueTypes, Balanced, Put

LEMMA DieTypes ==
  ASSUME WorkerTypes, NEW w \in Worker, Die(w), UNCHANGED <<rpc, item>>
  PROVE  WorkerTypes'
BY TriesAssumption, EmptySeq DEF WorkerTypes, Die, Goto, Phases

LEMMA Failing ==
  ASSUME WorkerTypes, QueueTypes, Balanced, NEW w \in Worker, Fail(w), UNCHANGED <<rpc, item>>
  PROVE  /\ WorkerTypes' /\ QueueTypes' /\ Balanced'
         /\ pc' = [pc EXCEPT ![w] = "dead"]
         /\ \A k \in Kinds : queue'[k] = queue[k] /\ open'[k] = open[k]
<1>1. WorkerTypes' /\ pc' = [pc EXCEPT ![w] = "dead"]
  BY DieTypes DEF Fail, Die, Goto
<1>2. QueueTypes' /\ Balanced' /\ \A k \in Kinds : queue'[k] = queue[k] /\ open'[k] = open[k]
  BY Putting DEF Fail, QueueTypes, Balanced, queueVars
<1> QED
  BY <1>1, <1>2

\* What most steps leave alone: the queues of tests and who has a test.
QueuesKept == item' = item /\ \A k \in Kinds : queue'[k] = queue[k] /\ open'[k] = open[k]

LEMMA KeptCounts == OpenCounts /\ QueuesKept => OpenCounts'
BY DEF OpenCounts, QueuesKept, Holders

\* A worker asks for meters of its list only, its lock server for meters of the
\* database only, and it waits for the answer.  Exit handlers have a meter.
Asks(w) ==
  /\ got[w] \subseteq MeterSet(w)
  /\ pc[w] = "release" => got[w] # {}
  /\ \A i \in DOMAIN untried[w] : untried[w][i] \in MeterSet(w)
  /\ \/ rpc[w] = NoCall /\ pc[w] # "wait"
     \/ rpc[w].meter \in MeterSet(w) /\ ~Local(w) /\ pc[w] \in {"wait", "dead"}
Calls == \A w \in Worker : Asks(w)

BasicInv == TypeOK /\ Items /\ OpenCounts /\ Balanced /\ Calls

\* The loops of other workers than w are as they were.
SameAsks(w) ==
  \A v \in Worker \ {w} : /\ pc'[v] = pc[v] /\ got'[v] = got[v]
                         /\ untried'[v] = untried[v] /\ rpc'[v] = rpc[v]

LEMMA OthersAsk ==
  ASSUME Calls, NEW w \in Worker, SameAsks(w), Asks(w)', setup' = setup
  PROVE  Calls'
BY DEF Calls, Asks, SameAsks, Local

LEMMA FailingKeeps ==
  ASSUME BasicInv, NEW w \in Worker, Fail(w), UNCHANGED <<rpc, item, sessionVars>>, LockTypes'
  PROVE  BasicInv'
<1>1. WorkerTypes' /\ QueueTypes' /\ Balanced' /\ QueuesKept /\ pc' = [pc EXCEPT ![w] = "dead"]
  BY Failing DEF BasicInv, TypeOK, QueuesKept
<1>2. SessionTypes'
  BY DEF BasicInv, TypeOK, SessionTypes, sessionVars, parentVars, procVars, endVars, testVars
<1>3. Items'
  BY <1>1 DEF BasicInv, TypeOK, WorkerTypes, Items, QueuesKept, Busy
<1>4. SameAsks(w) /\ Asks(w)'
  BY <1>1 DEF BasicInv, TypeOK, WorkerTypes, Calls, Asks, SameAsks, Fail, Die, Goto, Local,
     sessionVars
<1> QED
  BY <1>1, <1>2, <1>3, <1>4, KeptCounts, OthersAsk DEF BasicInv, TypeOK, sessionVars

LEMMA FailKeeps ==
  ASSUME BasicInv, NEW w \in Worker, Fail(w), UNCHANGED <<rpc, item, lockVars, sessionVars>>
  PROVE  BasicInv'
<1>1. LockTypes'
  BY DEF BasicInv, TypeOK, LockTypes, lockVars
<1> QED
  BY <1>1, FailingKeeps

\* A worker at work on its locks moves between phases in which it has no test.
LEMMA MoveKeeps ==
  ASSUME BasicInv, NEW w \in Worker, NEW where \in Phases \ Busy,
         pc[w] \notin Busy \cup {"dead"}, Goto(w, where),
         WorkerTypes', LockTypes', Asks(w)', SameAsks(w), UNCHANGED <<item, queueVars, sessionVars>>
  PROVE  BasicInv'
<1>1. QueueTypes' /\ Balanced' /\ SessionTypes'
  BY DEF BasicInv, TypeOK, QueueTypes, Balanced, SessionTypes, queueVars, sessionVars, parentVars,
     procVars, endVars, testVars
<1>2. Items'
  BY DEF BasicInv, TypeOK, WorkerTypes, Items, Goto, Busy
<1> QED
  BY <1>1, <1>2, KeptCounts, OthersAsk DEF BasicInv, TypeOK, QueuesKept, queueVars, sessionVars

LEMMA BootKeeps ==
  ASSUME BasicInv, NEW w \in Worker, Boot(w)
  PROVE  BasicInv'
<1>1. WorkerTypes'
  <2>1. CASE ServersUp
    BY <2>1 DEF Boot, BasicInv, TypeOK, WorkerTypes, Goto, Phases, loopVars
  <2>2. CASE ~ServersUp
    BY <2>2, DieTypes DEF Boot, BasicInv, TypeOK
  <2> QED
    BY <2>1, <2>2
<1>2. LockTypes'
  BY DEF Boot, BasicInv, TypeOK, LockTypes, lockVars
<1>3. PICK where \in {"idle", "dead"} : Goto(w, where)
  BY DEF Boot, Die
<1>4. pc[w] \notin Busy \cup {"dead"} /\ where \in Phases \ Busy
      /\ UNCHANGED <<item, queueVars, sessionVars>>
  BY DEF Boot, Phases, Busy
<1>5. Asks(w)' /\ SameAsks(w)
  <2>0. WorkerTypes /\ Asks(w) /\ UNCHANGED <<setup, rpc>> /\ pc[w] = "boot"
    BY DEF Boot, BasicInv, TypeOK, Calls, sessionVars
  <2>1. CASE ServersUp
    BY <2>0, <2>1 DEF Boot, WorkerTypes, Asks, SameAsks, Goto, Local, loopVars
  <2>2. CASE ~ServersUp
    BY <2>0, <2>2 DEF Boot, WorkerTypes, Asks, SameAsks, Die, Goto, Local
  <2> QED
    BY <2>1, <2>2
<1> QED
  BY <1>1, <1>2, <1>3, <1>4, <1>5, MoveKeeps

LEMMA CheckQueueKeeps ==
  ASSUME BasicInv, NEW w \in Worker, CheckQueue(w)
  PROVE  BasicInv'
<1>1. CASE Fail(w)
  BY <1>1, FailKeeps DEF CheckQueue
<1>2. CASE ~Fail(w)
  <2>1. WorkerTypes'
    BY <1>2, WorkerFacts DEF CheckQueue, BasicInv, TypeOK, WorkerTypes, Goto, Phases, loopVars
  <2>2. LockTypes'
    BY DEF CheckQueue, BasicInv, TypeOK, LockTypes, lockVars
  <2>3. PICK where \in {"take", "lock"} : Goto(w, where)
    BY <1>2 DEF CheckQueue
  <2>4. pc[w] \notin Busy \cup {"dead"} /\ where \in Phases \ Busy
        /\ UNCHANGED <<item, queueVars, sessionVars>>
    BY <1>2 DEF CheckQueue, Phases, Busy
  <2>5. Asks(w)' /\ SameAsks(w)
    BY <1>2 DEF CheckQueue, BasicInv, TypeOK, WorkerTypes, Calls, Asks, SameAsks, Goto, Local,
       loopVars, sessionVars, MeterSet
  <2> QED
    BY <2>1, <2>2, <2>3, <2>4, <2>5, MoveKeeps
<1> QED
  BY <1>1, <1>2

LEMMA CallLockKeeps ==
  ASSUME BasicInv, NEW w \in Worker, CallLock(w)
  PROVE  BasicInv'
<1>1. CASE ~Local(w) /\ ~ServersUp
  BY <1>1, FailKeeps DEF CallLock
<1>2. CASE Local(w) \/ ServersUp
  <2>0. untried[w] \in Seq(Meter) /\ untried[w] # <<>>
    BY DEF CallLock, BasicInv, TypeOK, WorkerTypes
  <2>1. /\ Head(untried[w]) \in MeterSet(w) /\ Head(untried[w]) \in Meter
        /\ Tail(untried[w]) \in Seq(Meter)
        /\ \A i \in DOMAIN Tail(untried[w]) : Tail(untried[w])[i] \in MeterSet(w)
    <3>1. Head(untried[w]) = untried[w][1] /\ 1 \in DOMAIN untried[w]
      BY <2>0, EmptySeq, LenProperties
    <3>2. \A i \in DOMAIN Tail(untried[w]) :
            i + 1 \in DOMAIN untried[w] /\ Tail(untried[w])[i] = untried[w][i + 1]
      BY <2>0, EmptySeq, LenProperties, HeadTailProperties
    <3> QED
      BY <3>1, <3>2, <2>0, HeadTailProperties DEF BasicInv, Calls, Asks
  <2>2. WorkerTypes'
    <3>0. WorkerTypes /\ UNCHANGED <<item, tries, sigint>>
          /\ untried' = [untried EXCEPT ![w] = Tail(untried[w])]
      BY <1>2 DEF CallLock, BasicInv, TypeOK
    <3>1. CASE Local(w)
      <4>1. got' = [got EXCEPT ![w] = got[w] \cup {Head(untried[w])}] /\ UNCHANGED <<pc, rpc>>
        BY <3>1 DEF CallLock
      <4> QED
        BY <3>0, <4>1, <2>1 DEF WorkerTypes
    <3>2. CASE ~Local(w)
      <4>1. /\ rpc' = [rpc EXCEPT ![w] = [meter |-> Head(untried[w]), answer |-> "none"]]
            /\ got' = got /\ pc' = [pc EXCEPT ![w] = "wait"]
        BY <1>2, <3>2 DEF CallLock, Goto
      <4> QED
        BY <3>0, <4>1, <2>1 DEF WorkerTypes, Phases
    <3> QED
      BY <3>1, <3>2
  <2>3. LockTypes'
    BY DEF CallLock, BasicInv, TypeOK, LockTypes, lockVars
  <2>4. PICK where \in {"lock", "wait"} : Goto(w, where)
    BY <1>2 DEF CallLock, Goto, BasicInv, TypeOK, WorkerTypes
  <2>5. pc[w] \notin Busy \cup {"dead"} /\ where \in Phases \ Busy
        /\ UNCHANGED <<item, queueVars, sessionVars>>
    BY <1>2 DEF CallLock, Phases, Busy
  <2>6. Asks(w)' /\ SameAsks(w)
    <3>0. WorkerTypes /\ Asks(w) /\ setup' = setup
          /\ untried' = [untried EXCEPT ![w] = Tail(untried[w])]
      BY <1>2 DEF CallLock, BasicInv, TypeOK, Calls, sessionVars
    <3>1. CASE Local(w)
      <4>1. got' = [got EXCEPT ![w] = got[w] \cup {Head(untried[w])}] /\ UNCHANGED <<pc, rpc>>
        BY <3>1 DEF CallLock
      <4> QED
        BY <3>0, <4>1, <2>1 DEF WorkerTypes, Asks, SameAsks, Local
    <3>2. CASE ~Local(w)
      <4>1. /\ rpc' = [rpc EXCEPT ![w] = [meter |-> Head(untried[w]), answer |-> "none"]]
            /\ got' = got /\ pc' = [pc EXCEPT ![w] = "wait"]
        BY <1>2, <3>2 DEF CallLock, Goto
      <4> QED
        BY <3>0, <3>2, <4>1, <2>1 DEF WorkerTypes, Asks, SameAsks, Local, MeterSet
    <3> QED
      BY <3>1, <3>2
  <2> QED
    BY <2>2, <2>3, <2>4, <2>5, <2>6, MoveKeeps
<1> QED
  BY <1>1, <1>2

LEMMA ServeLockKeeps ==
  ASSUME BasicInv, NEW w \in Worker, ServeLock(w)
  PROVE  BasicInv'
<1>1. rpc[w].meter \in Meter /\ Kind[w] \in MeterKinds /\ rpc[w] # NoCall
  BY WorkerFacts, NoneAssumption DEF ServeLock, BasicInv, Calls, Asks, NoCall
<1>2. LockTypes'
  BY <1>1 DEF ServeLock, BasicInv, TypeOK, LockTypes, update_locks, lockVars
<1>3. PICK a \in {"yes", "no", "late"} : rpc' = [rpc EXCEPT ![w].answer = a]
  BY DEF ServeLock
<1>4. WorkerTypes'
  BY <1>3 DEF ServeLock, BasicInv, TypeOK, WorkerTypes, loopVars
<1>5. QueueTypes' /\ Balanced' /\ SessionTypes' /\ QueuesKept
  BY DEF ServeLock, BasicInv, TypeOK, QueueTypes, Balanced, SessionTypes, queueVars, sessionVars,
     parentVars, procVars, endVars, testVars, QueuesKept
<1>6. Items'
  BY DEF ServeLock, BasicInv, Items
<1>7. Asks(w)' /\ SameAsks(w)
  BY <1>1, <1>3 DEF ServeLock, BasicInv, TypeOK, WorkerTypes, Calls, Asks, SameAsks, Local,
     loopVars, sessionVars
<1> QED
  BY <1>2, <1>4, <1>5, <1>6, <1>7, KeptCounts, OthersAsk DEF BasicInv, TypeOK, ServeLock, sessionVars

LEMMA LockReturnsKeeps ==
  ASSUME BasicInv, NEW w \in Worker, LockReturns(w)
  PROVE  BasicInv'
<1>1. CASE rpc[w].answer \in {"none", "late"}
  BY <1>1, FailKeeps DEF LockReturns
<1>2. CASE rpc[w].answer \in {"yes", "no"}
  <2>1. rpc[w].meter \in MeterSet(w) /\ rpc[w].meter \in Meter
    BY WorkerFacts DEF LockReturns, BasicInv, Calls, Asks
  <2>2. PICK new \in {got[w], got[w] \cup {rpc[w].meter}} : got' = [got EXCEPT ![w] = new]
    BY <1>2 DEF LockReturns, BasicInv, TypeOK, WorkerTypes
  <2>3. WorkerTypes'
    <3>1. WorkerTypes /\ NoCall \in [meter : Meter \cup {NoMeter}, answer : {"none", "yes", "no", "late"}]
          /\ rpc' = [rpc EXCEPT ![w] = NoCall] /\ pc' = [pc EXCEPT ![w] = "lock"]
          /\ UNCHANGED <<untried, tries, sigint, item>>
      BY <1>2 DEF LockReturns, BasicInv, TypeOK, Goto, NoCall
    <3> QED
      BY <3>1, <2>1, <2>2 DEF WorkerTypes, Phases
  <2>4. LockTypes'
    BY DEF LockReturns, BasicInv, TypeOK, LockTypes, lockVars
  <2>5. Goto(w, "lock") /\ pc[w] \notin Busy \cup {"dead"} /\ "lock" \in Phases \ Busy
        /\ UNCHANGED <<item, queueVars, sessionVars>>
    BY <1>2 DEF LockReturns, Phases, Busy
  <2>6. Asks(w)' /\ SameAsks(w)
    BY <1>2, <2>1, <2>2 DEF LockReturns, BasicInv, TypeOK, WorkerTypes, Calls, Asks, SameAsks,
       Goto, Local, sessionVars
  <2> QED
    BY <2>3, <2>4, <2>5, <2>6, MoveKeeps
<1> QED
  BY <1>1, <1>2 DEF LockReturns

LEMMA LockDoneKeeps ==
  ASSUME BasicInv, NEW w \in Worker, LockDone(w)
  PROVE  BasicInv'
<1>1. WorkerTypes' /\ LockTypes'
  BY DEF LockDone, BasicInv, TypeOK, WorkerTypes, LockTypes, Goto, Phases, loopVars, lockVars
<1>2. PICK where \in {"take", "rollback"} : Goto(w, where)
  BY DEF LockDone
<1>3. pc[w] \notin Busy \cup {"dead"} /\ where \in Phases \ Busy
      /\ UNCHANGED <<item, queueVars, sessionVars>>
  BY DEF LockDone, Phases, Busy
<1>4. Asks(w)' /\ SameAsks(w)
  BY <1>2 DEF LockDone, BasicInv, TypeOK, WorkerTypes, Calls, Asks, SameAsks, Goto, Local,
     loopVars, sessionVars
<1> QED
  BY <1>1, <1>2, <1>3, <1>4, MoveKeeps

LEMMA UnlockKeeps ==
  ASSUME BasicInv, NEW w \in Worker, pc[w] \in {"rollback", "release"}, got[w] # {},
         NEW where \in {"rollback", "release", "exit"},
         where = "release" => Cardinality(got[w]) # 1,
         UnlockNext(w, where), UNCHANGED <<sessionVars, rpc, item>>
  PROVE  BasicInv'
<1>1. CASE Fail(w) /\ UNCHANGED <<row, tracked, file>>
           /\ locks' \in {locks, [locks EXCEPT ![Kind[w]] = @ \ {NextHeld(w)}]}
  <2>1. LockTypes'
    BY <1>1 DEF BasicInv, TypeOK, LockTypes
  <2> QED
    BY <1>1, <2>1, FailingKeeps
<1>2. CASE Goto(w, where) /\ got' = [got EXCEPT ![w] = @ \ {NextHeld(w)}]
           /\ UNCHANGED <<untried, tries, sigint, queueVars>>
           /\ \/ Local(w) /\ UNCHANGED lockVars
              \/ LET k == Kind[w]
                     m == NextHeld(w)
                 IN /\ tracked' = [tracked EXCEPT ![k] = @ \ {m}]
                    /\ row' = IF m \in tracked[k] THEN [row EXCEPT ![m] = "free"] ELSE row
                    /\ locks' = [locks EXCEPT ![k] = @ \ {m}]
                    /\ update_locks(k)
  <2> DEFINE m == NextHeld(w)
  <2>1. got[w] \subseteq MeterSet(w) /\ m \in got[w] /\ m \in Meter /\ Kind[w] \in MeterKinds
    BY NextIsHeld, WorkerFacts DEF BasicInv, Calls, Asks
  <2>2. where = "release" => got[w] \ {m} # {}
    <3>1. IsFiniteSet(got[w])
      BY <2>1, FewMeters, FS_Subset
    <3>2. IsFiniteSet(got[w] \ {m})
          /\ Cardinality(got[w] \ {m}) = Cardinality(got[w]) - 1 /\ Cardinality(got[w]) \in Nat
      BY <2>1, <3>1, FS_RemoveElement, FS_CardinalityType
    <3>3. got[w] \ {m} = {} => Cardinality(got[w] \ {m}) = 0
      BY <3>2, FS_EmptySet
    <3> QED
      BY <3>2, <3>3
  <2>3. /\ WorkerTypes /\ LockTypes /\ Asks(w) /\ UNCHANGED <<setup, rpc, untried, tries, sigint, item>>
        /\ got' = [got EXCEPT ![w] = got[w] \ {m}] /\ pc' = [pc EXCEPT ![w] = where]
    BY <1>2 DEF BasicInv, TypeOK, Calls, Goto, sessionVars
  <2>4. WorkerTypes'
    BY <2>3 DEF WorkerTypes, Phases
  <2>5. Asks(w)' /\ SameAsks(w)
    BY <2>1, <2>2, <2>3 DEF WorkerTypes, Asks, SameAsks, Local
  <2>6. LockTypes'
    <3>1. CASE UNCHANGED lockVars
      BY <2>3, <3>1 DEF LockTypes, lockVars
    <3>2. CASE ~UNCHANGED lockVars
      BY <1>2, <2>1, <2>3, <3>2 DEF LockTypes, update_locks
    <3> QED
      BY <3>1, <3>2
  <2>7. Goto(w, where) /\ pc[w] \notin Busy \cup {"dead"} /\ where \in Phases \ Busy
        /\ UNCHANGED queueVars
    BY <1>2 DEF Phases, Busy
  <2> QED
    BY <2>4, <2>5, <2>6, <2>7, MoveKeeps
<1> QED
  BY <1>1, <1>2 DEF UnlockNext, lockVars

LEMMA RollbackKeeps ==
  ASSUME BasicInv, NEW w \in Worker, Rollback(w)
  PROVE  BasicInv'
BY UnlockKeeps DEF Rollback

LEMMA ReleaseKeeps ==
  ASSUME BasicInv, NEW w \in Worker, Release(w)
  PROVE  BasicInv'
<1>1. got[w] # {}
  BY DEF Release, BasicInv, Calls, Asks
<1>2. CASE Cardinality(got[w]) = 1
  BY <1>1, <1>2, UnlockKeeps DEF Release
<1>3. CASE Cardinality(got[w]) # 1
  BY <1>1, <1>3, UnlockKeeps DEF Release
<1> QED
  BY <1>2, <1>3

LEMMA TryAgainKeeps ==
  ASSUME BasicInv, NEW w \in Worker, TryAgain(w)
  PROVE  BasicInv'
<1>1. CASE Fail(w)
  BY <1>1, FailKeeps DEF TryAgain
<1>2. CASE ~Fail(w)
  <2>1. /\ WorkerTypes /\ LockTypes /\ Asks(w) /\ UNCHANGED <<got, untried, rpc, sigint>>
        /\ UNCHANGED <<item, queueVars, sessionVars, lockVars>>
        /\ tries[w] + 1 < MaxTries /\ tries' = [tries EXCEPT ![w] = tries[w] + 1]
        /\ pc[w] = "rollback" /\ Goto(w, "idle")
    BY <1>2 DEF TryAgain, BasicInv, TypeOK, Calls
  <2>2. WorkerTypes'
    BY <2>1, TriesAssumption DEF WorkerTypes, Goto, Phases
  <2>3. LockTypes'
    BY <2>1 DEF LockTypes, lockVars
  <2>4. Asks(w)' /\ SameAsks(w)
    BY <2>1 DEF WorkerTypes, Asks, SameAsks, Goto, Local, sessionVars
  <2>5. pc[w] \notin Busy \cup {"dead"} /\ "idle" \in Phases \ Busy
    BY <2>1 DEF Phases, Busy
  <2> QED
    BY <2>1, <2>2, <2>3, <2>4, <2>5, MoveKeeps
<1> QED
  BY <1>1, <1>2

LEMMA TakeKeeps ==
  ASSUME BasicInv, NEW w \in Worker, Take(w)
  PROVE  BasicInv'
<1> DEFINE k == Kind[w]
<1>0. /\ WorkerTypes /\ QueueTypes /\ LockTypes /\ SessionTypes /\ Items /\ OpenCounts /\ Calls
      /\ Asks(w) /\ k \in Kinds /\ item[w] = NoTest /\ pc[w] = "take"
      /\ UNCHANGED <<sessionVars, rpc, lockVars>>
  BY WorkerFacts DEF Take, BasicInv, TypeOK, Calls, Items, Busy
<1>1. CASE ~ManagerUp
  BY <1>1, FailKeeps DEF Take
<1>2. CASE ManagerUp /\ queue[k] = <<>>
  <2>1. PICK where \in {"release", "exit"} : Goto(w, where) /\ (where = "release" => got[w] # {})
    BY <1>2 DEF Take
  <2>2. UNCHANGED <<loopVars, item, sigint, queueVars>>
    BY <1>2 DEF Take
  <2>3. WorkerTypes' /\ LockTypes'
    BY <1>0, <2>1, <2>2 DEF WorkerTypes, LockTypes, Goto, Phases, loopVars, lockVars
  <2>4. Asks(w)' /\ SameAsks(w)
    BY <1>0, <2>1, <2>2 DEF WorkerTypes, Asks, SameAsks, Goto, Local, loopVars, sessionVars
  <2> QED
    BY <1>0, <2>1, <2>2, <2>3, <2>4, MoveKeeps DEF Phases, Busy
<1>3. CASE ManagerUp /\ queue[k] # <<>>
  <2>1. /\ item' = [item EXCEPT ![w] = Head(queue[k])]
        /\ queue' = [queue EXCEPT ![k] = Tail(queue[k])] /\ open' = open
        /\ pc' = [pc EXCEPT ![w] = "taken"]
        /\ UNCHANGED <<got, untried, tries, sigint>>
    BY <1>3 DEF Take, Goto, loopVars
  <2>2. /\ Head(queue[k]) \in Test /\ Tail(queue[k]) \in Seq(Test)
        /\ Len(Tail(queue[k])) = Len(queue[k]) - 1 /\ Len(queue[k]) \in Nat
    BY <1>0, <1>3, HeadTailProperties, LenProperties DEF QueueTypes
  <2>3. WorkerTypes' /\ LockTypes' /\ SessionTypes'
    BY <1>0, <2>1, <2>2 DEF WorkerTypes, LockTypes, SessionTypes, Phases, lockVars,
       sessionVars, parentVars, procVars, endVars, testVars
  <2>4. QueueTypes' /\ Balanced'
    BY <1>0, <2>1, <2>2, Queued DEF QueueTypes, Balanced, BasicInv
  <2>5. Items'
    BY <1>0, <2>1, <2>2 DEF WorkerTypes, Items, Busy
  <2>6. Asks(w)' /\ SameAsks(w)
    BY <1>0, <2>1 DEF WorkerTypes, Asks, SameAsks, Local, sessionVars
  <2>7. OpenCounts'
    <3>1. Holders(k)' = Holders(k) \cup {w} /\ w \notin Holders(k)
      BY <1>0, <2>1, <2>2, NoneAssumption DEF WorkerTypes, Holders
    <3>2. Cardinality(Holders(k)') = Cardinality(Holders(k)) + 1
      BY <1>0, <3>1, HolderCount, FS_AddElement
    <3>3. \A q \in Kinds \ {k} : Holders(q)' = Holders(q)
      BY <1>0, <2>1 DEF WorkerTypes, Holders
    <3>4. \A q \in Kinds : open[q] = Len(queue[q]) + Cardinality(Holders(q))
      BY <1>0 DEF OpenCounts, Holders
    <3>5. Cardinality(Holders(k)) \in Nat
      BY <1>0, HolderCount
    <3>6. open'[k] = Len(queue'[k]) + Cardinality(Holders(k)')
      BY <1>0, <2>1, <2>2, <3>2, <3>4, <3>5, Queued DEF QueueTypes
    <3>7. \A q \in Kinds \ {k} : open'[q] = Len(queue'[q]) + Cardinality(Holders(q)')
      BY <1>0, <2>1, <3>3, <3>4, Queued DEF QueueTypes
    <3> QED
      BY <3>6, <3>7 DEF OpenCounts, Holders
  <2> QED
    BY <1>0, <2>3, <2>4, <2>5, <2>6, <2>7, OthersAsk DEF BasicInv, TypeOK, sessionVars
<1> QED
  BY <1>1, <1>2, <1>3

LEMMA BeginItemKeeps ==
  ASSUME BasicInv, NEW w \in Worker, BeginItem(w)
  PROVE  BasicInv'
<1>1. WorkerTypes' /\ QueueTypes' /\ Balanced' /\ LockTypes' /\ SessionTypes'
  BY DEF BeginItem, BasicInv, TypeOK, WorkerTypes, QueueTypes, Balanced, LockTypes, SessionTypes, Goto, Phases,
     loopVars, queueVars, lockVars, sessionVars, parentVars, procVars, endVars, testVars
<1>2. Items'
  BY DEF BeginItem, BasicInv, TypeOK, WorkerTypes, Items, Goto, Busy
<1>3. Asks(w)' /\ SameAsks(w) /\ QueuesKept /\ setup' = setup
  BY DEF BeginItem, BasicInv, TypeOK, WorkerTypes, Calls, Asks, SameAsks, Goto, Local, QueuesKept,
     loopVars, queueVars, sessionVars
<1> QED
  BY <1>1, <1>2, <1>3, OthersAsk, KeptCounts DEF BasicInv, TypeOK

LEMMA ReportKeeps ==
  ASSUME BasicInv, NEW w \in Worker, Report(w)
  PROVE  BasicInv'
<1>1. CASE ~ManagerUp
  BY <1>1, FailKeeps DEF Report
<1>2. CASE ManagerUp
  <2>1. /\ item[w] \in Test /\ Put("responses", item[w]) /\ pc[w] = "run" /\ Goto(w, "ran")
        /\ UNCHANGED <<got, untried, tries, sigint>>
    BY <1>2 DEF Report, BasicInv, Items, Busy, loopVars
  <2>2. QueueTypes' /\ Balanced' /\ QueuesKept
    BY <2>1, Putting DEF BasicInv, TypeOK, QueuesKept, Report
  <2>3. WorkerTypes' /\ LockTypes' /\ SessionTypes'
    BY <2>1 DEF Report, BasicInv, TypeOK, WorkerTypes, LockTypes, SessionTypes, Goto, Phases,
       lockVars, sessionVars, parentVars, procVars, endVars, testVars
  <2>4. Items'
    BY <2>1 DEF Report, BasicInv, TypeOK, WorkerTypes, Items, Goto, Busy
  <2>5. Asks(w)' /\ SameAsks(w) /\ setup' = setup
    BY <2>1 DEF Report, BasicInv, TypeOK, WorkerTypes, Calls, Asks, SameAsks, Goto, Local,
       sessionVars
  <2> QED
    BY <2>2, <2>3, <2>4, <2>5, OthersAsk, KeptCounts DEF BasicInv, TypeOK
<1> QED
  BY <1>1, <1>2

\* task_done is called once for each test that was taken.
LEMMA DoneKeeps ==
  ASSUME BasicInv, NEW w \in Worker, pc[w] \in Busy, NEW raised \in BOOLEAN, ItemDone(w, raised),
         sigint' \subseteq sigint, SessionTypes', UNCHANGED <<setup, rpc, lockVars>>
  PROVE  BasicInv'
<1> DEFINE k == Kind[w]
<1>0. /\ WorkerTypes /\ QueueTypes /\ LockTypes /\ Items /\ OpenCounts /\ Calls /\ Asks(w)
      /\ k \in Kinds /\ item[w] \in Test
  BY WorkerFacts DEF BasicInv, TypeOK, Calls, Items
<1>1. /\ item' = [item EXCEPT ![w] = NoTest] /\ pc' = [pc EXCEPT ![w] = "take"]
      /\ UNCHANGED <<got, untried, tries, rpc>>
  BY DEF ItemDone, Goto, loopVars
<1>2. Holders(k)' = Holders(k) \ {w} /\ w \in Holders(k)
  BY <1>0, <1>1, NoneAssumption DEF WorkerTypes, Holders
<1>3. /\ Cardinality(Holders(k)') = Cardinality(Holders(k)) - 1
      /\ Cardinality(Holders(k)) \in Nat /\ Cardinality(Holders(k)) > 0
  BY <1>0, <1>2, HolderCount, FS_RemoveElement
<1>4. \A q \in Kinds : open[q] = Len(queue[q]) + Cardinality(Holders(q))
  BY <1>0 DEF OpenCounts, Holders
<1>5. /\ open'[k] = open[k] - 1 /\ \A q \in Kinds : queue'[q] = queue[q]
      /\ \A q \in Kinds \ {k} : open'[q] = open[q]
  BY <1>0, Queued DEF ItemDone, QueueTypes
<1>6. QueueTypes' /\ Balanced'
  <2>0. Balanced
    BY DEF BasicInv
  <2>1. open[k] \in Nat /\ open[k] > 0 /\ Len(queue[k]) \in Nat
    BY <1>0, <1>3, <1>4, LenProperties DEF QueueTypes
  <2>2. Append(queue["errors"], w) \in Seq(Worker)
          /\ Len(Append(queue["errors"], w)) = Len(queue["errors"]) + 1
    BY <1>0, AppendProperties DEF QueueTypes
  <2>3. CASE raised
    <3>1. /\ queue' = [queue EXCEPT !["errors"] = Append(queue["errors"], w)]
          /\ open' = [open EXCEPT !["errors"] = open["errors"] + 1, ![k] = open[k] - 1]
      BY <1>0, <2>3, Queued DEF ItemDone, QueueTypes
    <3> DEFINE put == [open EXCEPT !["errors"] = open["errors"] + 1]
    <3>2. open' \in [Queues -> Nat]
      <4>1. put \in [Queues -> Nat] /\ open' = [put EXCEPT ![k] = open[k] - 1]
        BY <1>0, <3>1, Queued DEF QueueTypes
      <4>2. open[k] - 1 \in Nat
        BY <2>1
      <4> HIDE DEF put
      <4> QED
        BY <4>1, <4>2
    <3>3. DOMAIN queue' = Queues /\ queue'["errors"] = Append(queue["errors"], w)
          /\ \A q \in Queues \ {"errors"} : queue'[q] = queue[q]
      BY <1>0, <3>1, Queued DEF QueueTypes
    <3>4. open'["errors"] = open["errors"] + 1 /\ open'["responses"] = open["responses"]
      BY <1>0, <3>1, Queued DEF QueueTypes
    <3> QED
      BY <1>0, <2>0, <2>2, <3>2, <3>3, <3>4, Queued DEF QueueTypes, Balanced
  <2>4. CASE ~raised
    <3>1. queue' = queue /\ open' = [open EXCEPT ![k] = open[k] - 1]
      BY <2>4 DEF ItemDone
    <3> QED
      BY <1>0, <2>0, <2>1, <3>1, Queued DEF QueueTypes, Balanced
  <2> QED
    BY <2>3, <2>4
<1>7. OpenCounts'
  <2>1. open'[k] = Len(queue'[k]) + Cardinality(Holders(k)')
    BY <1>0, <1>3, <1>4, <1>5, LenProperties DEF QueueTypes
  <2>2. \A q \in Kinds \ {k} : Holders(q)' = Holders(q)
    BY <1>0, <1>1 DEF WorkerTypes, Holders
  <2>3. \A q \in Kinds \ {k} : open'[q] = Len(queue'[q]) + Cardinality(Holders(q)')
    BY <1>4, <1>5, <2>2
  <2> QED
    BY <2>1, <2>3 DEF OpenCounts, Holders
<1>8. WorkerTypes' /\ LockTypes'
  BY <1>0, <1>1 DEF WorkerTypes, LockTypes, Phases, lockVars
<1>9. Items'
  BY <1>0, <1>1 DEF WorkerTypes, Items, Busy
<1>10. Asks(w)' /\ SameAsks(w)
  BY <1>0, <1>1 DEF WorkerTypes, Asks, SameAsks, Local, Busy
<1> QED
  BY <1>0, <1>6, <1>7, <1>8, <1>9, <1>10, OthersAsk DEF BasicInv, TypeOK

LEMMA TaskDoneKeeps ==
  ASSUME BasicInv, NEW w \in Worker, TaskDone(w)
  PROVE  BasicInv'
<1>1. CASE ~ManagerUp
  BY <1>1, FailKeeps DEF TaskDone, sessionVars, testVars
<1>2. CASE ManagerUp
  <2>1. item[w] \in Test /\ pc[w] \in Busy
    BY DEF TaskDone, BasicInv, Items, Busy
  <2>2. SessionTypes'
    BY <1>2, <2>1 DEF TaskDone, BasicInv, TypeOK, SessionTypes, parentVars, procVars, endVars
  <2> QED
    BY <1>2, <2>1, <2>2, DoneKeeps DEF TaskDone
<1> QED
  BY <1>1, <1>2

LEMMA RunRaisesKeeps ==
  ASSUME BasicInv, NEW w \in Worker, RunRaises(w)
  PROVE  BasicInv'
<1>1. SessionTypes' /\ setup' = setup
  BY DEF RunRaises, BasicInv, TypeOK, SessionTypes, sessionVars, parentVars, procVars, endVars,
     testVars
<1>2. pc[w] \in Busy
  BY DEF RunRaises, Busy
<1> QED
  BY <1>1, <1>2, DoneKeeps DEF RunRaises

LEMMA InterruptedKeeps ==
  ASSUME BasicInv, NEW w \in Worker, Interrupted(w)
  PROVE  BasicInv'
<1>0. SessionTypes' /\ LockTypes' /\ setup' = setup
  BY DEF Interrupted, BasicInv, TypeOK, SessionTypes, LockTypes, sessionVars, parentVars, procVars,
     endVars, testVars, lockVars
<1>1. CASE Fail(w) /\ item' = item
  BY <1>1, FailKeeps DEF Interrupted
<1>2. CASE pc[w] \in {"run", "ran"} /\ ItemDone(w, TRUE) /\ sigint' = sigint \ {w}
  BY <1>0, <1>2, DoneKeeps DEF Interrupted, Busy
<1>3. CASE pc[w] = "boot" /\ Die(w) /\ UNCHANGED <<item, queueVars>>
  <2>1. WorkerTypes'
    BY <1>3, DieTypes DEF Interrupted, BasicInv, TypeOK
  <2>2. Asks(w)' /\ SameAsks(w)
    BY <1>3 DEF Interrupted, BasicInv, TypeOK, WorkerTypes, Calls, Asks, SameAsks, Die, Goto, Local,
       sessionVars
  <2>3. Goto(w, "dead") /\ pc[w] \notin Busy \cup {"dead"} /\ "dead" \in Phases \ Busy
    BY <1>3 DEF Die, Phases, Busy
  <2> QED
    BY <1>0, <1>3, <2>1, <2>2, <2>3, MoveKeeps DEF Interrupted
<1>4. CASE pc[w] = "exit" /\ sigint' = sigint \ {w} /\ UNCHANGED <<pc, loopVars, item, queueVars>>
  <2>1. WorkerTypes' /\ QueueTypes' /\ Balanced' /\ QueuesKept /\ Items' /\ Asks(w)' /\ SameAsks(w)
    BY <1>4 DEF Interrupted, BasicInv, TypeOK, WorkerTypes, QueueTypes, Balanced, QueuesKept, Items, Calls,
       Asks, SameAsks, Local, loopVars, queueVars, sessionVars
  <2> QED
    BY <1>0, <2>1, OthersAsk, KeptCounts DEF BasicInv, TypeOK
<1> QED
  BY <1>1, <1>2, <1>3, <1>4 DEF Interrupted

LEMMA WorkerKeeps ==
  ASSUME BasicInv, NEW w \in Worker, WorkerStep(w)
  PROVE  BasicInv'
BY BootKeeps, CheckQueueKeeps, CallLockKeeps, LockReturnsKeeps, LockDoneKeeps, RollbackKeeps,
   TryAgainKeeps, TakeKeeps, BeginItemKeeps, ReportKeeps, TaskDoneKeeps, RunRaisesKeeps,
   ReleaseKeeps, InterruptedKeeps DEF WorkerStep

\* Steps of the parent that do not touch the workers.
LEMMA ParentKeeps ==
  ASSUME BasicInv, UNCHANGED <<workerVars, setup>>,
         QueueTypes', OpenCounts', Balanced', LockTypes', SessionTypes'
  PROVE  BasicInv'
<1>1. WorkerTypes' /\ Items'
  BY DEF BasicInv, TypeOK, WorkerTypes, Items, workerVars, loopVars
<1>2. Calls'
  BY DEF BasicInv, Calls, Asks, Local, workerVars, loopVars
<1> QED
  BY <1>1, <1>2 DEF BasicInv, TypeOK

LEMMA QuietParentKeeps ==
  ASSUME BasicInv, UNCHANGED <<workerVars, setup, queueVars>>, LockTypes', SessionTypes'
  PROVE  BasicInv'
<1>1. QueueTypes' /\ Balanced' /\ QueuesKept
  BY DEF BasicInv, TypeOK, QueueTypes, Balanced, QueuesKept, queueVars, workerVars
<1> QED
  BY <1>1, ParentKeeps, KeptCounts DEF BasicInv

\* get and task_done of a queue that has an item.
LEMMA Getting ==
  ASSUME BasicInv, NEW q \in Queues, queue[q] # <<>>, UNCHANGED item,
         queue' = [queue EXCEPT ![q] = Tail(@)], open' = [open EXCEPT ![q] = @ - 1]
  PROVE  QueueTypes' /\ OpenCounts' /\ Balanced'
<1>0. QueueTypes /\ Balanced /\ open[q] \in Nat
  BY DEF BasicInv, TypeOK, QueueTypes
<1>1. \A k \in Kinds : open[k] = Len(queue[k]) + Cardinality(Holders(k))
  BY DEF BasicInv, OpenCounts, Holders
<1>2. PICK S : queue[q] \in Seq(S) /\ S \in {Test, Test \cup {Quit}, Worker}
               /\ (q \in Kinds => S = Test)
               /\ (q = "responses" => S = Test \cup {Quit}) /\ (q = "errors" => S = Worker)
  BY <1>0, Queued DEF QueueTypes, Queues
<1>3. Tail(queue[q]) \in Seq(S) /\ Len(Tail(queue[q])) = Len(queue[q]) - 1
      /\ Len(queue[q]) \in Nat \ {0}
  BY <1>2, HeadTailProperties, EmptySeq
<1>4. open[q] > 0 /\ open[q] >= Len(queue[q])
  BY <1>0, <1>1, <1>3, HolderCount DEF Balanced, Queues
<1>5. /\ open'[q] = open[q] - 1 /\ queue'[q] = Tail(queue[q])
      /\ \A k \in Queues \ {q} : open'[k] = open[k] /\ queue'[k] = queue[k]
      /\ open' \in [Queues -> Nat] /\ DOMAIN queue' = Queues
  BY <1>0, <1>4 DEF QueueTypes
<1>6. QueueTypes'
  BY <1>0, <1>2, <1>3, <1>5, Queued DEF QueueTypes
<1>7. Balanced'
  BY <1>0, <1>3, <1>5, Queued DEF Balanced
<1>8. \A k \in Kinds : Holders(k)' = Holders(k)
  BY DEF Holders
<1>9. ASSUME NEW k \in Kinds
      PROVE  open'[k] = Len(queue'[k]) + Cardinality(Holders(k)')
  BY <1>0, <1>1, <1>3, <1>5, <1>8, HolderCount, Queued DEF QueueTypes
<1> QED
  BY <1>6, <1>7, <1>9 DEF OpenCounts, Holders

LEMMA StartKeeps ==
  ASSUME BasicInv, NEW w \in Worker, StartWorker(w)
  PROVE  BasicInv'
<1>1. WorkerTypes' /\ QueueTypes' /\ Balanced' /\ QueuesKept
  BY DEF StartWorker, BasicInv, TypeOK, WorkerTypes, QueueTypes, Balanced, QueuesKept, Goto, Phases,
     loopVars, queueVars
<1>2. LockTypes' /\ SessionTypes'
  <2>1. Active \subseteq Worker
    BY SetupAssumption DEF Active, SetupType, BasicInv, TypeOK, SessionTypes
  <2> QED
    BY <2>1 DEF StartWorker, BasicInv, TypeOK, LockTypes, SessionTypes, lockVars, endVars, testVars
<1>3. Items'
  BY DEF StartWorker, BasicInv, TypeOK, WorkerTypes, Items, Goto, Busy
<1>4. Asks(w)' /\ SameAsks(w)
  BY DEF StartWorker, BasicInv, TypeOK, WorkerTypes, Calls, Asks, SameAsks, Goto, Local, loopVars
<1> QED
  BY <1>1, <1>2, <1>3, <1>4, KeptCounts, OthersAsk DEF BasicInv, TypeOK, StartWorker

\* The parent waits, or moves on.
LEMMA WaitKeeps ==
  ASSUME BasicInv,
         \/ \E w \in Worker : JoinWorker(w)
         \/ AllStarted \/ AllJoined \/ JoinNoMeter \/ CloseServers \/ JoinProcessor
         \/ CheckEmpty \/ JoinQueue
  PROVE  BasicInv'
<1>1. UNCHANGED <<workerVars, setup, queueVars, lockVars, ran, reported, processor, outcome>>
  BY DEF JoinWorker, AllStarted, AllJoined, JoinNoMeter, CloseServers, JoinProcessor, CheckEmpty,
     JoinQueue, outerVars, endVars, testVars
<1>2. LockTypes'
  BY <1>1 DEF BasicInv, TypeOK, LockTypes, lockVars
<1>3. cleaning' \in 1..Len(CleanupOrder) /\ parent' \in Stages /\ joined' \subseteq Queues
  <2>1. Len(CleanupOrder) = 5 /\ \A i \in 1..5 : CleanupOrder[i] \in Queues
    BY DEF CleanupOrder, Queues, Kinds, MeterKinds
  <2>2. cleaning \in 1..5 /\ parent \in Stages /\ joined \subseteq Queues
    BY <2>1 DEF BasicInv, TypeOK, SessionTypes
  <2> QED
    BY <2>1, <2>2 DEF JoinWorker, AllStarted, AllJoined, JoinNoMeter, CloseServers, JoinProcessor,
       CheckEmpty, JoinQueue, Advance, NextQueue, Current, endVars, outerVars, Stages, Closing
<1>4. batch' \subseteq Worker /\ started' \in BOOLEAN /\ reaped' \subseteq Worker
  <2>1. Active \subseteq Worker
    BY SetupAssumption DEF Active, SetupType, BasicInv, TypeOK, SessionTypes
  <2> QED
    BY <2>1 DEF BasicInv, TypeOK, SessionTypes, Batch, JoinWorker, AllStarted, AllJoined,
       JoinNoMeter, CloseServers, JoinProcessor, CheckEmpty, JoinQueue, procVars, outerVars
<1>5. SessionTypes'
  BY <1>1, <1>3, <1>4 DEF BasicInv, TypeOK, SessionTypes
<1> QED
  BY <1>1, <1>2, <1>5, QuietParentKeeps

\* A signal moves the parent and marks workers.
LEMMA SignalKeeps ==
  ASSUME BasicInv, Interrupt \/ terminate_children
  PROVE  BasicInv'
<1>1. sigint' \subseteq Worker
  <2>1. Active \subseteq Worker
    BY SetupAssumption DEF Active, SetupType, BasicInv, TypeOK, SessionTypes
  <2> QED
    BY <2>1 DEF Interrupt, terminate_children, BasicInv, TypeOK, WorkerTypes, SessionTypes
<1>2. UNCHANGED <<setup, pc, loopVars, rpc, item, queueVars, lockVars>>
  BY DEF Interrupt, terminate_children
<1>3. SessionTypes'
  BY DEF Interrupt, terminate_children, Advance, Stages, Closing, BasicInv, TypeOK, SessionTypes, procVars,
     endVars, testVars
<1>4. WorkerTypes' /\ QueueTypes' /\ LockTypes' /\ Balanced' /\ Items' /\ QueuesKept
  BY <1>1, <1>2 DEF BasicInv, TypeOK, WorkerTypes, QueueTypes, LockTypes, Balanced, Items,
     QueuesKept, loopVars, queueVars, lockVars
<1>5. Calls'
  BY <1>2 DEF BasicInv, Calls, Asks, Local, loopVars
<1> QED
  BY <1>3, <1>4, <1>5, KeptCounts DEF BasicInv, TypeOK

LEMMA CheckErrorsKeeps == BasicInv /\ CheckErrors => BasicInv'
<1> SUFFICES ASSUME BasicInv, CheckErrors PROVE BasicInv'
  OBVIOUS
<1>1. UNCHANGED <<workerVars, setup, lockVars>> /\ LockTypes' /\ SessionTypes'
  BY DEF CheckErrors, Advance, Stages, Closing, BasicInv, TypeOK, LockTypes, SessionTypes, lockVars, procVars,
     testVars
<1>2. CASE outcome = "none" /\ queue["errors"] # <<>>
  <2>1. QueueTypes' /\ OpenCounts' /\ Balanced'
    BY <1>1, <1>2, Getting, Queued DEF CheckErrors, workerVars
  <2> QED
    BY <1>1, <2>1, ParentKeeps
<1>3. CASE ~(outcome = "none" /\ queue["errors"] # <<>>)
  BY <1>1, <1>3, QuietParentKeeps DEF CheckErrors
<1> QED
  BY <1>2, <1>3

LEMMA PutQuitKeeps == BasicInv /\ PutQuit => BasicInv'
<1> SUFFICES ASSUME BasicInv, PutQuit PROVE BasicInv'
  OBVIOUS
<1>1. UNCHANGED <<workerVars, setup, lockVars>> /\ LockTypes' /\ SessionTypes'
  BY DEF PutQuit, Advance, Stages, Closing, BasicInv, TypeOK, LockTypes, SessionTypes, lockVars, procVars,
     endVars, testVars
<1>2. QueueTypes' /\ Balanced' /\ QueuesKept
  BY <1>1, Putting DEF PutQuit, BasicInv, TypeOK, QueuesKept, workerVars
<1> QED
  BY <1>1, <1>2, ParentKeeps, KeptCounts DEF BasicInv

LEMMA ResponsesKeeps == BasicInv /\ process_responses => BasicInv'
<1> SUFFICES ASSUME BasicInv, process_responses PROVE BasicInv'
  OBVIOUS
<1>1. UNCHANGED <<workerVars, setup, lockVars>> /\ LockTypes'
  BY DEF process_responses, BasicInv, TypeOK, LockTypes, lockVars
<1>2. QueueTypes' /\ OpenCounts' /\ Balanced'
  BY <1>1, Getting, Queued DEF process_responses, workerVars
<1>3. SessionTypes'
  <2>1. Head(queue["responses"]) \in Test \cup {Quit}
    BY HeadTailProperties DEF process_responses, BasicInv, TypeOK, QueueTypes
  <2> QED
    BY <2>1 DEF process_responses, BasicInv, TypeOK, SessionTypes, procVars
<1> QED
  BY <1>1, <1>2, <1>3, ParentKeeps

LEMMA CurrentIsQueue == BasicInv => Current \in Queues
<1>1. Len(CleanupOrder) = 5 /\ \A i \in 1..5 : CleanupOrder[i] \in Queues
  BY DEF CleanupOrder, Queues, Kinds, MeterKinds
<1> QED
  BY <1>1 DEF Current, BasicInv, TypeOK, SessionTypes

LEMMA DrainKeeps == BasicInv /\ Drain => BasicInv'
<1> SUFFICES ASSUME BasicInv, Drain PROVE BasicInv'
  OBVIOUS
<1>1. UNCHANGED <<workerVars, setup, lockVars>> /\ LockTypes'
  BY DEF Drain, BasicInv, TypeOK, LockTypes, lockVars
<1>2. CASE queue[Current] # <<>>
  <2>1. QueueTypes' /\ OpenCounts' /\ Balanced'
    BY <1>1, <1>2, Getting, CurrentIsQueue DEF Drain, workerVars
  <2>2. SessionTypes'
    BY <1>2 DEF Drain, Advance, Stages, Closing, BasicInv, TypeOK, SessionTypes, procVars, testVars
  <2> QED
    BY <1>1, <2>1, <2>2, ParentKeeps
<1>3. CASE queue[Current] = <<>>
  <2>1. Len(CleanupOrder) = 5
    BY DEF CleanupOrder
  <2>2. SessionTypes'
    BY <1>3, <2>1 DEF Drain, NextQueue, Advance, Stages, Closing, BasicInv, TypeOK, SessionTypes, procVars,
       testVars
  <2> QED
    BY <1>1, <1>3, <2>2, QuietParentKeeps DEF Drain
<1> QED
  BY <1>2, <1>3

\* What the closing of the clients does to rows and lists.
LEMMA ClosingLocks ==
  ASSUME BasicInv, CloseClient \/ CloseRaises \/ cleanup \/ Exit
  PROVE  /\ \/ \E k \in MeterKinds : FreeTracked(k)
            \/ UNCHANGED tracked /\ \E done \in SUBSET Meter : Free(done)
         /\ UNCHANGED <<locks, file>>
<1>1. LockTypes /\ "meter" \in MeterKinds /\ "multi" \in MeterKinds
  BY DEF BasicInv, TypeOK, MeterKinds
<1>2. \A k \in MeterKinds : Freeable(k) \in SUBSET Meter /\ PartlyFreed(k) \subseteq SUBSET Meter
  BY <1>1 DEF Freeable, PartlyFreed, LockTypes
<1>3. \A k \in MeterKinds : FreedByDel(k) \subseteq SUBSET Meter
  BY <1>2 DEF FreedByDel
<1>4. ASSUME NEW k \in MeterKinds, RaiseUnlocking(k)
      PROVE  UNCHANGED <<tracked, locks, file>> /\ \E done \in SUBSET Meter : Free(done)
  BY <1>2, <1>4 DEF RaiseUnlocking
<1>5. CASE Exit
  <2>1. PICK single \in FreedByDel("meter"), multi \in FreedByDel("multi") : Free(single \cup multi)
    BY <1>5 DEF Exit
  <2>2. single \cup multi \in SUBSET Meter
    BY <1>1, <1>3
  <2> QED
    BY <1>5, <2>1, <2>2 DEF Exit
<1>6. CASE CloseClient \/ CloseRaises \/ cleanup
  BY <1>1, <1>4, <1>6 DEF CloseClient, CloseRaises, cleanup, FreeTracked
<1> QED
  BY <1>5, <1>6

LEMMA EndKeeps == BasicInv /\ (CloseClient \/ CloseRaises \/ cleanup \/ Exit) => BasicInv'
<1> SUFFICES ASSUME BasicInv, CloseClient \/ CloseRaises \/ cleanup \/ Exit PROVE BasicInv'
  OBVIOUS
<1>1. UNCHANGED <<workerVars, setup, queueVars>> /\ SessionTypes'
  BY DEF CloseClient, CloseRaises, cleanup, Exit, Advance, Stages, Closing, BasicInv, TypeOK,
     SessionTypes, procVars, endVars, testVars
<1>2. LockTypes'
  BY ClosingLocks DEF BasicInv, TypeOK, LockTypes, FreeTracked, Free
<1> QED
  BY <1>1, <1>2, QuietParentKeeps

LEMMA OtherSessionKeeps ==
  ASSUME BasicInv, NEW m \in Meter, OtherSession(m)
  PROVE  BasicInv'
<1>1. UNCHANGED <<workerVars, setup, queueVars>> /\ SessionTypes'
  BY DEF OtherSession, BasicInv, TypeOK, SessionTypes, sessionVars, parentVars, procVars, endVars,
     testVars
<1>2. LockTypes'
  BY DEF OtherSession, BasicInv, TypeOK, LockTypes
<1> QED
  BY <1>1, <1>2, QuietParentKeeps

LEMMA StutterKeeps == BasicInv /\ UNCHANGED vars => BasicInv'
<1> SUFFICES ASSUME BasicInv, UNCHANGED vars PROVE BasicInv'
  OBVIOUS
<1>1. LockTypes' /\ SessionTypes'
  BY DEF vars, BasicInv, TypeOK, LockTypes, SessionTypes, lockVars, sessionVars, parentVars, procVars,
     endVars, testVars
<1> QED
  BY <1>1, QuietParentKeeps DEF vars, sessionVars

LEMMA NextKeeps == BasicInv /\ [Next]_vars => BasicInv'
<1> SUFFICES ASSUME BasicInv, [Next]_vars PROVE BasicInv'
  OBVIOUS
<1>1. CASE \E w \in Worker : WorkerStep(w) \/ ServeLock(w)
  BY <1>1, WorkerKeeps, ServeLockKeeps
<1>2. CASE ParentStep
  BY <1>2, StartKeeps, WaitKeeps, SignalKeeps, CheckErrorsKeeps, PutQuitKeeps, DrainKeeps, EndKeeps
     DEF ParentStep
<1>3. CASE process_responses \/ Interrupt
  BY <1>3, ResponsesKeeps, SignalKeeps
<1>4. CASE \E m \in Meter : OtherSession(m)
  BY <1>4, OtherSessionKeeps
<1>5. CASE UNCHANGED vars
  BY <1>5, StutterKeeps
<1> QED
  BY <1>1, <1>2, <1>3, <1>4, <1>5 DEF Next, Done

LEMMA InitKeeps == Init => BasicInv
<1> SUFFICES ASSUME Init PROVE BasicInv
  OBVIOUS
<1>1. setup \in SetupType /\ setup \in Setups
  BY SetupAssumption DEF Init
<1>2. WorkerTypes
  BY TriesAssumption, EmptySeq DEF Init, WorkerTypes, Phases, NoCall
<1>3. QueueTypes /\ Balanced /\ \A k \in Kinds : open[k] = Len(queue[k])
  <2>1. /\ queue = [q \in Queues |-> IF q \in Kinds THEN setup.tests[q] ELSE <<>>]
        /\ open = [q \in Queues |-> Len(queue[q])]
        /\ \A k \in Kinds : setup.tests[k] \in Seq(Test)
    BY <1>1 DEF Init, SetupType
  <2>2. \A q \in Queues : Len(queue[q]) \in Nat
    BY <2>1, LenProperties, EmptySeq
  <2> QED
    BY <2>1, <2>2, EmptySeq, Queued DEF QueueTypes, Balanced
<1>4. LockTypes
  BY DEF Init, LockTypes
<1>5. SessionTypes
  <2>1. Batch(FirstKinds) \subseteq Worker
    BY <1>1 DEF Batch, Active, SetupType
  <2>2. Len(CleanupOrder) = 5
    BY DEF CleanupOrder
  <2>3. parent \in Stages /\ outcome \in {"none", "ok", "error", "raised"}
    BY DEF Init, Stages
  <2>4. batch \subseteq Worker /\ started \in BOOLEAN /\ reaped \subseteq Worker
    BY <2>1 DEF Init
  <2>5. cleaning \in 1..Len(CleanupOrder) /\ processor \in {"on", "off", "dead"} /\ joined \subseteq Queues
        /\ ran \subseteq Test /\ reported \subseteq Test
    BY <2>2 DEF Init
  <2> QED
    BY <1>1, <2>3, <2>4, <2>5 DEF SessionTypes
<1>6. Items
  BY DEF Init, Items, Busy
<1>7. OpenCounts
  <2>1. \A k \in Kinds : Holders(k) = {}
    BY DEF Init, Holders
  <2>2. \A k \in Kinds : Len(queue[k]) \in Nat
    BY <1>3, LenProperties DEF QueueTypes
  <2> QED
    BY <1>3, <2>1, <2>2, FS_EmptySet DEF OpenCounts, Holders
<1>8. Calls
  BY WorkerFacts, EmptySeq DEF Init, Calls, Asks
<1> QED
  BY <1>2, <1>3, <1>4, <1>5, <1>6, <1>7, <1>8 DEF BasicInv, TypeOK

LEMMA BasicInvariant == Spec => []BasicInv
BY InitKeeps, NextKeeps, PTL DEF Spec

\* Every variable keeps its type: the counts of unfinished tests never go below
\* zero, which JoinableQueue would answer with ValueError, and no lock server is
\* asked for a meter that is not one.
THEOREM RunnerTypes == Spec => []TypeOK
<1>1. BasicInv => TypeOK
  BY DEF BasicInv
<1> QED
  BY <1>1, BasicInvariant, PTL

\* unfinished_tasks of a queue of tests counts the tests that wait and those that
\* a worker, alive or dead, has taken: each test is accounted for once.
THEOREM TestsCounted == Spec => []OpenCounts
<1>1. BasicInv => OpenCounts
  BY DEF BasicInv
<1> QED
  BY <1>1, BasicInvariant, PTL

-----------------------------------------------------------------------------
(* What a step may do: lemmas that the proofs of the other invariants cite. *)

\* A worker's step is its own: nothing of the parent or of other workers changes.
WorkerOnly(w) ==
  /\ SameAsks(w)
  /\ \A v \in Worker \ {w} : item'[v] = item[v]
  /\ UNCHANGED <<setup, parentVars, reported>>

LEMMA DyingAlone ==
  ASSUME BasicInv, NEW w \in Worker, Die(w), UNCHANGED <<rpc, item>>
  PROVE  SameAsks(w) /\ \A v \in Worker \ {w} : item'[v] = item[v]
BY DEF BasicInv, TypeOK, WorkerTypes, Die, Goto, SameAsks

LEMMA UnlockAlone ==
  ASSUME BasicInv, NEW w \in Worker, NEW where, UnlockNext(w, where), UNCHANGED <<rpc, item>>
  PROVE  SameAsks(w) /\ \A v \in Worker \ {w} : item'[v] = item[v]
<1>1. CASE Fail(w)
  BY <1>1, DyingAlone DEF Fail
<1>2. CASE ~Fail(w)
  BY <1>2 DEF UnlockNext, BasicInv, TypeOK, WorkerTypes, Goto, SameAsks
<1> QED
  BY <1>1, <1>2

LEMMA StepsAlone ==
  ASSUME BasicInv, NEW w \in Worker, WorkerStep(w)
  PROVE  WorkerOnly(w)
<1>0. UNCHANGED <<setup, parentVars, reported>>
  BY DEF WorkerStep, Boot, CheckQueue, CallLock, LockReturns, LockDone, Rollback, TryAgain, Take,
     BeginItem, Report, TaskDone, RunRaises, Release, Interrupted, sessionVars, testVars
<1> SUFFICES SameAsks(w) /\ \A v \in Worker \ {w} : item'[v] = item[v]
  BY <1>0 DEF WorkerOnly
<1>1. CASE Die(w) /\ UNCHANGED <<rpc, item>>
  BY <1>1, DyingAlone
<1>2. CASE Rollback(w) \/ Release(w)
  BY <1>2, UnlockAlone DEF Rollback, Release
<1>3. CASE Boot(w) \/ CheckQueue(w) \/ LockDone(w) \/ BeginItem(w) \/ TryAgain(w)
  BY <1>1, <1>3 DEF Boot, CheckQueue, LockDone, BeginItem, TryAgain, Fail, BasicInv, TypeOK,
     WorkerTypes, Goto, SameAsks, loopVars
<1>4. CASE CallLock(w) \/ LockReturns(w)
  BY <1>1, <1>4 DEF CallLock, LockReturns, Fail, BasicInv, TypeOK, WorkerTypes, Goto, SameAsks
<1>5. CASE Take(w) \/ Report(w)
  BY <1>1, <1>5 DEF Take, Report, Fail, BasicInv, TypeOK, WorkerTypes, Goto, SameAsks, loopVars
<1>6. CASE \E raised \in BOOLEAN : ItemDone(w, raised) /\ rpc' = rpc
  BY <1>6 DEF ItemDone, BasicInv, TypeOK, WorkerTypes, Goto, SameAsks, loopVars
<1>7. CASE TaskDone(w) \/ RunRaises(w)
  BY <1>1, <1>6, <1>7 DEF TaskDone, RunRaises, Fail
<1>8. CASE Interrupted(w)
  <2>1. CASE pc[w] = "exit" /\ UNCHANGED <<pc, loopVars, item, queueVars>>
    BY <1>8, <2>1 DEF Interrupted, SameAsks, loopVars
  <2> QED
    BY <1>1, <1>6, <1>8, <2>1 DEF Interrupted, Fail
<1> QED
  BY <1>2, <1>3, <1>4, <1>5, <1>7, <1>8 DEF WorkerStep

\* After the collection nobody adds a test to a queue, and task_done is all that
\* happens to its count.
Shrinks == \A k \in Kinds : (queue[k] = <<>> => queue'[k] = <<>>) /\ open'[k] <= open[k]

LEMMA PutShrinks ==
  ASSUME BasicInv, NEW q \in {"responses", "errors"}, NEW x, Put(q, x)
  PROVE  Shrinks
BY Queued DEF BasicInv, TypeOK, QueueTypes, Put, Shrinks

LEMMA FailShrinks == \A w \in Worker : BasicInv /\ Fail(w) => Shrinks
<1> SUFFICES ASSUME NEW w \in Worker, BasicInv, Fail(w) PROVE Shrinks
  OBVIOUS
<1>1. CASE UNCHANGED queueVars
  BY <1>1, Queued DEF Shrinks, BasicInv, TypeOK, QueueTypes, queueVars
<1> QED
  BY <1>1, PutShrinks DEF Fail

LEMMA WorkerShrinks ==
  ASSUME BasicInv, NEW w \in Worker, WorkerStep(w)
  PROVE  Shrinks
<1>1. CASE UNCHANGED queueVars
  BY <1>1, Queued DEF Shrinks, BasicInv, TypeOK, QueueTypes, queueVars
<1>2. CASE Fail(w)
  BY <1>2, FailShrinks
<1>3. CASE Take(w)
  <2>1. CASE queue[Kind[w]] # <<>> /\ ManagerUp
    BY <2>1, <1>3, Queued, WorkerFacts DEF Take, Shrinks, BasicInv, TypeOK, QueueTypes
  <2> QED
    BY <1>1, <1>2, <1>3, <2>1 DEF Take
<1>4. CASE Report(w)
  BY <1>2, <1>4, PutShrinks DEF Report
<1>5. ASSUME NEW raised \in BOOLEAN, ItemDone(w, raised)
      PROVE  Shrinks
  <2>1. QueueTypes /\ Kind[w] \in Kinds
    BY WorkerFacts DEF BasicInv, TypeOK
  <2> QED
    BY <1>5, <2>1, Queued DEF ItemDone, Shrinks, QueueTypes
<1>6. CASE TaskDone(w) \/ RunRaises(w) \/ Interrupted(w)
  BY <1>1, <1>2, <1>5, <1>6 DEF TaskDone, RunRaises, Interrupted
<1>7. CASE Rollback(w) \/ Release(w)
  BY <1>1, <1>2, <1>7 DEF Rollback, Release, UnlockNext
<1> QED
  BY <1>1, <1>2, <1>3, <1>4, <1>6, <1>7 DEF WorkerStep, Boot, CheckQueue, CallLock, LockReturns,
     LockDone, TryAgain, BeginItem

LEMMA GetShrinks ==
  ASSUME BasicInv, NEW q \in Queues, queue[q] # <<>>,
         queue' = [queue EXCEPT ![q] = Tail(@)], open' = [open EXCEPT ![q] = @ - 1]
  PROVE  Shrinks
BY Queued DEF BasicInv, TypeOK, QueueTypes, Shrinks

LEMMA NextShrinks == BasicInv /\ [Next]_vars => Shrinks
<1> SUFFICES ASSUME BasicInv, [Next]_vars PROVE Shrinks
  OBVIOUS
<1>1. CASE UNCHANGED queueVars
  BY <1>1, Queued DEF Shrinks, BasicInv, TypeOK, QueueTypes, queueVars
<1>2. CASE \E w \in Worker : WorkerStep(w)
  BY <1>2, WorkerShrinks
<1>3. CASE PutQuit
  BY <1>3, PutShrinks DEF PutQuit
<1>4. CASE CheckErrors \/ Drain \/ process_responses
  BY <1>1, <1>4, GetShrinks, CurrentIsQueue, Queued DEF CheckErrors, Drain, process_responses
<1>5. CASE \E w \in Worker : ServeLock(w) \/ StartWorker(w) \/ JoinWorker(w)
  BY <1>1, <1>5 DEF ServeLock, StartWorker, JoinWorker, outerVars
<1>6. CASE AllStarted \/ AllJoined \/ JoinNoMeter \/ terminate_children \/ CloseServers
           \/ JoinProcessor \/ CheckEmpty \/ JoinQueue \/ CloseClient \/ CloseRaises
           \/ cleanup \/ Exit
  BY <1>1, <1>6 DEF AllStarted, AllJoined, JoinNoMeter, terminate_children, CloseServers,
     JoinProcessor, CheckEmpty, JoinQueue, CloseClient, CloseRaises, cleanup, Exit, outerVars
<1>7. CASE Interrupt \/ (\E m \in Meter : OtherSession(m)) \/ UNCHANGED vars
  BY <1>1, <1>7 DEF Interrupt, OtherSession, vars
<1> QED
  BY <1>2, <1>3, <1>4, <1>5, <1>6, <1>7 DEF Next, ParentStep, Done

-----------------------------------------------------------------------------
(* A worker runs tests only while it holds all its meters. *)

HoldsAll(w) ==
  /\ pc[w] \in {"new", "boot", "idle"} => got[w] = {}
  /\ pc[w] \in Busy => got[w] = MeterSet(w)
  /\ pc[w] = "take" => got[w] = MeterSet(w) \/ (got[w] = {} /\ queue[Kind[w]] = <<>>)
  /\ pc[w] \in {"release", "exit"} => queue[Kind[w]] = <<>>

LoopInv == \A w \in Worker : HoldsAll(w)

\* A step that leaves a worker alone, or ends it, or puts it where nothing is asked.
LEMMA HoldsStay ==
  ASSUME BasicInv, Shrinks, NEW w \in Worker, HoldsAll(w), pc'[w] = pc[w], got'[w] = got[w]
  PROVE  HoldsAll(w)'
BY WorkerFacts DEF HoldsAll, Shrinks, MeterSet

LEMMA WorkerHolds ==
  ASSUME BasicInv, NEW w \in Worker, HoldsAll(w), WorkerStep(w)
  PROVE  HoldsAll(w)'
<1>0. Shrinks /\ WorkerTypes /\ Asks(w) /\ Kind[w] \in Kinds
  BY WorkerShrinks, WorkerFacts DEF BasicInv, TypeOK, Calls
<1>1. CASE Fail(w) \/ Die(w)
  BY <1>0, <1>1 DEF Fail, Die, Goto, WorkerTypes, HoldsAll, Busy
<1>2. CASE Boot(w)
  BY <1>0, <1>1, <1>2 DEF Boot, Goto, WorkerTypes, HoldsAll, Busy, loopVars
<1>3. CASE CheckQueue(w)
  BY <1>0, <1>1, <1>3 DEF CheckQueue, Goto, WorkerTypes, HoldsAll, Busy, loopVars, Shrinks
<1>4. CASE CallLock(w)
  BY <1>0, <1>1, <1>4 DEF CallLock, Goto, WorkerTypes, HoldsAll, Busy
<1>5. CASE LockReturns(w)
  BY <1>0, <1>1, <1>5 DEF LockReturns, Goto, WorkerTypes, HoldsAll, Busy
<1>6. CASE LockDone(w)
  BY <1>0, <1>6 DEF LockDone, Goto, WorkerTypes, HoldsAll, Busy, loopVars, MeterSet
<1>7. CASE Rollback(w)
  BY <1>0, <1>1, <1>7 DEF Rollback, UnlockNext, Goto, WorkerTypes, HoldsAll, Busy
<1>8. CASE TryAgain(w)
  BY <1>0, <1>1, <1>8 DEF TryAgain, Goto, WorkerTypes, HoldsAll, Busy
<1>9. CASE Take(w)
  BY <1>0, <1>1, <1>9 DEF Take, Goto, WorkerTypes, HoldsAll, Busy, loopVars, Shrinks, MeterSet
<1>10. CASE BeginItem(w)
  BY <1>0, <1>10 DEF BeginItem, Goto, WorkerTypes, HoldsAll, Busy, loopVars, MeterSet
<1>11. CASE Report(w)
  BY <1>0, <1>1, <1>11 DEF Report, Goto, WorkerTypes, HoldsAll, Busy, loopVars, MeterSet
<1>12. ASSUME NEW raised \in BOOLEAN, ItemDone(w, raised), pc[w] \in Busy
       PROVE  HoldsAll(w)'
  BY <1>0, <1>12 DEF ItemDone, Goto, WorkerTypes, HoldsAll, Busy, loopVars, MeterSet
<1>13. CASE TaskDone(w) \/ RunRaises(w)
  BY <1>1, <1>12, <1>13 DEF TaskDone, RunRaises, Busy
<1>14. CASE Release(w)
  BY <1>0, <1>1, <1>14 DEF Release, UnlockNext, Goto, WorkerTypes, HoldsAll, Busy, Shrinks
<1>15. CASE Interrupted(w)
  BY <1>0, <1>1, <1>12, <1>15, HoldsStay DEF Interrupted, Busy, loopVars
<1> QED
  BY <1>2, <1>3, <1>4, <1>5, <1>6, <1>7, <1>8, <1>9, <1>10, <1>11, <1>13, <1>14, <1>15
     DEF WorkerStep

\* What the parent, the lock servers and other sessions do to a worker.
LEMMA NotWorkerStep ==
  ASSUME BasicInv, [Next]_vars
  PROVE  \/ \E w \in Worker : WorkerStep(w)
         \/ \E w \in Worker : StartWorker(w)
         \/ \E w \in Worker : ServeLock(w) /\ UNCHANGED <<pc, got, item>>
         \/ UNCHANGED <<pc, got, rpc, item>>
<1>1. CASE \E w \in Worker : WorkerStep(w) \/ ServeLock(w)
  BY <1>1 DEF ServeLock, loopVars
<1>2. CASE ParentStep
  BY <1>2 DEF ParentStep, JoinWorker, AllStarted, AllJoined, JoinNoMeter, terminate_children,
     CloseServers, CheckErrors, PutQuit, JoinProcessor, CheckEmpty, Drain, JoinQueue, CloseClient,
     CloseRaises, cleanup, Exit, outerVars, workerVars, loopVars
<1>3. CASE process_responses \/ Interrupt \/ (\E m \in Meter : OtherSession(m)) \/ UNCHANGED vars
  BY <1>3 DEF process_responses, Interrupt, OtherSession, vars, workerVars, loopVars
<1> QED
  BY <1>1, <1>2, <1>3 DEF Next, Done

LEMMA LoopNext == BasicInv /\ LoopInv /\ [Next]_vars => LoopInv'
<1> SUFFICES ASSUME BasicInv, LoopInv, [Next]_vars, NEW v \in Worker PROVE HoldsAll(v)'
  BY DEF LoopInv
<1>0. Shrinks /\ HoldsAll(v)
  BY NextShrinks DEF LoopInv
<1>1. CASE WorkerStep(v)
  BY <1>0, <1>1, WorkerHolds
<1>2. ASSUME NEW w \in Worker \ {v}, WorkerStep(w)
      PROVE  HoldsAll(v)'
  BY <1>0, <1>2, StepsAlone, HoldsStay DEF WorkerOnly, SameAsks
<1>3. ASSUME NEW w \in Worker, StartWorker(w)
      PROVE  HoldsAll(v)'
  <2>1. got' = got /\ pc' = [pc EXCEPT ![w] = "boot"] /\ pc[w] = "new"
    BY <1>3 DEF StartWorker, Goto, loopVars
  <2>2. CASE v = w
    BY <1>0, <2>1, <2>2 DEF HoldsAll, Busy, BasicInv, TypeOK, WorkerTypes
  <2>3. CASE v # w
    BY <1>0, <2>1, <2>3, HoldsStay DEF BasicInv, TypeOK, WorkerTypes
  <2> QED
    BY <2>2, <2>3
<1> QED
  BY <1>0, <1>1, <1>2, <1>3, NotWorkerStep, HoldsStay

LEMMA LoopInvariant == Spec => []LoopInv
<1>1. Init => LoopInv
  BY WorkerFacts DEF Init, LoopInv, HoldsAll, Busy
<1> QED
  BY <1>1, LoopNext, BasicInvariant, PTL DEF Spec

\* A test never runs on a meter that the worker's process does not hold: the lock
\* loop ends with all meters, or because the queue was empty, and then it stays so.
THEOREM LockedToRun == Spec => []RunsOnlyLocked
<1>1. LoopInv => RunsOnlyLocked
  BY DEF LoopInv, HoldsAll, RunsOnlyLocked, Busy
<1> QED
  BY <1>1, LoopInvariant, PTL

-----------------------------------------------------------------------------
(* A queue that was joined has no test at work. *)

JoinedInv == \A k \in joined \cap Kinds : open[k] = 0

LEMMA JoinedNext == BasicInv /\ JoinedInv /\ [Next]_vars => JoinedInv'
<1> SUFFICES ASSUME BasicInv, JoinedInv, [Next]_vars PROVE JoinedInv'
  OBVIOUS
<1>1. Shrinks /\ BasicInv'
  BY NextShrinks, NextKeeps
<1>2. \A k \in Kinds : open[k] \in Nat /\ open'[k] \in Nat
  BY <1>1, Queued DEF BasicInv, TypeOK, QueueTypes
<1>3. joined' = joined \/ JoinQueue
  <2>1. CASE \E w \in Worker : WorkerStep(w)
    BY <2>1, StepsAlone DEF WorkerOnly, parentVars, endVars
  <2>2. CASE \E w \in Worker : ServeLock(w) \/ StartWorker(w) \/ JoinWorker(w)
    BY <2>2 DEF ServeLock, StartWorker, JoinWorker, sessionVars, parentVars, endVars
  <2>3. CASE AllStarted \/ AllJoined \/ JoinNoMeter \/ terminate_children \/ CloseServers
             \/ CheckErrors \/ PutQuit \/ JoinProcessor \/ CheckEmpty \/ Drain
             \/ CloseClient \/ CloseRaises
           \/ cleanup \/ Exit
    BY <2>3 DEF AllStarted, AllJoined, JoinNoMeter, terminate_children, CloseServers, CheckErrors,
       PutQuit, JoinProcessor, CheckEmpty, Drain, CloseClient, CloseRaises, cleanup, Exit, endVars
  <2>4. CASE process_responses \/ Interrupt \/ (\E m \in Meter : OtherSession(m)) \/ UNCHANGED vars
    BY <2>4 DEF process_responses, Interrupt, OtherSession, vars, sessionVars, parentVars, endVars
  <2> QED
    BY <2>1, <2>2, <2>3, <2>4 DEF Next, ParentStep, Done
<1>4. \A k \in joined' \cap Kinds : k \in joined \/ open[k] = 0
  BY <1>3 DEF JoinQueue
<1> QED
  BY <1>1, <1>2, <1>4 DEF JoinedInv, Shrinks

LEMMA JoinedInvariant == Spec => []JoinedInv
<1>1. Init => JoinedInv
  BY DEF Init, JoinedInv
<1> QED
  BY <1>1, JoinedNext, BasicInvariant, PTL DEF Spec

\* The join of a queue returns only when no test of it runs any more, after a
\* signal too: the manager and the lock servers outlive the tests.
THEOREM JoinedIdle == Spec => []JoinedMeansIdle
<1>1. BasicInv /\ JoinedInv => JoinedMeansIdle
  <2> SUFFICES ASSUME BasicInv, JoinedInv, NEW w \in Worker, Kind[w] \in joined, pc[w] \in Busy
               PROVE  FALSE
    BY DEF JoinedMeansIdle, Busy
  <2>1. Kind[w] \in Kinds /\ w \in Holders(Kind[w])
    BY WorkerFacts, NoneAssumption DEF BasicInv, Items, Holders
  <2>2. open[Kind[w]] = Len(queue[Kind[w]]) + Cardinality(Holders(Kind[w]))
    BY <2>1 DEF BasicInv, OpenCounts, Holders
  <2>3. Len(queue[Kind[w]]) \in Nat
    BY <2>1, LenProperties DEF BasicInv, TypeOK, QueueTypes
  <2> QED
    BY <2>1, <2>2, <2>3, HolderCount DEF JoinedInv
<1> QED
  BY <1>1, BasicInvariant, JoinedInvariant, PTL

-----------------------------------------------------------------------------
(* Workers with meters run in the batch they were started in. *)

BatchInv ==
  /\ \A w \in reaped : Ended(w)
  /\ \A w \in Worker : Kind[w] # "nometer" /\ pc[w] # "new" => w \in batch \/ Ended(w)
  /\ \/ batch = Batch(FirstKinds)
     \/ batch = Batch(MeterKinds \ FirstKinds) /\ \A w \in Batch(FirstKinds) : Ended(w)

\* A worker that has ended stays so, and one that was not started starts only in
\* the parent's step.
LEMMA WorkerEnds ==
  ASSUME BasicInv, NEW w \in Worker, WorkerStep(w)
  PROVE  (Ended(w) => Ended(w)') /\ (pc[w] = "new" => Ended(w)')
<1>1. CASE Interrupted(w)
  BY <1>1 DEF Interrupted, ItemDone, Fail, Die, Goto, Ended, BasicInv, TypeOK, WorkerTypes
<1>2. CASE ~Interrupted(w)
  <2>1. pc[w] \notin {"new", "dead", "exit"}
    BY <1>2 DEF WorkerStep, Boot, CheckQueue, CallLock, LockReturns, LockDone, Rollback, TryAgain,
       Take, BeginItem, Report, TaskDone, RunRaises, Release
  <2> QED
    BY <2>1 DEF Ended
<1> QED
  BY <1>1, <1>2

LEMMA SetupStays == BasicInv /\ [Next]_vars => setup' = setup
<1> SUFFICES ASSUME BasicInv, [Next]_vars PROVE setup' = setup
  OBVIOUS
<1>1. CASE \E w \in Worker : WorkerStep(w)
  BY <1>1, StepsAlone DEF WorkerOnly
<1>2. CASE \E w \in Worker : ServeLock(w)
  BY <1>2 DEF ServeLock, sessionVars
<1>3. CASE ParentStep
  BY <1>3 DEF ParentStep, StartWorker, JoinWorker, AllStarted, AllJoined, JoinNoMeter,
     terminate_children, CloseServers, CheckErrors, PutQuit, JoinProcessor, CheckEmpty, Drain,
     JoinQueue, CloseClient, CloseRaises, cleanup, Exit, outerVars
<1>4. CASE process_responses \/ Interrupt \/ (\E m \in Meter : OtherSession(m)) \/ UNCHANGED vars
  BY <1>4 DEF process_responses, Interrupt, OtherSession, vars, sessionVars
<1> QED
  BY <1>1, <1>2, <1>3, <1>4 DEF Next, Done

\* Which steps change the list of processes.
LEMMA ProcessSteps ==
  ASSUME BasicInv, [Next]_vars
  PROVE  \/ \E w \in Worker : WorkerStep(w) /\ UNCHANGED <<parent, batch, reaped>>
         \/ \E w \in Worker : StartWorker(w) \/ JoinWorker(w)
         \/ AllJoined
         \/ UNCHANGED <<pc, batch, reaped>>
<1>1. CASE \E w \in Worker : WorkerStep(w)
  BY <1>1, StepsAlone DEF WorkerOnly, parentVars, procVars
<1>2. CASE \E w \in Worker : ServeLock(w)
  BY <1>2 DEF ServeLock, sessionVars, parentVars, procVars
<1>3. CASE ParentStep
  BY <1>3 DEF ParentStep, AllStarted, JoinNoMeter, terminate_children, CloseServers, CheckErrors,
     PutQuit, JoinProcessor, CheckEmpty, Drain, JoinQueue, CloseClient, CloseRaises, cleanup, Exit, outerVars, workerVars,
     procVars
<1>4. CASE process_responses \/ Interrupt \/ (\E m \in Meter : OtherSession(m)) \/ UNCHANGED vars
  BY <1>4 DEF process_responses, Interrupt, OtherSession, vars, sessionVars, parentVars, procVars,
     workerVars
<1> QED
  BY <1>1, <1>2, <1>3, <1>4 DEF Next, Done

LEMMA BatchNext == BasicInv /\ BatchInv /\ [Next]_vars => BatchInv'
<1> SUFFICES ASSUME BasicInv, BatchInv, [Next]_vars PROVE BatchInv'
  OBVIOUS
<1>0. /\ pc \in [Worker -> Phases] /\ batch \subseteq Worker /\ reaped \subseteq Worker
      /\ Active \subseteq Worker
  BY SetupAssumption DEF BasicInv, TypeOK, WorkerTypes, SessionTypes, Active, SetupType
<1>1. /\ Active' = Active /\ FirstKinds' = FirstKinds
      /\ \A kinds : Batch(kinds)' = Batch(kinds)
  BY SetupStays DEF Active, FirstKinds, CommonMeters, MetersOf, Batch
<1>2. ASSUME NEW w \in Worker, WorkerStep(w), UNCHANGED <<batch, reaped>>
      PROVE  BatchInv'
  <2>1. \A v \in Worker \ {w} : pc'[v] = pc[v]
    BY <1>2, StepsAlone DEF WorkerOnly, SameAsks
  <2>2. (Ended(w) => Ended(w)') /\ (pc[w] = "new" => Ended(w)')
    BY <1>2, WorkerEnds
  <2>3. \A v \in Worker : Ended(v) => Ended(v)'
    BY <2>1, <2>2 DEF Ended
  <2>4. Batch(FirstKinds) \subseteq Worker
    BY <1>0 DEF Batch
  <2>5. \A v \in reaped' : Ended(v)'
    BY <1>0, <1>2, <2>3 DEF BatchInv
  <2>6. \A v \in Worker : Kind[v] # "nometer" /\ pc'[v] # "new" => v \in batch' \/ Ended(v)'
    BY <1>2, <2>1, <2>2, <2>3 DEF BatchInv
  <2> QED
    BY <1>1, <1>2, <2>3, <2>4, <2>5, <2>6 DEF BatchInv
<1>3. ASSUME NEW w \in Worker, StartWorker(w)
      PROVE  BatchInv'
  <2>1. /\ pc[w] = "new" /\ pc' = [pc EXCEPT ![w] = "boot"] /\ w \in batch /\ batch' = batch
        /\ reaped' = reaped \cup {v \in Active : Ended(v)}
    BY <1>3 DEF StartWorker, Goto
  <2>2. \A v \in Worker : Ended(v) => Ended(v)'
    BY <1>0, <2>1 DEF Ended
  <2>3. Batch(FirstKinds) \subseteq Worker
    BY <1>0 DEF Batch
  <2>4. \A v \in reaped' : Ended(v)'
    BY <1>0, <2>1, <2>2 DEF BatchInv
  <2>5. \A v \in Worker : Kind[v] # "nometer" /\ pc'[v] # "new" => v \in batch' \/ Ended(v)'
    BY <1>0, <2>1, <2>2 DEF BatchInv
  <2> QED
    BY <1>1, <2>1, <2>2, <2>3, <2>4, <2>5 DEF BatchInv
<1>4. CASE \E w \in Worker : JoinWorker(w)
  BY <1>1, <1>4 DEF JoinWorker, outerVars, workerVars, BatchInv, Ended
<1>5. CASE AllJoined
  <2>1. \A w \in batch : Ended(w)
    BY <1>5 DEF AllJoined, BatchInv
  <2>2. /\ UNCHANGED <<pc, reaped>>
        /\ \/ batch' = batch \/ batch' = Batch(MeterKinds \ FirstKinds)
    BY <1>5 DEF AllJoined, outerVars, workerVars
  <2> QED
    BY <1>1, <2>1, <2>2 DEF BatchInv, Ended
<1>6. CASE UNCHANGED <<pc, batch, reaped>>
  BY <1>1, <1>6 DEF BatchInv, Ended
<1> QED
  BY <1>2, <1>3, <1>4, <1>5, <1>6, ProcessSteps

LEMMA BatchInvariant == Spec => []BatchInv
<1>1. Init => BatchInv
  BY DEF Init, BatchInv
<1> QED
  BY <1>1, BatchNext, BasicInvariant, PTL DEF Spec

-----------------------------------------------------------------------------
(* The rows of the database keep the workers apart. *)

\* What a worker has, or will have when it reads the answer.
Has(w, m) == m \in got[w] \/ (rpc[w].meter = m /\ rpc[w].answer = "yes")
Remote(w) == ~Local(w) /\ ~Ended(w)

RowInv ==
  \A w \in Worker, m \in Meter : Remote(w) /\ Has(w, m) =>
    /\ ServersUp => row[m] = "mine"
    /\ \A v \in Worker \ {w} : Remote(v) => ~Has(v, m)

\* A worker's step gives a remote worker nothing new, and it frees only rows of
\* meters that the worker had and has no longer.
LEMMA WorkerRows ==
  ASSUME BasicInv, NEW w \in Worker, WorkerStep(w)
  PROVE  /\ Remote(w)' => Remote(w) /\ \A m \in Meter : Has(w, m)' => Has(w, m)
         /\ \A m \in Meter : row'[m] # row[m] => Remote(w) /\ Has(w, m) /\ ~Has(w, m)'
<1>0. /\ WorkerTypes /\ LockTypes /\ Asks(w) /\ setup' = setup
      /\ Remote(w)' => Remote(w)
  BY WorkerEnds, StepsAlone DEF BasicInv, TypeOK, Calls, Remote, Local, WorkerOnly
<1>1. CASE Fail(w) \/ Die(w)
  <2>1. ~Remote(w)'
    BY <1>0, <1>1 DEF Fail, Die, Goto, WorkerTypes, Remote, Ended
  <2>2. row' = row \/ Rollback(w) \/ Release(w)
    BY DEF WorkerStep, Boot, CheckQueue, CallLock, LockReturns, LockDone, TryAgain, Take, BeginItem,
       Report, TaskDone, RunRaises, Interrupted, lockVars
  <2>3. Rollback(w) \/ Release(w) => row' = row
    <3>1. pc'[w] = "dead"
      BY <1>0, <1>1 DEF Fail, Die, Goto, WorkerTypes
    <3> QED
      BY <1>0, <3>1 DEF Rollback, Release, UnlockNext, Goto, WorkerTypes, lockVars
  <2> QED
    BY <2>1, <2>2, <2>3
<1>2. CASE UNCHANGED <<got, rpc, lockVars>>
  BY <1>0, <1>2 DEF Has, lockVars
<1>3. CASE CallLock(w) /\ ~Fail(w)
  <2>1. CASE Local(w)
    BY <1>0, <1>3, <2>1 DEF CallLock, Remote, Has, Local, lockVars
  <2>2. CASE ~Local(w)
    <3>1. /\ got' = got /\ row' = row
          /\ rpc' = [rpc EXCEPT ![w] = [meter |-> Head(untried[w]), answer |-> "none"]]
      BY <1>3, <2>2 DEF CallLock, lockVars
    <3> QED
      BY <1>0, <3>1 DEF Has, WorkerTypes
  <2> QED
    BY <2>1, <2>2
<1>4. CASE LockReturns(w) /\ ~Fail(w)
  <2>1. /\ row' = row /\ rpc' = [rpc EXCEPT ![w] = NoCall]
        /\ got' = IF rpc[w].answer = "yes" THEN [got EXCEPT ![w] = got[w] \cup {rpc[w].meter}] ELSE got
    BY <1>4 DEF LockReturns, lockVars
  <2>2. rpc'[w].answer = "none"
    BY <1>0, <2>1 DEF WorkerTypes, NoCall
  <2> QED
    BY <1>0, <2>1, <2>2 DEF Has, WorkerTypes
<1>5. CASE (Rollback(w) \/ Release(w)) /\ ~Fail(w)
  <2> DEFINE x == NextHeld(w)
  <2>1. got[w] # {}
    BY <1>0, <1>5 DEF Rollback, Release, Asks
  <2>2. x \in got[w] /\ x \in MeterSet(w) /\ x \in Meter /\ rpc[w] = NoCall /\ Kind[w] \in MeterKinds
        /\ pc[w] \in {"rollback", "release"}
    BY <1>0, <1>5, <2>1, NextIsHeld, WorkerFacts DEF Asks, Rollback, Release
  <2>3. /\ got' = [got EXCEPT ![w] = got[w] \ {x}] /\ rpc' = rpc
        /\ row' = row \/ (~Local(w) /\ row' = [row EXCEPT ![x] = "free"])
    BY <1>5 DEF Rollback, Release, UnlockNext, lockVars
  <2>4. \A m \in Meter : Has(w, m)' => Has(w, m) /\ m # x
    BY <1>0, <2>2, <2>3 DEF Has, WorkerTypes, NoCall
  <2>5. \A m \in Meter : row'[m] # row[m] => m = x /\ ~Local(w)
    BY <1>0, <2>2, <2>3 DEF LockTypes
  <2> QED
    BY <1>0, <2>2, <2>4, <2>5 DEF Has, Remote, Ended
<1>6. CASE \E raised \in BOOLEAN : ItemDone(w, raised) /\ UNCHANGED <<rpc, lockVars>>
  BY <1>2, <1>6 DEF ItemDone, loopVars
<1> QED
  BY <1>1, <1>2, <1>3, <1>4, <1>5, <1>6 DEF WorkerStep, Boot, CheckQueue, LockDone, TryAgain, Take,
     BeginItem, Report, TaskDone, RunRaises, Interrupted, loopVars

\* A row that is free while the servers are up is nobody's.
LEMMA ServedRows ==
  ASSUME BasicInv, RowInv, NEW w \in Worker, ServeLock(w)
  PROVE  RowInv'
<1> DEFINE x == rpc[w].meter
<1>0. /\ WorkerTypes /\ LockTypes /\ UNCHANGED <<setup, parent, pc, got>>
      /\ x \in Meter /\ rpc[w].answer = "none"
  BY WorkerFacts, NoneAssumption
     DEF ServeLock, BasicInv, TypeOK, Calls, Asks, NoCall, sessionVars, parentVars, loopVars
<1>1. \A v \in Worker : Remote(v)' <=> Remote(v)
  BY <1>0 DEF Remote, Local, Ended
<1>2. ServersUp' <=> ServersUp
  BY <1>0 DEF ServersUp
<1>3. \A v \in Worker \ {w}, m \in Meter : Has(v, m)' <=> Has(v, m)
  BY <1>0 DEF ServeLock, Has, WorkerTypes
<1>4. CASE row[x] = "free" /\ ServersUp
  <2>1. \/ row' = [row EXCEPT ![x] = "mine"]
        \/ row' = [row EXCEPT ![x] = "lost"] /\ rpc' = [rpc EXCEPT ![w].answer = "no"]
    BY <1>4 DEF ServeLock
  <2>2. \A v \in Worker : Remote(v) => ~Has(v, x)
    BY <1>0, <1>4 DEF RowInv
  <2>3. \A m \in Meter : Has(w, m)' => Has(w, m) \/ (m = x /\ rpc'[w].answer = "yes")
    BY <1>0 DEF ServeLock, Has, WorkerTypes
  <2>4. rpc' = [rpc EXCEPT ![w].answer = "no"] => rpc'[w].answer = "no"
    BY <1>0 DEF WorkerTypes
  <2>5. \A m \in Meter : Remote(w) /\ Has(w, m)' => row'[m] = "mine"
    BY <1>0, <1>4, <2>1, <2>2, <2>3, <2>4 DEF RowInv, LockTypes
  <2>6. \A v \in Worker \ {w}, m \in Meter : Remote(v) /\ Has(v, m) => row'[m] = "mine" /\ m # x
    BY <1>0, <1>4, <2>1, <2>2 DEF RowInv, LockTypes
  <2> QED
    BY <1>0, <1>1, <1>2, <1>3, <2>3, <2>5, <2>6 DEF RowInv
<1>5. CASE ~(row[x] = "free" /\ ServersUp)
  <2>1. PICK a \in {"no", "late"} : rpc' = [rpc EXCEPT ![w].answer = a]
    BY <1>5 DEF ServeLock
  <2>2. \A m \in Meter : Has(w, m)' => Has(w, m)
    BY <1>0, <2>1 DEF Has, WorkerTypes
  <2>3. ServersUp => row' = row
    BY <1>5 DEF ServeLock, lockVars
  <2> QED
    BY <1>0, <1>1, <1>2, <1>3, <2>2, <2>3 DEF RowInv, LockTypes
<1> QED
  BY <1>4, <1>5

\* Once closed the servers stay so, and while they are up the parent and other
\* sessions leave the session's rows alone.
LEMMA ParentRows ==
  ASSUME BasicInv, [Next]_vars, ServersUp'
  PROVE  /\ ServersUp
         /\ \/ \E w \in Worker : WorkerStep(w) \/ ServeLock(w)
            \/ \A m \in Meter : row[m] = "mine" => row'[m] = "mine"
<1>1. CASE \E w \in Worker : WorkerStep(w)
  BY <1>1, StepsAlone DEF WorkerOnly, parentVars, ServersUp
<1>2. CASE \E w \in Worker : ServeLock(w)
  BY <1>2 DEF ServeLock, sessionVars, parentVars, ServersUp
<1>3. CASE ParentStep
  <2>1. ServersUp /\ row' = row
    BY <1>3 DEF ParentStep, StartWorker, JoinWorker, AllStarted, AllJoined, JoinNoMeter,
       terminate_children, CloseServers, CheckErrors, PutQuit, JoinProcessor, CheckEmpty, Drain,
       JoinQueue, CloseClient, CloseRaises, cleanup, Exit, NextQueue, Advance, ServersUp, outerVars, lockVars
  <2> QED
    BY <2>1
<1>4. CASE process_responses \/ Interrupt \/ UNCHANGED vars
  BY <1>4 DEF process_responses, Interrupt, Advance, ServersUp, vars, sessionVars, parentVars, lockVars
<1>5. CASE \E m \in Meter : OtherSession(m)
  BY <1>5 DEF OtherSession, ServersUp, sessionVars, parentVars, BasicInv, TypeOK, LockTypes
<1> QED
  BY <1>1, <1>2, <1>3, <1>4, <1>5 DEF Next, Done

LEMMA RowNext == BasicInv /\ RowInv /\ [Next]_vars => RowInv'
<1> SUFFICES ASSUME BasicInv, RowInv, [Next]_vars PROVE RowInv'
  OBVIOUS
<1>0. WorkerTypes /\ LockTypes /\ setup' = setup /\ (ServersUp' => ServersUp)
  BY SetupStays, ParentRows DEF BasicInv, TypeOK
<1>1. ASSUME NEW w \in Worker, WorkerStep(w)
      PROVE  RowInv'
  <2>1. \A v \in Worker \ {w} : (Remote(v)' <=> Remote(v)) /\ \A m \in Meter : Has(v, m)' <=> Has(v, m)
    BY <1>0, <1>1, StepsAlone DEF WorkerOnly, SameAsks, Remote, Local, Ended, Has
  <2>2. /\ Remote(w)' => Remote(w) /\ \A m \in Meter : Has(w, m)' => Has(w, m)
        /\ \A m \in Meter : row'[m] # row[m] => Remote(w) /\ Has(w, m) /\ ~Has(w, m)'
    BY <1>1, WorkerRows
  <2> QED
    BY <1>0, <2>1, <2>2 DEF RowInv
<1>2. CASE \E w \in Worker : ServeLock(w)
  BY <1>2, ServedRows
<1>3. CASE ~(\E w \in Worker : WorkerStep(w) \/ ServeLock(w))
  <2>1. got' = got /\ rpc' = rpc /\ \A v \in Worker : Ended(v)' <=> Ended(v)
    <3>1. CASE \E w \in Worker : StartWorker(w)
      BY <1>0, <3>1 DEF StartWorker, Goto, Ended, WorkerTypes, loopVars
    <3>2. CASE UNCHANGED <<pc, got, rpc, item>>
      BY <3>2 DEF Ended
    <3> QED
      BY <1>3, <3>1, <3>2, NotWorkerStep
  <2>2. \A v \in Worker : (Remote(v)' <=> Remote(v)) /\ \A m \in Meter : Has(v, m)' <=> Has(v, m)
    BY <1>0, <2>1 DEF Remote, Local, Has
  <2>3. ServersUp' => \A m \in Meter : row[m] = "mine" => row'[m] = "mine"
    BY <1>3, ParentRows
  <2> QED
    BY <1>0, <2>2, <2>3 DEF RowInv
<1> QED
  BY <1>1, <1>2, <1>3

LEMMA RowInvariant == Spec => []RowInv
<1>1. Init => RowInv
  BY DEF Init, RowInv, Has, NoCall
<1> QED
  BY <1>1, RowNext, BasicInvariant, PTL DEF Spec

\* Until the lock servers are closed, the rows of the meters that workers use are
\* the session's: no other session, worker or server frees them.
THEOREM HeldRows == Spec => [](ServersUp => RowsHeldInUse)
<1>1. BasicInv /\ RowInv => (ServersUp => RowsHeldInUse)
  BY WorkerFacts DEF BasicInv, Calls, Asks, RowInv, RowsHeldInUse, UsesMeters, Remote, Ended, Has
<1> QED
  BY <1>1, BasicInvariant, RowInvariant, PTL

\* The user names each meter of the command line once.
NamedOnce ==
  \A s \in Setups : \A v, w \in s.workers :
    v # w /\ Kind[v] = Kind[w] /\ Kind[v] \in s.local => MeterSet(v) \cap MeterSet(w) = {}

\* No two workers use one meter at the same time, after a signal too: rows keep
\* workers of one lock server apart, and the order of the batches those of
\* different kinds, whose meters may come from the command line.
THEOREM ExclusiveTests == NamedOnce => (Spec => []TestsExclusive)
<1> SUFFICES ASSUME NamedOnce PROVE Spec => []TestsExclusive
  OBVIOUS
<1>1. BasicInv /\ BatchInv /\ RowInv => TestsExclusive
  <2> SUFFICES ASSUME BasicInv, BatchInv, RowInv, NEW v \in Worker, NEW w \in Worker \ {v},
                      UsesMeters(v), UsesMeters(w)
               PROVE  got[v] \cap got[w] = {}
    BY DEF TestsExclusive
  <2>1. /\ got[v] \subseteq MeterSet(v) /\ got[w] \subseteq MeterSet(w)
        /\ MeterSet(v) \subseteq Meter
    BY WorkerFacts DEF BasicInv, Calls, Asks
  <2>2. CASE Kind[v] = "nometer" \/ Kind[w] = "nometer"
    BY <2>1, <2>2, WorkerFacts
  <2>3. CASE Kind[v] # "nometer" /\ Kind[w] # "nometer"
    <3>1. v \in batch /\ w \in batch /\ ~Ended(v) /\ ~Ended(w)
      BY <2>3 DEF BatchInv, UsesMeters, Ended
    <3>2. setup \in Setups /\ v \in setup.workers /\ w \in setup.workers
      BY <3>1 DEF BatchInv, Batch, Active, BasicInv, TypeOK, SessionTypes
    <3>3. CASE Kind[v] # Kind[w]
      <4>1. CommonMeters = {} /\ {Kind[v], Kind[w]} = MeterKinds
        BY <2>3, <3>1, <3>3, WorkerFacts DEF BatchInv, Batch, FirstKinds, MeterKinds
      <4>2. MeterSet(v) \subseteq MetersOf(Kind[v]) /\ MeterSet(w) \subseteq MetersOf(Kind[w])
        BY <3>2 DEF MetersOf
      <4>3. MetersOf(Kind[v]) \cap MetersOf(Kind[w]) = {}
        BY <3>3, <4>1 DEF CommonMeters, MeterKinds
      <4> QED
        BY <2>1, <4>2, <4>3
    <3>4. CASE Kind[v] = Kind[w] /\ Local(v)
      BY <2>1, <3>2, <3>4 DEF NamedOnce, Local
    <3>5. CASE Kind[v] = Kind[w] /\ ~Local(v)
      BY <2>1, <3>1, <3>5 DEF RowInv, Remote, Local, Has
    <3> QED
      BY <3>3, <3>4, <3>5
  <2> QED
    BY <2>2, <2>3
<1> QED
  BY <1>1, BasicInvariant, BatchInvariant, RowInvariant, PTL

-----------------------------------------------------------------------------
(* Without a signal the lock servers outlive the workers with meters. *)

\* Which steps bring the parent from starting and joining workers to something else.
LEMMA ParentMoves ==
  ASSUME BasicInv, [Next]_vars
  PROVE  \/ parent' = parent
         \/ AllStarted
         \/ AllJoined
         \/ Interrupt
         \/ /\ parent \notin {"start", "join"} /\ parent' \notin {"start", "join"} /\ UNCHANGED pc
            /\ parent = "joinnm" => JoinNoMeter
<1>1. CASE \E w \in Worker : WorkerStep(w)
  BY <1>1, StepsAlone DEF WorkerOnly, parentVars
<1>2. CASE \E w \in Worker : ServeLock(w) \/ StartWorker(w) \/ JoinWorker(w)
  BY <1>2 DEF ServeLock, StartWorker, JoinWorker, sessionVars, parentVars
<1>3. CASE JoinNoMeter \/ terminate_children \/ CloseServers \/ CheckErrors \/ PutQuit
           \/ JoinProcessor \/ CheckEmpty \/ Drain \/ JoinQueue \/ CloseClient \/ CloseRaises
           \/ cleanup \/ Exit
  BY <1>3 DEF JoinNoMeter, terminate_children, CloseServers, CheckErrors, PutQuit, JoinProcessor,
     CheckEmpty, Drain, JoinQueue, CloseClient, CloseRaises, cleanup, Exit, NextQueue, Advance, outerVars, workerVars
<1>4. CASE process_responses \/ (\E m \in Meter : OtherSession(m)) \/ UNCHANGED vars
  BY <1>4 DEF process_responses, OtherSession, vars, sessionVars, parentVars
<1> QED
  BY <1>1, <1>2, <1>3, <1>4 DEF Next, ParentStep, Done

QuietInv ==
  parent \notin {"start", "join"} => \A w \in Worker : Kind[w] # "nometer" => ~Running(w)

LEMMA QuietNext == ~Interrupts /\ BasicInv /\ BatchInv /\ QuietInv /\ [Next]_vars => QuietInv'
<1> SUFFICES ASSUME ~Interrupts, BasicInv, BatchInv, QuietInv, [Next]_vars PROVE QuietInv'
  OBVIOUS
<1>1. ASSUME NEW w \in Worker, WorkerStep(w)
      PROVE  QuietInv'
  <2>1. parent' = parent /\ \A v \in Worker \ {w} : pc'[v] = pc[v]
    BY <1>1, StepsAlone DEF WorkerOnly, SameAsks, parentVars
  <2>2. (Ended(w) => Ended(w)') /\ (pc[w] = "new" => Ended(w)')
    BY <1>1, WorkerEnds
  <2> QED
    BY <2>1, <2>2 DEF QuietInv, Running, Ended
<1>2. CASE \E w \in Worker : StartWorker(w)
  BY <1>2 DEF StartWorker, QuietInv
<1>3. CASE parent' = parent /\ UNCHANGED pc
  BY <1>3 DEF QuietInv, Running, Ended
<1>4. CASE AllJoined
  BY <1>4 DEF AllJoined, outerVars, workerVars, BatchInv, QuietInv, Running, Ended
<1>5. CASE AllStarted
  BY <1>5 DEF AllStarted, Advance, QuietInv
<1>6. CASE parent \notin {"start", "join"} /\ parent' \notin {"start", "join"} /\ UNCHANGED pc
  BY <1>6 DEF QuietInv, Running, Ended
<1> QED
  BY <1>1, <1>2, <1>3, <1>4, <1>5, <1>6, ParentMoves, NotWorkerStep DEF Interrupt

LEMMA QuietInvariant == ~Interrupts => (Spec => []QuietInv)
<1> SUFFICES ASSUME ~Interrupts PROVE Spec => []QuietInv
  OBVIOUS
<1>1. Init => QuietInv
  BY DEF Init, QuietInv, Running, Ended
<1>2. BasicInv /\ BatchInv /\ QuietInv /\ [Next]_vars => QuietInv'
  BY QuietNext
<1> QED
  BY <1>1, <1>2, BasicInvariant, BatchInvariant, PTL DEF Spec

\* While a worker uses database meters their rows are this session's, to the end
\* of its exit handlers, if no signal takes the lock servers away from it.
THEOREM QuietRows == ~Interrupts => (Spec => []RowsHeldInUse)
<1> SUFFICES ASSUME ~Interrupts PROVE Spec => []RowsHeldInUse
  OBVIOUS
<1>1. BasicInv /\ QuietInv /\ (ServersUp => RowsHeldInUse) => RowsHeldInUse
  <2> SUFFICES ASSUME BasicInv, QuietInv, ServersUp => RowsHeldInUse,
                      NEW w \in Worker, UsesMeters(w), ~Local(w), NEW m \in got[w]
               PROVE  row[m] = "mine"
    BY DEF RowsHeldInUse
  <2>1. Kind[w] # "nometer" /\ Running(w)
    BY WorkerFacts DEF BasicInv, Calls, Asks, UsesMeters, Running, Ended
  <2> QED
    BY <2>1 DEF QuietInv, ServersUp, RowsHeldInUse
<1> QED
  BY <1>1, QuietInvariant, BasicInvariant, HeldRows, PTL

-----------------------------------------------------------------------------
(* The rows that are left when the session has ended. *)

\* A row that is the session's is on the list of one of its two MeterDBs, also
\* after an unlock or a close that raised.
TrackInv ==
  \A m \in Meter : row[m] = "mine" => \E k \in MeterKinds : m \in tracked[k]

Late(m) == \E w \in Worker : rpc[w] = [meter |-> m, answer |-> "late"]

\* What a client lists after it was closed was locked by a call that came late.
\* The exit handler does nothing unless a close raised.
LateInv ==
  /\ parent \in {"cleanup", "cleanupmulti"} => outcome = "raised"
  /\ outcome # "raised" =>
       /\ parent \in {"closemulti", "end", "exit"} => \A m \in tracked["meter"] : Late(m)
       /\ parent \in {"end", "exit"} => \A m \in tracked["multi"] : Late(m)

\* Which steps change rows and lists.
LEMMA LockSteps ==
  ASSUME BasicInv, [Next]_vars
  PROVE  \/ \E w \in Worker : ServeLock(w)
         \/ \E w \in Worker : (Rollback(w) \/ Release(w)) /\ parent' = parent /\ ServersUp
         \/ CloseClient \/ CloseRaises \/ cleanup \/ Exit
         \/ \E m \in Meter : OtherSession(m)
         \/ UNCHANGED <<row, tracked>>
<1>1. ASSUME NEW w \in Worker, WorkerStep(w)
      PROVE  UNCHANGED <<row, tracked>>
             \/ ((Rollback(w) \/ Release(w)) /\ parent' = parent /\ ServersUp)
  <2>1. parent' = parent
    BY <1>1, StepsAlone DEF WorkerOnly, parentVars
  <2>2. CASE Rollback(w) \/ Release(w)
    BY <2>1, <2>2 DEF Rollback, Release, UnlockNext, lockVars
  <2> QED
    BY <1>1, <2>2 DEF WorkerStep, Boot, CheckQueue, CallLock, LockReturns, LockDone, TryAgain, Take,
       BeginItem, Report, TaskDone, RunRaises, Interrupted, lockVars
<1>2. CASE \E w \in Worker : StartWorker(w) \/ JoinWorker(w)
  BY <1>2 DEF StartWorker, JoinWorker, outerVars, lockVars
<1>3. CASE AllStarted \/ AllJoined \/ JoinNoMeter \/ terminate_children \/ CloseServers
           \/ CheckErrors \/ PutQuit \/ JoinProcessor \/ CheckEmpty \/ Drain \/ JoinQueue
  BY <1>3 DEF AllStarted, AllJoined, JoinNoMeter, terminate_children, CloseServers, CheckErrors,
     PutQuit, JoinProcessor, CheckEmpty, Drain, JoinQueue, outerVars, lockVars
<1>4. CASE process_responses \/ Interrupt \/ UNCHANGED vars
  BY <1>4 DEF process_responses, Interrupt, vars, lockVars
<1> QED
  BY <1>1, <1>2, <1>3, <1>4 DEF Next, ParentStep, Done

\* The meter that a call asks for is one of its worker's, which has meters.
LEMMA ServedMeter ==
  ASSUME BasicInv, NEW w \in Worker, ServeLock(w)
  PROVE  rpc[w].meter \in Meter /\ rpc[w].answer = "none" /\ Kind[w] \in MeterKinds
BY WorkerFacts, NoneAssumption DEF ServeLock, BasicInv, Calls, Asks, NoCall

\* unlock is called for a meter of a worker that has meters.
LEMMA FreedMeter ==
  ASSUME BasicInv, NEW w \in Worker, Rollback(w) \/ Release(w)
  PROVE  NextHeld(w) \in Meter /\ Kind[w] \in MeterKinds
<1>1. Asks(w) /\ got[w] # {}
  BY DEF BasicInv, Calls, Rollback, Release, Asks
<1>2. NextHeld(w) \in MeterSet(w)
  BY <1>1, NextIsHeld DEF Asks
<1> QED
  BY <1>2, WorkerFacts

LEMMA TrackNext == BasicInv /\ TrackInv /\ [Next]_vars => TrackInv'
<1> SUFFICES ASSUME BasicInv, TrackInv, [Next]_vars PROVE TrackInv'
  OBVIOUS
<1>0. LockTypes /\ LockTypes'
  BY NextKeeps DEF BasicInv, TypeOK
<1>1. ASSUME NEW w \in Worker, ServeLock(w)
      PROVE  TrackInv'
  <2>1. rpc[w].meter \in Meter /\ Kind[w] \in MeterKinds
    BY <1>1, ServedMeter
  <2>2. CASE UNCHANGED lockVars
    BY <2>2 DEF TrackInv, lockVars
  <2>3. CASE /\ row[rpc[w].meter] = "free"
             /\ row' = [row EXCEPT ![rpc[w].meter] = "mine"]
             /\ tracked' = [tracked EXCEPT ![Kind[w]] = @ \cup {rpc[w].meter}]
    BY <1>0, <2>1, <2>3 DEF TrackInv, LockTypes, MeterKinds
  <2>4. CASE row' = [row EXCEPT ![rpc[w].meter] = "lost"] /\ tracked' = tracked
    BY <1>0, <2>4 DEF TrackInv, LockTypes
  <2> QED
    BY <1>1, <2>2, <2>3, <2>4 DEF ServeLock
<1>2. ASSUME NEW w \in Worker, Rollback(w) \/ Release(w)
      PROVE  TrackInv'
  <2> DEFINE x == NextHeld(w)
  <2>1. x \in Meter /\ Kind[w] \in MeterKinds
    BY <1>2, FreedMeter
  <2>2. CASE UNCHANGED <<row, tracked>>
    BY <2>2 DEF TrackInv
  <2>3. CASE /\ tracked' = [tracked EXCEPT ![Kind[w]] = @ \ {x}]
             /\ row' = IF x \in tracked[Kind[w]] THEN [row EXCEPT ![x] = "free"] ELSE row
    BY <1>0, <2>1, <2>3 DEF TrackInv, LockTypes, MeterKinds
  <2> QED
    BY <1>2, <2>2, <2>3 DEF Rollback, Release, UnlockNext, lockVars
<1>3. CASE CloseClient \/ CloseRaises \/ cleanup \/ Exit
  <2>1. CASE \E k \in MeterKinds : FreeTracked(k)
    BY <1>0, <2>1 DEF FreeTracked, Free, TrackInv, LockTypes
  <2>2. CASE UNCHANGED tracked /\ \E done \in SUBSET Meter : Free(done)
    BY <1>0, <2>2 DEF Free, TrackInv, LockTypes
  <2> QED
    BY <1>3, <2>1, <2>2, ClosingLocks
<1>5. CASE \E m \in Meter : OtherSession(m)
  BY <1>0, <1>5 DEF OtherSession, TrackInv, LockTypes
<1>6. CASE UNCHANGED <<row, tracked>>
  BY <1>6 DEF TrackInv
<1> QED
  BY <1>1, <1>2, <1>3, <1>5, <1>6, LockSteps

LEMMA TrackInvariant == Spec => []TrackInv
<1>1. Init => TrackInv
  BY DEF Init, TrackInv, MeterKinds
<1> QED
  BY <1>1, TrackNext, BasicInvariant, PTL DEF Spec

\* A worker whose call was served late does not call again.
LEMMA LateStays ==
  ASSUME BasicInv, [Next]_vars, ~ServersUp, NEW m \in Meter, Late(m)
  PROVE  Late(m)'
<1>1. PICK v \in Worker : rpc[v] = [meter |-> m, answer |-> "late"]
  BY DEF Late
<1>2. ASSUME NEW w \in Worker, WorkerStep(w), rpc' # rpc
      PROVE  LockReturns(w) /\ rpc[w].answer # "late" /\ rpc' = [rpc EXCEPT ![w] = NoCall]
  <2>1. CallLock(w) \/ LockReturns(w)
    BY <1>2 DEF WorkerStep, Boot, CheckQueue, LockDone, Rollback, TryAgain, Take, BeginItem, Report,
       TaskDone, RunRaises, Release, Interrupted
  <2>2. ~CallLock(w)
    BY <1>2 DEF CallLock
  <2> QED
    BY <1>2, <2>1, <2>2 DEF LockReturns
<1>3. rpc'[v] = rpc[v]
  <2>1. ASSUME NEW w \in Worker, WorkerStep(w), rpc' # rpc
        PROVE  rpc'[v] = rpc[v]
    <3>1. rpc[w].answer # "late" /\ rpc' = [rpc EXCEPT ![w] = NoCall]
      BY <1>2, <2>1
    <3>2. v # w
      BY <1>1, <3>1
    <3> QED
      BY <3>1, <3>2 DEF BasicInv, TypeOK, WorkerTypes
  <2>2. CASE \E w \in Worker : ServeLock(w)
    BY <1>1, <2>2 DEF ServeLock, BasicInv, TypeOK, WorkerTypes
  <2>3. CASE (\E w \in Worker : StartWorker(w)) \/ UNCHANGED <<pc, got, rpc, item>>
    BY <2>3 DEF StartWorker
  <2> QED
    BY <2>1, <2>2, <2>3, NotWorkerStep
<1> QED
  BY <1>1, <1>3 DEF Late

LEMMA LateNext == BasicInv /\ LateInv /\ [Next]_vars => LateInv'
<1> SUFFICES ASSUME BasicInv, LateInv, [Next]_vars PROVE LateInv'
  OBVIOUS
<1>0. WorkerTypes /\ LockTypes
  BY DEF BasicInv, TypeOK
<1> DEFINE Closed == {"closemulti", "cleanup", "cleanupmulti", "end", "exit"}
<1>1. CASE CloseClient
  <2>1. rpc' = rpc /\ outcome' = outcome
    BY <1>1 DEF CloseClient, workerVars, endVars
  <2> QED
    BY <1>0, <1>1, <2>1 DEF CloseClient, FreeTracked, Advance, LateInv, Late, LockTypes, MeterKinds
<1>2. CASE Exit
  <2>1. rpc' = rpc /\ parent = "end" /\ parent' = "exit" /\ tracked' = tracked /\ outcome' = outcome
    BY <1>2 DEF Exit, Advance, workerVars, endVars
  <2> QED
    BY <2>1 DEF LateInv, Late
<1>4. CASE CloseRaises \/ cleanup
  <2>1. outcome' = "raised"
    BY <1>4 DEF CloseRaises, cleanup, LateInv, endVars
  <2> QED
    BY <2>1 DEF LateInv
<1>3. CASE ~CloseClient /\ ~CloseRaises /\ ~cleanup /\ ~Exit
  <2>1. SUFFICES ASSUME parent' \in Closed
                 PROVE  LateInv'
    BY DEF LateInv
  <2>2. parent' = parent /\ ~ServersUp /\ outcome' = outcome
    <3>1. CASE \E w \in Worker : WorkerStep(w)
      BY <2>1, <3>1, StepsAlone DEF WorkerOnly, parentVars, endVars, ServersUp
    <3>2. CASE \E w \in Worker : ServeLock(w) \/ StartWorker(w) \/ JoinWorker(w)
      BY <2>1, <3>2 DEF ServeLock, StartWorker, JoinWorker, sessionVars, parentVars, endVars, ServersUp
    <3>3. ~AllStarted /\ ~AllJoined /\ ~JoinNoMeter /\ ~terminate_children /\ ~CloseServers
          /\ ~CheckErrors /\ ~PutQuit /\ ~JoinProcessor /\ ~CheckEmpty /\ ~Drain /\ ~JoinQueue
          /\ ~Interrupt
      BY <2>1 DEF AllStarted, AllJoined, JoinNoMeter, terminate_children, CloseServers, CheckErrors,
         PutQuit, JoinProcessor, CheckEmpty, Drain, JoinQueue, Interrupt, NextQueue, Advance
    <3>4. CASE process_responses \/ (\E m \in Meter : OtherSession(m)) \/ UNCHANGED vars
      BY <2>1, <3>4 DEF process_responses, OtherSession, vars, sessionVars, parentVars, endVars, ServersUp
    <3> QED
      BY <1>3, <3>1, <3>2, <3>3, <3>4 DEF Next, ParentStep, Done
  <2>3. \A m \in Meter : Late(m) => Late(m)'
    BY <2>2, LateStays
  <2>4. \A k \in MeterKinds, m \in Meter : m \in tracked'[k] => m \in tracked[k] \/ Late(m)'
    <3>1. ASSUME NEW w \in Worker, ServeLock(w)
          PROVE  \A k \in MeterKinds, m \in Meter : m \in tracked'[k] => m \in tracked[k] \/ Late(m)'
      <4>1. CASE UNCHANGED tracked
        BY <4>1
      <4>2. CASE ~UNCHANGED tracked
        <5>1. /\ tracked' = [tracked EXCEPT ![Kind[w]] = @ \cup {rpc[w].meter}]
              /\ rpc' = [rpc EXCEPT ![w].answer = "late"]
          BY <2>2, <3>1, <4>2 DEF ServeLock, lockVars
        <5>2. rpc'[w] = [meter |-> rpc[w].meter, answer |-> "late"]
          BY <1>0, <5>1 DEF WorkerTypes
        <5> QED
          BY <1>0, <5>1, <5>2 DEF Late, LockTypes
      <4> QED
        BY <4>1, <4>2
    <3>2. CASE \E m \in Meter : OtherSession(m)
      BY <3>2 DEF OtherSession
    <3> QED
      BY <1>3, <2>2, <3>1, <3>2, LockSteps
  <2> QED
    BY <1>0, <2>2, <2>3, <2>4, NextKeeps DEF LateInv, LockTypes, MeterKinds, BasicInv, TypeOK
<1> QED
  BY <1>1, <1>2, <1>3, <1>4

LEMMA LateInvariant == Spec => []LateInv
<1>1. Init => LateInv
  BY DEF Init, LateInv
<1> QED
  BY <1>1, LateNext, BasicInvariant, PTL DEF Spec

\* A session that has ended holds no row it knows of, after a signal and after an
\* unlock that raised too, but that of a call which a lock server was still
\* serving when the clients were closed; if a close raised, it holds only rows on
\* the list of a client, and the session has ended with an internal error.
THEOREM RowsGivenBack == Spec => []NoRowLeftBehind
<1>1. TrackInv /\ LateInv => NoRowLeftBehind
  BY DEF TrackInv, LateInv, Late, NoRowLeftBehind, MeterKinds
<1> QED
  BY <1>1, TrackInvariant, LateInvariant, PTL

-----------------------------------------------------------------------------
(* A session that ends well has run and logged all its tests. *)

LEMMA RangeAppend ==
  ASSUME NEW S, NEW s \in Seq(S), NEW x \in S
  PROVE  Range(Append(s, x)) = Range(s) \cup {x}
<1>1. /\ Len(s) \in Nat /\ DOMAIN s = 1..Len(s) /\ DOMAIN Append(s, x) = 1..(Len(s) + 1)
      /\ \A i \in 1..Len(s) : Append(s, x)[i] = s[i]
      /\ Append(s, x)[Len(s) + 1] = x
  BY AppendProperties, LenProperties
<1>2. 1..(Len(s) + 1) = (1..Len(s)) \cup {Len(s) + 1}
  BY <1>1
<1> QED
  BY <1>1, <1>2 DEF Range

LEMMA RangeTail ==
  ASSUME NEW S, NEW s \in Seq(S), s # <<>>
  PROVE  /\ Range(s) = {Head(s)} \cup Range(Tail(s))
         /\ \A i \in DOMAIN Tail(s) : i + 1 \in DOMAIN s /\ Tail(s)[i] = s[i + 1]
         /\ Len(Tail(s)) = Len(s) - 1
<1>1. /\ Len(s) \in Nat \ {0} /\ DOMAIN s = 1..Len(s) /\ DOMAIN Tail(s) = 1..(Len(s) - 1)
      /\ \A i \in 1..(Len(s) - 1) : Tail(s)[i] = s[i + 1]
      /\ Head(s) = s[1] /\ Len(Tail(s)) = Len(s) - 1
  BY HeadTailProperties, LenProperties, EmptySeq
<1>3. \A i \in 1..(Len(s) - 1) : i + 1 \in 1..Len(s)
  BY <1>1
<1>4. Range(s) \subseteq {Head(s)} \cup Range(Tail(s))
  <2> SUFFICES ASSUME NEW i \in 1..Len(s) PROVE s[i] \in {Head(s)} \cup Range(Tail(s))
    BY <1>1 DEF Range
  <2>1. CASE i = 1
    BY <1>1, <2>1
  <2>2. CASE i # 1
    <3>1. i - 1 \in 1..(Len(s) - 1) /\ (i - 1) + 1 = i
      BY <1>1, <2>2
    <3>2. Tail(s)[i - 1] = s[i]
      BY <1>1, <3>1
    <3> QED
      BY <1>1, <3>1, <3>2 DEF Range
  <2> QED
    BY <2>1, <2>2
<1>5. {Head(s)} \cup Range(Tail(s)) \subseteq Range(s)
  BY <1>1, <1>3 DEF Range
<1> QED
  BY <1>1, <1>3, <1>4, <1>5

Tests(k) == Range(setup.tests[k])
Responses == queue["responses"]

\* Before the parent has looked at the errors queue.
Early == {"start", "join", "joinnm", "signal", "servers", "errors"}

\* The outcome and the responses processor follow the parent.
StageInv ==
  /\ outcome = "none" => parent \in Early
  /\ outcome = "ok" => parent \notin Early
  /\ MissingMeters => outcome \in {"error", "raised"}
  /\ parent \in Early \cup {"quit"} => processor # "off" /\ Quit \notin Range(Responses)
  /\ parent \notin Early \cup {"quit", "joinproc"} => processor # "on"

\* What a worker's step puts on the queue of responses.
LEMMA WorkerReports ==
  ASSUME BasicInv, NEW w \in Worker, WorkerStep(w)
  PROVE  /\ \/ Responses' = Responses
            \/ item[w] \in Test /\ Responses' = Append(Responses, item[w])
         /\ sigint' \subseteq sigint
<1>0. QueueTypes /\ Kind[w] \in Kinds /\ (pc[w] \in Busy => item[w] \in Test)
  BY WorkerFacts DEF BasicInv, TypeOK, Items
<1>1. CASE UNCHANGED <<queue, sigint>>
  BY <1>1 DEF Responses
<1>2. CASE Fail(w) \/ (Die(w) /\ UNCHANGED queueVars)
  BY <1>0, <1>2, Queued DEF Fail, Die, Put, Responses, QueueTypes, queueVars
<1>3. CASE Take(w)
  BY <1>0, <1>2, <1>3, Queued DEF Take, Responses, QueueTypes, queueVars
<1>4. CASE Report(w)
  BY <1>0, <1>2, <1>4, Queued DEF Report, Put, Responses, QueueTypes, Busy
<1>5. ASSUME NEW raised \in BOOLEAN, ItemDone(w, raised)
      PROVE  Responses' = Responses
  BY <1>0, <1>5, Queued DEF ItemDone, Responses, QueueTypes
<1>6. CASE TaskDone(w) \/ RunRaises(w)
  BY <1>2, <1>5, <1>6 DEF TaskDone, RunRaises
<1>7. CASE Interrupted(w)
  BY <1>2, <1>5, <1>7 DEF Interrupted, queueVars, Responses
<1>8. CASE Rollback(w) \/ Release(w)
  BY <1>1, <1>2, <1>8 DEF Rollback, Release, UnlockNext, queueVars
<1>9. CASE Boot(w) \/ CheckQueue(w) \/ CallLock(w) \/ LockReturns(w) \/ LockDone(w) \/ TryAgain(w)
           \/ BeginItem(w)
  BY <1>1, <1>2, <1>9 DEF Boot, CheckQueue, CallLock, LockReturns, LockDone, TryAgain, BeginItem,
     queueVars
<1> QED
  BY <1>3, <1>4, <1>6, <1>7, <1>8, <1>9 DEF WorkerStep

LEMMA StageNext == BasicInv /\ StageInv /\ [Next]_vars => StageInv'
<1> SUFFICES ASSUME BasicInv, StageInv, [Next]_vars PROVE StageInv'
  OBVIOUS
<1>0. /\ MissingMeters' = MissingMeters /\ QueueTypes /\ Responses \in Seq(Test \cup {Quit})
      /\ parent \in Stages
  BY SetupStays DEF MissingMeters, MetersOf, BasicInv, TypeOK, QueueTypes, SessionTypes, Responses
<1>1. ASSUME NEW w \in Worker, WorkerStep(w)
      PROVE  StageInv'
  <2>1. Quit \notin Range(Responses) => Quit \notin Range(Responses)'
    <3>1. CASE item[w] \in Test /\ Responses' = Append(Responses, item[w])
      <4>1. Range(Append(Responses, item[w])) = Range(Responses) \cup {item[w]}
        BY <1>0, <3>1, RangeAppend
      <4> QED
        BY <3>1, <4>1, NoneAssumption
    <3> QED
      BY <1>1, <3>1, WorkerReports
  <2> QED
    BY <1>0, <1>1, <2>1, StepsAlone DEF WorkerOnly, StageInv, parentVars, endVars
<1>2. CASE UNCHANGED <<parent, outcome, processor, queue>>
  BY <1>0, <1>2 DEF StageInv, Responses
<1>3. CASE \E w \in Worker : ServeLock(w) \/ StartWorker(w) \/ JoinWorker(w)
  BY <1>2, <1>3 DEF ServeLock, StartWorker, JoinWorker, sessionVars, parentVars, endVars, outerVars,
     queueVars
<1>4. CASE AllStarted \/ AllJoined \/ JoinNoMeter \/ terminate_children \/ CloseServers \/ Interrupt
  <2>1. parent \in Early /\ parent' \in Early /\ UNCHANGED <<outcome, processor, queue>>
    BY <1>4 DEF AllStarted, AllJoined, JoinNoMeter, terminate_children, CloseServers, Interrupt,
       Advance, outerVars, queueVars, endVars, Early
  <2> QED
    BY <1>0, <2>1 DEF StageInv, Responses
<1>5. CASE CheckErrors
  <2>1. Responses' = Responses
    BY <1>0, <1>5, Queued DEF CheckErrors, queueVars, Responses, QueueTypes
  <2>2. parent = "errors" /\ parent' = "quit" /\ processor' = processor /\ outcome' # "none"
        /\ (outcome # "none" => outcome' = outcome)
    BY <1>5 DEF CheckErrors, Advance
  <2> QED
    BY <1>0, <2>1, <2>2 DEF StageInv, Early
<1>6. CASE PutQuit \/ JoinProcessor
  BY <1>0, <1>6 DEF PutQuit, JoinProcessor, Advance, endVars, StageInv, Early
<1>7. CASE process_responses
  <2>1. Responses # <<>> /\ Responses' = Tail(Responses)
    BY <1>0, <1>7, Queued DEF process_responses, Responses, QueueTypes
  <2>2. Range(Responses) = {Head(Responses)} \cup Range(Responses')
    BY <1>0, <2>1, RangeTail
  <2>3. UNCHANGED <<parent, outcome>> /\ processor' \in {processor, "off", "dead"}
        /\ (Head(Responses) # Quit => processor' # "off")
    BY <1>7 DEF process_responses, Responses
  <2> QED
    BY <1>0, <2>2, <2>3 DEF StageInv
<1>8. CASE CheckEmpty \/ Drain \/ JoinQueue \/ CloseClient \/ CloseRaises
           \/ cleanup \/ Exit
  <2>1. /\ parent \notin Early \cup {"quit", "joinproc"} /\ parent' \notin Early \cup {"quit", "joinproc"}
        /\ processor' = processor /\ outcome' \in {outcome, "error", "raised"}
    BY <1>8 DEF CheckEmpty, Drain, JoinQueue, CloseClient, CloseRaises, cleanup, Exit, NextQueue, Advance, endVars, Early
  <2> QED
    BY <1>0, <2>1 DEF StageInv
<1>9. CASE (\E m \in Meter : OtherSession(m)) \/ UNCHANGED vars
  BY <1>2, <1>9 DEF OtherSession, vars, sessionVars, parentVars, endVars, queueVars
<1> QED
  BY <1>1, <1>3, <1>4, <1>5, <1>6, <1>7, <1>8, <1>9 DEF Next, ParentStep, Done

LEMMA StageInvariant == Spec => []StageInv
<1>1. Init => StageInv
  <2> SUFFICES ASSUME Init PROVE StageInv
    OBVIOUS
  <2>1. Responses = <<>>
    BY Queued DEF Init, Responses
  <2>2. Quit \notin Range(Responses)
    BY <2>1, EmptySeq DEF Range
  <2> QED
    BY <2>2 DEF Init, StageInv, Early
<1> QED
  BY <1>1, StageNext, BasicInvariant, PTL DEF Spec

\* Workers that were not configured never start, and those without meters never
\* come to the loop over the lock.
Plain == {"new", "take", "taken", "run", "ran", "exit", "dead"}
PlaceInv ==
  /\ \A w \in Worker : /\ w \notin Active => pc[w] = "new"
                       /\ Kind[w] = "nometer" => pc[w] \in Plain
  /\ sigint \subseteq Active

LEMMA BatchFacts ==
  ASSUME BasicInv, BatchInv
  PROVE  /\ batch \subseteq Active /\ Active \subseteq Worker
         /\ \A w \in batch : Kind[w] \in MeterKinds
BY SetupAssumption
   DEF BatchInv, Batch, FirstKinds, Active, BasicInv, TypeOK, SessionTypes, SetupType, MeterKinds

\* Who changes the set of workers with a signal to handle.
LEMMA SignalSteps ==
  ASSUME BasicInv, [Next]_vars
  PROVE  sigint' \subseteq sigint \/ Interrupt \/ terminate_children
<1>1. CASE \E w \in Worker : WorkerStep(w)
  BY <1>1, WorkerReports
<1>2. CASE \E w \in Worker : ServeLock(w) \/ StartWorker(w) \/ JoinWorker(w)
  BY <1>2 DEF ServeLock, StartWorker, JoinWorker, outerVars, workerVars
<1>3. CASE AllStarted \/ AllJoined \/ JoinNoMeter \/ CloseServers \/ CheckErrors \/ PutQuit
           \/ JoinProcessor \/ CheckEmpty \/ Drain \/ JoinQueue \/ CloseClient \/ CloseRaises
           \/ cleanup \/ Exit
  BY <1>3 DEF AllStarted, AllJoined, JoinNoMeter, CloseServers, CheckErrors, PutQuit, JoinProcessor,
     CheckEmpty, Drain, JoinQueue, CloseClient, CloseRaises, cleanup, Exit, outerVars, workerVars
<1>4. CASE process_responses \/ (\E m \in Meter : OtherSession(m)) \/ UNCHANGED vars
  BY <1>4 DEF process_responses, OtherSession, vars, workerVars
<1> QED
  BY <1>1, <1>2, <1>3, <1>4 DEF Next, ParentStep, Done

LEMMA PlainKept ==
  ASSUME BasicInv, NEW w \in Worker, Kind[w] = "nometer", pc[w] \in Plain, WorkerStep(w)
  PROVE  pc'[w] \in Plain
<1>0. WorkerTypes /\ got[w] = {}
  BY WorkerFacts DEF BasicInv, TypeOK, Calls, Asks
<1>1. CASE Fail(w) \/ Die(w)
  BY <1>0, <1>1 DEF Fail, Die, Goto, WorkerTypes, Plain
<1>2. CASE Take(w) \/ BeginItem(w) \/ Report(w)
  BY <1>0, <1>1, <1>2 DEF Take, BeginItem, Report, Goto, WorkerTypes, Plain
<1>3. CASE TaskDone(w) \/ RunRaises(w) \/ Interrupted(w)
  BY <1>0, <1>1, <1>3 DEF TaskDone, RunRaises, Interrupted, ItemDone, Goto, WorkerTypes, Plain
<1> QED
  BY <1>2, <1>3 DEF WorkerStep, Boot, CheckQueue, CallLock, LockReturns, LockDone, Rollback,
     TryAgain, Release, Plain

LEMMA PlaceNext == BasicInv /\ BatchInv /\ PlaceInv /\ [Next]_vars => PlaceInv'
<1> SUFFICES ASSUME BasicInv, BatchInv, PlaceInv, [Next]_vars PROVE PlaceInv'
  OBVIOUS
<1>0. Active' = Active /\ WorkerTypes
  BY SetupStays DEF Active, BasicInv, TypeOK
<1>1. sigint' \subseteq Active
  BY SignalSteps, BatchFacts DEF Interrupt, terminate_children, PlaceInv
<1>2. ASSUME NEW w \in Worker, WorkerStep(w)
      PROVE  PlaceInv'
  <2>1. \A v \in Worker \ {w} : pc'[v] = pc[v]
    BY <1>2, StepsAlone DEF WorkerOnly, SameAsks
  <2>2. w \in Active
    <3>1. pc[w] # "new" \/ w \in sigint
      BY <1>2 DEF WorkerStep, Boot, CheckQueue, CallLock, LockReturns, LockDone, Rollback, TryAgain,
         Take, BeginItem, Report, TaskDone, RunRaises, Release, Interrupted
    <3> QED
      BY <3>1 DEF PlaceInv
  <2>3. Kind[w] = "nometer" => pc'[w] \in Plain
    BY <1>2, PlainKept DEF PlaceInv
  <2> QED
    BY <1>0, <1>1, <2>1, <2>2, <2>3 DEF PlaceInv
<1>3. ASSUME NEW w \in Worker, StartWorker(w)
      PROVE  PlaceInv'
  <2>1. w \in Active /\ Kind[w] # "nometer" /\ pc' = [pc EXCEPT ![w] = "boot"]
    BY <1>3, BatchFacts DEF StartWorker, Goto, MeterKinds
  <2> QED
    BY <1>0, <1>1, <2>1 DEF PlaceInv, WorkerTypes
<1>4. CASE UNCHANGED pc
  BY <1>0, <1>1, <1>4 DEF PlaceInv
<1> QED
  BY <1>2, <1>3, <1>4, NotWorkerStep

LEMMA PlaceInvariant == Spec => []PlaceInv
<1>1. Init => PlaceInv
  BY DEF Init, PlaceInv, Plain
<1> QED
  BY <1>1, PlaceNext, BasicInvariant, BatchInvariant, PTL DEF Spec

\* Without a signal to the parent there is none to handle.
UnsignalledInv == sigint = {} /\ parent # "signal"

LEMMA UnsignalledNext == ~Interrupts /\ BasicInv /\ UnsignalledInv /\ [Next]_vars => UnsignalledInv'
<1> SUFFICES ASSUME ~Interrupts, BasicInv, UnsignalledInv, [Next]_vars PROVE UnsignalledInv'
  OBVIOUS
<1>1. sigint' = {}
  BY SignalSteps DEF UnsignalledInv, Interrupt, terminate_children
<1>2. parent' # "signal"
  <2>1. CASE \E w \in Worker : WorkerStep(w)
    BY <2>1, StepsAlone DEF WorkerOnly, parentVars, UnsignalledInv
  <2>2. CASE \E w \in Worker : ServeLock(w) \/ StartWorker(w) \/ JoinWorker(w)
    BY <2>2 DEF ServeLock, StartWorker, JoinWorker, sessionVars, parentVars, UnsignalledInv
  <2>3. CASE AllStarted \/ AllJoined \/ JoinNoMeter \/ terminate_children \/ CloseServers
             \/ CheckErrors \/ PutQuit \/ JoinProcessor \/ CheckEmpty \/ Drain \/ JoinQueue
             \/ CloseClient \/ CloseRaises
           \/ cleanup \/ Exit
    BY <2>3 DEF AllStarted, AllJoined, JoinNoMeter, terminate_children, CloseServers, CheckErrors,
       PutQuit, JoinProcessor, CheckEmpty, Drain, JoinQueue, CloseClient, CloseRaises, cleanup, Exit, NextQueue, Advance
  <2>4. CASE process_responses \/ (\E m \in Meter : OtherSession(m)) \/ UNCHANGED vars
    BY <2>4 DEF process_responses, OtherSession, vars, sessionVars, parentVars, UnsignalledInv
  <2> QED
    BY <2>1, <2>2, <2>3, <2>4 DEF Next, ParentStep, Interrupt, Done
<1> QED
  BY <1>1, <1>2 DEF UnsignalledInv

LEMMA UnsignalledInvariant == ~Interrupts => (Spec => []UnsignalledInv)
<1> SUFFICES ASSUME ~Interrupts PROVE Spec => []UnsignalledInv
  OBVIOUS
<1>1. Init => UnsignalledInv
  BY DEF Init, UnsignalledInv
<1>2. BasicInv /\ UnsignalledInv /\ [Next]_vars => UnsignalledInv'
  BY UnsignalledNext
<1> QED
  BY <1>1, <1>2, BasicInvariant, PTL DEF Spec

\* No error was raised, and none waits to be.
NoError == outcome = "ok" \/ (outcome = "none" /\ queue["errors"] = <<>>)

\* Nobody takes an error from its queue but the parent, who raises it.
LEMMA ErrorsStay ==
  ASSUME BasicInv, StageInv, [Next]_vars, NoError'
  PROVE  NoError /\ (outcome' = "none" => outcome = "none")
<1>0. QueueTypes
  BY DEF BasicInv, TypeOK
<1>1. CASE outcome' = outcome /\ (queue["errors"] # <<>> => queue'["errors"] # <<>>)
  BY <1>1 DEF NoError
<1>2. ASSUME NEW w \in Worker, WorkerStep(w)
      PROVE  NoError /\ (outcome' = "none" => outcome = "none")
  <2>1. outcome' = outcome
    BY <1>2, StepsAlone DEF WorkerOnly, parentVars, endVars
  <2>2. ASSUME Put("errors", w) PROVE queue'["errors"] # <<>>
    BY <1>0, <2>2, Queued, AppendProperties DEF Put, QueueTypes
  <2>3. CASE Fail(w)
    BY <1>1, <2>1, <2>2, <2>3 DEF Fail, queueVars
  <2>4. CASE Take(w)
    BY <1>0, <1>1, <2>1, <2>3, <2>4, Queued, WorkerFacts DEF Take, QueueTypes, queueVars
  <2>5. CASE Report(w)
    BY <1>0, <1>1, <2>1, <2>3, <2>5, Queued DEF Report, Put, QueueTypes
  <2>6. ASSUME NEW raised \in BOOLEAN, ItemDone(w, raised)
        PROVE  queue["errors"] # <<>> => queue'["errors"] # <<>>
    <3>1. Append(queue["errors"], w) # <<>>
      BY <1>0, AppendProperties DEF QueueTypes
    <3> QED
      BY <1>0, <2>6, <3>1, Queued DEF ItemDone, QueueTypes
  <2>7. CASE TaskDone(w) \/ RunRaises(w) \/ Interrupted(w)
    BY <1>1, <2>1, <2>3, <2>6, <2>7 DEF TaskDone, RunRaises, Interrupted, Fail, queueVars
  <2>8. CASE UNCHANGED queueVars
    BY <1>1, <2>1, <2>8 DEF queueVars
  <2> QED
    BY <1>2, <2>3, <2>4, <2>5, <2>7, <2>8 DEF WorkerStep, Boot, CheckQueue, CallLock, LockReturns,
       LockDone, Rollback, TryAgain, BeginItem, Release, UnlockNext
<1>3. CASE \E w \in Worker : ServeLock(w) \/ StartWorker(w) \/ JoinWorker(w)
  BY <1>1, <1>3 DEF ServeLock, StartWorker, JoinWorker, sessionVars, parentVars, endVars, outerVars,
     queueVars
<1>4. CASE CheckErrors
  BY <1>4 DEF CheckErrors, NoError
<1>5. CASE Drain
  <2>1. outcome # "none"
    BY <1>5 DEF Drain, StageInv, Early
  <2> QED
    BY <1>5, <2>1 DEF Drain, NoError
<1>6. CASE process_responses \/ PutQuit
  BY <1>0, <1>1, <1>6, Queued DEF process_responses, PutQuit, Put, endVars, QueueTypes
<1>7. CASE AllStarted \/ AllJoined \/ JoinNoMeter \/ terminate_children \/ CloseServers
           \/ JoinProcessor \/ CheckEmpty \/ JoinQueue \/ CloseClient \/ cleanup \/ Exit
  BY <1>1, <1>7 DEF AllStarted, AllJoined, JoinNoMeter, terminate_children, CloseServers,
     JoinProcessor, CheckEmpty, JoinQueue, CloseClient, cleanup, Exit, outerVars, queueVars, endVars
<1>9. CASE CloseRaises
  BY <1>9 DEF CloseRaises, NoError
<1>8. CASE Interrupt \/ (\E m \in Meter : OtherSession(m)) \/ UNCHANGED vars
  BY <1>1, <1>8 DEF Interrupt, OtherSession, vars, sessionVars, parentVars, queueVars, endVars
<1> QED
  BY <1>2, <1>3, <1>4, <1>5, <1>6, <1>7, <1>8, <1>9 DEF Next, ParentStep, Done

\* While there is no error nobody has died, and the parent has waited for all.
EndInv ==
  NoError =>
    /\ \A w \in Worker : pc[w] # "dead"
    /\ parent \notin {"start", "join"} => \A w \in Active : Kind[w] # "nometer" => Ended(w)
    /\ parent \notin {"start", "join", "joinnm"} => \A w \in Active : Ended(w)

\* The steps of a worker in a session without signals and errors.
Takes(w) ==
  /\ pc[w] = "take" /\ pc'[w] = "taken" /\ queue[Kind[w]] # <<>>
  /\ item' = [item EXCEPT ![w] = Head(queue[Kind[w]])]
  /\ queue' = [queue EXCEPT ![Kind[w]] = Tail(@)]
  /\ ran' = ran
Sends(w) ==
  /\ pc[w] = "run" /\ pc'[w] = "ran" /\ item[w] \in Test
  /\ queue' = [queue EXCEPT !["responses"] = Append(@, item[w])]
  /\ UNCHANGED <<item, ran>>
Finishes(w) ==
  /\ pc[w] = "ran" /\ pc'[w] = "take"
  /\ ran' = ran \cup {item[w]}
  /\ queue' = queue
Moves(w) ==
  /\ \/ pc[w] = "taken" /\ pc'[w] = "run"
     \/ pc[w] \notin Busy /\ pc'[w] \notin Busy \cup {"dead"}
  /\ UNCHANGED <<queue, item, ran>>

WellBehaved == BasicInv /\ PlaceInv /\ UnsignalledInv /\ StageInv /\ EndInv

LEMMA WellSteps ==
  ASSUME WellBehaved, NEW w \in Worker, WorkerStep(w), NoError, NoError'
  PROVE  /\ outcome = "none"
         /\ Takes(w) \/ Sends(w) \/ Finishes(w) \/ Moves(w)
<1>0. /\ WorkerTypes /\ QueueTypes /\ Asks(w) /\ sigint = {} /\ UNCHANGED <<parent, outcome>>
      /\ (Kind[w] = "nometer" => pc[w] \in Plain) /\ (pc[w] \in Busy => item[w] \in Test)
  BY StepsAlone DEF WellBehaved, BasicInv, TypeOK, Calls, Items, UnsignalledInv, PlaceInv,
     WorkerOnly, parentVars, endVars
<1>1. pc[w] \notin {"new", "exit", "dead"}
  BY <1>0 DEF WorkerStep, Boot, CheckQueue, CallLock, LockReturns, LockDone, Rollback, TryAgain,
     Take, BeginItem, Report, TaskDone, RunRaises, Release, Interrupted
<1>2. w \in Active /\ ~Ended(w)
  BY <1>1 DEF WellBehaved, PlaceInv, Ended
<1>3. parent \in {"start", "join", "joinnm"} /\ (Kind[w] # "nometer" => parent \in {"start", "join"})
  BY <1>2 DEF WellBehaved, EndInv
<1>4. ServersUp /\ ManagerUp /\ outcome = "none"
  BY <1>3 DEF ServersUp, ManagerUp, Closing, WellBehaved, StageInv, NoError, Early
<1>5. queue'["errors"] = <<>>
  BY <1>0, <1>4 DEF NoError
<1>6. Kind[w] # "nometer" => ~Fail(w)
  <2> SUFFICES ASSUME Put("errors", w) PROVE FALSE
    BY <1>4 DEF Fail
  <2> QED
    BY <1>0, <1>5, Queued, AppendProperties DEF Put, QueueTypes
<1>7. ~RunRaises(w)
  <2> SUFFICES ASSUME ItemDone(w, TRUE) PROVE FALSE
    BY DEF RunRaises
  <2> QED
    BY <1>0, <1>5, Queued, AppendProperties DEF ItemDone, QueueTypes
<1>8. CASE Boot(w) \/ CheckQueue(w) \/ LockDone(w) \/ BeginItem(w)
  BY <1>0, <1>4, <1>8 DEF Boot, CheckQueue, LockDone, BeginItem, Goto, WorkerTypes, Busy, Moves,
     queueVars, sessionVars, testVars
<1>14. CASE TryAgain(w)
  BY <1>0, <1>4, <1>6, <1>14 DEF TryAgain, Goto, WorkerTypes, Busy, Plain, Moves, queueVars,
     sessionVars, testVars
<1>9. CASE CallLock(w) \/ LockReturns(w)
  BY <1>0, <1>4, <1>9 DEF CallLock, LockReturns, Goto, WorkerTypes, Busy, Moves, queueVars,
     sessionVars, testVars
<1>10. CASE Rollback(w) \/ Release(w)
  BY <1>0, <1>4, <1>6, <1>10 DEF Rollback, Release, UnlockNext, Goto, WorkerTypes, Busy, Plain, Moves,
     queueVars, sessionVars, testVars
<1>11. CASE Take(w)
  BY <1>0, <1>4, <1>11 DEF Take, Goto, WorkerTypes, Busy, Moves, Takes, queueVars, sessionVars,
     testVars
<1>12. CASE Report(w)
  BY <1>0, <1>4, <1>12 DEF Report, Put, Goto, WorkerTypes, Busy, Sends, sessionVars, testVars
<1>13. CASE TaskDone(w)
  BY <1>0, <1>4, <1>13 DEF TaskDone, ItemDone, Goto, WorkerTypes, Finishes
<1> QED
  BY <1>0, <1>4, <1>7, <1>8, <1>9, <1>10, <1>11, <1>12, <1>13, <1>14 DEF WorkerStep, Interrupted

LEMMA EndNext == ~Interrupts /\ WellBehaved /\ BatchInv /\ [Next]_vars => EndInv'
<1> SUFFICES ASSUME ~Interrupts, WellBehaved, BatchInv, [Next]_vars, NoError' PROVE EndInv'
  BY DEF EndInv
<1>0. BasicInv /\ EndInv /\ NoError /\ Active' = Active /\ WorkerTypes /\ Active \subseteq Worker
  BY ErrorsStay, SetupStays, BatchFacts DEF WellBehaved, Active, BasicInv, TypeOK
<1>1. ASSUME NEW w \in Worker, WorkerStep(w)
      PROVE  EndInv'
  <2>1. parent' = parent /\ \A v \in Worker \ {w} : pc'[v] = pc[v]
    BY <1>0, <1>1, StepsAlone DEF WorkerOnly, SameAsks, parentVars
  <2>2. (Ended(w) => Ended(w)') /\ pc'[w] # "dead"
    BY <1>0, <1>1, WorkerEnds, WellSteps DEF Takes, Sends, Finishes, Moves
  <2> QED
    BY <1>0, <2>1, <2>2 DEF EndInv, Ended
<1>2. CASE \E w \in Worker : StartWorker(w)
  BY <1>0, <1>2 DEF StartWorker, Goto, EndInv, WorkerTypes
<1>3. CASE UNCHANGED <<pc, parent>>
  BY <1>0, <1>3 DEF EndInv, Ended
<1>4. CASE AllStarted
  BY <1>0, <1>4 DEF AllStarted, Advance, EndInv, outerVars, workerVars
<1>5. CASE AllJoined
  <2> DEFINE rest == Batch(MeterKinds \ FirstKinds)
  <2>1. /\ pc' = pc /\ \A w \in batch : Ended(w)
        /\ parent' = "start" \/ (parent' = "joinnm" /\ (rest = {} \/ rest = batch))
    BY <1>5 DEF AllJoined, Advance, outerVars, workerVars, BatchInv
  <2>2. \A w \in Active : Kind[w] # "nometer" => w \in Batch(FirstKinds) \/ w \in rest
    BY <1>0, WorkerFacts DEF Batch
  <2>3. parent' = "joinnm" => \A w \in Active : Kind[w] # "nometer" => Ended(w)
    BY <2>1, <2>2 DEF BatchInv
  <2> QED
    BY <1>0, <2>1, <2>3 DEF EndInv, Ended
<1>6. CASE /\ parent \notin {"start", "join"} /\ parent' \notin {"start", "join"} /\ UNCHANGED pc
           /\ parent = "joinnm" => JoinNoMeter
  BY <1>0, <1>6 DEF JoinNoMeter, EndInv, Ended
<1>7. CASE Interrupt
  BY <1>7 DEF Interrupt
<1> QED
  BY <1>0, <1>1, <1>2, <1>3, <1>4, <1>5, <1>6, <1>7, ParentMoves, NotWorkerStep

\* What the parent has logged, or will when it comes to it.
Logged == reported \cup Range(Responses)

\* Every test is waiting, in the hands of a worker, or done.  Unless the processor
\* has died all reports come to it, and before its quit.
DataInv ==
  NoError =>
    /\ \A k \in Kinds : \A t \in Tests(k) :
         \/ t \in ran
         \/ outcome = "none" /\ t \in Range(queue[k])
         \/ outcome = "none" /\ \E w \in Worker : Kind[w] = k /\ pc[w] \in Busy /\ item[w] = t
    /\ processor # "dead" =>
         /\ ran \subseteq Logged
         /\ \A w \in Worker : pc[w] = "ran" => item[w] \in Logged
         /\ \A i \in DOMAIN Responses : Responses[i] = Quit => i = Len(Responses)
         /\ processor = "off" => Responses = <<>>

\* The user gives threads for tests without meters.
ThreadGiven ==
  \A s \in Setups : s.tests["nometer"] # <<>> => \E w \in s.workers : Kind[w] = "nometer"

\* Once all have ended without an error no test waits.
LEMMA NothingWaits ==
  ASSUME ThreadGiven, WellBehaved, LoopInv, NoError, outcome = "none",
         parent \notin {"start", "join", "joinnm"}, NEW k \in Kinds, Tests(k) # {}
  PROVE  queue[k] = <<>>
<1>1. setup \in Setups /\ setup.tests[k] # <<>> /\ setup.workers \subseteq Worker
  BY SetupAssumption, EmptySeq
     DEF WellBehaved, BasicInv, TypeOK, SessionTypes, Tests, Range, SetupType
<1>2. PICK w \in setup.workers : Kind[w] = k
  <2>1. CASE k = "nometer"
    BY <1>1, <2>1 DEF ThreadGiven
  <2>2. CASE k \in MeterKinds
    BY <1>1, <2>2 DEF WellBehaved, StageInv, MissingMeters, MetersOf
  <2> QED
    BY <2>1, <2>2 DEF Kinds
<1>3. w \in Active /\ w \in Worker
  BY <1>1, <1>2 DEF Active
<1>4. pc[w] = "exit"
  BY <1>3 DEF WellBehaved, EndInv, Ended
<1> QED
  BY <1>2, <1>3, <1>4 DEF LoopInv, HoldsAll

LEMMA WorkerData ==
  ASSUME WellBehaved, DataInv, NoError, NoError', NEW w \in Worker, WorkerStep(w)
  PROVE  DataInv'
<1>0. /\ WorkerTypes /\ QueueTypes /\ Kind[w] \in Kinds /\ outcome = "none"
      /\ Takes(w) \/ Sends(w) \/ Finishes(w) \/ Moves(w)
      /\ UNCHANGED <<setup, outcome, processor, reported>>
      /\ \A k \in Kinds : Tests(k)' = Tests(k)
      /\ \A v \in Worker \ {w} : pc'[v] = pc[v] /\ item'[v] = item[v]
  BY WellSteps, WorkerFacts, StepsAlone
     DEF WellBehaved, BasicInv, TypeOK, WorkerOnly, SameAsks, parentVars, endVars, Tests
<1>1. CASE Takes(w)
  <2>1. /\ Responses' = Responses /\ Logged' = Logged /\ ran' = ran
        /\ \A k \in Kinds \ {Kind[w]} : queue'[k] = queue[k]
        /\ pc[w] \notin Busy /\ pc'[w] = "taken"
        /\ item'[w] = Head(queue[Kind[w]]) /\ queue'[Kind[w]] = Tail(queue[Kind[w]])
    BY <1>0, <1>1, Queued DEF Takes, Responses, Logged, QueueTypes, WorkerTypes, Busy
  <2>2. Range(queue[Kind[w]]) = {item'[w]} \cup Range(queue'[Kind[w]])
    BY <1>0, <1>1, <2>1, RangeTail DEF Takes, QueueTypes
  <2>3. \A k \in Kinds : \A t \in Tests(k) :
          \/ t \in ran
          \/ t \in Range(queue'[k])
          \/ \E v \in Worker : Kind[v] = k /\ pc'[v] \in Busy /\ item'[v] = t
    <3> SUFFICES ASSUME NEW k \in Kinds, NEW t \in Tests(k), t \notin ran, t \notin Range(queue'[k])
                 PROVE  \E v \in Worker : Kind[v] = k /\ pc'[v] \in Busy /\ item'[v] = t
      OBVIOUS
    <3>1. CASE \E v \in Worker : Kind[v] = k /\ pc[v] \in Busy /\ item[v] = t
      BY <1>0, <2>1, <3>1
    <3>2. CASE t \in Range(queue[k])
      BY <2>1, <2>2, <3>2 DEF Busy
    <3> QED
      BY <3>1, <3>2 DEF DataInv
  <2> QED
    BY <1>0, <2>1, <2>3 DEF DataInv
<1>2. CASE Sends(w)
  <2>1. /\ Responses' = Append(Responses, item[w]) /\ Responses \in Seq(Test \cup {Quit})
        /\ \A k \in Kinds : queue'[k] = queue[k]
        /\ item' = item /\ ran' = ran /\ pc[w] = "run" /\ pc'[w] = "ran" /\ item[w] \in Test
    BY <1>0, <1>2, Queued DEF Sends, Responses, QueueTypes
  <2>2. Range(Responses)' = Range(Responses) \cup {item[w]}
    BY <2>1, RangeAppend
  <2>3. processor # "off" /\ Quit \notin Range(Responses)
    BY <1>0 DEF WellBehaved, StageInv
  <2>4. Quit \notin Range(Responses)'
    BY <2>1, <2>2, <2>3, NoneAssumption
  <2>5. \A i \in DOMAIN Responses' : Responses'[i] # Quit
    BY <2>4 DEF Range
  <2>6. Logged' = Logged \cup {item[w]}
    BY <1>0, <2>2 DEF Logged
  <2>7. \A v \in Worker : (pc'[v] \in Busy <=> pc[v] \in Busy) /\ (pc'[v] = "ran" => pc[v] = "ran" \/ v = w)
    BY <1>0, <2>1 DEF Busy
  <2> QED
    BY <1>0, <2>1, <2>3, <2>5, <2>6, <2>7 DEF DataInv
<1>3. CASE Finishes(w)
  <2>1. Responses' = Responses /\ Logged' = Logged
    BY <1>0, <1>3 DEF Finishes, Responses, Logged
  <2>2. \A v \in Worker : pc[v] \in Busy => (pc'[v] = pc[v] /\ item'[v] = item[v]) \/ item[v] \in ran'
    BY <1>0, <1>3 DEF Finishes
  <2>3. \A v \in Worker : pc'[v] = "ran" => v # w
    BY <1>3 DEF Finishes
  <2> QED
    BY <1>0, <1>3, <2>1, <2>2, <2>3 DEF Finishes, DataInv
<1>4. CASE Moves(w)
  <2>1. /\ Responses' = Responses /\ Logged' = Logged /\ UNCHANGED <<queue, item, ran>>
        /\ \A v \in Worker : (pc'[v] \in Busy <=> pc[v] \in Busy) /\ (pc'[v] = "ran" => pc[v] = "ran")
    BY <1>0, <1>4 DEF Moves, Responses, Logged, Busy
  <2> QED
    BY <1>0, <2>1 DEF DataInv
<1> QED
  BY <1>0, <1>1, <1>2, <1>3, <1>4

\* The processor logs what it takes; the quit it takes is the last item.
LEMMA ProcessorData ==
  ASSUME WellBehaved, DataInv, NoError, process_responses
  PROVE  DataInv'
<1>0. /\ QueueTypes /\ Responses \in Seq(Test \cup {Quit}) /\ Responses # <<>>
      /\ UNCHANGED <<setup, outcome, pc, item, ran>>
      /\ Responses' = Tail(Responses) /\ processor = "on"
      /\ \A k \in Kinds : queue'[k] = queue[k]
      /\ \A w \in Worker : pc[w] = "ran" => item[w] \in Test
      /\ ran \subseteq Test
  BY Queued DEF process_responses, WellBehaved, BasicInv, TypeOK, QueueTypes, SessionTypes, Items,
     Busy, Responses, workerVars
<1>1. /\ Range(Responses) = {Head(Responses)} \cup Range(Responses)'
      /\ \A i \in DOMAIN Responses' : i + 1 \in DOMAIN Responses /\ Responses'[i] = Responses[i + 1]
      /\ Len(Responses') = Len(Responses) - 1
  BY <1>0, RangeTail
<1>2. Responses' \in Seq(Test \cup {Quit}) /\ DOMAIN Responses' \subseteq Nat
      /\ Len(Responses) \in Nat \ {0} /\ Head(Responses) = Responses[1] /\ 1 \in DOMAIN Responses
  BY <1>0, HeadTailProperties, LenProperties, EmptySeq
<1> SUFFICES ASSUME processor' # "dead" PROVE DataInv'
  BY <1>0 DEF DataInv, NoError, Tests
<1>3. \A t \in Test : t \in Logged => t \in Logged'
  <2>1. CASE Head(Responses) = Quit
    <3>1. reported' = reported
      BY <2>1 DEF process_responses, Responses
    <3> QED
      BY <1>1, <2>1, <3>1, NoneAssumption DEF Logged
  <2>2. CASE Head(Responses) # Quit
    <3>1. reported' = reported \cup {Head(Responses)}
      BY <1>0, <2>2 DEF process_responses, Responses
    <3> QED
      BY <1>1, <3>1 DEF Logged
  <2> QED
    BY <2>1, <2>2
<1>4. \A i \in DOMAIN Responses' : Responses'[i] = Quit => i = Len(Responses')
  BY <1>0, <1>1, <1>2 DEF DataInv
<1>5. processor' = "off" => Responses' = <<>>
  <2> SUFFICES ASSUME processor' = "off" PROVE Responses' = <<>>
    OBVIOUS
  <2>1. Head(Responses) = Quit
    BY <1>0 DEF process_responses, Responses
  <2>2. Len(Responses) = 1
    BY <1>0, <1>2, <2>1 DEF DataInv
  <2> QED
    BY <1>1, <1>2, <2>2, EmptySeq
<1> QED
  BY <1>0, <1>3, <1>4, <1>5 DEF DataInv, NoError, Tests

\* The parent's own hands on the queues: its quit comes after all reports, and it
\* drains what is left only when nothing is.
LEMMA ParentData ==
  ASSUME ThreadGiven, WellBehaved, LoopInv, DataInv, NoError, NoError', setup' = setup,
         CheckErrors \/ PutQuit \/ Drain
  PROVE  DataInv'
<1>0. /\ QueueTypes /\ Responses \in Seq(Test \cup {Quit}) /\ WorkerTypes
      /\ \A k \in Kinds : Tests(k)' = Tests(k)
  BY DEF WellBehaved, BasicInv, TypeOK, QueueTypes, Responses, Tests
<1>1. CASE CheckErrors
  <2>1. parent = "errors" /\ outcome = "none"
    BY <1>1 DEF CheckErrors, WellBehaved, StageInv, NoError, Early
  <2>2. UNCHANGED <<queue, pc, item, ran, reported, processor>> /\ outcome' = "ok"
    BY <1>1, <2>1 DEF CheckErrors, NoError, queueVars, workerVars, testVars
  <2>3. \A w \in Worker : pc[w] \notin Busy
    BY <2>1 DEF WellBehaved, EndInv, PlaceInv, Ended, Busy
  <2>4. \A k \in Kinds : Tests(k) \subseteq ran
    <3> SUFFICES ASSUME NEW k \in Kinds, NEW t \in Tests(k), t \notin ran PROVE FALSE
      OBVIOUS
    <3>1. queue[k] = <<>>
      BY <2>1, NothingWaits
    <3>2. t \in Range(queue[k])
      BY <2>3 DEF DataInv
    <3> QED
      BY <3>1, <3>2, EmptySeq DEF Range
  <2> QED
    BY <1>0, <2>2, <2>4 DEF DataInv, Responses, Logged
<1>2. CASE PutQuit
  <2>1. /\ Responses' = Append(Responses, Quit) /\ \A k \in Kinds : queue'[k] = queue[k]
        /\ UNCHANGED <<pc, item, ran, reported, processor, outcome>>
    BY <1>0, <1>2, Queued DEF PutQuit, Put, Responses, QueueTypes, workerVars, testVars, endVars
  <2>2. processor # "off" /\ Quit \notin Range(Responses)
    BY <1>2 DEF PutQuit, WellBehaved, StageInv
  <2>3. Logged \subseteq Logged'
    <3>1. Range(Responses)' = Range(Responses) \cup {Quit}
      BY <1>0, <2>1, RangeAppend
    <3> QED
      BY <2>1, <3>1 DEF Logged
  <2>4. \A i \in DOMAIN Responses' : Responses'[i] = Quit => i = Len(Responses')
    <3>1. /\ DOMAIN Responses = 1..Len(Responses) /\ Len(Responses) \in Nat
          /\ DOMAIN Responses' = 1..(Len(Responses) + 1) /\ Len(Responses') = Len(Responses) + 1
          /\ \A i \in 1..Len(Responses) : Responses'[i] = Responses[i]
      BY <1>0, <2>1, AppendProperties, LenProperties
    <3>2. \A i \in 1..Len(Responses) : Responses'[i] # Quit
      BY <2>2, <3>1 DEF Range
    <3> QED
      BY <3>1, <3>2
  <2> QED
    BY <1>0, <2>1, <2>2, <2>3, <2>4 DEF DataInv
<1>3. CASE Drain
  <2>1. parent = "drain" /\ outcome # "none" /\ processor # "on"
    BY <1>3 DEF Drain, WellBehaved, StageInv, Early
  <2>2. outcome = "ok" /\ (processor # "dead" => Responses = <<>>)
    BY <2>1 DEF NoError, DataInv, WellBehaved, BasicInv, TypeOK, SessionTypes
  <2>3. outcome' = "ok" /\ UNCHANGED <<pc, item, ran, reported, processor>>
    BY <1>3, <2>2 DEF Drain, NoError, workerVars, testVars
  <2>4. processor # "dead" => Responses' = Responses
    <3> SUFFICES ASSUME processor # "dead" PROVE Responses' = Responses
      OBVIOUS
    <3>1. queue[Current] # <<>> /\ queue' = [queue EXCEPT ![Current] = Tail(@)]
      BY <1>3, <2>3 DEF Drain
    <3>2. Current # "responses"
      BY <2>2, <3>1 DEF Responses
    <3> QED
      BY <1>0, <3>1, <3>2, Queued DEF Responses, QueueTypes
  <2> QED
    BY <1>0, <2>2, <2>3, <2>4 DEF DataInv, Logged
<1> QED
  BY <1>1, <1>2, <1>3

LEMMA DataNext ==
  ~Interrupts /\ ThreadGiven /\ WellBehaved /\ LoopInv /\ DataInv /\ [Next]_vars => DataInv'
<1> SUFFICES ASSUME ~Interrupts, ThreadGiven, WellBehaved, LoopInv, DataInv, [Next]_vars, NoError'
             PROVE  DataInv'
  BY DEF DataInv
<1>0. NoError /\ setup' = setup /\ WorkerTypes
  BY ErrorsStay, SetupStays DEF WellBehaved, BasicInv, TypeOK
<1>1. CASE \E w \in Worker : WorkerStep(w)
  BY <1>0, <1>1, WorkerData
<1>2. CASE process_responses
  BY <1>0, <1>2, ProcessorData
<1>3. CASE CheckErrors \/ PutQuit \/ Drain
  BY <1>0, <1>3, ParentData
<1>4. CASE UNCHANGED <<queue, pc, item, ran, reported, outcome, processor>>
  BY <1>0, <1>4 DEF DataInv, Tests, Responses, Logged
<1>5. CASE \E w \in Worker : StartWorker(w)
  <2>1. /\ UNCHANGED <<queue, item, ran, reported, outcome, processor>>
        /\ \A w \in Worker : pc[w] \in Busy <=> pc'[w] \in Busy
        /\ \A w \in Worker : pc'[w] = "ran" <=> pc[w] = "ran"
    BY <1>0, <1>5 DEF StartWorker, Goto, WorkerTypes, Busy, queueVars, testVars, endVars
  <2> QED
    BY <1>0, <2>1 DEF DataInv, Tests, Responses, Logged
<1>6. CASE \E w \in Worker : ServeLock(w) \/ JoinWorker(w)
  BY <1>4, <1>6 DEF ServeLock, JoinWorker, sessionVars, parentVars, endVars, testVars, outerVars,
     workerVars, queueVars
<1>7. CASE AllStarted \/ AllJoined \/ JoinNoMeter \/ terminate_children \/ CloseServers
           \/ JoinProcessor \/ CheckEmpty \/ CloseClient \/ cleanup \/ Exit
  BY <1>4, <1>7 DEF AllStarted, AllJoined, JoinNoMeter, terminate_children, CloseServers,
     JoinProcessor, CheckEmpty, CloseClient, cleanup, Exit, outerVars, workerVars, queueVars, endVars, testVars
<1>8. CASE JoinQueue
  BY <1>4, <1>8 DEF JoinQueue, outerVars, workerVars, queueVars, testVars
<1>10. CASE CloseRaises
  BY <1>10 DEF CloseRaises, NoError
<1>9. CASE (\E m \in Meter : OtherSession(m)) \/ UNCHANGED vars
  BY <1>4, <1>9 DEF OtherSession, vars, sessionVars, parentVars, endVars, testVars, workerVars,
     queueVars
<1> QED
  BY <1>1, <1>2, <1>3, <1>5, <1>6, <1>7, <1>8, <1>9, <1>10 DEF Next, ParentStep, Interrupt, Done

LEMMA DataStarts == Init => EndInv /\ DataInv
<1> SUFFICES ASSUME Init, NoError PROVE EndInv /\ DataInv
  BY DEF EndInv, DataInv
<1>1. outcome = "none" /\ parent = "start" /\ ran = {} /\ processor = "on"
      /\ \A w \in Worker : pc[w] \in {"new", "take"}
  BY DEF Init, NoError
<1>2. Responses = <<>> /\ \A k \in Kinds : queue[k] = setup.tests[k]
  BY Queued DEF Init, Responses
<1>3. DOMAIN Responses = {}
  BY <1>2, EmptySeq
<1> QED
  BY <1>1, <1>2, <1>3 DEF EndInv, DataInv, Tests

\* A session without signals that ends well has run all its tests, whatever
\* database call fails, and logged them, unless the handler of a report raised: no
\* report is overtaken by the quit of the responses processor, none is drained
\* unread, and a worker that gives up its tests leaves an error behind.
THEOREM AllReported == ~Interrupts /\ ThreadGiven => (Spec => []WellMeansAllReported)
<1> SUFFICES ASSUME ~Interrupts, ThreadGiven PROVE Spec => []WellMeansAllReported
  OBVIOUS
<1>1. WellBehaved /\ DataInv => WellMeansAllReported
  <2> SUFFICES ASSUME WellBehaved, DataInv, parent = "exit", outcome = "ok",
                      NEW k \in Kinds, NEW i \in DOMAIN setup.tests[k]
               PROVE  /\ setup.tests[k][i] \in ran
                      /\ processor # "dead" => setup.tests[k][i] \in reported
    BY DEF WellMeansAllReported
  <2>1. NoError /\ processor \in {"off", "dead"} /\ setup.tests[k][i] \in Tests(k)
    BY DEF NoError, WellBehaved, BasicInv, TypeOK, SessionTypes, StageInv, Early, Tests, Range
  <2>2. setup.tests[k][i] \in ran
    BY <2>1 DEF DataInv
  <2>3. processor # "dead" => ran \subseteq Logged /\ Responses = <<>>
    BY <2>1 DEF DataInv
  <2>4. Responses = <<>> => Range(Responses) = {}
    BY EmptySeq DEF Range
  <2> QED
    BY <2>2, <2>3, <2>4 DEF Logged
<1>2. Init => EndInv /\ DataInv
  BY DataStarts
<1>3. BasicInv /\ PlaceInv /\ UnsignalledInv /\ StageInv /\ EndInv => WellBehaved
  BY DEF WellBehaved
<1>4. WellBehaved /\ BatchInv /\ [Next]_vars => EndInv'
  BY EndNext
<1>5. WellBehaved /\ LoopInv /\ DataInv /\ [Next]_vars => DataInv'
  BY DataNext
<1>6. Spec => []UnsignalledInv
  BY UnsignalledInvariant
<1> QED
  BY <1>1, <1>2, <1>3, <1>4, <1>5, <1>6, BasicInvariant, PlaceInvariant, StageInvariant,
     BatchInvariant, LoopInvariant, PTL DEF Spec
=============================================================================
