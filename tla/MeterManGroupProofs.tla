------------------------ MODULE MeterManGroupProofs ------------------------
(***************************************************************************)
(* Theorems about MeterManGroup: its list of locked nodes is what its      *)
(* threads still have to free, and commands run on meters of their own.    *)
(* What MeterLocksProofs shows of every step on the rows is used as it is. *)
(***************************************************************************)
EXTENDS MeterManGroup, MeterLocksProofs

\* Where the threads and the main thread of one mm can be, given what its
\* session does: while the threads run, only they unlock, one at a time.
PhaseInv(s) ==
  /\ life[s] # "open" \/ op[s].kind = "close" => main[s] = "left"
  /\ main[s] = "start" => thread[s] = NoThreads
  /\ main[s] = "left" => \A m \in Meter : thread[s][m] \in Ended
  /\ op[s].kind = "unlock" => thread[s][op[s].meter] = "unlock"

ListInv(s) ==
  life[s] = "open" /\ op[s].kind # "close" =>
    tracked[s] = {m \in Meter : thread[s][m] \in {"run", "unlock", "kept"}}

GroupInv == GTypeOK /\ \A s \in Group : PhaseInv(s) /\ ListInv(s)

\* Everything PhaseInv and ListInv depend on.
SameFor(s) == /\ life'[s] = life[s] /\ op'[s] = op[s] /\ tracked'[s] = tracked[s]
              /\ thread'[s] = thread[s] /\ main'[s] = main[s]

LEMMA SameKeeps ==
  ASSUME NEW s \in Group, PhaseInv(s), ListInv(s), SameFor(s)
  PROVE  PhaseInv(s)' /\ ListInv(s)'
BY DEF PhaseInv, ListInv, SameFor

-----------------------------------------------------------------------------
(* What a step of an unlock or a close in progress does to its session. *)

UnlockStep(s) == UpdateUnlock(s) \/ UnlockRequestLost(s) \/ UnlockReplyLost(s)

Untouched(t) == life'[t] = life[t] /\ op'[t] = op[t] /\ tracked'[t] = tracked[t]

LEMMA UnlockTouchesOne ==
  ASSUME BaseInv, NEW s \in Session, UnlockStep(s), NEW t \in Session \ {s}
  PROVE  Untouched(t)
BY DEF UnlockStep, Untouched, BaseInv, TypeOK, UpdateUnlock, UnlockRequestLost,
   UnlockReplyLost, Freed, Raise, Retry

LEMMA UnlockEnds ==
  ASSUME BaseInv, NEW s \in Session, UnlockStep(s), op[s].kind = "unlock"
  PROVE  /\ life'[s] = life[s]
         /\ \/ op'[s] = Idle /\ tracked'[s] \in {tracked[s], tracked[s] \ {op[s].meter}}
            \/ /\ op'[s].kind = "unlock" /\ op'[s].meter = op[s].meter
               /\ op'[s] # Idle /\ tracked'[s] = tracked[s]
<1>0. op[s] \in Operation /\ op \in [Session -> Operation] /\ tracked \in [Session -> SUBSET Meter]
  BY DEF BaseInv, TypeOK
<1>1. CASE Raise(s)
  BY <1>0, <1>1 DEF Raise
<1>2. CASE Freed(s)
  BY <1>0, <1>2 DEF Freed
<1>3. CASE op[s].left > 1 /\ Retry(s)
  <2>1. op'[s] = [op[s] EXCEPT !.left = @ - 1] /\ UNCHANGED <<life, tracked>>
    BY <1>0, <1>3 DEF Retry
  <2>2. op'[s].kind = "unlock" /\ op'[s].meter = op[s].meter
    BY <2>1, <1>0 DEF Operation
  <2> QED
    BY <2>1, <2>2, IdleIsOperation
<1> QED
  BY <1>1, <1>2, <1>3 DEF UnlockStep, UpdateUnlock, UnlockRequestLost, UnlockReplyLost, Retry

LEMMA CloseGoesOn ==
  ASSUME BaseInv, NEW s \in Session, UnlockStep(s), op[s].kind = "close"
  PROVE  \/ op'[s].kind = "close"
         \/ op'[s] = Idle /\ life'[s] # "open"
<1>0. op[s] \in Operation /\ op \in [Session -> Operation] /\ life \in [Session -> {"open", "closed", "failed", "crashed"}]
  BY DEF BaseInv, TypeOK
<1>1. CASE Raise(s)
  BY <1>0, <1>1 DEF Raise
<1>2. CASE Freed(s)
  BY <1>0, <1>2 DEF Freed, Unlocking
<1>3. CASE op[s].left > 1 /\ Retry(s)
  BY <1>0, <1>3 DEF Retry, Operation
<1> QED
  BY <1>1, <1>2, <1>3 DEF UnlockStep, UpdateUnlock, UnlockRequestLost, UnlockReplyLost, Retry

-----------------------------------------------------------------------------
(* The invariant of one step of mm, of others and of the whole. *)

LEMMA ThreadsTyped ==
  ASSUME BaseInv, GTypeOK, GNext
  PROVE  GTypeOK'
<1> USE DEF GTypeOK, ThreadStates, Ended
<1>1. ASSUME NEW s \in Group, GroupStep(s) PROVE GTypeOK'
  <2>1. CASE Start(s) \/ Leave(s) \/ Close(s) \/ Killed(s)
    BY <2>1 DEF Start, Leave, Close, Killed, NoThreads
  <2>2. CASE Unlocks(s)
    BY <2>2 DEF Unlocks, UnlockReturns
  <2>3. ASSUME NEW m \in Meter, \/ Lock(s, m) \/ LockThenRaise(s, m) \/ LockLost(s, m)
                                \/ CommandEnds(s, m) \/ Unlock(s, m)
        PROVE  GTypeOK'
    BY <2>3 DEF Lock, LockThenRaise, LockLost, CommandEnds, Unlock
  <2> QED
    BY <1>1, <2>1, <2>2, <2>3 DEF GroupStep
<1>2. CASE OthersStep
  BY <1>2 DEF OthersStep, Aside
<1>3. ASSUME NEW m \in Serviced, Deactivate(m) \/ Activate(m) PROVE GTypeOK'
  BY <1>3, ServicedAssumption DEF Deactivate, Activate
<1> QED
  BY <1>1, <1>2, <1>3 DEF GNext

\* A step of one mm keeps the invariant of that mm.
LEMMA GroupStepKeeps ==
  ASSUME BaseInv, GTypeOK, NEW s \in Group, PhaseInv(s), ListInv(s), GroupStep(s)
  PROVE  PhaseInv(s)' /\ ListInv(s)'
<1> USE GroupAssumption
<1>0. /\ s \in Session
      /\ op \in [Session -> Operation] /\ life \in [Session -> {"open", "closed", "failed", "crashed"}]
      /\ tracked \in [Session -> SUBSET Meter] /\ thread \in [Group -> [Meter -> ThreadStates]]
      /\ main \in [Group -> {"start", "results", "left"}]
      /\ op[s].kind = "none" <=> op[s] = Idle
      /\ op[s] # Idle => op[s].meter \in op[s].todo /\ op[s].todo \subseteq tracked[s]
      /\ Idle.kind = "none"
      /\ op[s].kind \in {"none", "unlock", "close"}
  BY IdleIsOperation DEF BaseInv, TypeOK, OpInv, GTypeOK, Operation
<1>1. CASE Start(s)
  <2>1. op' = op /\ life' = life /\ tracked' = tracked
    BY <1>1 DEF Start, vars
  <2>2. \A m \in Meter : thread'[s][m] = IF m \in active THEN "lock" ELSE "none"
    BY <1>0, <1>1 DEF Start
  <2>3. thread[s] = NoThreads /\ op[s].kind = "none" /\ tracked[s] = {}
    BY <1>0, <1>1 DEF Start, PhaseInv, ListInv, NoThreads
  <2>4. main'[s] = IF active = {} THEN "left" ELSE "results"
    BY <1>0, <1>1 DEF Start
  <2> QED
    BY <1>0, <1>1, <2>1, <2>2, <2>3, <2>4 DEF PhaseInv, ListInv, Ended, Start
<1>2. CASE Leave(s)
  BY <1>0, <1>2 DEF Leave, vars, PhaseInv, ListInv, Ended
<1>3. CASE Close(s)
  <2>1. main' = main /\ thread' = thread /\ tracked' = tracked /\ main[s] = "left"
    BY <1>3 DEF Close, BeginClose
  <2>2. \/ life'[s] # "open" /\ op' = op /\ op[s] = Idle
        \/ life' = life /\ op'[s].kind = "close"
    BY <1>0, <1>3 DEF Close, BeginClose, Unlocking
  <2> QED
    BY <1>0, <2>1, <2>2 DEF PhaseInv, ListInv
<1>4. CASE Killed(s)
  BY <1>0, <1>4 DEF Killed, Crash, PhaseInv, ListInv, NoThreads, Ended
<1>5. CASE Unlocks(s)
  <2>0. UnlockStep(s) /\ main' = main /\ UnlockReturns(s)
    BY <1>5 DEF Unlocks, UnlockStep
  <2>1. CASE op[s].kind = "unlock"
    <3>1. /\ life'[s] = life[s]
          /\ \/ op'[s] = Idle /\ tracked'[s] \in {tracked[s], tracked[s] \ {op[s].meter}}
             \/ /\ op'[s].kind = "unlock" /\ op'[s].meter = op[s].meter
                /\ op'[s] # Idle /\ tracked'[s] = tracked[s]
      BY <1>0, <2>0, <2>1, UnlockEnds
    <3>2. op[s].meter \in tracked[s] /\ op[s].meter \in Meter /\ main[s] = "results"
          /\ thread[s][op[s].meter] = "unlock" /\ life[s] = "open"
      BY <1>0, <2>1 DEF PhaseInv, NoThreads, Ended, BaseInv, OpInv
    <3>3. CASE op'[s] = Idle
      <4>1. thread'[s] = [thread[s] EXCEPT ![op[s].meter] =
                            IF op[s].meter \in tracked'[s] THEN "kept" ELSE "ended"]
        BY <1>0, <2>0, <2>1, <3>3 DEF UnlockReturns
      <4> QED
        BY <1>0, <2>0, <2>1, <3>1, <3>2, <3>3, <4>1 DEF PhaseInv, ListInv
    <3>4. CASE op'[s] # Idle
      BY <1>0, <2>0, <2>1, <3>1, <3>2, <3>4 DEF PhaseInv, ListInv, UnlockReturns
    <3> QED
      BY <3>3, <3>4
  <2>2. CASE op[s].kind = "close"
    BY <1>0, <2>0, <2>2, CloseGoesOn DEF PhaseInv, ListInv, UnlockReturns
  <2> QED
    BY <1>0, <2>0, <2>1, <2>2 DEF UnlockStep, UpdateUnlock, UnlockRequestLost, UnlockReplyLost
<1>6. ASSUME NEW m \in Meter, Lock(s, m) PROVE PhaseInv(s)' /\ ListInv(s)'
  <2>1. /\ thread'[s] = [thread[s] EXCEPT ![m] = "run"] /\ main' = main
        /\ tracked'[s] = tracked[s] \cup {m} /\ op' = op /\ life' = life
        /\ thread[s][m] = "lock" /\ op[s] = Idle
    BY <1>0, <1>6 DEF Lock, LockNode
  <2> QED
    BY <1>0, <2>1 DEF PhaseInv, ListInv, NoThreads, Ended
<1>10. ASSUME NEW m \in Meter, LockThenRaise(s, m) PROVE PhaseInv(s)' /\ ListInv(s)'
  <2>1. /\ thread'[s] = [thread[s] EXCEPT ![m] = "kept"] /\ main' = main
        /\ tracked'[s] = tracked[s] \cup {m} /\ op' = op /\ life' = life
        /\ thread[s][m] = "lock" /\ op[s] = Idle
    BY <1>0, <1>10 DEF LockThenRaise, LockNode
  <2> QED
    BY <1>0, <2>1 DEF PhaseInv, ListInv, NoThreads, Ended
<1>7. ASSUME NEW m \in Meter, LockLost(s, m) PROVE PhaseInv(s)' /\ ListInv(s)'
  BY <1>7, SameKeeps DEF LockLost, LockReplyLost, SameFor
<1>8. ASSUME NEW m \in Meter, CommandEnds(s, m) PROVE PhaseInv(s)' /\ ListInv(s)'
  <2>1. /\ thread'[s] = [thread[s] EXCEPT ![m] = "unlock"] /\ main' = main
        /\ tracked' = tracked /\ op' = op /\ life' = life /\ thread[s][m] = "run"
    BY <1>0, <1>8 DEF CommandEnds, vars
  <2> QED
    BY <1>0, <2>1 DEF PhaseInv, ListInv, NoThreads, Ended, BaseInv, OpInv
<1>9. ASSUME NEW m \in Meter, Unlock(s, m) PROVE PhaseInv(s)' /\ ListInv(s)'
  <2>1. /\ thread' = thread /\ main' = main /\ tracked' = tracked /\ life' = life
        /\ op'[s].kind = "unlock" /\ op'[s].meter = m /\ op[s] = Idle
        /\ thread[s][m] = "unlock" /\ life[s] = "open"
    BY <1>0, <1>9 DEF Unlock, BeginUnlock, Unlocking
  <2> QED
    BY <1>0, <2>1 DEF PhaseInv, ListInv
<1> QED
  BY <1>1, <1>2, <1>3, <1>4, <1>5, <1>6, <1>7, <1>8, <1>9, <1>10 DEF GroupStep

\* A step of one session of MeterLocks leaves what the others know alone.
LEMMA SessionStepLocal ==
  ASSUME BaseInv, NEW s \in Session, SessionStep(s), NEW t \in Session \ {s}
  PROVE  Untouched(t)
<1>1. CASE UnlockStep(s)
  BY <1>1, UnlockTouchesOne
<1>2. CASE ~UnlockStep(s)
  BY <1>2 DEF SessionStep, UnlockStep, Untouched, BaseInv, TypeOK, LockNode, LockReplyLost,
     BeginUnlock, BeginClose, CloseAgain, Crash, Open
<1> QED
  BY <1>1, <1>2

\* Every step of mm on the rows is a step of its session in MeterLocks.
LEMMA GroupStepIsStep ==
  ASSUME NEW s \in Group, GroupStep(s)
  PROVE  SessionStep(s) \/ UNCHANGED vars
BY DEF GroupStep, Start, Leave, Close, Killed, Lock, LockThenRaise, LockLost, CommandEnds, Unlock, Unlocks,
   SessionStep

LEMMA GroupStepLocal ==
  ASSUME GTypeOK, NEW s \in Group, GroupStep(s), NEW t \in Group \ {s}
  PROVE  thread'[t] = thread[t] /\ main'[t] = main[t]
BY DEF GTypeOK, GroupStep, Start, Leave, Close, Killed, Lock, LockThenRaise, LockLost,
   CommandEnds, Unlock, Unlocks, UnlockReturns

\* mm adds nothing to the rows: its steps are steps of MeterLocks, or stutter.
LEMMA GroupNextIsNext == [GNext]_gvars => [Next]_vars
<1>1. GNext => [Next]_vars
  BY GroupStepIsStep, GroupAssumption
  DEF GNext, Next, OthersStep, Others, Deactivate, Activate
<1> QED
  BY <1>1 DEF gvars

LEMMA GroupInductive ==
  /\ GInit => GroupInv
  /\ BaseInv /\ GroupInv /\ [GNext]_gvars => GroupInv'
<1>1. GInit => GroupInv
  BY GroupAssumption, IdleIsOperation
  DEF GInit, Init, GroupInv, GTypeOK, ThreadStates, Ended, NoThreads, PhaseInv, ListInv
<1>2. ASSUME BaseInv, GroupInv, NEW s \in Group, GroupStep(s) PROVE GroupInv'
  <2>1. GTypeOK'
    BY <1>2, ThreadsTyped DEF GroupInv, GNext
  <2>2. PhaseInv(s)' /\ ListInv(s)'
    BY <1>2, GroupStepKeeps DEF GroupInv
  <2>3. ASSUME NEW t \in Group \ {s} PROVE PhaseInv(t)' /\ ListInv(t)'
    <3>1. Untouched(t)
      BY <1>2, GroupStepIsStep, SessionStepLocal, GroupAssumption DEF vars, Untouched
    <3>2. SameFor(t)
      BY <1>2, <3>1, GroupStepLocal DEF GroupInv, SameFor, Untouched
    <3> QED
      BY <1>2, <3>2, SameKeeps DEF GroupInv
  <2> QED
    BY <2>1, <2>2, <2>3 DEF GroupInv
<1>3. ASSUME BaseInv, GroupInv, OthersStep PROVE GroupInv'
  <2>1. GTypeOK'
    BY <1>3, ThreadsTyped DEF GroupInv, GNext
  <2>2. ASSUME NEW t \in Group PROVE PhaseInv(t)' /\ ListInv(t)'
    <3>1. thread' = thread /\ main' = main
      BY <1>3 DEF OthersStep, Aside
    <3>2. CASE OperatorStep
      BY <1>3, <3>1, <3>2, SameKeeps
      DEF GroupInv, SameFor, OperatorStep, MdbLock, MdbUnlock, MdbResetRead, MdbResetNext
    <3>3. ASSUME NEW s \in Others, SessionStep(s) PROVE PhaseInv(t)' /\ ListInv(t)'
      <4>1. Untouched(t)
        BY <1>3, <3>3, SessionStepLocal, GroupAssumption DEF Others
      <4> QED
        BY <1>3, <3>1, <4>1, SameKeeps DEF GroupInv, SameFor, Untouched
    <3> QED
      BY <1>3, <3>2, <3>3 DEF OthersStep
  <2> QED
    BY <2>1, <2>2 DEF GroupInv
<1>4. ASSUME BaseInv, GroupInv, NEW m \in Serviced, Deactivate(m) \/ Activate(m)
      PROVE  GroupInv'
  <2>1. GTypeOK'
    BY <1>4, ThreadsTyped DEF GroupInv, GNext
  <2>2. \A t \in Group : PhaseInv(t)' /\ ListInv(t)'
    BY <1>4, SameKeeps DEF GroupInv, SameFor, Deactivate, Activate, vars
  <2> QED
    BY <2>1, <2>2 DEF GroupInv
<1>5. ASSUME GroupInv, UNCHANGED gvars PROVE GroupInv'
  BY <1>5 DEF GroupInv, gvars, vars, GTypeOK, PhaseInv, ListInv
<1> QED
  BY <1>1, <1>2, <1>3, <1>4, <1>5 DEF GNext

LEMMA GroupInvariant == GSpec => [](BaseInv /\ GroupInv)
<1>1. GInit => Init
  BY DEF GInit
<1> QED
  BY <1>1, BaseInductive, GroupInductive, GroupNextIsNext, PTL DEF GSpec

-----------------------------------------------------------------------------
(* The theorems. *)

\* Where the threads of each mm are, and which rows are active.
THEOREM GroupTypeCorrect == GSpec => []GTypeOK
<1>1. GroupInv => GTypeOK
  BY DEF GroupInv
<1> QED
  BY <1>1, GroupInvariant, PTL

\* However the commands and the unlocks of its threads end, the list of mm's
\* MeterDB holds exactly the meters that still have to be freed.
THEOREM ThreadsFreeOrList == GSpec => []ListIsWhatRuns
<1>1. GroupInv => ListIsWhatRuns
  BY DEF GroupInv, ListInv, ListIsWhatRuns
<1> QED
  BY <1>1, GroupInvariant, PTL

\* If no unlock reply is lost, no operator interferes and no close raises in an
\* outage, any number of mm's,
\* each with any number of threads, run their commands on meters of their own.
THEOREM GroupApart ==
  ASSUME NoForeignUnlock
  PROVE  GSpec => []CommandsOnOwnMeters
<1>1. ASSUME BaseInv, OwnInv, GroupInv PROVE CommandsOnOwnMeters
  <2> SUFFICES ASSUME NEW s \in Group, NEW m \in Meter, thread[s][m] = "run"
               PROVE  m \in busy /\ m \in InUse(s) /\ \A t \in Session \ {s} : m \notin InUse(t)
    BY DEF CommandsOnOwnMeters
  <2>1. s \in Session
    BY GroupAssumption
  <2>2. life[s] = "open" /\ op[s].kind # "close"
    BY <1>1 DEF GroupInv, GTypeOK, PhaseInv, Ended
  <2>3. m \in tracked[s] /\ m \in locked[s]
    BY <1>1, <2>1, <2>2 DEF GroupInv, ListInv, BaseInv, ListMatchesInstances
  <2>4. m \notin op[s].todo
    BY <1>1, <2>1, <2>2, IdleIsOperation DEF GroupInv, PhaseInv, BaseInv, OpInv, TypeOK, Operation
  <2>5. m \in InUse(s)
    BY <2>2, <2>3, <2>4 DEF InUse
  <2>6. m \in Owned(s) /\ \A t \in Session : InUse(t) \subseteq Owned(t)
    BY <1>1, <2>1, <2>5, InUseIsOwned
  <2> QED
    BY <1>1, <2>1, <2>5, <2>6 DEF OwnInv
<1>2. GInit => Init
  BY DEF GInit
<1> QED
  BY <1>1, <1>2, OwnInductive, BaseInductive, GroupInvariant, GroupNextIsNext, PTL DEF GSpec

=============================================================================
