----------------------------- MODULE MeterSched -----------------------------
(***************************************************************************)
(* The xdist master of plugins/metersched.py: MeterScheduler locks meters  *)
(* and groups of meters while tests for them are left, starts a worker for *)
(* each, schedules the tests by affinity, and unlocks what a worker had    *)
(* when it leaves.  The loop of xdist's DSession calls it: one event of a  *)
(* worker at a time, and poll when no event waits.                         *)
(*                                                                         *)
(* A meter that is locked never returns to the list of candidates, so each *)
(* worker that poll starts is named by its meter or group.  A worker that  *)
(* crashes is replaced by xdist, as often as --max-worker-restart allows,  *)
(* by one with the same environment and no locked_meter.                   *)
(***************************************************************************)
EXTENDS AffinityScheduling, FiniteSets

CONSTANTS Meter,       \* rows of the database
          Singles,     \* the list of meters for single-meter tests
          Rows,        \* the active rows of --multi-db, as they are read
          Peer,        \* PEER_GROUP of each meter, 0 if it has none
          Default,     \* the worker that xdist starts first
          Clones,      \* workers that replace a crashed one
          Origin,      \* whose environment each of them has
          Options,     \* what --max-meters and --max-worker-restart may be
          MaxCrashes,  \* bound: workers that die
          Contended,   \* bound: meters that other sessions use as well
          Aborts       \* bound: options of the sessions that Ctrl-C or -x may end

\* sorted_by_peer: rows in the order of PEER_GROUP, and of one group as they were read.
Before(rows, peer, i) ==
  {j \in DOMAIN rows : \/ peer[rows[j]] < peer[rows[i]]
                       \/ peer[rows[j]] = peer[rows[i]] /\ j < i}
Place(rows, peer, i) == Cardinality(Before(rows, peer, i)) + 1
SortedByPeer(rows, peer) ==
  [k \in DOMAIN rows |-> rows[CHOOSE i \in DOMAIN rows : Place(rows, peer, i) = k]]

\* The list that ends joins the others, unless it is of one meter, which is rejected.
Closed(s) ==
  IF Len(s.current_list) > 1 THEN Append(s.multi_meters, s.current_list) ELSE s.multi_meters

\* A row joins the list of the row before it or begins a new one.
Swept(s, x, peer) ==
  IF s.current_list # <<>> /\ peer[Last(s.current_list)] = peer[x]
  THEN [s EXCEPT !.current_list = Append(@, x)]
  ELSE [multi_meters |-> Closed(s), current_list |-> <<x>>]

\* The lists of meters for multi-meter tests.  Rows that have no peer group at all
\* end up in one list, too.
PeerLists(rows, peer) ==
  LET lists[k \in 0..Len(rows)] ==
        IF k = 0 THEN [multi_meters |-> <<>>, current_list |-> <<>>]
        ELSE Swept(lists[k - 1], SortedByPeer(rows, peer)[k], peer)
  IN Closed(lists[Len(rows)])

\* A group is the list of its meters.
Groups == PeerLists(Rows, Peer)
Members(g) == ToSet(g)

\* Workers that poll, or xdist at its start, has started.
First == {Default} \cup ToSet(Singles) \cup ToSet(Groups)
SpecOf(n) == IF n \in Clones THEN Origin[n] ELSE n

ASSUME MeterAssumption ==
  /\ Singles \in Seq(Meter)
  /\ Rows \in Seq(Meter) /\ Peer \in [Meter -> Nat]
  /\ Default \notin ToSet(Singles) \cup ToSet(Groups)
  /\ ToSet(Singles) \cap ToSet(Groups) = {}
ASSUME CloneAssumption ==
  /\ Origin \in [Clones -> First] /\ Clones \cap First = {}
  /\ \A n \in First, o \in Options :
       Cardinality({c \in Clones : Origin[c] = n}) >= o.max_worker_restart
ASSUME WorkerAssumption ==
  /\ Node = First \cup Clones
  /\ NodeAffinity = [n \in Node |-> IF SpecOf(n) = Default THEN "default"
                                    ELSE IF SpecOf(n) \in ToSet(Singles) THEN "single_meter"
                                    ELSE "multi_meter"]
ASSUME BoundAssumption ==
  /\ Options \subseteq [max_meters : Nat, max_worker_restart : Nat] /\ MaxCrashes \in Nat
  /\ Aborts \subseteq Options /\ Contended \subseteq Meter

VARIABLES
  st,         \* the schedulers, see AffinityScheduling
  phase,      \* of each worker, as the master knows it
  finished,   \* workers whose process has ended
  reports,    \* numbers of tests a worker has run, not yet handled
  ran,        \* tests that a worker has run
  crashed,    \* workers whose process died
  collection, \* whether self.collection is set
  meters, multi_meters,               \* candidates: _meters, _multi_meters
  locked_meters, locked_multi_meters, \* what is locked, as sets
  track_locks, track_locks_multi,     \* their addresses
  cur_locked, cur_locked_multi,
  json,       \* content of parallel.locks.json
  row,        \* rows of the database: "free", "mine" or "other" session's
  expired,    \* the lock timeout has passed
  option,     \* the options of this session
  polling,    \* where poll is: "no", "assert", "single", "multiassert", "multi"
  at,         \* index of its loop
  allow_no_nodes,
  session,    \* "run", "shutdown", "ended" or "failed" (then sessionfinish), "closed"
  error       \* the exception that ended the session

runVars    == <<finished, reports, ran, crashed, collection>>
workerVars == <<st, phase, runVars>>
singleVars == <<meters, locked_meters, track_locks, cur_locked>>
multiVars  == <<multi_meters, locked_multi_meters, track_locks_multi, cur_locked_multi>>
lockVars   == <<singleVars, multiVars, json>>
tableVars  == <<row, expired, option>>
pollVars   == <<polling, at, allow_no_nodes>>
endVars    == <<session, error>>
masterVars == <<lockVars, tableVars, pollVars, endVars>>
vars       == <<workerVars, masterVars>>

Tests(a) == SubCollection(a)

\* Mutant: only workers bring a sub-scheduler with them.
KnownOfWorkers ==
  {"default"} \cup {NodeAffinity[n] : n \in {o \in Node : phase[o] \in {"pending", "active"}}}

\* Affinities that have a sub-scheduler: those of the collection, once it is known.
Known == {"default"} \cup (IF collection THEN {Affinity[t] : t \in Test} ELSE {})

\* PYTEST_XDIST_METER_TARGET, PYTEST_XDIST_MULTI_METER_TARGET.
MetersOf(n) == IF SpecOf(n) \in ToSet(Singles) THEN {SpecOf(n)}
               ELSE IF SpecOf(n) = Default THEN {} ELSE Members(SpecOf(n))

\* Workers the schedulers know: in assigned_work, or waiting to collect.
Scheduled == {n \in Node : phase[n] \in {"pending", "active"}}

Init ==
  /\ st = NoWork
  /\ phase = [n \in Node |-> IF n = Default THEN "starting" ELSE "none"]
  /\ finished = {}
  /\ reports = [n \in Node |-> <<>>]
  /\ ran = {} /\ crashed = {} /\ collection = FALSE
  /\ meters = Singles /\ multi_meters = Groups
  /\ locked_meters = {} /\ locked_multi_meters = {}
  /\ track_locks = {} /\ track_locks_multi = {}
  /\ cur_locked = 0 /\ cur_locked_multi = 0
  /\ json = {}
  /\ row = [m \in Meter |-> "free"]
  /\ expired = FALSE /\ option \in Options
  /\ polling = "no" /\ at = 1 /\ allow_no_nodes = TRUE
  /\ session = "run" /\ error = "none"

\* The master handles an event only between two polls.
Looping == session \in {"run", "shutdown"} /\ polling = "no"

\* An exception leaves the loop of the session.
Raise(e) == session' = "failed" /\ error' = e

SetRows(ms, state) == row' = [m \in Meter |-> IF m \in ms THEN state ELSE row[m]]

-----------------------------------------------------------------------------
(* Worker processes (xdist). *)

\* A worker runs a test when it knows what comes after: another or the end.
RunTest(n) ==
  /\ phase[n] = "active" /\ n \notin finished
  /\ st.sent[n] # <<>> /\ (Len(st.sent[n]) > 1 \/ n \in st.shutting)
  /\ ran' = ran \cup {Collection[Head(st.sent[n])]}
  /\ reports' = [reports EXCEPT ![n] = Append(@, Head(st.sent[n]))]
  /\ st' = [st EXCEPT !.sent[n] = Tail(@)]
  /\ UNCHANGED <<phase, finished, crashed, collection, masterVars>>

WorkerEnds(n) ==
  /\ phase[n] \in {"refused", "pending", "active"} /\ n \notin finished
  /\ n \in st.shutting /\ st.sent[n] = <<>>
  /\ finished' = finished \cup {n}
  /\ UNCHANGED <<st, phase, reports, ran, crashed, collection, masterVars>>

Crash(n) ==
  /\ Cardinality(crashed) < MaxCrashes
  /\ phase[n] \in {"starting", "refused", "pending", "active"} /\ n \notin finished
  /\ finished' = finished \cup {n}
  /\ crashed' = crashed \cup {n}
  /\ UNCHANGED <<st, phase, reports, ran, collection, masterVars>>

-----------------------------------------------------------------------------
(* Events of workers, in the order each worker sent them. *)

\* worker_workerready: add_node, or shutdown if the session is shutting down.
add_node(n) ==
  /\ Looping /\ phase[n] = "starting" /\ n \notin finished
  /\ IF session = "run"
     THEN phase' = [phase EXCEPT ![n] = "pending"] /\ UNCHANGED st
     ELSE phase' = [phase EXCEPT ![n] = "refused"] /\ st' = Shutdown(st, {n})
  /\ UNCHANGED <<runVars, masterVars>>

\* worker_collectionfinish; ignored while the session is shutting down.  xdist
\* asserts that a worker which comes later finds tests of its affinity.
NodeCollected(n) ==
  LET a == NodeAffinity[n]
  IN /\ Looping /\ session = "run" /\ phase[n] = "pending"
     /\ collection' = TRUE
     /\ IF a \in st.scheduled /\ Tests(a) = <<>>
        THEN Raise("AssertionError") /\ UNCHANGED <<st, phase>>
        ELSE /\ phase' = [phase EXCEPT ![n] = "active"]
             /\ st' = add_node_collection(st, n)
             /\ UNCHANGED endVars
     /\ UNCHANGED <<finished, reports, ran, crashed, lockVars, tableVars, pollVars>>

TestComplete(n) ==
  /\ Looping /\ reports[n] # <<>>
  /\ st' = mark_test_complete(st, n, Head(reports[n]))
  /\ reports' = [reports EXCEPT ![n] = Tail(@)]
  /\ UNCHANGED <<phase, finished, ran, crashed, collection, masterVars>>

\* Mutant: a worker without a locked_meter counts as one with a meter.
ForgetNoMeter(n) ==
  /\ locked_meters' = locked_meters \ {n} /\ track_locks' = track_locks \ {n}
  /\ cur_locked' = IF n \in locked_multi_meters THEN cur_locked ELSE cur_locked - 1
  /\ locked_multi_meters' = locked_multi_meters \ {n}
  /\ track_locks_multi' = track_locks_multi \ MetersOf(n)
  /\ cur_locked_multi' = cur_locked_multi - Cardinality(MetersOf(n) \ {n})
  /\ json' = track_locks'
  /\ UNCHANGED <<meters, multi_meters>>

\* The locked_meter of a worker leaves lists and counters.  It does not come back to
\* the candidates.  A worker that replaces another has none.
ForgetLocks(n) ==
  /\ \/ /\ n \in ToSet(Singles)
        /\ locked_meters' = locked_meters \ {n}
        /\ track_locks' = track_locks \ {n}
        /\ cur_locked' = cur_locked - 1
        /\ UNCHANGED <<locked_multi_meters, track_locks_multi, cur_locked_multi>>
     \/ /\ n \in ToSet(Groups)
        /\ locked_multi_meters' = locked_multi_meters \ {n}
        /\ track_locks_multi' = track_locks_multi \ MetersOf(n)
        /\ cur_locked_multi' = cur_locked_multi - Cardinality(MetersOf(n))
        /\ UNCHANGED <<locked_meters, track_locks, cur_locked>>
     \/ /\ n \in {Default} \cup Clones
        /\ UNCHANGED <<locked_meters, track_locks, cur_locked, locked_multi_meters,
                       track_locks_multi, cur_locked_multi>>
  /\ json' = track_locks'
  /\ UNCHANGED <<meters, multi_meters>>

\* Mutant: the row of a meter stays locked.
DropLocksOnly(n) == ForgetLocks(n) /\ UNCHANGED row

\* Mutant: all rows of the session are freed.
DropLocksAll(n) == ForgetLocks(n) /\ SetRows({m \in Meter : row[m] = "mine"}, "free")

DropLocks(n) ==
  ForgetLocks(n) /\ SetRows(IF n \in Clones THEN {} ELSE MetersOf(n), "free")

\* _failed_nodes_count: crashes that were handled.
FailedNodes == Cardinality({n \in crashed : phase[n] = "gone"})

\* worker_workerfinished and worker_errordown: remove_node.  A worker that still
\* waits to collect is looked up by del list[node], which raises TypeError; one
\* that died before add_node fails an assertion.  A worker that was refused and
\* ends is unknown to the schedulers and keeps its lock.  After a crash, once the
\* work of the worker is back in the queue and its rows are free, _clone_node
\* starts another with its environment, or the session is shut down.
remove_node(n) ==
  /\ Looping /\ n \in finished /\ phase[n] # "gone" /\ reports[n] = <<>>
  /\ \/ /\ phase[n] = "active"
        /\ DropLocks(n)
        /\ \/ /\ n \notin crashed
              /\ phase' = [phase EXCEPT ![n] = "gone"]
              /\ st' = remove_active(st, n)
              /\ UNCHANGED endVars
           \/ /\ n \in crashed /\ FailedNodes < option.max_worker_restart
              /\ \E c \in Clones :
                   /\ Origin[c] = SpecOf(n) /\ phase[c] = "none"
                   /\ phase' = [phase EXCEPT ![n] = "gone", ![c] = "starting"]
              /\ st' = remove_active(st, n)
              /\ UNCHANGED endVars
           \/ /\ n \in crashed /\ FailedNodes >= option.max_worker_restart
              /\ phase' = [phase EXCEPT ![n] = "gone"]
              /\ st' = Shutdown(remove_active(st, n), Scheduled \ {n})
              /\ session' = "shutdown" /\ UNCHANGED error
     \/ /\ phase[n] = "pending"
        /\ Raise("TypeError")
        /\ UNCHANGED <<st, phase, lockVars, row>>
     \/ /\ phase[n] \in {"starting", "refused"} /\ n \in crashed
        /\ Raise("AssertionError")
        /\ UNCHANGED <<st, phase, lockVars, row>>
     \/ /\ phase[n] = "refused" /\ n \notin crashed
        /\ phase' = [phase EXCEPT ![n] = "gone"]
        /\ UNCHANGED <<st, lockVars, row, endVars>>
  /\ UNCHANGED <<runVars, expired, option, pollVars>>

-----------------------------------------------------------------------------
(* MeterScheduler.poll *)

WantMeters(a) == Tests(a) # <<>> /\ ~tests_finished(st, a)

PollGoes(where) == polling' = where /\ at' = 1 /\ UNCHANGED allow_no_nodes
PollNext == polling' = polling /\ at' = at + 1 /\ UNCHANGED allow_no_nodes
PollStops == polling' = "no" /\ at' = 1 /\ UNCHANGED allow_no_nodes

\* The rate limit lets this call through.
BeginPoll ==
  /\ Looping /\ collection /\ Collection # <<>>
  /\ PollGoes("assert")
  /\ UNCHANGED <<workerVars, lockVars, tableVars, endVars>>

\* Tests want meters: at least one must be locked or a candidate.
poll_single_begin ==
  /\ polling = "assert"
  /\ \/ /\ ~WantMeters("single_meter")
        /\ PollGoes("multiassert")
        /\ UNCHANGED endVars
     \/ /\ WantMeters("single_meter") /\ (meters # <<>> \/ cur_locked > 0)
        /\ PollGoes("single")
        /\ UNCHANGED endVars
     \/ /\ WantMeters("single_meter") /\ meters = <<>> /\ cur_locked = 0
        /\ Raise("AssertionError")
        /\ PollStops
  /\ UNCHANGED <<workerVars, lockVars, tableVars>>

\* A candidate whose row is free: lock, start a worker, and take it out of the
\* list that the loop runs over, so that the loop skips the one after it.
LockSingle ==
  LET m == meters[at]
  IN /\ polling = "single" /\ at <= Len(meters)
     /\ cur_locked < option.max_meters /\ row[m] = "free"
     /\ SetRows({m}, "mine")
     /\ track_locks' = track_locks \cup {m}
     /\ locked_meters' = locked_meters \cup {m}
     /\ meters' = RemoveAt(meters, at)
     /\ cur_locked' = cur_locked + 1
     /\ phase' = [phase EXCEPT ![m] = "starting"]
     /\ PollNext
     /\ UNCHANGED <<st, runVars, multiVars, json, expired, option, endVars>>

\* No more meters wanted, or the row is busy: on to the next one, or the lock
\* timeout, which counts only while nothing is locked.
SkipSingle ==
  LET refused == cur_locked < option.max_meters /\ row[meters[at]] # "free"
  IN /\ polling = "single" /\ at <= Len(meters)
     /\ cur_locked >= option.max_meters \/ row[meters[at]] # "free"
     /\ IF refused /\ expired /\ cur_locked = 0
        THEN Raise("ValueError") /\ PollStops
        ELSE PollNext /\ UNCHANGED endVars
     /\ UNCHANGED <<workerVars, lockVars, tableVars>>

poll_single_end ==
  /\ polling = "single" /\ at > Len(meters)
  /\ PollGoes("multiassert")
  /\ UNCHANGED <<workerVars, lockVars, tableVars, endVars>>

poll_multi_begin ==
  /\ polling = "multiassert"
  /\ \/ /\ ~WantMeters("multi_meter")
        /\ PollGoes("end")
        /\ UNCHANGED endVars
     \/ /\ WantMeters("multi_meter") /\ (multi_meters # <<>> \/ cur_locked_multi > 0)
        /\ PollGoes("multi")
        /\ UNCHANGED endVars
     \/ /\ WantMeters("multi_meter") /\ multi_meters = <<>> /\ cur_locked_multi = 0
        /\ Raise("AssertionError")
        /\ PollStops
  /\ UNCHANGED <<workerVars, lockVars, tableVars>>

\* Mutant: what this session has locked already counts as locked for the group.
FreeOrMine(g) == \A m \in Members(g) : row[m] # "other"

FreeAll(g) == \A m \in Members(g) : row[m] = "free"
FitsGroup(g) == cur_locked_multi + Cardinality(Members(g)) <= option.max_meters

\* All members or none: what was locked of an incomplete group is unlocked
\* within the same step.
LockMulti ==
  LET g == multi_meters[at]
  IN /\ polling = "multi" /\ at <= Len(multi_meters)
     /\ FitsGroup(g) /\ FreeAll(g)
     /\ SetRows(Members(g), "mine")
     /\ track_locks_multi' = track_locks_multi \cup Members(g)
     /\ locked_multi_meters' = locked_multi_meters \cup {g}
     /\ multi_meters' = RemoveAt(multi_meters, at)
     /\ cur_locked_multi' = cur_locked_multi + Cardinality(Members(g))
     /\ phase' = [phase EXCEPT ![g] = "starting"]
     /\ PollNext
     /\ UNCHANGED <<st, runVars, singleVars, json, expired, option, endVars>>

\* Mutant: no timeout for groups.
SkipMultiForever ==
  LET g == multi_meters[at]
  IN /\ polling = "multi" /\ at <= Len(multi_meters)
     /\ ~(FitsGroup(g) /\ FreeAll(g))
     /\ PollNext
     /\ UNCHANGED <<workerVars, lockVars, tableVars, endVars>>

SkipMulti ==
  LET g == multi_meters[at]
  IN /\ polling = "multi" /\ at <= Len(multi_meters)
     /\ ~(FitsGroup(g) /\ FreeAll(g))
     /\ IF FitsGroup(g) /\ expired /\ cur_locked_multi = 0
        THEN Raise("ValueError") /\ PollStops
        ELSE PollNext /\ UNCHANGED endVars
     /\ UNCHANGED <<workerVars, lockVars, tableVars>>

poll_multi_end ==
  /\ polling = "multi" /\ at > Len(multi_meters)
  /\ PollGoes("end")
  /\ UNCHANGED <<workerVars, lockVars, tableVars, endVars>>

\* update_json writes the single meters only; without workers the session goes
\* on while tests are left.
EndPoll ==
  /\ polling = "end"
  /\ polling' = "no" /\ at' = 1
  /\ json' = track_locks
  /\ allow_no_nodes' = (\E a \in Known : ~tests_finished(st, a))
  /\ UNCHANGED <<workerVars, singleVars, multiVars, tableVars, endVars>>

-----------------------------------------------------------------------------
(* The session: DSession and the hooks of xdist_meter.py. *)

NoWorkers == \A n \in Node : phase[n] \in {"none", "gone"}

\* All schedulers say they have finished: every worker is told to shut down.
TriggerShutdown ==
  /\ Looping /\ session = "run"
  /\ \A a \in Known : tests_finished(st, a)
  /\ session' = "shutdown"
  /\ st' = Shutdown(st, Scheduled)
  /\ UNCHANGED <<phase, runVars, lockVars, tableVars, pollVars, error>>

\* The loop ends when the last worker has gone; before the shutdown that is an
\* error unless allow_no_nodes.
SessionEnds ==
  /\ Looping /\ NoWorkers
  /\ \/ session = "shutdown" /\ session' = "ended" /\ UNCHANGED error
     \/ session = "run" /\ ~allow_no_nodes /\ Raise("RuntimeError")
  /\ UNCHANGED <<workerVars, lockVars, tableVars, pollVars>>

\* Ctrl-C, or a failed test under -x.
Abort ==
  /\ option \in Aborts /\ Looping
  /\ Raise("Interrupted")
  /\ UNCHANGED <<workerVars, lockVars, tableVars, pollVars>>

\* pytest_sessionfinish: close.  unlock_multi_meters removes a whole group from
\* a list of addresses: ValueError after the first group, and no update_json.
close ==
  /\ session \in {"ended", "failed"}
  /\ session' = "closed"
  /\ locked_meters' = {} /\ track_locks' = {}
  /\ \/ /\ locked_multi_meters = {}
        /\ SetRows(locked_meters, "free")
        /\ json' = track_locks'
        /\ UNCHANGED error
     \/ \E g \in locked_multi_meters :
          /\ SetRows(locked_meters \cup Members(g), "free")
          /\ error' = "ValueError"
          /\ UNCHANGED json
  /\ UNCHANGED <<workerVars, meters, cur_locked, multiVars, expired, option, pollVars>>

LockTimeout ==
  /\ session \in {"run", "shutdown"} /\ ~expired
  /\ expired' = TRUE
  /\ UNCHANGED <<workerVars, lockVars, row, option, pollVars, endVars>>

\* Another session locks a free meter, or unlocks its own.
OtherSession(m) ==
  /\ session \in {"run", "shutdown"}
  /\ \/ row[m] = "free" /\ row' = [row EXCEPT ![m] = "other"]
     \/ row[m] = "other" /\ row' = [row EXCEPT ![m] = "free"]
  /\ UNCHANGED <<workerVars, lockVars, expired, option, pollVars, endVars>>

WorkerStep(n) == RunTest(n) \/ WorkerEnds(n)

Event ==
  \E n \in Node : add_node(n) \/ NodeCollected(n) \/ TestComplete(n) \/ remove_node(n)

Poll ==
  \/ BeginPoll \/ poll_single_begin \/ LockSingle \/ SkipSingle \/ poll_single_end
  \/ poll_multi_begin \/ LockMulti \/ SkipMulti \/ poll_multi_end \/ EndPoll

Done == session = "closed" /\ UNCHANGED vars

Next ==
  \/ \E n \in Node : WorkerStep(n) \/ Crash(n)
  \/ Event \/ Poll \/ TriggerShutdown \/ SessionEnds \/ Abort \/ close \/ LockTimeout
  \/ \E m \in Contended : OtherSession(m)
  \/ Done

MasterStep == Event \/ TriggerShutdown \/ SessionEnds

\* When MasterStep is enabled, without its effect, which is costly to evaluate.
EventWaits(n) ==
  \/ phase[n] = "starting" /\ n \notin finished
  \/ session = "run" /\ phase[n] = "pending"
  \/ reports[n] # <<>>
  \/ n \in finished /\ phase[n] # "gone"

MasterReady ==
  /\ Looping
  /\ \/ \E n \in Node : EventWaits(n)
     \/ session = "run" /\ \A a \in Known : tests_finished(st, a)
     \/ NoWorkers /\ (session = "shutdown" \/ ~allow_no_nodes)

\* Some worker that can go on does, the loop of the session does not poll for ever
\* while it has an event to handle, and time passes.  Nothing is assumed of other
\* sessions.
Fairness ==
  /\ WF_vars(\E n \in Node : WorkerStep(n))
  /\ []<>MasterReady => []<><<MasterStep>>_vars
  /\ WF_vars(Poll \/ close) /\ WF_vars(LockTimeout)

Spec == Init /\ [][Next]_vars /\ Fairness

-----------------------------------------------------------------------------
(* Properties *)

TypeOK ==
  /\ st.scheduled \subseteq Affinities
  /\ \A a \in Affinities : st.queue[a] \in Seq(Test) /\ st.active[a] \in Seq(Node)
  /\ \A n \in Node : st.assigned[n] \in Seq(Test) /\ st.sent[n] \in Seq(DOMAIN Collection)
  /\ st.done \subseteq Test /\ st.shutting \subseteq Node
  /\ phase \in [Node -> {"none", "starting", "refused", "pending", "active", "gone"}]
  /\ finished \subseteq Node /\ crashed \subseteq Node
  /\ reports \in [Node -> Seq(DOMAIN Collection)]
  /\ ran \subseteq Test /\ collection \in BOOLEAN
  /\ meters \in Seq(ToSet(Singles)) /\ multi_meters \in Seq(ToSet(Groups))
  /\ locked_meters \subseteq ToSet(Singles) /\ locked_multi_meters \subseteq ToSet(Groups)
  /\ track_locks \subseteq Meter /\ track_locks_multi \subseteq Meter
  /\ json \subseteq Meter
  /\ cur_locked \in 0..option.max_meters /\ cur_locked_multi \in 0..option.max_meters
  /\ row \in [Meter -> {"free", "mine", "other"}] /\ option \in Options
  /\ polling \in {"no", "assert", "single", "multiassert", "multi", "end"}
  /\ at \in Nat /\ allow_no_nodes \in BOOLEAN /\ expired \in BOOLEAN
  /\ session \in {"run", "shutdown", "ended", "failed", "closed"}
  /\ error \in {"none", "TypeError", "AssertionError", "ValueError", "RuntimeError",
                "Interrupted"}

Live(n) == phase[n] \in {"starting", "refused", "pending", "active"}

\* Until the session closes, a worker that poll has started and that has not gone
\* has the rows of its meters, whatever became of other workers, their
\* replacements, polls and crashes.  A worker that replaces a crashed one has none:
\* its rows were freed before it was started.
LiveWorkersHold ==
  session # "closed" => \A n \in First : Live(n) => \A m \in MetersOf(n) : row[m] = "mine"

\* No two workers that poll has started share a meter, also when a single meter is
\* a group's member.  A worker that replaces another may share its meter with one
\* that was started for it since.
WorkersApart ==
  \A n, o \in First : n # o /\ Live(n) /\ Live(o) => MetersOf(n) \cap MetersOf(o) = {}

\* The assertion of check_lock_state, and that no locked row is forgotten: the
\* counters, the lists and the rows of the session say the same until it closes.
ListsMatchRows ==
  session # "closed" =>
    /\ cur_locked = Cardinality(track_locks) /\ cur_locked = Cardinality(locked_meters)
    /\ cur_locked_multi = Cardinality(UNION {Members(g) : g \in locked_multi_meters})
    /\ {m \in Meter : row[m] = "mine"} =
         locked_meters \cup UNION {Members(g) : g \in locked_multi_meters}

\* A worker only gets tests of its own affinity, and what is marked complete is
\* what a worker has run: the two renumberings are inverse to each other.
AffinityKept ==
  /\ \A n \in Node : \A j \in ToSet(st.sent[n] \o reports[n]) :
       Affinity[Collection[j]] = NodeAffinity[n]
  /\ st.done \subseteq ran

\* Once its affinity is scheduled, a test is complete, waits in the queue, or
\* is assigned to one worker that the schedulers know, also after crashes.
NothingLost ==
  \A a \in st.scheduled : \A t \in ToSet(Tests(a)) :
    \/ t \in st.done
    \/ t \in ToSet(st.queue[a])
    \/ \E n \in ToSet(st.active[a]) : t \in ToSet(st.assigned[n])

\* A session without a crash that ends well has run every test: the shutdown
\* is never triggered while an affinity still waits for its first meter.
WellMeansAllRan ==
  session = "closed" /\ error = "none" /\ crashed = {} => ran = Test

\* What poll_multi warns of: tests want a group, and those that are left have more
\* meters than may be locked.  Nothing else is left to do.
OnlyWideGroups ==
  /\ session = "run" /\ WantMeters("multi_meter") /\ cur_locked_multi = 0
  /\ multi_meters # <<>> /\ \A g \in ToSet(multi_meters) : Cardinality(Members(g)) > option.max_meters
  /\ \A a \in Known \ {"multi_meter"} : tests_finished(st, a)

\* The session ends: no worker waits for a test for ever, and no test waits for
\* ever for a meter, whoever crashes and whatever other sessions lock.  The one
\* endless wait is that of metersched.py:177, after all other tests.
SessionCloses == <>(session = "closed") \/ <>[]OnlyWideGroups

=============================================================================
