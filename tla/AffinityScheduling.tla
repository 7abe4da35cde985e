------------------------- MODULE AffinityScheduling -------------------------
(***************************************************************************)
(* The tests of a session are divided by affinity (plugins/affinitysched): *)
(* LoadAffinityScheduling keeps one SubLoadGroupScheduling per affinity,   *)
(* and a worker gets tests of its own affinity only.  A sub-scheduler      *)
(* numbers the tests of its affinity; a worker numbers all of them.        *)
(*                                                                         *)
(* The operators compute on a record st, the state of all schedulers:      *)
(*   scheduled  affinities whose first worker has collected                *)
(*   queue      workqueue of each affinity (every scope holds one test)    *)
(*   active     workers in assigned_work, in order of arrival              *)
(*   assigned   tests each worker was given                                *)
(*   done       tests marked complete                                      *)
(*   sent       what each worker still has to run, in its own numbers      *)
(*   shutting   workers told to shut down                                  *)
(* LoadScopeScheduling of xdist is the base class of the sub-schedulers.   *)
(***************************************************************************)
EXTENDS Naturals, Sequences, SequencesExt, FiniteSets

CONSTANTS Collection,   \* the tests in the order of collection
          Marker,       \* Marker[t]: the xdist_affinity that test t is decorated with
          Fixtures,     \* Fixtures[t]: the names of its fixtures, in pytest's order
          Node,         \* workers
          NodeAffinity  \* PYTEST_XDIST_AFFINITY of each worker

Test == ToSet(Collection)
Affinities == {"default", "single_meter", "multi_meter"}
NoMarker == "none"

ASSUME CollectionAssumption ==
  /\ Collection \in Seq(Test)
  /\ \A i, j \in DOMAIN Collection : Collection[i] = Collection[j] => i = j
  /\ Marker \in [Test -> Affinities \cup {NoMarker}]
  /\ Fixtures \in [Test -> Seq(STRING)]
ASSUME NodeAssumption == NodeAffinity \in [Node -> Affinities]

auto_marks == [single_meter |-> {"meter", "preinstalled_meter", "meter_db"},
               multi_meter  |-> {"multi_meter", "preinstalled_multi_meter"}]

\* The markers of a test, the closest first: its own, then one for each fixture
\* that needs meters.
Markers(t) ==
  LET Needs(f) == {a \in DOMAIN auto_marks : f \in auto_marks[a]}
      needing  == SelectSeq(Fixtures[t], LAMBDA f : Needs(f) # {})
  IN (IF Marker[t] = NoMarker THEN <<>> ELSE <<Marker[t]>>)
       \o [i \in DOMAIN needing |-> CHOOSE a \in Needs(needing[i]) : TRUE]

\* A worker puts the closest marker in the name of the test; the master reads it
\* there, and takes a name without one for "default".
Affinity == [t \in Test |-> IF Markers(t) = <<>> THEN "default" ELSE Head(Markers(t))]

IndexOf(s, x) == CHOOSE i \in DOMAIN s : s[i] = x

\* affinity_collections: each test is appended to that of its affinity.
SubCollection(a) ==
  LET upto[i \in 0..Len(Collection)] ==
        IF i = 0 THEN <<>>
        ELSE IF Affinity[Collection[i]] = a THEN Append(upto[i - 1], Collection[i])
        ELSE upto[i - 1]
  IN upto[Len(Collection)]

\* Numbers of a sub-scheduler and of the whole collection, both ways.
ParentIndex(a, i) == IndexOf(Collection, SubCollection(a)[i])
ChildIndex(a, j) == IndexOf(SubCollection(a), Collection[j])

NoWork == [scheduled |-> {}, queue |-> [a \in Affinities |-> <<>>],
           active |-> [a \in Affinities |-> <<>>],
           assigned |-> [n \in Node |-> <<>>], done |-> {},
           sent |-> [n \in Node |-> <<>>], shutting |-> {}]

Pending(st, n) == ToSet(st.assigned[n]) \ st.done

Shutdown(st, nodes) == [st EXCEPT !.shutting = @ \cup nodes]

\* Mutant: the worker is sent the sub-scheduler's number.
AssignUnmapped(st, n) ==
  LET a == NodeAffinity[n]
      t == Head(st.queue[a])
  IN [st EXCEPT !.queue[a] = Tail(@),
                !.assigned[n] = Append(@, t),
                !.sent[n] = IF t \in st.done THEN @
                            ELSE Append(@, IndexOf(SubCollection(a), t))]

\* Mutant: what is sent is not kept in assigned_work.
AssignUntracked(st, n) ==
  LET a == NodeAffinity[n]
      t == Head(st.queue[a])
  IN [st EXCEPT !.queue[a] = Tail(@),
                !.sent[n] = Append(@, ParentIndex(a, IndexOf(SubCollection(a), t)))]

\* The oldest unit goes to the worker; its test, unless it is complete, is
\* numbered by the sub-scheduler and renumbered for the worker.
_assign_work_unit(st, n) ==
  LET a == NodeAffinity[n]
      t == Head(st.queue[a])
  IN [st EXCEPT !.queue[a] = Tail(@),
                !.assigned[n] = Append(@, t),
                !.sent[n] = IF t \in st.done THEN @
                            ELSE Append(@, ParentIndex(a, IndexOf(SubCollection(a), t)))]

\* xdist: more work while the worker has little; nothing left shuts it down.
_reschedule(st, n) ==
  IF n \in st.shutting THEN st
  ELSE IF st.queue[NodeAffinity[n]] = <<>> THEN Shutdown(st, {n})
  ELSE IF Cardinality(Pending(st, n)) > 2 THEN st
  ELSE _assign_work_unit(st, n)

\* SubLoadGroupScheduling.schedule, for the only worker it has by then.
schedule(st, n) ==
  LET a == NodeAffinity[n]
      begun == [st EXCEPT !.scheduled = @ \cup {a}, !.queue[a] = SubCollection(a)]
      given == _reschedule(_assign_work_unit(begun, n), n)
  IN IF SubCollection(a) = <<>> THEN begun
     ELSE IF given.queue[a] = <<>> THEN Shutdown(given, {n}) ELSE given

\* The worker joins its sub-scheduler: the first one starts the schedule, a
\* later one gets a share of what is left.
add_node_collection(st, n) ==
  LET a == NodeAffinity[n]
      joined == [st EXCEPT !.active[a] = Append(@, n)]
  IN IF a \in st.scheduled THEN _reschedule(joined, n) ELSE schedule(joined, n)

\* The worker's number j is turned into the sub-scheduler's, which marks it.
mark_test_complete(st, n, j) ==
  LET a == NodeAffinity[n]
  IN _reschedule([st EXCEPT !.done = @ \cup {SubCollection(a)[ChildIndex(a, j)]}], n)

\* xdist: a worker that leaves work behind puts all its units back, and the
\* others are offered more.
remove_active(st, n) ==
  LET a == NodeAffinity[n]
      left == [st EXCEPT !.active[a] = RemoveAt(@, IndexOf(@, n)),
                         !.assigned[n] = <<>>, !.sent[n] = <<>>]
      others == left.active[a]
      offered[i \in 0..Len(others)] ==
        IF i = 0 THEN [left EXCEPT !.queue[a] = @ \o st.assigned[n]]
        ELSE _reschedule(offered[i - 1], others[i])
  IN IF Pending(st, n) = {} THEN left ELSE offered[Len(others)]

\* xdist: nothing waits, and no worker has more than one test to run.
tests_finished(st, a) ==
  /\ a \in st.scheduled
  /\ st.queue[a] = <<>>
  /\ \A n \in ToSet(st.active[a]) : Cardinality(Pending(st, n)) < 2

=============================================================================
