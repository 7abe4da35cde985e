---------------------------- MODULE MCMeterSched ----------------------------
(* MeterSched with two single meters, a group that contains one of them, and *)
(* tests of every affinity, collected in mixed order.                        *)
EXTENDS MeterSched

CONSTANTS m1, m2, m3, t1, t2, t3, t4, r0, r1, r2, r3

MCMeter == {m1, m2, m3}
MCSingles == <<m1, m2>>
MCRows == <<m2, m1, m3>>
MCPeer == [m \in MCMeter |-> IF m = m1 THEN 1 ELSE 2]
MCClones == {r0, r1, r2, r3}
MCOrigin == [c \in MCClones |-> CASE c = r0 -> Default [] c = r1 -> m1 [] c = r2 -> m2
                                 [] c = r3 -> <<m2, m3>>]
MCNode == {Default, m1, m2, <<m2, m3>>} \cup MCClones
MCNodeAffinity ==
  [n \in MCNode |-> IF n \in {Default, r0} THEN "default"
                    ELSE IF n \in {m1, m2, r1, r2} THEN "single_meter" ELSE "multi_meter"]
\* With one meter at a time the group is never locked.
MCOptions == {[max_meters |-> 2, max_worker_restart |-> 1],
              [max_meters |-> 1, max_worker_restart |-> 0]}
MCAborts == {[max_meters |-> 1, max_worker_restart |-> 0]}
MCContended == {m2}
MCCollection == <<t1, t2, t3, t4>>
MCMarker == [t \in {t1, t2, t3, t4} |-> IF t = t4 THEN "single_meter" ELSE "none"]
MCFixtures ==
  [t \in {t1, t2, t3, t4} |->
     CASE t = t1 -> <<"tmp_path", "multi_meter", "meter">> [] t = t2 -> <<"meter">>
       [] t = t3 -> <<"tmp_path">> [] t = t4 -> <<"preinstalled_multi_meter">>]

\* The lists are the peer groups of two and more meters, whatever groups the
\* rows belong to and whatever order they are read in.
ASSUME ListsArePeerGroups ==
  \A rows \in SetToAllKPermutations(MCMeter), peer \in [MCMeter -> 0..2] :
    LET Together(m) == {o \in ToSet(rows) : peer[o] = peer[m]}
    IN {ToSet(l) : l \in ToSet(PeerLists(rows, peer))} =
         {Together(m) : m \in {o \in ToSet(rows) : Cardinality(Together(o)) > 1}}
=============================================================================
