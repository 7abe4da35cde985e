---------------------------- MODULE MCCleanLocks ----------------------------
(* clean_locks beside sessions with one meter, or one meter and a group. *)
EXTENDS CleanLocks

CONSTANTS n, a, g,       \* workers
          m1, m2,        \* meters
          t1, t2         \* tests

MCWorker == {n, a, g}
MCMeter == {m1, m2}
MCTest == {t1, t2}
MCOrder == <<a, g>>
MCKind == [w \in MCWorker |->
             CASE w = n -> "nometer" [] w = a -> "meter" [] w = g -> "multi"]
MCNeeds == [w \in MCWorker |-> CASE w = n -> <<>> [] w = a -> <<m1>> [] w = g -> <<m1, m2>>]

Given(workers, nometer, meter, multi) ==
  [workers |-> workers, local |-> {},
   tests |-> [k \in Kinds |-> CASE k = "nometer" -> nometer [] k = "meter" -> meter
                                [] k = "multi" -> multi]]

CleanSetups == {Given({n, a}, <<>>, <<t1>>, <<>>), Given({a, g}, <<>>, <<t1>>, <<t2>>),
                Given({n}, <<>>, <<t1>>, <<>>)}
AllHups == {"kill", "ignore"}
=============================================================================
