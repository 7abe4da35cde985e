-------------------------- MODULE MCParallelRunner --------------------------
(* ParallelRunner with one thread for tests without meters, two single      *)
(* meters, a group that shares a meter with them and one that does not.     *)
EXTENDS ParallelRunner

CONSTANTS n, a, b, g, h,      \* workers
          m1, m2, m3,         \* meters
          t1, t2, t3          \* tests

MCWorker == {n, a, b, g, h}
MCMeter == {m1, m2, m3}
MCTest == {t1, t2, t3}
MCOrder == <<a, b, g, h>>
MCKind == [w \in MCWorker |->
             IF w = n THEN "nometer" ELSE IF w \in {a, b} THEN "meter" ELSE "multi"]
MCNeeds == [w \in MCWorker |->
             CASE w = n -> <<>> [] w = a -> <<m1>> [] w = b -> <<m2>>
               [] w = g -> <<m1, m2>> [] w = h -> <<m2, m3>>]

Given(workers, local, nometer, meter, multi) ==
  [workers |-> workers, local |-> local,
   tests |-> [k \in Kinds |-> CASE k = "nometer" -> nometer [] k = "meter" -> meter
                                [] k = "multi" -> multi]]

Both == {"meter", "multi"}

TwoSingles  == Given({n, a, b}, {}, <<>>, <<t1, t2>>, <<>>)
PairOneTest == Given({n, a, b}, {}, <<>>, <<t1>>, <<>>)
OneSingle   == Given({n, a}, {}, <<>>, <<t1>>, <<>>)
Mixed       == Given({n, a}, {}, <<t3>>, <<t1>>, <<>>)
GroupAfter  == Given({n, a, g}, {}, <<>>, <<t1>>, <<t2>>)
GroupBeside == Given({n, a, h}, {}, <<>>, <<t1>>, <<t2>>)
LocalPair   == Given({n, a, b}, Both, <<>>, <<t1, t2>>, <<>>)
LocalAfter  == Given({n, a, g}, Both, <<t3>>, <<t1>>, <<t2>>)
NotGiven    == Given({n}, {}, <<>>, <<t1>>, <<>>)
EarlyTests  == Given({n}, {}, <<t3>>, <<t1>>, <<>>)

NormalSetups == {TwoSingles, Mixed, GroupAfter, GroupBeside, LocalAfter, NotGiven}
SignalSetups == {PairOneTest, Mixed, GroupAfter, LocalPair, LocalAfter, EarlyTests}
SmallSetups  == {OneSingle}
=============================================================================
