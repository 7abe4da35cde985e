-------------------------- MODULE MeterSchedProofs --------------------------
(***************************************************************************)
(* Proofs about MeterSched, for any tests, meters, groups, crashes and     *)
(* other sessions.                                                         *)
(***************************************************************************)
EXTENDS MeterSched, SequenceTheorems, FiniteSetTheorems, FunctionTheorems,
        WellFoundedInduction, TLAPS

-----------------------------------------------------------------------------
(* Functions that recur over an interval *)

\* That < is well-founded, in a form that speaks of sets only.
LEMMA LeastNatural ==
  ASSUME NEW T \in SUBSET Nat, T # {}
  PROVE  \E x \in T : \A y \in T : x <= y
<1> DEFINE R == {ss \in Nat \X Nat : ss[1] < ss[2]}
<1>1. IsWellFoundedOn(R, Nat)
  BY NatLessThanWellFounded DEF OpToRel
<1>2. \E x \in T : \A y \in T : ~(<<y, x>> \in R)
  <2> HIDE DEF R
  <2> QED
    BY <1>1, WFMin
<1>3. PICK x \in T : \A y \in T : ~(<<y, x>> \in R)
  BY <1>2
<1>4. \A y \in T : x <= y
  <2> TAKE y \in T
  <2>1. <<y, x>> \in Nat \X Nat /\ <<y, x>>[1] = y /\ <<y, x>>[2] = x
    OBVIOUS
  <2>2. ~(y < x)
    BY <1>3, <2>1, Zenon
  <2> QED
    BY <2>2
<1> QED
  BY <1>4

LEMMA StepByStep ==
  ASSUME NEW N \in Nat, NEW T \in SUBSET (0..N), 0 \in T, \A i \in 1..N : i - 1 \in T => i \in T
  PROVE  T = 0..N
<1> DEFINE U == (0..N) \ T
<1>1. SUFFICES ASSUME U # {} PROVE FALSE
  OBVIOUS
<1>2. U \in SUBSET Nat
  OBVIOUS
<1>3. PICK x \in U : \A y \in U : x <= y
  <2> HIDE DEF U
  <2> QED BY <1>1, <1>2, LeastNatural
<1>4. x \in 1..N /\ x - 1 \in 0..N /\ ~(x <= x - 1)
  BY <1>3
<1>5. x - 1 \in T
  BY <1>3, <1>4
<1> QED BY <1>3, <1>4, <1>5

\* A value that is computed from x0 in N steps.
StepsOf(N, X) == [(1..N) \X X -> X]
Computed(N, X, x0, step) ==
  \E f \in [0..N -> X] : f[0] = x0 /\ \A i \in 1..N : f[i] = step[<<i, f[i - 1]>>]

LEMMA Recurs ==
  ASSUME NEW N \in Nat, NEW X, NEW x0 \in X, NEW step \in StepsOf(N, X)
  PROVE  Computed(N, X, x0, step)
<1> DEFINE Solves(f, n) == f[0] = x0 /\ \A i \in 1..n : f[i] = step[<<i, f[i - 1]>>]
           T == {n \in 0..N : \E f \in [0..n -> X] : Solves(f, n)}
<1>1. 0 \in T
  <2> DEFINE f == [i \in 0..0 |-> x0]
  <2>1. f \in [0..0 -> X] /\ Solves(f, 0) /\ 0 \in 0..N
    OBVIOUS
  <2> HIDE DEF f, Solves
  <2> QED BY <2>1
<1>2. ASSUME NEW n \in 1..N, n - 1 \in T PROVE n \in T
  <2>1. PICK f \in [0..(n - 1) -> X] : Solves(f, n - 1)
    BY <1>2
  <2> DEFINE x == step[<<n, f[n - 1]>>]
             g == [i \in 0..n |-> IF i = n THEN x ELSE f[i]]
  <2>2. x \in X
    <3>1. f[n - 1] \in X
      OBVIOUS
    <3> QED BY <3>1 DEF StepsOf
  <2>3. g \in [0..n -> X]
    BY <2>2
  <2>4. g[0] = x0 /\ g[n] = x /\ g[n - 1] = f[n - 1]
    BY <2>1
  <2>5. ASSUME NEW i \in 1..n PROVE g[i] = step[<<i, g[i - 1]>>]
    <3>1. CASE i = n
      BY <2>4, <3>1
    <3>2. CASE i # n
      <4>1. i \in 1..(n - 1) /\ i \in 0..n /\ i - 1 \in 0..n /\ i - 1 # n
        BY <3>2
      <4>2. g[i] = f[i] /\ g[i - 1] = f[i - 1]
        BY <3>2, <4>1
      <4> QED BY <2>1, <4>1, <4>2
    <3> QED BY <3>1, <3>2
  <2>6. Solves(g, n)
    BY <2>4, <2>5
  <2> HIDE DEF g, Solves
  <2> QED BY <2>3, <2>6
<1>3. T \in SUBSET (0..N)
  OBVIOUS
<1> HIDE DEF T
<1>4. T = 0..N
  BY <1>1, <1>2, <1>3, StepByStep
<1>5. N \in T
  BY <1>4
<1> QED BY <1>5 DEF T, Computed

-----------------------------------------------------------------------------
(* What is in a list *)

LEMMA Listed ==
  ASSUME NEW S, NEW s \in Seq(S)
  PROVE  /\ Len(s) \in Nat /\ DOMAIN s = 1..Len(s) /\ ToSet(s) \subseteq S
         /\ \A x : x \in ToSet(s) <=> \E i \in 1..Len(s) : s[i] = x
<1>1. Len(s) \in Nat /\ DOMAIN s = 1..Len(s) /\ \A i \in 1..Len(s) : s[i] \in S
  BY LenProperties, ElementOfSeq
<1> QED BY <1>1 DEF ToSet

LEMMA Appended ==
  ASSUME NEW S, NEW s \in Seq(S), NEW x \in S
  PROVE  Append(s, x) \in Seq(S) /\ ToSet(Append(s, x)) = ToSet(s) \cup {x}
<1>1. /\ Append(s, x) \in Seq(S) /\ Len(Append(s, x)) = Len(s) + 1 /\ Len(s) \in Nat
      /\ \A i \in 1..Len(s) : Append(s, x)[i] = s[i]
      /\ Append(s, x)[Len(s) + 1] = x
  OBVIOUS
<1>2. ASSUME NEW y \in ToSet(Append(s, x)) PROVE y \in ToSet(s) \cup {x}
  <2> DEFINE t == Append(s, x)
  <2>a. t \in Seq(S) /\ y \in ToSet(t) /\ Len(t) = Len(s) + 1
    BY <1>1, <1>2
  <2> HIDE DEF t
  <2>b. \E i \in 1..Len(s) + 1 : t[i] = y
    BY <2>a, Listed
  <2>1. PICK i \in 1..Len(s) + 1 : Append(s, x)[i] = y
    BY <2>b DEF t
  <2>2. CASE i = Len(s) + 1
    BY <1>1, <2>1, <2>2
  <2>3. CASE i \in 1..Len(s)
    BY <1>1, <2>1, <2>3, Listed
  <2> QED BY <1>1, <2>2, <2>3
<1>3. ASSUME NEW y \in ToSet(s) PROVE y \in ToSet(Append(s, x))
  <2>1. PICK i \in 1..Len(s) : s[i] = y
    BY <1>3, Listed
  <2>2. i \in 1..Len(Append(s, x)) /\ Append(s, x)[i] = y
    BY <1>1, <2>1
  <2> QED BY <1>1, <2>2, Listed
<1>4. x \in ToSet(Append(s, x))
  <2>1. Len(s) + 1 \in 1..Len(Append(s, x))
    BY <1>1
  <2> QED BY <1>1, <2>1, Listed
<1> QED BY <1>1, <1>2, <1>3, <1>4

LEMMA HeadOff ==
  ASSUME NEW S, NEW s \in Seq(S), s # <<>>
  PROVE  Head(s) \in S /\ Tail(s) \in Seq(S) /\ ToSet(s) = {Head(s)} \cup ToSet(Tail(s))
<1>1. /\ Head(s) \in S /\ Tail(s) \in Seq(S) /\ Len(Tail(s)) = Len(s) - 1
      /\ \A i \in 1..Len(Tail(s)) : Tail(s)[i] = s[i + 1]
      /\ Len(s) \in Nat \ {0} /\ Head(s) = s[1]
  BY HeadTailProperties
<1> DEFINE t == Tail(s)
<1>a. t \in Seq(S) /\ Len(t) = Len(s) - 1 /\ \A i \in 1..Len(t) : t[i] = s[i + 1]
  BY <1>1
<1> HIDE DEF t
<1>2. ASSUME NEW y \in ToSet(s) PROVE y \in {Head(s)} \cup ToSet(t)
  <2>1. PICK i \in 1..Len(s) : s[i] = y
    BY <1>2, Listed
  <2>2. CASE i = 1
    BY <1>1, <1>a, <2>1, <2>2
  <2>3. CASE i # 1
    <3>1. i - 1 \in 1..Len(t) /\ t[i - 1] = y
      BY <1>1, <1>a, <2>1, <2>3
    <3> QED BY <1>1, <1>a, <3>1, Listed
  <2> QED BY <2>2, <2>3
<1>3. ASSUME NEW y \in ToSet(t) PROVE y \in ToSet(s)
  <2>1. PICK i \in 1..Len(t) : t[i] = y
    BY <1>1, <1>a, <1>3, Listed
  <2>2. i + 1 \in 1..Len(s) /\ s[i + 1] = y
    BY <1>1, <1>a, <2>1
  <2> QED BY <2>2, Listed
<1>4. Head(s) \in ToSet(s)
  <2>1. 1 \in 1..Len(s)
    BY <1>1, <1>a
  <2> QED BY <1>1, <1>a, <2>1, Listed
<1> QED BY <1>1, <1>2, <1>3, <1>4 DEF t

LEMMA Joined ==
  ASSUME NEW S, NEW s \in Seq(S), NEW t \in Seq(S)
  PROVE  s \o t \in Seq(S) /\ ToSet(s \o t) = ToSet(s) \cup ToSet(t)
<1>1. /\ s \o t \in Seq(S) /\ Len(s \o t) = Len(s) + Len(t)
      /\ \A i \in 1..Len(s) + Len(t) : (s \o t)[i] = IF i <= Len(s) THEN s[i] ELSE t[i - Len(s)]
      /\ Len(s) \in Nat /\ Len(t) \in Nat
  BY ConcatProperties
<1>2. ASSUME NEW y \in ToSet(s \o t) PROVE y \in ToSet(s) \cup ToSet(t)
  <2>1. PICK i \in 1..Len(s) + Len(t) : (s \o t)[i] = y
    BY <1>1, <1>2, Listed
  <2>2. CASE i <= Len(s)
    <3>1. i \in 1..Len(s) /\ s[i] = y
      BY <1>1, <2>1, <2>2
    <3> QED BY <3>1, Listed
  <2>3. CASE ~(i <= Len(s))
    <3>1. i - Len(s) \in 1..Len(t) /\ t[i - Len(s)] = y
      BY <1>1, <2>1, <2>3
    <3> QED BY <3>1, Listed
  <2> QED BY <2>2, <2>3
<1>3. ASSUME NEW y \in ToSet(s) PROVE y \in ToSet(s \o t)
  <2>1. PICK i \in 1..Len(s) : s[i] = y
    BY <1>3, Listed
  <2>2. i \in 1..Len(s \o t) /\ (s \o t)[i] = y
    BY <1>1, <2>1
  <2> QED BY <1>1, <2>2, Listed
<1>4. ASSUME NEW y \in ToSet(t) PROVE y \in ToSet(s \o t)
  <2>1. PICK i \in 1..Len(t) : t[i] = y
    BY <1>4, Listed
  <2>2. /\ i + Len(s) \in 1..Len(s) + Len(t) /\ ~(i + Len(s) <= Len(s))
        /\ (i + Len(s)) - Len(s) = i
    BY <1>1
  <2>3. i + Len(s) \in 1..Len(s \o t) /\ (s \o t)[i + Len(s)] = y
    BY <1>1, <2>1, <2>2
  <2> QED BY <1>1, <2>3, Listed
<1> QED BY <1>1, <1>2, <1>3, <1>4

-----------------------------------------------------------------------------
(* The groups are lists of meters, none of them empty *)

GroupsListed ==
  Groups \in Seq(Seq(Meter)) /\ \A g \in ToSet(Groups) : Members(g) # {}

\* The rows have the places 1 to N in the order of PEER_GROUP, each its own.
LEMMA Places ==
  ASSUME NEW k \in 1..Len(Rows)
  PROVE  \E i \in 1..Len(Rows) : Place(Rows, Peer, i) = k
<1> DEFINE N == Len(Rows)
           B(i) == Before(Rows, Peer, i)
           place == [i \in 1..N |-> Place(Rows, Peer, i)]
<1>1. N \in Nat /\ DOMAIN Rows = 1..N /\ \A i \in 1..N : Peer[Rows[i]] \in Nat
  <2>1. Len(Rows) \in Nat /\ DOMAIN Rows = 1..Len(Rows) /\ \A i \in 1..Len(Rows) : Rows[i] \in Meter
    BY MeterAssumption, LenProperties, ElementOfSeq
  <2> QED BY <2>1, MeterAssumption
<1>2. \A i, j \in 1..N : j \in B(i) <=> \/ Peer[Rows[j]] < Peer[Rows[i]]
                                        \/ Peer[Rows[j]] = Peer[Rows[i]] /\ j < i
  BY <1>1 DEF Before
<1>3. \A i \in 1..N : B(i) \in SUBSET ((1..N) \ {i})
  BY <1>1 DEF Before
<1>4. IsFiniteSet(1..N) /\ Cardinality(1..N) = N
  BY <1>1, FS_Interval
<1> HIDE DEF N, B
<1>5. ASSUME NEW i \in 1..N
      PROVE  IsFiniteSet(B(i)) /\ Cardinality(B(i)) \in 0..(N - 1)
  <2>1. IsFiniteSet((1..N) \ {i}) /\ Cardinality((1..N) \ {i}) = N - 1
    BY <1>4, FS_RemoveElement
  <2>2. IsFiniteSet(B(i)) /\ Cardinality(B(i)) <= N - 1
    BY <1>3, <2>1, FS_Subset
  <2> QED BY <2>2, FS_CardinalityType
<1>6. ASSUME NEW i \in 1..N, NEW j \in 1..N, j \in B(i)
      PROVE  Cardinality(B(j)) < Cardinality(B(i))
  <2>1. B(j) \in SUBSET B(i)
    <3> SUFFICES ASSUME NEW l \in B(j) PROVE l \in B(i)
      OBVIOUS
    <3>1. l \in 1..N
      BY <1>3
    <3> QED BY <1>1, <1>2, <1>6, <3>1 DEF N
  <2>2. j \notin B(j)
    BY <1>3
  <2>3. Cardinality(B(j)) <= Cardinality(B(i)) /\ Cardinality(B(i)) # Cardinality(B(j))
    BY <1>5, <1>6, <2>1, <2>2, FS_Subset
  <2> QED BY <1>5, <2>3
<1>7. ASSUME NEW i \in 1..N, NEW j \in 1..N, i # j
      PROVE  j \in B(i) \/ i \in B(j)
  <2>1. Peer[Rows[i]] \in Nat /\ Peer[Rows[j]] \in Nat /\ i \in Int /\ j \in Int
    BY <1>1 DEF N
  <2> QED BY <1>2, <1>7, <2>1
<1>8. \A i \in 1..N : place[i] = Cardinality(B(i)) + 1
  BY DEF Place, B
<1>9. place \in Injection(1..N, 1..N)
  <2>1. place \in [1..N -> 1..N]
    <3>1. place = [i \in 1..N |-> place[i]]
      OBVIOUS
    <3> HIDE DEF place
    <3>2. ASSUME NEW i \in 1..N PROVE place[i] \in 1..N
      <4>1. Cardinality(B(i)) \in 0..(N - 1) /\ place[i] = Cardinality(B(i)) + 1
        BY <1>5, <1>8
      <4>2. N \in Nat
        BY <1>1 DEF N
      <4> QED BY <4>1, <4>2
    <3> QED BY <3>1, <3>2
  <2>2. ASSUME NEW i \in 1..N, NEW j \in 1..N, i # j PROVE place[i] # place[j]
    BY <1>5, <1>6, <1>7, <1>8, <2>2
  <2> HIDE DEF place
  <2>3. IsInjective(place)
    BY <2>1, <2>2 DEF IsInjective
  <2> QED BY <2>1, <2>3 DEF Injection
<1> HIDE DEF place
<1>10. place \in Surjection(1..N, 1..N)
  BY <1>4, <1>9, FS_Injection
<1>11. \E i \in 1..N : place[i] = k
  BY <1>10 DEF Surjection, N
<1> QED BY <1>11 DEF place, N

LEMMA SortedRows == \A k \in 1..Len(Rows) : SortedByPeer(Rows, Peer)[k] \in Meter
<1> TAKE k \in 1..Len(Rows)
<1>1. Len(Rows) \in Nat /\ DOMAIN Rows = 1..Len(Rows) /\ \A i \in 1..Len(Rows) : Rows[i] \in Meter
  BY MeterAssumption, LenProperties, ElementOfSeq
<1>2. (CHOOSE i \in DOMAIN Rows : Place(Rows, Peer, i) = k) \in 1..Len(Rows)
  BY <1>1, Places
<1> QED BY <1>1, <1>2 DEF SortedByPeer

Pairs == {l \in Seq(Meter) : Len(l) > 1}
Sweeps == [multi_meters : Seq(Pairs), current_list : Seq(Meter)]

LEMMA SweptTypes ==
  ASSUME NEW s \in Sweeps, NEW x \in Meter
  PROVE  Swept(s, x, Peer) \in Sweeps /\ Closed(s) \in Seq(Pairs)
<1>1. s.multi_meters \in Seq(Pairs) /\ s.current_list \in Seq(Meter)
  BY DEF Sweeps
<1>2. Closed(s) \in Seq(Pairs)
  <2>1. CASE Len(s.current_list) > 1
    <3>1. s.current_list \in Pairs
      BY <1>1, <2>1 DEF Pairs
    <3> QED BY <1>1, <2>1, <3>1, AppendProperties DEF Closed
  <2>2. CASE ~(Len(s.current_list) > 1)
    BY <1>1, <2>2 DEF Closed
  <2> QED BY <2>1, <2>2
<1>3. Append(s.current_list, x) \in Seq(Meter) /\ <<x>> \in Seq(Meter)
  BY <1>1, AppendProperties
<1> QED BY <1>2, <1>3 DEF Swept, Sweeps

LEMMA GroupsAreLists == GroupsListed
<1> DEFINE N == Len(Rows)
           sorted == SortedByPeer(Rows, Peer)
           start == [multi_meters |-> <<>>, current_list |-> <<>>]
           Upto(v) == [k \in 0..N |-> IF k = 0 THEN start ELSE Swept(v[k - 1], sorted[k], Peer)]
           step == [p \in (1..N) \X Sweeps |-> Swept(p[2], sorted[p[1]], Peer)]
           lists == CHOOSE v : v = Upto(v)
<1>1. N \in Nat
  BY MeterAssumption, LenProperties
<1>2. start \in Sweeps
  BY DEF Sweeps
<1>3. \A k \in 1..N : sorted[k] \in Meter
  BY SortedRows
<1>4. Groups = Closed(lists[N])
  BY DEF Groups, PeerLists
<1> HIDE DEF N, sorted, start
<1>5. step \in StepsOf(N, Sweeps)
  BY <1>3, SweptTypes DEF StepsOf
<1>6. PICK f \in [0..N -> Sweeps] : f[0] = start /\ \A k \in 1..N : f[k] = step[<<k, f[k - 1]>>]
  <2> HIDE DEF step
  <2>1. Computed(N, Sweeps, start, step)
    BY <1>1, <1>2, <1>5, Recurs
  <2> QED BY <2>1 DEF Computed
<1>7. f = Upto(f)
  <2>1. ASSUME NEW k \in 1..N PROVE f[k] = Swept(f[k - 1], sorted[k], Peer)
    <3>1. <<k, f[k - 1]>> \in (1..N) \X Sweeps
      BY <1>1
    <3> QED BY <1>6, <3>1
  <2>2. f = [k \in 0..N |-> f[k]] /\ f[0] = start
    BY <1>6
  <2>3. \A k \in 0..N : k # 0 => k \in 1..N
    BY <1>1
  <2> QED BY <2>1, <2>2, <2>3
<1>8. lists = Upto(lists)
  <2> HIDE DEF Upto
  <2> QED BY <1>7
<1> HIDE DEF lists
<1>9. lists[0] = start /\ \A k \in 1..N : lists[k] = Swept(lists[k - 1], sorted[k], Peer)
  <2>1. \A k \in 0..N : lists[k] = IF k = 0 THEN start ELSE Swept(lists[k - 1], sorted[k], Peer)
    BY <1>8
  <2>2. 0 \in 0..N /\ \A k \in 1..N : k \in 0..N /\ k # 0
    BY <1>1
  <2> HIDE DEF Upto
  <2> QED BY <2>1, <2>2
<1> DEFINE T == {k \in 0..N : lists[k] \in Sweeps}
<1>10. 0 \in T
  BY <1>1, <1>2, <1>9
<1>11. ASSUME NEW k \in 1..N, k - 1 \in T PROVE k \in T
  <2>1. lists[k - 1] \in Sweeps /\ sorted[k] \in Meter /\ k \in 0..N
    BY <1>3, <1>11
  <2> QED BY <1>9, <2>1, SweptTypes
<1>12. T = 0..N
  <2>1. T \in SUBSET (0..N)
    OBVIOUS
  <2> HIDE DEF T
  <2> QED BY <1>1, <1>10, <1>11, <2>1, StepByStep
<1>13. lists[N] \in Sweeps
  <2>1. N \in 0..N
    BY <1>1
  <2> QED BY <1>12, <2>1
<1>14. Groups \in Seq(Pairs)
  <2>1. lists[N].multi_meters \in Seq(Pairs) /\ lists[N].current_list \in Seq(Meter)
    BY <1>13 DEF Sweeps
  <2>2. CASE Len(lists[N].current_list) > 1
    <3>1. lists[N].current_list \in Pairs
      BY <2>1, <2>2 DEF Pairs
    <3> QED BY <1>4, <2>1, <2>2, <3>1, AppendProperties DEF Closed
  <2>3. CASE ~(Len(lists[N].current_list) > 1)
    BY <1>4, <2>1, <2>3 DEF Closed
  <2> QED BY <2>2, <2>3
<1>15. Groups \in Seq(Seq(Meter))
  <2>1. Pairs \subseteq Seq(Meter)
    BY DEF Pairs
  <2> QED BY <1>14, <2>1
<1>16. ASSUME NEW g \in ToSet(Groups) PROVE Members(g) # {}
  <2>1. g \in Seq(Meter) /\ Len(g) > 1
    BY <1>14, Listed DEF Pairs
  <2>2. 1 \in 1..Len(g) /\ g[1] \in ToSet(g)
    BY <2>1, Listed
  <2> QED BY <2>2 DEF Members
<1> QED BY <1>15, <1>16 DEF GroupsListed

-----------------------------------------------------------------------------
(* Who has which rows *)

Grouped(gs) == UNION {Members(g) : g \in gs}
Mine == {m \in Meter : row[m] = "mine"}

\* Candidates and locks are singles and groups.
ListTypes ==
  /\ meters \in Seq(ToSet(Singles)) /\ multi_meters \in Seq(ToSet(Groups))
  /\ locked_meters \subseteq ToSet(Singles) /\ locked_multi_meters \subseteq ToSet(Groups)
  /\ phase \in [Node -> {"none", "starting", "refused", "pending", "active", "gone"}]
  /\ row \in [Meter -> {"free", "mine", "other"}]
  /\ at \in Nat \ {0}

\* A worker that poll has started and that lives is on a list of locks; the lists have no meter twice, say
\* the same as the counters, and name the rows of the session.
Held ==
  /\ \A n \in First \ {Default} : Live(n) => n \in locked_meters \cup locked_multi_meters
  /\ \A g \in locked_multi_meters :
       /\ Members(g) \cap locked_meters = {}
       /\ \A h \in locked_multi_meters : g # h => Members(g) \cap Members(h) = {}
  /\ IsFiniteSet(locked_meters) /\ track_locks = locked_meters
  /\ cur_locked = Cardinality(locked_meters)
  /\ IsFiniteSet(Grouped(locked_multi_meters))
  /\ cur_locked_multi = Cardinality(Grouped(locked_multi_meters))
  /\ Mine = locked_meters \cup Grouped(locked_multi_meters)

\* Only a session that runs is polling, and only its loop changes the phases.
LockInv ==
  /\ ListTypes
  /\ polling # "no" => session \in {"run", "shutdown"}
  /\ IF session = "closed" THEN WorkersApart ELSE Held

LEMMA Names ==
  /\ ToSet(Singles) \subseteq Meter
  /\ \A g \in ToSet(Groups) : /\ g \in Seq(Meter) /\ Members(g) \subseteq Meter
                              /\ IsFiniteSet(Members(g))
  /\ \A m \in ToSet(Singles) : m \in Node /\ m # Default /\ m \notin ToSet(Groups)
                               /\ MetersOf(m) = {m}
  /\ \A g \in ToSet(Groups) : g \in Node /\ g # Default /\ g \notin ToSet(Singles)
                              /\ MetersOf(g) = Members(g)
  /\ Default \in Node /\ MetersOf(Default) = {}
  /\ Node = First \cup Clones /\ First = {Default} \cup ToSet(Singles) \cup ToSet(Groups)
  /\ Clones \cap First = {}
<1>1. ToSet(Singles) \subseteq Meter
  BY MeterAssumption, LenProperties, ElementOfSeq DEF ToSet
<1>2. \A g \in ToSet(Groups) : g \in Seq(Meter)
  BY GroupsAreLists, LenProperties, ElementOfSeq DEF GroupsListed, ToSet
<1>3. ASSUME NEW g \in Seq(Meter) PROVE Members(g) \subseteq Meter /\ IsFiniteSet(Members(g))
  <2>1. DOMAIN g = 1..Len(g) /\ Len(g) \in Nat /\ g \in [1..Len(g) -> Meter]
    BY LenProperties
  <2>2. IsFiniteSet(1..Len(g))
    BY <2>1, FS_Interval
  <2>3. g \in [1..Len(g) -> Members(g)]
    BY <2>1 DEF Members, ToSet
  <2>4. g \in Surjection(1..Len(g), Members(g))
    BY <2>1, <2>3 DEF Members, ToSet, Surjection
  <2> QED BY <2>1, <2>2, <2>4, FS_Surjection DEF Members, ToSet
<1>4. /\ Default \notin ToSet(Singles) \cup ToSet(Groups)
      /\ ToSet(Singles) \cap ToSet(Groups) = {}
      /\ First = {Default} \cup ToSet(Singles) \cup ToSet(Groups)
      /\ Node = First \cup Clones /\ Clones \cap First = {}
  BY MeterAssumption, CloneAssumption, WorkerAssumption DEF First
<1>5. \A n \in First : SpecOf(n) = n
  BY <1>4 DEF SpecOf
<1> QED BY <1>1, <1>2, <1>3, <1>4, <1>5 DEF MetersOf

LEMMA InitLocks == Init => LockInv
<1> SUFFICES ASSUME Init PROVE LockInv
  OBVIOUS
<1>1. meters \in Seq(ToSet(Singles)) /\ multi_meters \in Seq(ToSet(Groups))
  <2>1. \A S : \A s \in Seq(S) : s \in Seq(ToSet(s))
    BY LenProperties DEF ToSet
  <2> QED BY <2>1, GroupsAreLists, MeterAssumption DEF Init, GroupsListed
<1>2. phase \in [Node -> {"none", "starting", "refused", "pending", "active", "gone"}]
  BY DEF Init
<1>3. \A n \in First \ {Default} : ~Live(n)
  BY Names DEF Init, Live
<1>4. Mine = {} /\ Grouped({}) = {}
  BY DEF Init, Mine, Grouped
<1>5. Held
  BY <1>3, <1>4, FS_EmptySet DEF Init, Held
<1>7. ListTypes
  BY <1>1, <1>2 DEF Init, ListTypes
<1> QED BY <1>5, <1>7 DEF Init, LockInv

\* No two live workers share a meter, because the lists have no meter twice.
LEMMA HeldApart == ListTypes /\ Held => WorkersApart
<1> SUFFICES ASSUME ListTypes, Held,
                    NEW n \in First, NEW o \in First, n # o, Live(n), Live(o)
             PROVE  MetersOf(n) \cap MetersOf(o) = {}
  BY DEF WorkersApart
<1>1. CASE n = Default \/ o = Default
  BY <1>1, Names
<1>2. CASE n # Default /\ o # Default
  <2>1. n \in locked_meters \cup locked_multi_meters /\ o \in locked_meters \cup locked_multi_meters
    BY <1>2 DEF Held
  <2>2. \A x \in locked_meters : MetersOf(x) = {x}
    BY Names DEF ListTypes
  <2>3. \A x \in locked_multi_meters : MetersOf(x) = Members(x)
    BY Names DEF ListTypes
  <2> QED BY <2>1, <2>2, <2>3 DEF Held
<1> QED BY <1>1, <1>2

\* A step that leaves the locks alone: poll starts no worker, and rows change hands
\* between other sessions.
Unlocking ==
  /\ UNCHANGED <<meters, multi_meters, locked_meters, locked_multi_meters, track_locks,
                 cur_locked, cur_locked_multi>>
  /\ phase' \in [Node -> {"none", "starting", "refused", "pending", "active", "gone"}]
  /\ \A n \in First : Live(n)' => Live(n)
  /\ row' \in [Meter -> {"free", "mine", "other"}]
  /\ \A m \in Meter : row'[m] = "mine" <=> row[m] = "mine"
  /\ at' \in Nat \ {0}
  /\ session' = "closed" <=> session = "closed"
  /\ polling' # "no" => session' \in {"run", "shutdown"}

LEMMA UnlockingKeeps == LockInv /\ Unlocking => LockInv'
<1> SUFFICES ASSUME LockInv, Unlocking PROVE LockInv'
  OBVIOUS
<1>1. ListTypes'
  BY DEF LockInv, ListTypes, Unlocking
<1>2. Mine' = Mine
  BY DEF Unlocking, Mine
<1>3. Held => Held'
  BY <1>2 DEF Unlocking, Held, Grouped
<1>4. WorkersApart => WorkersApart'
  BY DEF WorkersApart, Unlocking
<1>5. session' = "closed" <=> session = "closed"
  BY DEF Unlocking, LockInv
<1> QED BY <1>1, <1>3, <1>4, <1>5 DEF LockInv, Unlocking

\* A list without one of its elements is still a list of the same.
LEMMA RemovedAt ==
  ASSUME NEW S, NEW s \in Seq(S), NEW i \in 1..Len(s)
  PROVE  RemoveAt(s, i) \in Seq(S)
<1>1. Len(s) \in Nat /\ \A k \in 1..Len(s) : s[k] \in S
  BY LenProperties, ElementOfSeq
<1>2. SubSeq(s, 1, i - 1) \in Seq(S)
  BY <1>1, SubSeqProperties
<1>3. SubSeq(s, i + 1, Len(s)) \in Seq(S)
  BY <1>1, SubSeqProperties
<1> QED BY <1>2, <1>3, ConcatProperties DEF RemoveAt

\* A free meter is on no list: the rows tell what is locked.
LEMMA LockSingleKeeps == LockInv /\ LockSingle => LockInv'
<1> SUFFICES ASSUME LockInv, LockSingle PROVE LockInv'
  OBVIOUS
<1> DEFINE m == meters[at]
<1>1. /\ polling = "single" /\ at <= Len(meters) /\ row[m] = "free"
      /\ SetRows({m}, "mine")
      /\ track_locks' = track_locks \cup {m} /\ locked_meters' = locked_meters \cup {m}
      /\ meters' = RemoveAt(meters, at) /\ cur_locked' = cur_locked + 1
      /\ phase' = [phase EXCEPT ![m] = "starting"]
      /\ at' = at + 1 /\ polling' = polling
      /\ UNCHANGED <<multi_meters, locked_multi_meters, cur_locked_multi, session>>
  BY DEF LockSingle, PollNext, multiVars, endVars
<1>2. /\ session \in {"run", "shutdown"} /\ ListTypes /\ Held
  BY <1>1 DEF LockInv
<1>3. m \in ToSet(Singles) /\ at \in 1..Len(meters)
  BY <1>1, <1>2, ElementOfSeq, LenProperties DEF ListTypes
<1>4. m \in Node /\ m # Default /\ m \in Meter /\ m \notin ToSet(Groups) /\ First \subseteq Node
  BY <1>3, Names
<1> HIDE DEF m
<1>5. m \notin locked_meters /\ m \notin Grouped(locked_multi_meters)
  BY <1>1, <1>2, <1>4 DEF Held, Mine
<1>6. ListTypes'
  <2>1. meters' \in Seq(ToSet(Singles))
    BY <1>1, <1>2, <1>3, RemovedAt DEF ListTypes
  <2>2. row' \in [Meter -> {"free", "mine", "other"}]
    BY <1>1, <1>2 DEF ListTypes, SetRows
  <2>3. phase' \in [Node -> {"none", "starting", "refused", "pending", "active", "gone"}]
    BY <1>1, <1>2 DEF ListTypes
  <2>4. at' \in Nat \ {0}
    BY <1>1, <1>2 DEF ListTypes
  <2> QED BY <1>1, <1>2, <1>3, <2>1, <2>2, <2>3, <2>4 DEF ListTypes
<1>7. Held'
  <2>1. \A n \in First \ {Default} : Live(n)' => n \in (locked_meters \cup locked_multi_meters)'
    BY <1>1, <1>2, <1>4 DEF Held, Live, ListTypes
  <2>2. \A g \in locked_multi_meters : m \notin Members(g)
    BY <1>5 DEF Grouped
  <2>3. IsFiniteSet(locked_meters') /\ cur_locked' = Cardinality(locked_meters')
    BY <1>1, <1>2, <1>5, FS_AddElement DEF Held
  <2>4. Mine' = Mine \cup {m}
    BY <1>1, <1>2, <1>4 DEF Mine, SetRows, ListTypes
  <2>5. Grouped(locked_multi_meters)' = Grouped(locked_multi_meters)
    BY <1>1 DEF Grouped
  <2> QED BY <1>1, <1>2, <2>1, <2>2, <2>3, <2>4, <2>5 DEF Held
<1> QED BY <1>1, <1>2, <1>6, <1>7 DEF LockInv

LEMMA LockMultiKeeps == LockInv /\ LockMulti => LockInv'
<1> SUFFICES ASSUME LockInv, LockMulti PROVE LockInv'
  OBVIOUS
<1> DEFINE g == multi_meters[at]
<1>1. /\ polling = "multi" /\ at <= Len(multi_meters) /\ FreeAll(g)
      /\ SetRows(Members(g), "mine")
      /\ locked_multi_meters' = locked_multi_meters \cup {g}
      /\ multi_meters' = RemoveAt(multi_meters, at)
      /\ cur_locked_multi' = cur_locked_multi + Cardinality(Members(g))
      /\ phase' = [phase EXCEPT ![g] = "starting"]
      /\ at' = at + 1 /\ polling' = polling
      /\ UNCHANGED <<meters, locked_meters, track_locks, cur_locked, session>>
  BY DEF LockMulti, PollNext, singleVars, endVars
<1>2. /\ session \in {"run", "shutdown"} /\ ListTypes /\ Held
  BY <1>1 DEF LockInv
<1>3. g \in ToSet(Groups) /\ at \in 1..Len(multi_meters)
  BY <1>1, <1>2, ElementOfSeq, LenProperties DEF ListTypes
<1>4. /\ g \in Node /\ g # Default /\ Members(g) \subseteq Meter /\ IsFiniteSet(Members(g))
      /\ First \subseteq Node
  BY <1>3, Names
<1> HIDE DEF g
<1>5. Members(g) \cap locked_meters = {} /\ Members(g) \cap Grouped(locked_multi_meters) = {}
  BY <1>1, <1>2, <1>4 DEF Held, Mine, FreeAll
<1>6. ListTypes'
  <2>1. multi_meters' \in Seq(ToSet(Groups))
    BY <1>1, <1>2, <1>3, RemovedAt DEF ListTypes
  <2>2. row' \in [Meter -> {"free", "mine", "other"}]
    BY <1>1, <1>2 DEF ListTypes, SetRows
  <2>3. phase' \in [Node -> {"none", "starting", "refused", "pending", "active", "gone"}]
    BY <1>1, <1>2 DEF ListTypes
  <2>4. at' \in Nat \ {0}
    BY <1>1, <1>2 DEF ListTypes
  <2> QED BY <1>1, <1>2, <1>3, <2>1, <2>2, <2>3, <2>4 DEF ListTypes
<1>7. Held'
  <2>1. \A n \in First \ {Default} : Live(n)' => n \in (locked_meters \cup locked_multi_meters)'
    BY <1>1, <1>2, <1>4 DEF Held, Live, ListTypes
  <2>2. \A h \in locked_multi_meters : Members(g) \cap Members(h) = {}
    BY <1>5 DEF Grouped
  <2>3. Grouped(locked_multi_meters') = Grouped(locked_multi_meters) \cup Members(g)
    BY <1>1 DEF Grouped
  <2>4. /\ IsFiniteSet(Grouped(locked_multi_meters'))
        /\ cur_locked_multi' = Cardinality(Grouped(locked_multi_meters'))
    <3>1. Grouped(locked_multi_meters) \cap Members(g) = {}
      BY <1>5
    <3>2. /\ IsFiniteSet(Grouped(locked_multi_meters))
          /\ cur_locked_multi = Cardinality(Grouped(locked_multi_meters))
      BY <1>2 DEF Held
    <3>3. Cardinality(Grouped(locked_multi_meters)) \in Nat /\ Cardinality(Members(g)) \in Nat
      BY <1>4, <3>2, FS_CardinalityType
    <3>4. Cardinality({}) = 0
      BY FS_EmptySet
    <3>5. /\ IsFiniteSet(Grouped(locked_multi_meters) \cup Members(g))
          /\ Cardinality(Grouped(locked_multi_meters) \cup Members(g)) =
               Cardinality(Grouped(locked_multi_meters)) + Cardinality(Members(g)) - 0
      BY <1>4, <3>1, <3>2, <3>4, FS_Union
    <3>6. \A a, b \in Nat : a + b - 0 = a + b
      OBVIOUS
    <3> QED BY <1>1, <2>3, <3>2, <3>3, <3>5, <3>6, Zenon
  <2>5. Mine' = Mine \cup Members(g)
    BY <1>1, <1>2, <1>4 DEF Mine, SetRows, ListTypes
  <2>6. \A h \in locked_multi_meters' :
          /\ Members(h) \cap locked_meters' = {}
          /\ \A k \in locked_multi_meters' : h # k => Members(h) \cap Members(k) = {}
    BY <1>1, <1>2, <1>5, <2>2 DEF Held
  <2> QED BY <1>1, <1>2, <2>1, <2>3, <2>4, <2>5, <2>6 DEF Held
<1> QED BY <1>1, <1>2, <1>6, <1>7 DEF LockInv

\* A worker goes, and perhaps another starts in its place.
Leaving(n) ==
  \/ phase' = [phase EXCEPT ![n] = "gone"]
  \/ \E c \in Clones : /\ phase[c] = "none"
                       /\ phase' = [phase EXCEPT ![n] = "gone", ![c] = "starting"]

LEMMA LeavingPhases ==
  ASSUME phase \in [Node -> {"none", "starting", "refused", "pending", "active", "gone"}],
         NEW n \in Node, phase[n] # "none", Leaving(n)
  PROVE  /\ phase' \in [Node -> {"none", "starting", "refused", "pending", "active", "gone"}]
         /\ phase'[n] = "gone"
         /\ \A o \in Node \ {n} :
              \/ phase'[o] = phase[o]
              \/ o \in Clones /\ phase[o] = "none" /\ phase'[o] = "starting"
<1>1. CASE phase' = [phase EXCEPT ![n] = "gone"]
  BY <1>1
<1>2. ASSUME NEW c \in Clones, phase[c] = "none",
             phase' = [phase EXCEPT ![n] = "gone", ![c] = "starting"]
      PROVE  /\ phase' \in [Node -> {"none", "starting", "refused", "pending", "active", "gone"}]
             /\ phase'[n] = "gone"
             /\ \A o \in Node \ {n} :
                  \/ phase'[o] = phase[o]
                  \/ o \in Clones /\ phase[o] = "none" /\ phase'[o] = "starting"
  BY <1>2
<1> QED BY <1>1, <1>2 DEF Leaving

\* A worker that goes takes its own meters off the lists, and frees their rows; one
\* that replaced another has none.
LEMMA RemoveKeeps ==
  ASSUME LockInv, NEW n \in Node, Looping, phase[n] = "active", Leaving(n), DropLocks(n),
         UNCHANGED <<polling, at>>, session' \in {session, "shutdown"}
  PROVE  LockInv'
<1>1. session \in {"run", "shutdown"} /\ polling = "no" /\ ListTypes /\ Held
  BY DEF Looping, LockInv
<1>3. phase' \in [Node -> {"none", "starting", "refused", "pending", "active", "gone"}]
  BY <1>1, LeavingPhases DEF ListTypes
<1>2. Live(n) /\ ~Live(n)' /\ \A o \in First : Live(o)' => Live(o)
  BY <1>1, LeavingPhases, Names DEF Live, ListTypes
<1>4. CASE n \in ToSet(Singles)
  <2>1. /\ locked_meters' = locked_meters \ {n} /\ track_locks' = track_locks \ {n}
        /\ cur_locked' = cur_locked - 1
        /\ UNCHANGED <<locked_multi_meters, cur_locked_multi, meters, multi_meters>>
        /\ SetRows({n}, "free")
    BY <1>4, Names DEF DropLocks, ForgetLocks, First
  <2>2. n \in locked_meters /\ n \in Meter /\ n # Default
    BY <1>1, <1>2, <1>4, Names DEF Held, ListTypes
  <2>3. ListTypes'
    BY <1>1, <1>3, <2>1 DEF ListTypes, SetRows
  <2>4. n \notin Grouped(locked_multi_meters)
    BY <1>1, <2>2 DEF Held, Grouped
  <2>5. Held'
    <3>1. IsFiniteSet(locked_meters') /\ cur_locked' = Cardinality(locked_meters')
      BY <1>1, <2>1, <2>2, FS_RemoveElement DEF Held
    <3>2. Mine' = Mine \ {n}
      BY <1>1, <2>1 DEF Mine, SetRows, ListTypes
    <3>3. Grouped(locked_multi_meters)' = Grouped(locked_multi_meters)
      BY <2>1 DEF Grouped
    <3>4. \A o \in First \ {Default} : Live(o)' => o \in (locked_meters \cup locked_multi_meters)'
      BY <1>1, <1>2, <2>1 DEF Held
    <3> QED BY <1>1, <2>1, <2>4, <3>1, <3>2, <3>3, <3>4 DEF Held
  <2> QED BY <1>1, <2>3, <2>5 DEF LockInv
<1>5. CASE n \in ToSet(Groups)
  <2>1. /\ locked_multi_meters' = locked_multi_meters \ {n}
        /\ cur_locked_multi' = cur_locked_multi - Cardinality(Members(n))
        /\ UNCHANGED <<locked_meters, track_locks, cur_locked, meters, multi_meters>>
        /\ SetRows(Members(n), "free")
    BY <1>5, Names DEF DropLocks, ForgetLocks, First
  <2>2. n \in locked_multi_meters /\ n # Default /\ Members(n) \subseteq Meter
        /\ IsFiniteSet(Members(n))
    BY <1>1, <1>2, <1>5, Names DEF Held, ListTypes
  <2>3. ListTypes'
    BY <1>1, <1>3, <2>1 DEF ListTypes, SetRows
  <2>4. Grouped(locked_multi_meters') = Grouped(locked_multi_meters) \ Members(n)
    BY <1>1, <2>1, <2>2 DEF Held, Grouped
  <2>5. Held'
    <3>1. /\ IsFiniteSet(Grouped(locked_multi_meters'))
          /\ cur_locked_multi' = Cardinality(Grouped(locked_multi_meters'))
      <4> DEFINE G == Grouped(locked_multi_meters)
                 R == Grouped(locked_multi_meters')
      <4>1. IsFiniteSet(G) /\ cur_locked_multi = Cardinality(G)
        BY <1>1 DEF Held
      <4>2. R \subseteq G /\ G = R \cup Members(n) /\ R \cap Members(n) = {}
        BY <2>2, <2>4 DEF Grouped
      <4> HIDE DEF G, R
      <4>3. IsFiniteSet(R) /\ Cardinality({}) = 0
        BY <4>1, <4>2, FS_Subset, FS_EmptySet
      <4>4. Cardinality(G) = Cardinality(R) + Cardinality(Members(n)) - 0
        BY <2>2, <4>2, <4>3, FS_Union
      <4>5. Cardinality(R) \in Nat /\ Cardinality(Members(n)) \in Nat
        BY <2>2, <4>3, FS_CardinalityType
      <4>6. cur_locked_multi' = Cardinality(R)
        BY <2>1, <4>1, <4>4, <4>5
      <4> QED BY <4>3, <4>6 DEF R
    <3>2. Mine' = Mine \ Members(n)
      BY <1>1, <2>1 DEF Mine, SetRows, ListTypes
    <3>3. \A o \in First \ {Default} : Live(o)' => o \in (locked_meters \cup locked_multi_meters)'
      BY <1>1, <1>2, <2>1 DEF Held
    <3>4. Members(n) \cap locked_meters = {}
      BY <1>1, <2>2 DEF Held
    <3> QED BY <1>1, <2>1, <2>4, <3>1, <3>2, <3>3, <3>4 DEF Held
  <2> QED BY <1>1, <2>3, <2>5 DEF LockInv
<1>6. CASE n \in {Default} \cup Clones
  <2>1. /\ n \notin ToSet(Singles) /\ n \notin ToSet(Groups)
        /\ n \in Clones \/ MetersOf(n) = {}
    BY <1>6, Names
  <2>2. Unlocking
    BY <1>1, <1>2, <1>3, <2>1 DEF Unlocking, DropLocks, ForgetLocks, SetRows, ListTypes
  <2> QED BY <2>2, UnlockingKeeps
<1> QED BY <1>4, <1>5, <1>6, Names

LEMMA CloseKeeps == LockInv /\ close => LockInv'
<1> SUFFICES ASSUME LockInv, close PROVE LockInv'
  OBVIOUS
<1>1. /\ session \in {"ended", "failed"} /\ session' = "closed"
      /\ UNCHANGED <<phase, meters, multi_meters, locked_multi_meters, polling, at>>
      /\ locked_meters' = {}
  BY DEF close, workerVars, multiVars, pollVars
<1>2. polling = "no" /\ ListTypes /\ WorkersApart
  BY <1>1, HeldApart DEF LockInv
<1>3. row' \in [Meter -> {"free", "mine", "other"}]
  BY <1>2 DEF close, SetRows, ListTypes
<1>4. ListTypes'
  BY <1>1, <1>2, <1>3 DEF ListTypes
<1>5. WorkersApart'
  BY <1>1, <1>2 DEF WorkersApart, Live
<1> QED BY <1>1, <1>2, <1>4, <1>5 DEF LockInv

\* The steps that lock nothing: poll starts no worker.
LEMMA OthersUnlocking ==
  ASSUME LockInv,
         \/ \E n \in Node : WorkerStep(n) \/ Crash(n) \/ add_node(n) \/ NodeCollected(n)
                              \/ TestComplete(n)
         \/ BeginPoll \/ poll_single_begin \/ SkipSingle \/ poll_single_end
         \/ poll_multi_begin \/ SkipMulti \/ poll_multi_end \/ EndPoll
         \/ TriggerShutdown \/ SessionEnds \/ Abort \/ LockTimeout
         \/ (\E m \in Contended : OtherSession(m)) \/ UNCHANGED vars
  PROVE  Unlocking
<1> USE DEF LockInv, ListTypes
<1>a. ASSUME UNCHANGED <<phase, row>>, UNCHANGED <<singleVars, multiVars>>,
             at' \in Nat \ {0}, session' = "closed" <=> session = "closed",
             polling' # "no" => session' \in {"run", "shutdown"}
      PROVE  Unlocking
  BY <1>a DEF Unlocking, singleVars, multiVars, Live
<1>1. CASE \E n \in Node : WorkerStep(n) \/ Crash(n) \/ TestComplete(n)
  <2>1. UNCHANGED <<phase, masterVars>>
    BY <1>1 DEF WorkerStep, RunTest, WorkerEnds, Crash, TestComplete
  <2> QED BY <1>a, <2>1 DEF masterVars, lockVars, tableVars, pollVars, endVars
<1>2. ASSUME NEW n \in Node, add_node(n) \/ NodeCollected(n) PROVE Unlocking
  <2>1. /\ UNCHANGED <<lockVars, tableVars, pollVars>> /\ Looping
        /\ \/ phase[n] = "starting" /\ phase' = [phase EXCEPT ![n] = "pending"]
           \/ phase[n] = "starting" /\ phase' = [phase EXCEPT ![n] = "refused"]
           \/ phase[n] = "pending" /\ phase' = [phase EXCEPT ![n] = "active"]
           \/ UNCHANGED phase
        /\ UNCHANGED endVars \/ session' = "failed"
    BY <1>2 DEF add_node, NodeCollected, masterVars, Raise
  <2>2. /\ phase' \in [Node -> {"none", "starting", "refused", "pending", "active", "gone"}]
        /\ \A o \in First : Live(o)' => Live(o)
    BY <2>1, Names DEF Live
  <2>3. session # "closed" /\ polling = "no"
    BY <2>1 DEF Looping
  <2> QED BY <2>1, <2>2, <2>3
      DEF Unlocking, lockVars, singleVars, multiVars, tableVars, pollVars, endVars
<1>3. CASE BeginPoll \/ poll_single_begin \/ SkipSingle \/ poll_single_end
             \/ poll_multi_begin \/ SkipMulti \/ poll_multi_end \/ EndPoll
  <2>1. UNCHANGED <<phase, row>> /\ UNCHANGED <<singleVars, multiVars>>
    BY <1>3 DEF BeginPoll, poll_single_begin, SkipSingle, poll_single_end, poll_multi_begin,
         SkipMulti, poll_multi_end, EndPoll, workerVars, lockVars, tableVars
  <2>2. at' \in {1, at + 1}
    BY <1>3 DEF BeginPoll, poll_single_begin, SkipSingle, poll_single_end, poll_multi_begin,
         SkipMulti, poll_multi_end, EndPoll, PollGoes, PollNext, PollStops
  <2>3. session \in {"run", "shutdown"}
    BY <1>3 DEF BeginPoll, poll_single_begin, SkipSingle, poll_single_end, poll_multi_begin,
         SkipMulti, poll_multi_end, EndPoll, Looping
  <2>4. session' = session \/ (polling' = "no" /\ session' = "failed")
    BY <1>3 DEF BeginPoll, poll_single_begin, SkipSingle, poll_single_end, poll_multi_begin,
         SkipMulti, poll_multi_end, EndPoll, Raise, PollStops, endVars
  <2> QED BY <1>a, <2>1, <2>2, <2>3, <2>4
<1>4. CASE TriggerShutdown \/ SessionEnds \/ Abort \/ LockTimeout
  <2>1. UNCHANGED <<phase, row>> /\ UNCHANGED <<singleVars, multiVars>> /\ UNCHANGED <<polling, at>>
    BY <1>4 DEF TriggerShutdown, SessionEnds, Abort, LockTimeout, workerVars, lockVars, tableVars,
         pollVars
  <2>2. session \in {"run", "shutdown"}
    BY <1>4 DEF TriggerShutdown, SessionEnds, Abort, LockTimeout, Looping
  <2>3. session' # "closed" /\ (session' = session \/ polling = "no")
    BY <1>4, <2>2 DEF TriggerShutdown, SessionEnds, Abort, LockTimeout, Looping, Raise, endVars
  <2>4. session' \in {"run", "shutdown"} \/ polling = "no"
    BY <2>2, <2>3
  <2> QED BY <1>a, <2>1, <2>2, <2>3, <2>4
<1>5. ASSUME NEW m \in Contended, OtherSession(m) PROVE Unlocking
  <2>1. m \in Meter
    BY BoundAssumption
  <2>2. row' \in [Meter -> {"free", "mine", "other"}]
        /\ \A o \in Meter : row'[o] = "mine" <=> row[o] = "mine"
    BY <1>5, <2>1 DEF OtherSession
  <2>3. UNCHANGED <<workerVars, lockVars, pollVars, endVars>>
    BY <1>5 DEF OtherSession
  <2> QED BY <2>2, <2>3
      DEF Unlocking, workerVars, lockVars, singleVars, multiVars, pollVars, endVars, Live
<1>6. CASE UNCHANGED vars
  <2>1. UNCHANGED <<workerVars, lockVars, tableVars, pollVars, endVars>>
    BY <1>6 DEF vars, masterVars
  <2> QED BY <1>a, <2>1 DEF workerVars, lockVars, tableVars, pollVars, endVars
<1> QED BY <1>1, <1>2, <1>3, <1>4, <1>5, <1>6

LEMMA NextLocks == LockInv /\ [Next]_vars => LockInv'
<1> SUFFICES ASSUME LockInv, [Next]_vars PROVE LockInv'
  OBVIOUS
<1>1. ASSUME NEW n \in Node, remove_node(n) PROVE LockInv'
  <2>1. /\ Looping /\ UNCHANGED <<polling, at>>
        /\ \/ /\ phase[n] = "active" /\ Leaving(n) /\ DropLocks(n)
              /\ session' \in {session, "shutdown"}
           \/ Raise("TypeError") /\ UNCHANGED <<phase, lockVars, row>>
           \/ Raise("AssertionError") /\ UNCHANGED <<phase, lockVars, row>>
           \/ /\ phase[n] = "refused" /\ phase' = [phase EXCEPT ![n] = "gone"]
              /\ UNCHANGED <<lockVars, row, endVars>>
    BY <1>1 DEF remove_node, pollVars, endVars, Leaving
  <2>2. session # "closed" /\ polling = "no" /\ ListTypes
    BY <2>1 DEF Looping, LockInv
  <2>3. CASE phase[n] = "active" /\ Leaving(n) /\ DropLocks(n) /\ session' \in {session, "shutdown"}
    BY <2>1, <2>3, RemoveKeeps
  <2>4. CASE (Raise("TypeError") \/ Raise("AssertionError")) /\ UNCHANGED <<phase, lockVars, row>>
    <3>1. Unlocking
      BY <2>1, <2>2, <2>4 DEF Raise, Unlocking, lockVars, singleVars, multiVars, ListTypes, Live
    <3> QED BY <3>1, UnlockingKeeps
  <2>5. CASE /\ phase[n] = "refused" /\ phase' = [phase EXCEPT ![n] = "gone"]
             /\ UNCHANGED <<lockVars, row, endVars>>
    <3>1. /\ phase' \in [Node -> {"none", "starting", "refused", "pending", "active", "gone"}]
          /\ \A o \in First : Live(o)' => Live(o)
      BY <2>2, <2>5, Names DEF Live, ListTypes
    <3>2. Unlocking
      BY <2>1, <2>2, <2>5, <3>1 DEF Unlocking, lockVars, singleVars, multiVars, endVars, ListTypes
    <3> QED BY <3>2, UnlockingKeeps
  <2> QED BY <2>1, <2>3, <2>4, <2>5
<1>2. CASE LockSingle
  BY <1>2, LockSingleKeeps
<1>3. CASE LockMulti
  BY <1>3, LockMultiKeeps
<1>4. CASE close
  BY <1>4, CloseKeeps
<1>5. CASE \/ \E n \in Node : WorkerStep(n) \/ Crash(n) \/ add_node(n) \/ NodeCollected(n)
                                \/ TestComplete(n)
           \/ BeginPoll \/ poll_single_begin \/ SkipSingle \/ poll_single_end
           \/ poll_multi_begin \/ SkipMulti \/ poll_multi_end \/ EndPoll
           \/ TriggerShutdown \/ SessionEnds \/ Abort \/ LockTimeout
           \/ (\E m \in Contended : OtherSession(m)) \/ UNCHANGED vars
  BY <1>5, OthersUnlocking, UnlockingKeeps
<1> QED BY <1>1, <1>2, <1>3, <1>4, <1>5 DEF Next, Event, Poll, Done

LEMMA LocksKept == Spec => []LockInv
<1>1. Init => LockInv
  BY InitLocks
<1>2. LockInv /\ [Next]_vars => LockInv'
  BY NextLocks
<1> QED BY <1>1, <1>2, PTL DEF Spec

\* No two workers that poll has started share a meter, for any meters, groups,
\* candidates in common, crashes and replacements (MeterScheduler.poll).
THEOREM ApartWorkers == Spec => []WorkersApart
<1>1. LockInv => WorkersApart
  BY HeldApart DEF LockInv
<1> QED BY LocksKept, <1>1, PTL

\* A worker that poll has started and that has not gone has the rows of its meters
\* until the session closes, whichever others crash and are replaced and whatever
\* other sessions lock (MeterScheduler.remove_node).
THEOREM LiveHold == Spec => []LiveWorkersHold
<1>1. LockInv => LiveWorkersHold
  <2> SUFFICES ASSUME LockInv, session # "closed", NEW n \in First, Live(n),
                      NEW m \in MetersOf(n)
               PROVE  row[m] = "mine"
    BY DEF LiveWorkersHold
  <2>1. Held /\ ListTypes
    BY DEF LockInv
  <2>2. n \in locked_meters \/ n \in locked_multi_meters
    BY <2>1, Names DEF Held
  <2>3. m \in Mine
    <3>1. CASE n \in locked_meters
      BY <2>1, <3>1, Names DEF Held, ListTypes
    <3>2. CASE n \in locked_multi_meters
      BY <2>1, <3>2, Names DEF Held, ListTypes, Grouped
    <3> QED BY <2>2, <3>1, <3>2
  <2> QED BY <2>3 DEF Mine
<1> QED BY LocksKept, <1>1, PTL

\* The counters, the lists and the rows of the session say the same until it
\* closes (check_lock_state), for any meters and groups.
THEOREM ListsMatch == Spec => []ListsMatchRows
<1>1. LockInv => ListsMatchRows
  BY DEF LockInv, Held, ListsMatchRows, Grouped, Mine
<1> QED BY LocksKept, <1>1, PTL

-----------------------------------------------------------------------------
(* Lists that have nothing twice *)

\* A list that has nothing twice.
OnceEach(s) == \A i, j \in DOMAIN s : s[i] = s[j] => i = j

LEMMA RemovedOnce ==
  ASSUME NEW S, NEW s \in Seq(S), OnceEach(s), NEW i \in 1..Len(s)
  PROVE  /\ RemoveAt(s, i) \in Seq(S) /\ OnceEach(RemoveAt(s, i))
         /\ ToSet(RemoveAt(s, i)) = ToSet(s) \ {s[i]}
<1> DEFINE r == RemoveAt(s, i)
           f == SubSeq(s, 1, i - 1)
           b == SubSeq(s, i + 1, Len(s))
<1>1. /\ Len(s) \in Nat /\ DOMAIN s = 1..Len(s) /\ \A k \in 1..Len(s) : s[k] \in S
  BY LenProperties, ElementOfSeq
<1>2. f \in Seq(S) /\ Len(f) = i - 1 /\ \A k \in 1..(i - 1) : f[k] = s[k]
  BY <1>1, SubSeqProperties
<1>3. b \in Seq(S) /\ Len(b) = Len(s) - i /\ \A k \in 1..(Len(s) - i) : b[k] = s[i + k]
  <2>1. i + 1 \in Int /\ Len(s) \in Int /\ \A k \in (i + 1)..Len(s) : s[k] \in S
    BY <1>1
  <2>2. /\ b \in Seq(S) /\ Len(b) = (IF i + 1 <= Len(s) THEN Len(s) - (i + 1) + 1 ELSE 0)
        /\ \A k \in 1..(Len(s) - (i + 1) + 1) : b[k] = s[(i + 1) + k - 1]
    BY <2>1, SubSeqProperties
  <2> HIDE DEF b
  <2>3. ASSUME NEW k \in 1..(Len(s) - i) PROVE b[k] = s[i + k]
    <3>1. k \in 1..(Len(s) - (i + 1) + 1) /\ (i + 1) + k - 1 = i + k
      BY <1>1
    <3> QED BY <2>2, <3>1
  <2>4. Len(b) = Len(s) - i
    <3>1. CASE i + 1 <= Len(s)
      <4>1. Len(b) = Len(s) - (i + 1) + 1
        BY <2>2, <3>1
      <4> QED BY <1>1, <4>1
    <3>2. CASE ~(i + 1 <= Len(s))
      <4>1. Len(b) = 0
        BY <2>2, <3>2
      <4>2. i = Len(s)
        <5>1. \A l \in Nat : \A k \in 1..l : ~(k + 1 <= l) => k = l
          OBVIOUS
        <5> QED BY <1>1, <3>2, <5>1
      <4> QED BY <1>1, <4>1, <4>2
    <3> QED BY <3>1, <3>2
  <2> QED BY <2>2, <2>3, <2>4
<1>4. r = f \o b
  BY DEF RemoveAt
<1> HIDE DEF f, b, r
<1>5. /\ r \in Seq(S) /\ Len(r) = Len(s) - 1
      /\ \A k \in 1..(Len(s) - 1) : r[k] = IF k < i THEN s[k] ELSE s[k + 1]
  <2>1. /\ f \o b \in Seq(S) /\ Len(f \o b) = Len(f) + Len(b)
        /\ \A k \in 1..(Len(f) + Len(b)) : (f \o b)[k] = IF k <= Len(f) THEN f[k] ELSE b[k - Len(f)]
    BY <1>2, <1>3, ConcatProperties
  <2>2. r \in Seq(S) /\ Len(r) = Len(s) - 1
    BY <1>1, <1>2, <1>3, <1>4, <2>1
  <2>3. ASSUME NEW k \in 1..(Len(s) - 1) PROVE r[k] = IF k < i THEN s[k] ELSE s[k + 1]
    <3>1. r[k] = IF k <= i - 1 THEN f[k] ELSE b[k - (i - 1)]
      BY <1>1, <1>2, <1>3, <1>4, <2>1
    <3>2. CASE k < i
      BY <1>1, <1>2, <3>1, <3>2
    <3>3. CASE ~(k < i)
      <4>1. k - (i - 1) \in 1..(Len(s) - i) /\ i + (k - (i - 1)) = k + 1
        BY <1>1, <3>3
      <4> QED BY <1>1, <1>3, <3>1, <3>3, <4>1
    <3> QED BY <3>2, <3>3
  <2> QED BY <2>2, <2>3
<1>6. DOMAIN r = 1..(Len(s) - 1)
  BY <1>5, LenProperties
<1>7. OnceEach(r)
  <2> SUFFICES ASSUME NEW k \in DOMAIN r, NEW l \in DOMAIN r, r[k] = r[l] PROVE k = l
    BY DEF OnceEach
  <2> DEFINE up(x) == IF x < i THEN x ELSE x + 1
  <2>1. up(k) \in DOMAIN s /\ up(l) \in DOMAIN s /\ s[up(k)] = r[k] /\ s[up(l)] = r[l]
    BY <1>1, <1>5, <1>6
  <2>2. up(k) = up(l)
    BY <2>1 DEF OnceEach
  <2> QED BY <1>1, <1>6, <2>2
<1>8. ASSUME NEW x \in ToSet(r) PROVE x \in ToSet(s) \ {s[i]}
  <2>1. PICK k \in 1..(Len(s) - 1) : r[k] = x
    BY <1>5, <1>8, Listed
  <2> DEFINE l == IF k < i THEN k ELSE k + 1
  <2>2. l \in DOMAIN s /\ l # i /\ s[l] = x
    BY <1>1, <1>5, <2>1
  <2> HIDE DEF l
  <2>3. x # s[i]
    BY <1>1, <2>2 DEF OnceEach
  <2> QED BY <1>1, <2>2, <2>3, Listed
<1>9. ASSUME NEW x \in ToSet(s) \ {s[i]} PROVE x \in ToSet(r)
  <2>1. PICK l \in 1..Len(s) : s[l] = x
    BY <1>9, Listed
  <2> DEFINE k == IF l < i THEN l ELSE l - 1
  <2>2. k \in 1..(Len(s) - 1) /\ r[k] = x
    <3>1. CASE l < i
      BY <1>1, <1>5, <2>1, <3>1
    <3>2. CASE ~(l < i)
      <4>1. l > i /\ l - 1 \in 1..(Len(s) - 1) /\ ~(l - 1 < i) /\ (l - 1) + 1 = l
        BY <1>1, <1>9, <2>1, <3>2
      <4> QED BY <1>1, <1>5, <2>1, <3>2, <4>1
    <3> QED BY <3>1, <3>2
  <2> HIDE DEF k
  <2> QED BY <1>5, <2>2, Listed
<1> QED BY <1>5, <1>7, <1>8, <1>9 DEF r

LEMMA AppendedOnce ==
  ASSUME NEW S, NEW s \in Seq(S), OnceEach(s), NEW x \in S, x \notin ToSet(s)
  PROVE  OnceEach(Append(s, x)) /\ ToSet(Append(s, x)) = ToSet(s) \cup {x}
<1> DEFINE r == Append(s, x)
<1>1. /\ r \in Seq(S) /\ Len(r) = Len(s) + 1 /\ Len(s) \in Nat
      /\ \A i \in 1..Len(s) : r[i] = s[i]
      /\ r[Len(s) + 1] = x
  OBVIOUS
<1>2. DOMAIN r = 1..(Len(s) + 1) /\ DOMAIN s = 1..Len(s)
  BY <1>1, LenProperties
<1> HIDE DEF r
<1>3. \A i \in 1..Len(s) : s[i] # x
  BY Listed
<1>4. ASSUME NEW i \in DOMAIN r, NEW j \in DOMAIN r, r[i] = r[j] PROVE i = j
  <2>1. CASE i = Len(s) + 1 \/ j = Len(s) + 1
    BY <1>1, <1>2, <1>3, <1>4, <2>1
  <2>2. CASE i \in 1..Len(s) /\ j \in 1..Len(s)
    BY <1>1, <1>2, <1>4, <2>2 DEF OnceEach
  <2> QED BY <1>1, <1>2, <2>1, <2>2
<1> QED BY <1>4, Appended DEF OnceEach, r

-----------------------------------------------------------------------------
(* The tests of an affinity *)

\* The tests of affinity a.
Of(a) == {t \in Test : Affinity[t] = a}

LEMMA Collected ==
  /\ Collection \in Seq(Test) /\ Len(Collection) \in Nat /\ DOMAIN Collection = 1..Len(Collection)
  /\ \A i \in 1..Len(Collection) : Collection[i] \in Test
  /\ \A t \in Test : \E i \in 1..Len(Collection) : Collection[i] = t
<1>1. Collection \in Seq(Test)
  BY CollectionAssumption
<1>2. Len(Collection) \in Nat /\ DOMAIN Collection = 1..Len(Collection)
  BY <1>1, LenProperties
<1> QED BY <1>1, <1>2 DEF Test, ToSet

\* Each affinity gets its tests and no others.
LEMMA SubTests ==
  ASSUME NEW a
  PROVE  SubCollection(a) \in Seq(Test) /\ ToSet(SubCollection(a)) = Of(a)
<1> DEFINE N == Len(Collection)
           Upto(u) == [i \in 0..N |->
                         IF i = 0 THEN <<>>
                         ELSE IF Affinity[Collection[i]] = a THEN Append(u[i - 1], Collection[i])
                         ELSE u[i - 1]]
           step == [p \in (1..N) \X Seq(Test) |->
                      IF Affinity[Collection[p[1]]] = a THEN Append(p[2], Collection[p[1]])
                      ELSE p[2]]
           u == CHOOSE v : v = Upto(v)
<1>1. N \in Nat /\ <<>> \in Seq(Test) /\ step \in [(1..N) \X Seq(Test) -> Seq(Test)]
  <2>1. ASSUME NEW p \in (1..N) \X Seq(Test)
        PROVE  (IF Affinity[Collection[p[1]]] = a THEN Append(p[2], Collection[p[1]])
                ELSE p[2]) \in Seq(Test)
    <3>1. p[1] \in 1..N /\ p[2] \in Seq(Test)
      OBVIOUS
    <3>2. Collection[p[1]] \in Test
      BY <3>1, Collected
    <3> QED BY <3>1, <3>2
  <2> QED BY <2>1, Collected
<1>2. PICK f \in [0..N -> Seq(Test)] :
        f[0] = <<>> /\ \A i \in 1..N : f[i] = step[<<i, f[i - 1]>>]
  <2> DEFINE X == Seq(Test)
             x0 == <<>>
  <2>1. N \in Nat /\ x0 \in X /\ step \in [(1..N) \X X -> X]
    BY <1>1
  <2>2. Computed(N, X, x0, step)
    <3> HIDE DEF N, step, X, x0
    <3>1. step \in StepsOf(N, X)
      BY <2>1 DEF StepsOf
    <3> QED BY <2>1, <3>1, Recurs
  <2> QED BY <2>2 DEF Computed
<1>3. f = Upto(f)
  <2>1. ASSUME NEW i \in 1..N
        PROVE  f[i] = IF Affinity[Collection[i]] = a THEN Append(f[i - 1], Collection[i])
                      ELSE f[i - 1]
    <3>1. f[i - 1] \in Seq(Test)
      BY <1>1
    <3>2. <<i, f[i - 1]>> \in (1..N) \X Seq(Test)
      BY <3>1
    <3> QED BY <1>2, <3>2
  <2>2. f = [i \in 0..N |-> f[i]] /\ f[0] = <<>>
    BY <1>2
  <2>3. \A i \in 0..N : i # 0 => i \in 1..N
    BY <1>1
  <2> HIDE DEF N
  <2> QED BY <2>1, <2>2, <2>3
<1>4. u = Upto(u)
  <2> HIDE DEF Upto
  <2> QED BY <1>3
<1>5. SubCollection(a) = u[N]
  BY DEF SubCollection
<1> HIDE DEF u
<1>6. /\ u[0] = <<>>
      /\ \A i \in 1..N : u[i] = IF Affinity[Collection[i]] = a THEN Append(u[i - 1], Collection[i])
                                ELSE u[i - 1]
  <2>1. \A i \in 0..N : u[i] = IF i = 0 THEN <<>>
                               ELSE IF Affinity[Collection[i]] = a THEN Append(u[i - 1], Collection[i])
                               ELSE u[i - 1]
    BY <1>4
  <2>2. 0 \in 0..N /\ \A i \in 1..N : i \in 0..N /\ i # 0
    BY <1>1
  <2> HIDE DEF N, Upto
  <2> QED BY <2>1, <2>2
<1> DEFINE Right(i) == /\ u[i] \in Seq(Test)
                       /\ \A t : t \in ToSet(u[i]) <=>
                            t \in Of(a) /\ \E k \in 1..i : Collection[k] = t
           T == {i \in 0..N : Right(i)}
<1>7. 0 \in T
  <2>1. 0 \in 0..N /\ ~\E k \in 1..0 : TRUE
    BY <1>1
  <2>2. ToSet(<<>>) = {} /\ <<>> \in Seq(Test)
    BY DEF ToSet
  <2> QED BY <1>6, <2>1, <2>2
<1>8. ASSUME NEW i \in 1..N, i - 1 \in T PROVE i \in T
  <2> DEFINE c == Collection[i]
  <2>1. Right(i - 1) /\ c \in Test /\ i \in 0..N
    BY <1>8, Collected
  <2>2. \A t : (\E k \in 1..i : Collection[k] = t) <=> t = c \/ (\E k \in 1..(i - 1) : Collection[k] = t)
    <3>1. 1..i = (1..(i - 1)) \cup {i}
      OBVIOUS
    <3> QED BY <3>1
  <2>3. CASE Affinity[c] = a
    <3>1. u[i] = Append(u[i - 1], c) /\ c \in Of(a)
      BY <1>6, <2>1, <2>3 DEF Of
    <3>2. u[i] \in Seq(Test) /\ ToSet(u[i]) = ToSet(u[i - 1]) \cup {c}
      BY <2>1, <3>1, Appended
    <3> QED BY <2>1, <2>2, <3>1, <3>2
  <2>4. CASE Affinity[c] # a
    <3>1. u[i] = u[i - 1] /\ c \notin Of(a)
      BY <1>6, <2>4 DEF Of
    <3> QED BY <2>1, <2>2, <3>1
  <2> QED BY <2>3, <2>4
<1>9. T \in SUBSET (0..N)
  OBVIOUS
<1> HIDE DEF T
<1>10. T = 0..N
  BY <1>1, <1>7, <1>8, <1>9, StepByStep
<1>11. Right(N)
  <2>1. N \in T
    BY <1>1, <1>10
  <2> QED BY <2>1 DEF T
<1>12. \A t \in Of(a) : \E k \in 1..N : Collection[k] = t
  BY Collected DEF Of
<1> QED BY <1>5, <1>11, <1>12

-----------------------------------------------------------------------------
(* The schedulers: what their operations keep *)

Schedulers ==
  [scheduled : SUBSET Affinities, queue : [Affinities -> Seq(Test)],
   active : [Affinities -> Seq(Node)], assigned : [Node -> Seq(Test)], done : SUBSET Test,
   sent : [Node -> Seq(DOMAIN Collection)], shutting : SUBSET Node]

Numbers == [Node -> Seq(DOMAIN Collection)]

\* A queue has tests of its affinity, and a worker was given tests of its own.
Sorted(s) ==
  /\ \A a \in Affinities : ToSet(s.queue[a]) \subseteq Of(a)
  /\ \A n \in Node : /\ ToSet(s.assigned[n]) \subseteq Of(NodeAffinity[n])
                     /\ \A j \in ToSet(s.sent[n]) : Affinity[Collection[j]] = NodeAffinity[n]

\* Nothing is lost, in terms of the tests of an affinity.
Kept(s) ==
  \A a \in s.scheduled : \A t \in Of(a) :
    t \in s.done \/ t \in ToSet(s.queue[a]) \/ \E n \in ToSet(s.active[a]) : t \in ToSet(s.assigned[n])

\* What a worker was given and has not completed it still has to run or to report.
Tracked(s, reps) ==
  \A n \in Node : \A t \in ToSet(s.assigned[n]) \ s.done :
    \E j \in ToSet(s.sent[n]) \cup ToSet(reps[n]) : Collection[j] = t

Good(s, reps) == s \in Schedulers /\ Sorted(s) /\ Kept(s) /\ Tracked(s, reps)

\* From s to u work was offered to workers of N, and to those only that are not
\* told to shut down; a queue that was empty stays empty.
Offered(s, u, N) ==
  /\ u.scheduled = s.scheduled /\ u.active = s.active /\ u.done = s.done
  /\ s.shutting \subseteq u.shutting /\ u.shutting \subseteq s.shutting \cup N
  /\ \A o \in Node : o \notin N \/ o \in s.shutting =>
       u.assigned[o] = s.assigned[o] /\ u.sent[o] = s.sent[o]
  /\ \A a \in Affinities : s.queue[a] = <<>> => u.queue[a] = <<>>

LEMMA Affine == \A n \in Node : NodeAffinity[n] \in Affinities
BY NodeAssumption

\* The number that the worker gets is that of the test in its own collection.
LEMMA Renumbered ==
  ASSUME NEW a, NEW t \in Of(a)
  PROVE  /\ ParentIndex(a, IndexOf(SubCollection(a), t)) \in DOMAIN Collection
         /\ Collection[ParentIndex(a, IndexOf(SubCollection(a), t))] = t
<1> DEFINE sub == SubCollection(a)
           i == IndexOf(sub, t)
           j == IndexOf(Collection, t)
<1>1. \E k \in DOMAIN sub : sub[k] = t
  <2>1. sub \in Seq(Test) /\ t \in ToSet(sub)
    BY SubTests
  <2> HIDE DEF sub
  <2> QED BY <2>1, Listed
<1>2. sub[i] = t
  BY <1>1 DEF IndexOf
<1>3. \E k \in DOMAIN Collection : Collection[k] = t
  BY Collected DEF Of
<1>4. j \in DOMAIN Collection /\ Collection[j] = t
  BY <1>3 DEF IndexOf
<1>5. ParentIndex(a, i) = j
  BY <1>2 DEF ParentIndex
<1> QED BY <1>4, <1>5

\* And the number it reports is turned into that of the same test.
LEMMA RenumberedBack ==
  ASSUME NEW a, NEW j \in DOMAIN Collection, Affinity[Collection[j]] = a
  PROVE  SubCollection(a)[ChildIndex(a, j)] = Collection[j]
<1> DEFINE sub == SubCollection(a)
           t == Collection[j]
<1>1. t \in Of(a)
  BY Collected DEF Of
<1>2. \E k \in DOMAIN sub : sub[k] = t
  <2>1. sub \in Seq(Test) /\ t \in ToSet(sub)
    BY <1>1, SubTests
  <2> HIDE DEF sub
  <2> QED BY <2>1, Listed
<1> QED BY <1>2 DEF ChildIndex, IndexOf

\* The test of a unit is given to the worker, which is sent its number unless the
\* test is complete.
LEMMA AssignKeeps ==
  ASSUME NEW s, NEW reps \in Numbers, NEW n \in Node, Good(s, reps),
         n \in ToSet(s.active[NodeAffinity[n]]), s.queue[NodeAffinity[n]] # <<>>
  PROVE  LET u == _assign_work_unit(s, n)
         IN /\ Good(u, reps) /\ u.shutting = s.shutting
            /\ n \notin s.shutting => Offered(s, u, {n})
            /\ \A o \in Node \ {n} : u.assigned[o] = s.assigned[o] /\ u.sent[o] = s.sent[o]
            /\ u.scheduled = s.scheduled /\ u.active = s.active /\ u.done = s.done
<1> DEFINE a == NodeAffinity[n]
           t == Head(s.queue[a])
           j == ParentIndex(a, IndexOf(SubCollection(a), t))
           u == _assign_work_unit(s, n)
<1>1. /\ s \in Schedulers /\ Sorted(s) /\ Kept(s) /\ Tracked(s, reps) /\ a \in Affinities
      /\ s.queue[a] \in Seq(Test) /\ s.assigned[n] \in Seq(Test)
      /\ s.sent[n] \in Seq(DOMAIN Collection)
  BY Affine DEF Good, Schedulers
<1>2. t \in Test /\ Tail(s.queue[a]) \in Seq(Test) /\ ToSet(s.queue[a]) = {t} \cup ToSet(Tail(s.queue[a]))
  BY <1>1, HeadOff
<1>3. t \in Of(a)
  BY <1>1, <1>2 DEF Sorted
<1>4. j \in DOMAIN Collection /\ Collection[j] = t
  BY <1>3, Renumbered
<1> HIDE DEF j, t
<1>5. /\ Append(s.assigned[n], t) \in Seq(Test)
      /\ ToSet(Append(s.assigned[n], t)) = ToSet(s.assigned[n]) \cup {t}
  BY <1>1, <1>2, Appended
<1>6. /\ Append(s.sent[n], j) \in Seq(DOMAIN Collection)
      /\ ToSet(Append(s.sent[n], j)) = ToSet(s.sent[n]) \cup {j}
  BY <1>1, <1>4, Appended
<1>7. /\ u.queue = [s.queue EXCEPT ![a] = Tail(s.queue[a])]
      /\ u.assigned = [s.assigned EXCEPT ![n] = Append(s.assigned[n], t)]
      /\ u.sent = [s.sent EXCEPT ![n] = IF t \in s.done THEN s.sent[n] ELSE Append(s.sent[n], j)]
      /\ u.scheduled = s.scheduled /\ u.active = s.active /\ u.done = s.done
      /\ u.shutting = s.shutting
      /\ u = [scheduled |-> u.scheduled, queue |-> u.queue, active |-> u.active,
              assigned |-> u.assigned, done |-> u.done, sent |-> u.sent, shutting |-> u.shutting]
  <2>1. u = [s EXCEPT !.queue[a] = Tail(@), !.assigned[n] = Append(@, t),
                      !.sent[n] = IF t \in s.done THEN @ ELSE Append(@, j)]
    BY DEF _assign_work_unit, t, j
  <2> HIDE DEF u
  <2>2. /\ u.queue = [s.queue EXCEPT ![a] = Tail(s.queue[a])]
        /\ u.assigned = [s.assigned EXCEPT ![n] = Append(s.assigned[n], t)]
    BY <1>1, <2>1 DEF Schedulers
  <2>3. u.sent = [s.sent EXCEPT ![n] = IF t \in s.done THEN s.sent[n] ELSE Append(s.sent[n], j)]
    BY <1>1, <2>1 DEF Schedulers
  <2>4. /\ u.scheduled = s.scheduled /\ u.active = s.active /\ u.done = s.done
        /\ u.shutting = s.shutting
    BY <1>1, <2>1 DEF Schedulers
  <2>5. u = [scheduled |-> u.scheduled, queue |-> u.queue, active |-> u.active,
             assigned |-> u.assigned, done |-> u.done, sent |-> u.sent, shutting |-> u.shutting]
    BY <1>1, <2>1 DEF Schedulers
  <2> QED BY <2>2, <2>3, <2>4, <2>5
<1> HIDE DEF u
<1>8. u \in Schedulers
  <2>1. /\ u.queue \in [Affinities -> Seq(Test)] /\ u.assigned \in [Node -> Seq(Test)]
        /\ u.sent \in [Node -> Seq(DOMAIN Collection)]
    BY <1>1, <1>2, <1>5, <1>6, <1>7 DEF Schedulers
  <2> QED BY <1>1, <1>7, <2>1 DEF Schedulers
<1>9. /\ u.queue[a] = Tail(s.queue[a]) /\ \A b \in Affinities \ {a} : u.queue[b] = s.queue[b]
      /\ u.assigned[n] = Append(s.assigned[n], t)
      /\ u.sent[n] = IF t \in s.done THEN s.sent[n] ELSE Append(s.sent[n], j)
      /\ \A o \in Node \ {n} : u.assigned[o] = s.assigned[o] /\ u.sent[o] = s.sent[o]
  BY <1>1, <1>7 DEF Schedulers
<1>10. Sorted(u)
  <2>1. \A b \in Affinities : ToSet(u.queue[b]) \subseteq Of(b)
    BY <1>1, <1>2, <1>9 DEF Sorted
  <2>2. \A o \in Node : ToSet(u.assigned[o]) \subseteq Of(NodeAffinity[o])
    <3>1. ToSet(u.assigned[n]) \subseteq Of(a)
      <4>1. ToSet(s.assigned[n]) \subseteq Of(a)
        BY <1>1 DEF Sorted
      <4>2. ToSet(u.assigned[n]) = ToSet(s.assigned[n]) \cup {t}
        BY <1>5, <1>9
      <4> QED BY <1>3, <4>1, <4>2
    <3> QED BY <1>1, <1>9, <3>1 DEF Sorted
  <2>3. \A o \in Node : \A k \in ToSet(u.sent[o]) : Affinity[Collection[k]] = NodeAffinity[o]
    <3>1. Affinity[Collection[j]] = a
      BY <1>3, <1>4 DEF Of
    <3>2. ToSet(u.sent[n]) \subseteq ToSet(s.sent[n]) \cup {j}
      BY <1>6, <1>9
    <3> QED BY <1>1, <1>9, <3>1, <3>2 DEF Sorted
  <2> QED BY <2>1, <2>2, <2>3 DEF Sorted
<1>11. Kept(u)
  <2> SUFFICES ASSUME NEW b \in u.scheduled, NEW x \in Of(b), x \notin u.done,
                      x \notin ToSet(u.queue[b])
               PROVE  \E o \in ToSet(u.active[b]) : x \in ToSet(u.assigned[o])
    BY DEF Kept
  <2>0. b \in Affinities /\ b \in s.scheduled /\ ToSet(s.active[b]) \subseteq Node
    BY <1>1, <1>7, Listed DEF Schedulers
  <2>1. CASE x \in ToSet(s.queue[b])
    <3>1. b = a /\ x = t
      BY <1>2, <1>9, <2>0, <2>1
    <3> QED BY <1>5, <1>7, <1>9, <3>1
  <2>2. CASE x \notin ToSet(s.queue[b])
    <3>1. PICK o \in ToSet(s.active[b]) : x \in ToSet(s.assigned[o])
      BY <1>1, <1>7, <2>0, <2>2 DEF Kept
    <3>2. x \in ToSet(u.assigned[o])
      BY <1>5, <1>9, <2>0, <3>1
    <3> QED BY <1>7, <3>1, <3>2
  <2> QED BY <2>1, <2>2
<1>12. Tracked(u, reps)
  <2> SUFFICES ASSUME NEW o \in Node, NEW x \in ToSet(u.assigned[o]) \ u.done
               PROVE  \E k \in ToSet(u.sent[o]) \cup ToSet(reps[o]) : Collection[k] = x
    BY DEF Tracked
  <2>1. CASE x \in ToSet(s.assigned[o])
    <3>1. PICK k \in ToSet(s.sent[o]) \cup ToSet(reps[o]) : Collection[k] = x
      BY <1>1, <1>7, <2>1 DEF Tracked
    <3>2. ToSet(s.sent[o]) \subseteq ToSet(u.sent[o])
      BY <1>6, <1>9
    <3> QED BY <3>1, <3>2
  <2>2. CASE x \notin ToSet(s.assigned[o])
    <3>1. o = n /\ x = t /\ t \notin s.done
      BY <1>5, <1>7, <1>9, <2>2
    <3>2. j \in ToSet(u.sent[n])
      BY <1>6, <1>9, <3>1
    <3> QED BY <1>4, <3>1, <3>2
  <2> QED BY <2>1, <2>2
<1>13. \A b \in Affinities : s.queue[b] = <<>> => u.queue[b] = <<>>
  BY <1>9
<1>14. n \notin s.shutting => Offered(s, u, {n})
  BY <1>7, <1>9, <1>13 DEF Offered
<1> QED BY <1>7, <1>8, <1>9, <1>10, <1>11, <1>12, <1>14 DEF Good, u

LEMMA OfferedTwice ==
  ASSUME NEW s, NEW u, NEW v, NEW N, Offered(s, u, N), Offered(u, v, N)
  PROVE  Offered(s, v, N)
BY DEF Offered

\* What Good says depends on these parts only.
LEMMA Shutting ==
  ASSUME NEW s, NEW reps \in Numbers, NEW N \in SUBSET Node, Good(s, reps)
  PROVE  LET u == Shutdown(s, N)
         IN /\ Good(u, reps) /\ Offered(s, u, N) /\ u.shutting = s.shutting \cup N
            /\ u.queue = s.queue /\ u.assigned = s.assigned /\ u.sent = s.sent
<1> DEFINE u == Shutdown(s, N)
<1>1. /\ u.queue = s.queue /\ u.assigned = s.assigned /\ u.sent = s.sent
      /\ u.scheduled = s.scheduled /\ u.active = s.active /\ u.done = s.done
      /\ u.shutting = s.shutting \cup N /\ u \in Schedulers
  BY DEF Shutdown, Good, Schedulers
<1> HIDE DEF u
<1>2. Sorted(u) /\ Kept(u) /\ Tracked(u, reps)
  BY <1>1 DEF Good, Sorted, Kept, Tracked
<1>3. Offered(s, u, N)
  BY <1>1 DEF Offered
<1> QED BY <1>1, <1>2, <1>3 DEF Good, u

LEMMA Rescheduled ==
  ASSUME NEW s, NEW reps \in Numbers, NEW n \in Node, Good(s, reps),
         n \in ToSet(s.active[NodeAffinity[n]])
  PROVE  Good(_reschedule(s, n), reps) /\ Offered(s, _reschedule(s, n), {n})
<1>1. Offered(s, s, {n})
  BY DEF Offered
<1>2. CASE n \in s.shutting
  BY <1>1, <1>2 DEF _reschedule
<1>3. CASE n \notin s.shutting
  <2>1. CASE s.queue[NodeAffinity[n]] = <<>>
    <3>1. _reschedule(s, n) = Shutdown(s, {n})
      BY <1>3, <2>1 DEF _reschedule
    <3> QED BY <3>1, Shutting
  <2>2. CASE s.queue[NodeAffinity[n]] # <<>>
    <3>1. _reschedule(s, n) \in {s, _assign_work_unit(s, n)}
      BY <1>3, <2>2 DEF _reschedule
    <3>2. /\ Good(_assign_work_unit(s, n), reps)
          /\ Offered(s, _assign_work_unit(s, n), {n})
      BY <1>3, <2>2, AssignKeeps
    <3> QED BY <1>1, <3>1, <3>2
  <2> QED BY <2>1, <2>2
<1> QED BY <1>2, <1>3

\* From s to u worker n has joined: what others have is theirs.
Joins(s, u, n) ==
  /\ u.scheduled = s.scheduled \cup {NodeAffinity[n]} /\ u.done = s.done
  /\ s.shutting \subseteq u.shutting /\ u.shutting \subseteq s.shutting \cup {n}
  /\ \A o \in Node \ {n} : u.assigned[o] = s.assigned[o] /\ u.sent[o] = s.sent[o]

\* The first worker of an affinity begins its schedule.
LEMMA Begun ==
  ASSUME NEW s, NEW reps \in Numbers, NEW n \in Node, Good(s, reps), n \notin s.shutting,
         n \in ToSet(s.active[NodeAffinity[n]])
  PROVE  LET u == schedule(s, n) IN Good(u, reps) /\ Joins(s, u, n) /\ u.active = s.active
<1> DEFINE a == NodeAffinity[n]
           b == [s EXCEPT !.scheduled = @ \cup {a}, !.queue[a] = SubCollection(a)]
           c == _assign_work_unit(b, n)
           d == _reschedule(c, n)
           u == schedule(s, n)
<1>1. a \in Affinities /\ s \in Schedulers /\ SubCollection(a) \in Seq(Test)
      /\ ToSet(SubCollection(a)) = Of(a)
  BY Affine, SubTests DEF Good
<1>2. /\ b.scheduled = s.scheduled \cup {a} /\ b.queue = [s.queue EXCEPT ![a] = SubCollection(a)]
      /\ b.active = s.active /\ b.assigned = s.assigned /\ b.sent = s.sent
      /\ b.done = s.done /\ b.shutting = s.shutting /\ b \in Schedulers
  BY <1>1 DEF Schedulers
<1>3. u = IF SubCollection(a) = <<>> THEN b
          ELSE IF d.queue[a] = <<>> THEN Shutdown(d, {n}) ELSE d
  BY DEF schedule
<1> HIDE DEF b
<1>4. Good(b, reps)
  <2>1. b.queue[a] = SubCollection(a) /\ \A e \in Affinities \ {a} : b.queue[e] = s.queue[e]
    BY <1>1, <1>2 DEF Schedulers
  <2>2. Sorted(b)
    <3>1. \A e \in Affinities : ToSet(b.queue[e]) \subseteq Of(e)
      <4>1. ToSet(b.queue[a]) \subseteq Of(a)
        BY <1>1, <2>1
      <4> QED BY <1>1, <2>1, <4>1 DEF Good, Sorted
    <3> QED BY <1>2, <3>1 DEF Good, Sorted
  <2>3. Kept(b)
    <3> SUFFICES ASSUME NEW e \in b.scheduled, NEW t \in Of(e)
                 PROVE  \/ t \in b.done \/ t \in ToSet(b.queue[e])
                        \/ \E o \in ToSet(b.active[e]) : t \in ToSet(b.assigned[o])
      BY DEF Kept
    <3>1. CASE e = a
      BY <1>1, <2>1, <3>1
    <3>2. CASE e # a
      BY <1>1, <1>2, <2>1, <3>2 DEF Good, Kept, Schedulers
    <3> QED BY <3>1, <3>2
  <2>4. Tracked(b, reps)
    BY <1>2 DEF Good, Tracked
  <2> QED BY <1>2, <2>2, <2>3, <2>4 DEF Good
<1>5. CASE SubCollection(a) = <<>>
  <2>1. u = b
    BY <1>3, <1>5
  <2> HIDE DEF u
  <2> QED BY <1>2, <1>4, <2>1 DEF Joins, u
<1>6. CASE SubCollection(a) # <<>>
  <2>1. b.queue[a] # <<>> /\ n \notin b.shutting /\ n \in ToSet(b.active[a])
    BY <1>1, <1>2, <1>6 DEF Schedulers
  <2>2. Good(c, reps) /\ Offered(b, c, {n}) /\ c.active = b.active
    BY <1>4, <2>1, AssignKeeps
  <2> HIDE DEF c
  <2>3. Good(d, reps) /\ Offered(c, d, {n})
    BY <2>1, <2>2, Rescheduled
  <2> HIDE DEF d
  <2>4. Offered(b, d, {n})
    BY <2>2, <2>3, OfferedTwice
  <2>5. Good(Shutdown(d, {n}), reps) /\ Offered(d, Shutdown(d, {n}), {n})
    BY <2>3, Shutting
  <2>6. Offered(b, Shutdown(d, {n}), {n})
    BY <2>4, <2>5, OfferedTwice
  <2>7. Good(u, reps) /\ Offered(b, u, {n})
    BY <1>3, <1>6, <2>3, <2>4, <2>5, <2>6
  <2> HIDE DEF u
  <2>8. Joins(s, u, n) /\ u.active = s.active
    BY <1>2, <2>7 DEF Joins, Offered
  <2> QED BY <2>7, <2>8 DEF u
<1> QED BY <1>5, <1>6

\* A worker that joins, first or not.
LEMMA Added ==
  ASSUME NEW s, NEW reps \in Numbers, NEW n \in Node, Good(s, reps), n \notin s.shutting
  PROVE  LET u == add_node_collection(s, n)
             a == NodeAffinity[n]
         IN /\ Good(u, reps) /\ Joins(s, u, n)
            /\ u.active = [s.active EXCEPT ![a] = Append(s.active[a], n)]
<1> DEFINE a == NodeAffinity[n]
           b == [s EXCEPT !.active[a] = Append(@, n)]
           u == add_node_collection(s, n)
<1>1. a \in Affinities /\ s \in Schedulers /\ s.active[a] \in Seq(Node)
  BY Affine DEF Good, Schedulers
<1>2. Append(s.active[a], n) \in Seq(Node) /\ ToSet(Append(s.active[a], n)) = ToSet(s.active[a]) \cup {n}
  BY <1>1, Appended
<1>3. /\ b.active = [s.active EXCEPT ![a] = Append(s.active[a], n)]
      /\ b.scheduled = s.scheduled /\ b.queue = s.queue /\ b.assigned = s.assigned
      /\ b.sent = s.sent /\ b.done = s.done /\ b.shutting = s.shutting /\ b \in Schedulers
  BY <1>1, <1>2 DEF Schedulers
<1>4. u = IF a \in s.scheduled THEN _reschedule(b, n) ELSE schedule(b, n)
  BY <1>3 DEF add_node_collection
<1> HIDE DEF b, u
<1>5. \A e \in Affinities : ToSet(s.active[e]) \subseteq ToSet(b.active[e])
  BY <1>1, <1>2, <1>3 DEF Schedulers
<1>6. n \in ToSet(b.active[a])
  BY <1>1, <1>2, <1>3 DEF Schedulers
<1>7. Good(b, reps)
  <2>1. Kept(b)
    <3> SUFFICES ASSUME NEW e \in b.scheduled, NEW t \in Of(e)
                 PROVE  \/ t \in b.done \/ t \in ToSet(b.queue[e])
                        \/ \E o \in ToSet(b.active[e]) : t \in ToSet(b.assigned[o])
      BY DEF Kept
    <3>1. e \in s.scheduled /\ e \in Affinities
      BY <1>1, <1>3 DEF Schedulers
    <3> QED BY <1>3, <1>5, <3>1 DEF Good, Kept
  <2> QED BY <1>3, <2>1 DEF Good, Sorted, Tracked
<1>8. CASE a \in s.scheduled
  <2>1. Good(_reschedule(b, n), reps) /\ Offered(b, _reschedule(b, n), {n})
    BY <1>6, <1>7, Rescheduled
  <2>2. Good(u, reps) /\ Offered(b, u, {n})
    BY <1>4, <1>8, <2>1
  <2> QED BY <1>3, <1>8, <2>2 DEF Offered, Joins, u
<1>9. CASE a \notin s.scheduled
  <2>1. n \notin b.shutting
    BY <1>3
  <2>2. LET v == schedule(b, n) IN Good(v, reps) /\ Joins(b, v, n) /\ v.active = b.active
    BY <1>6, <1>7, <2>1, Begun
  <2>3. Good(u, reps) /\ Joins(b, u, n) /\ u.active = b.active
    BY <1>4, <1>9, <2>2
  <2> QED BY <1>3, <2>3 DEF Joins, u
<1> QED BY <1>8, <1>9

\* From s to u the oldest report of a worker is handled.
Completes(s, u, reps, n) ==
  LET left == [reps EXCEPT ![n] = Tail(reps[n])]
  IN /\ left \in Numbers /\ Good(u, left)
     /\ u.scheduled = s.scheduled /\ u.active = s.active
     /\ u.done = s.done \cup {Collection[Head(reps[n])]}
     /\ s.shutting \subseteq u.shutting /\ u.shutting \subseteq s.shutting \cup {n}
     /\ \A o \in Node : o # n \/ o \in s.shutting =>
          u.assigned[o] = s.assigned[o] /\ u.sent[o] = s.sent[o]
     /\ \A a \in Affinities : s.queue[a] = <<>> => u.queue[a] = <<>>

LEMMA Marked ==
  ASSUME NEW s, NEW reps \in Numbers, NEW n \in Node, Good(s, reps), reps[n] # <<>>,
         n \in ToSet(s.active[NodeAffinity[n]]),
         Affinity[Collection[Head(reps[n])]] = NodeAffinity[n]
  PROVE  Completes(s, mark_test_complete(s, n, Head(reps[n])), reps, n)
<1> DEFINE a == NodeAffinity[n]
           j == Head(reps[n])
           t == Collection[j]
           b == [s EXCEPT !.done = @ \cup {t}]
           u == mark_test_complete(s, n, j)
           left == [reps EXCEPT ![n] = Tail(reps[n])]
<1>1. /\ j \in DOMAIN Collection /\ Tail(reps[n]) \in Seq(DOMAIN Collection)
      /\ ToSet(reps[n]) = {j} \cup ToSet(Tail(reps[n]))
  <2>1. reps[n] \in Seq(DOMAIN Collection)
    BY DEF Numbers
  <2> QED BY <2>1, HeadOff
<1>2. t \in Test /\ s \in Schedulers
  BY <1>1, Collected DEF Good
<1>3. SubCollection(a)[ChildIndex(a, j)] = t
  BY <1>1, RenumberedBack
<1>4. u = _reschedule(b, n)
  BY <1>3 DEF mark_test_complete
<1>5. /\ b.done = s.done \cup {t} /\ b.active = s.active /\ b.scheduled = s.scheduled
      /\ b.queue = s.queue /\ b.assigned = s.assigned /\ b.sent = s.sent
      /\ b.shutting = s.shutting /\ b \in Schedulers
  BY <1>2 DEF Schedulers
<1>6. /\ left \in Numbers /\ left[n] = Tail(reps[n]) /\ \A o \in Node \ {n} : left[o] = reps[o]
  BY <1>1 DEF Numbers
<1> HIDE DEF b, u, left, j, t
<1>7. Good(b, left)
  <2>1. Tracked(b, left)
    <3> SUFFICES ASSUME NEW o \in Node, NEW x \in ToSet(b.assigned[o]) \ b.done
                 PROVE  \E k \in ToSet(b.sent[o]) \cup ToSet(left[o]) : Collection[k] = x
      BY DEF Tracked
    <3>1. PICK k \in ToSet(s.sent[o]) \cup ToSet(reps[o]) : Collection[k] = x
      BY <1>5 DEF Good, Tracked
    <3>2. k # j
      BY <1>5, <3>1 DEF t
    <3>3. k \in ToSet(b.sent[o]) \cup ToSet(left[o])
      BY <1>1, <1>5, <1>6, <3>1, <3>2
    <3> QED BY <3>1, <3>3
  <2>2. Sorted(b) /\ Kept(b)
    BY <1>5 DEF Good, Sorted, Kept
  <2> QED BY <1>5, <2>1, <2>2 DEF Good
<1>8. n \in ToSet(b.active[a])
  BY <1>5
<1>9. Good(u, left) /\ Offered(b, u, {n})
  BY <1>4, <1>6, <1>7, <1>8, Rescheduled
<1>10. u.done = s.done \cup {t}
  BY <1>5, <1>9 DEF Offered
<1>11. /\ u.scheduled = s.scheduled /\ u.active = s.active
       /\ s.shutting \subseteq u.shutting /\ u.shutting \subseteq s.shutting \cup {n}
       /\ \A o \in Node : o # n \/ o \in s.shutting =>
            u.assigned[o] = s.assigned[o] /\ u.sent[o] = s.sent[o]
       /\ \A e \in Affinities : s.queue[e] = <<>> => u.queue[e] = <<>>
  BY <1>5, <1>9 DEF Offered
<1> QED BY <1>6, <1>9, <1>10, <1>11 DEF Completes, u, left, j, t

LEMMA OfferedMore ==
  ASSUME NEW s, NEW u, NEW M, NEW N, Offered(s, u, M), M \subseteq N
  PROVE  Offered(s, u, N)
BY DEF Offered

\* What a worker that goes leaves to others.
Leaves(s, u, n) ==
  LET a == NodeAffinity[n]
  IN /\ u.scheduled = s.scheduled /\ u.done = s.done
     /\ u.active = [s.active EXCEPT ![a] = RemoveAt(s.active[a], IndexOf(s.active[a], n))]
     /\ u.assigned[n] = <<>> /\ u.sent[n] = <<>>
     /\ s.shutting \subseteq u.shutting
     /\ u.shutting \subseteq s.shutting \cup (ToSet(s.active[a]) \ {n})
     /\ \A o \in Node \ {n} : o \notin ToSet(s.active[a]) \/ o \in s.shutting =>
          u.assigned[o] = s.assigned[o] /\ u.sent[o] = s.sent[o]
     /\ Pending(s, n) = {} => u.queue = s.queue

\* What N workers are offered, one after the other.
OfferedTo(others, N, back) ==
  LET offered[i \in 0..N] == IF i = 0 THEN back ELSE _reschedule(offered[i - 1], others[i])
  IN offered[N]

LEMMA Offers ==
  ASSUME NEW N \in Nat, NEW others, NEW X, NEW back \in X
  PROVE  (\A v \in X : \A i \in 1..N : _reschedule(v, others[i]) \in X)
            => OfferedTo(others, N, back) \in X
<1> DEFINE Upto(v) == [i \in 0..N |-> IF i = 0 THEN back ELSE _reschedule(v[i - 1], others[i])]
           step == [p \in (1..N) \X X |-> _reschedule(p[2], others[p[1]])]
           u == CHOOSE v : v = Upto(v)
<1>0. SUFFICES ASSUME \A v \in X : \A i \in 1..N : _reschedule(v, others[i]) \in X
               PROVE  u[N] \in X
  BY DEF OfferedTo
<1>1. step \in [(1..N) \X X -> X]
  BY <1>0
<1>2. PICK f \in [0..N -> X] : f[0] = back /\ \A i \in 1..N : f[i] = step[<<i, f[i - 1]>>]
  <2> HIDE DEF step
  <2>1. step \in StepsOf(N, X)
    BY <1>1 DEF StepsOf
  <2>2. Computed(N, X, back, step)
    BY <2>1, Recurs
  <2> QED BY <2>2 DEF Computed
<1>3. f = Upto(f)
  <2>1. ASSUME NEW i \in 1..N PROVE f[i] = _reschedule(f[i - 1], others[i])
    <3>1. <<i, f[i - 1]>> \in (1..N) \X X
      OBVIOUS
    <3> QED BY <1>2, <3>1
  <2>2. f = [i \in 0..N |-> f[i]] /\ f[0] = back
    BY <1>2
  <2>3. \A i \in 0..N : i # 0 => i \in 1..N
    OBVIOUS
  <2> QED BY <2>1, <2>2, <2>3
<1>4. u = Upto(u)
  <2> HIDE DEF Upto
  <2> QED BY <1>3
<1> HIDE DEF u
<1>5. u[0] = back /\ \A i \in 1..N : u[i] = _reschedule(u[i - 1], others[i])
  <2>1. \A i \in 0..N : u[i] = IF i = 0 THEN back ELSE _reschedule(u[i - 1], others[i])
    BY <1>4
  <2>2. 0 \in 0..N /\ \A i \in 1..N : i \in 0..N /\ i # 0
    OBVIOUS
  <2> HIDE DEF Upto
  <2> QED BY <2>1, <2>2
<1> DEFINE T == {i \in 0..N : u[i] \in X}
<1>6. 0 \in T
  BY <1>5
<1>7. ASSUME NEW i \in 1..N, i - 1 \in T PROVE i \in T
  BY <1>0, <1>5, <1>7
<1>8. T = 0..N
  <2>1. T \in SUBSET (0..N)
    OBVIOUS
  <2> HIDE DEF T
  <2> QED BY <1>6, <1>7, <2>1, StepByStep
<1>9. N \in T
  BY <1>8
<1> QED BY <1>9 DEF u

LEMMA Left ==
  ASSUME NEW s, NEW reps \in Numbers, NEW n \in Node, Good(s, reps), 
         OnceEach(s.active[NodeAffinity[n]]), n \in ToSet(s.active[NodeAffinity[n]]),
         \A o \in ToSet(s.active[NodeAffinity[n]]) : NodeAffinity[o] = NodeAffinity[n]
  PROVE  Good(remove_active(s, n), reps) /\ Leaves(s, remove_active(s, n), n)
<1> DEFINE a == NodeAffinity[n]
           left == [s EXCEPT !.active[a] = RemoveAt(@, IndexOf(@, n)),
                             !.assigned[n] = <<>>, !.sent[n] = <<>>]
           others == left.active[a]
           back == [left EXCEPT !.queue[a] = @ \o s.assigned[n]]
           N == Len(others)
           u == OfferedTo(others, N, back)
<1>1. /\ s \in Schedulers /\ Sorted(s) /\ Kept(s) /\ Tracked(s, reps) /\ a \in Affinities
      /\ s.active[a] \in Seq(Node) /\ s.queue[a] \in Seq(Test) /\ s.assigned[n] \in Seq(Test)
  BY Affine DEF Good, Schedulers
<1>2. remove_active(s, n) = IF Pending(s, n) = {} THEN left ELSE u
  BY DEF remove_active, OfferedTo
<1>3. /\ left.active = [s.active EXCEPT ![a] = RemoveAt(s.active[a], IndexOf(s.active[a], n))]
      /\ left.assigned = [s.assigned EXCEPT ![n] = <<>>] /\ left.sent = [s.sent EXCEPT ![n] = <<>>]
      /\ left.scheduled = s.scheduled /\ left.queue = s.queue /\ left.done = s.done
      /\ left.shutting = s.shutting
      /\ left = [scheduled |-> left.scheduled, queue |-> left.queue, active |-> left.active,
                 assigned |-> left.assigned, done |-> left.done, sent |-> left.sent,
                 shutting |-> left.shutting]
  <2>1. left = [s EXCEPT !.active[a] = RemoveAt(@, IndexOf(@, n)),
                         !.assigned[n] = <<>>, !.sent[n] = <<>>]
    OBVIOUS
  <2> HIDE DEF left
  <2>2. left.active = [s.active EXCEPT ![a] = RemoveAt(s.active[a], IndexOf(s.active[a], n))]
    BY <1>1, <2>1 DEF Schedulers
  <2>3. left.assigned = [s.assigned EXCEPT ![n] = <<>>] /\ left.sent = [s.sent EXCEPT ![n] = <<>>]
    BY <1>1, <2>1 DEF Schedulers
  <2>4. /\ left.scheduled = s.scheduled /\ left.queue = s.queue /\ left.done = s.done
        /\ left.shutting = s.shutting
    BY <1>1, <2>1 DEF Schedulers
  <2>5. left = [scheduled |-> left.scheduled, queue |-> left.queue, active |-> left.active,
                assigned |-> left.assigned, done |-> left.done, sent |-> left.sent,
                shutting |-> left.shutting]
    BY <1>1, <2>1 DEF Schedulers
  <2> QED BY <2>2, <2>3, <2>4, <2>5
<1>4. /\ others \in Seq(Node) /\ OnceEach(others) /\ ToSet(others) = ToSet(s.active[a]) \ {n}
      /\ others = RemoveAt(s.active[a], IndexOf(s.active[a], n))
  <2> DEFINE i == IndexOf(s.active[a], n)
  <2>1. i \in 1..Len(s.active[a]) /\ s.active[a][i] = n
    <3>1. \E k \in DOMAIN s.active[a] : s.active[a][k] = n
      BY <1>1, Listed
    <3>2. i \in DOMAIN s.active[a] /\ s.active[a][i] = n
      BY <3>1 DEF IndexOf
    <3> QED BY <1>1, <3>2, Listed
  <2>2. others = RemoveAt(s.active[a], i)
    BY <1>1, <1>3 DEF Schedulers
  <2> HIDE DEF i, left
  <2> QED BY <1>1, <2>1, <2>2, RemovedOnce DEF i
<1>5. left \in Schedulers
  <2>1. left.active \in [Affinities -> Seq(Node)]
    BY <1>1, <1>3, <1>4 DEF Schedulers
  <2>2. left.assigned \in [Node -> Seq(Test)] /\ left.sent \in [Node -> Seq(DOMAIN Collection)]
    BY <1>1, <1>3 DEF Schedulers
  <2> HIDE DEF left
  <2> QED BY <1>1, <1>3, <2>1, <2>2 DEF Schedulers
<1> HIDE DEF left
<1>6. /\ left.assigned[n] = <<>> /\ left.sent[n] = <<>>
      /\ \A o \in Node \ {n} : left.assigned[o] = s.assigned[o] /\ left.sent[o] = s.sent[o]
  BY <1>1, <1>3 DEF Schedulers
<1>7. Sorted(left) /\ Tracked(left, reps)
  <2>1. ToSet(<<>>) = {}
    BY DEF ToSet
  <2>2. \A o \in Node : ToSet(left.assigned[o]) \subseteq ToSet(s.assigned[o])
                        /\ ToSet(left.sent[o]) \subseteq ToSet(s.sent[o])
    BY <1>6, <2>1
  <2>3. Sorted(left)
    BY <1>1, <1>3, <2>2 DEF Sorted
  <2>4. Tracked(left, reps)
    <3> SUFFICES ASSUME NEW o \in Node, NEW t \in ToSet(left.assigned[o]) \ left.done
                 PROVE  \E j \in ToSet(left.sent[o]) \cup ToSet(reps[o]) : Collection[j] = t
      BY DEF Tracked
    <3>1. o # n /\ t \in ToSet(s.assigned[o]) \ s.done
      BY <1>3, <1>6, <2>1
    <3> QED BY <1>1, <1>6, <3>1 DEF Tracked
  <2> QED BY <2>3, <2>4
<1>8. \A e \in Affinities \ {a} : left.active[e] = s.active[e]
  BY <1>1, <1>3 DEF Schedulers
\* A test that another has, or that waits, is not lost; one of n's may be.
<1>9. ASSUME NEW e \in s.scheduled, NEW t \in Of(e), t \notin s.done, t \notin ToSet(s.queue[e]),
             e # a \/ t \notin ToSet(s.assigned[n])
      PROVE  \E o \in ToSet(left.active[e]) : t \in ToSet(left.assigned[o])
  <2>0. e \in Affinities
    BY <1>1 DEF Schedulers
  <2>1. PICK o \in ToSet(s.active[e]) : t \in ToSet(s.assigned[o])
    BY <1>1, <1>9 DEF Kept
  <2>2. o \in Node
    BY <1>1, <2>0, Listed DEF Schedulers
  <2>3. o # n
    <3>1. CASE e = a
      BY <1>9, <2>1, <3>1
    <3>2. CASE e # a
      <4>1. t \notin Of(a)
        BY <3>2 DEF Of
      <4> QED BY <1>1, <2>1, <4>1 DEF Sorted
    <3> QED BY <3>1, <3>2
  <2>4. o \in ToSet(left.active[e])
    BY <1>4, <1>8, <2>0, <2>1, <2>3
  <2> QED BY <1>6, <2>1, <2>2, <2>3, <2>4
<1>10. CASE Pending(s, n) = {}
  <2>1. Kept(left)
    <3> SUFFICES ASSUME NEW e \in s.scheduled, NEW t \in Of(e), t \notin s.done,
                        t \notin ToSet(s.queue[e])
                 PROVE  \E o \in ToSet(left.active[e]) : t \in ToSet(left.assigned[o])
      BY <1>3 DEF Kept
    <3>1. t \notin ToSet(s.assigned[n])
      BY <1>10 DEF Pending
    <3> QED BY <1>9, <3>1
  <2>2. Leaves(s, left, n)
    BY <1>3, <1>6 DEF Leaves
  <2> QED BY <1>2, <1>5, <1>7, <1>10, <2>1, <2>2 DEF Good
<1>11. CASE Pending(s, n) # {}
  <2>1. /\ back.queue = [s.queue EXCEPT ![a] = s.queue[a] \o s.assigned[n]]
        /\ back.active = left.active /\ back.assigned = left.assigned /\ back.sent = left.sent
        /\ back.scheduled = s.scheduled /\ back.done = s.done /\ back.shutting = s.shutting
        /\ back = [scheduled |-> back.scheduled, queue |-> back.queue, active |-> back.active,
                   assigned |-> back.assigned, done |-> back.done, sent |-> back.sent,
                   shutting |-> back.shutting]
    <3>1. back = [left EXCEPT !.queue[a] = @ \o s.assigned[n]]
      OBVIOUS
    <3> HIDE DEF back
    <3>2. back.queue = [left.queue EXCEPT ![a] = left.queue[a] \o s.assigned[n]]
      BY <1>5, <3>1 DEF Schedulers
    <3>3. /\ back.active = left.active /\ back.assigned = left.assigned /\ back.sent = left.sent
          /\ back.scheduled = left.scheduled /\ back.done = left.done
          /\ back.shutting = left.shutting
      BY <1>5, <3>1 DEF Schedulers
    <3>4. back = [scheduled |-> back.scheduled, queue |-> back.queue, active |-> back.active,
                  assigned |-> back.assigned, done |-> back.done, sent |-> back.sent,
                  shutting |-> back.shutting]
      BY <1>5, <3>1 DEF Schedulers
    <3> QED BY <1>3, <3>2, <3>3, <3>4
  <2> HIDE DEF back
  <2>2. /\ s.queue[a] \o s.assigned[n] \in Seq(Test)
        /\ ToSet(s.queue[a] \o s.assigned[n]) = ToSet(s.queue[a]) \cup ToSet(s.assigned[n])
    BY <1>1, Joined
  <2>3. /\ back.queue[a] = s.queue[a] \o s.assigned[n]
        /\ \A e \in Affinities \ {a} : back.queue[e] = s.queue[e]
        /\ back.queue \in [Affinities -> Seq(Test)]
    BY <1>1, <2>1, <2>2 DEF Schedulers
  <2>4. back \in Schedulers
    BY <1>3, <1>5, <2>1, <2>3 DEF Schedulers
  <2>5. Good(back, reps)
    <3>1. Sorted(back)
      <4>1. ToSet(back.queue[a]) \subseteq Of(a)
        BY <1>1, <2>2, <2>3 DEF Sorted
      <4>2. \A e \in Affinities : ToSet(back.queue[e]) \subseteq Of(e)
        BY <1>1, <2>3, <4>1 DEF Sorted
      <4> QED BY <1>7, <2>1, <4>2 DEF Sorted
    <3>2. Tracked(back, reps)
      BY <1>3, <1>7, <2>1 DEF Tracked
    <3>3. Kept(back)
      <4> SUFFICES ASSUME NEW e \in s.scheduled, NEW t \in Of(e), t \notin s.done,
                          t \notin ToSet(back.queue[e])
                   PROVE  \E o \in ToSet(back.active[e]) : t \in ToSet(back.assigned[o])
        BY <2>1 DEF Kept
      <4>1. e \in Affinities
        BY <1>1 DEF Schedulers
      <4>2. t \notin ToSet(s.queue[e]) /\ (e # a \/ t \notin ToSet(s.assigned[n]))
        BY <2>2, <2>3, <4>1
      <4> QED BY <1>9, <2>1, <4>2
    <3> QED BY <2>4, <3>1, <3>2, <3>3 DEF Good
  <2> DEFINE X == {v \in Schedulers : Good(v, reps) /\ Offered(back, v, ToSet(others))}
  <2>6. N \in Nat /\ DOMAIN others = 1..N /\ \A i \in 1..N : others[i] \in ToSet(others)
    BY <1>4, Listed
  <2>7. ASSUME NEW v \in X, NEW i \in 1..N PROVE _reschedule(v, others[i]) \in X
    <3> DEFINE o == others[i]
    <3>1. o \in ToSet(others) /\ o \in Node /\ NodeAffinity[o] = a
      BY <1>1, <1>4, <2>6, Listed
    <3>2. Good(v, reps) /\ Offered(back, v, ToSet(others)) /\ v.active = left.active
      BY <2>1 DEF Offered
    <3> HIDE DEF o
    <3>3. o \in ToSet(v.active[NodeAffinity[o]])
      BY <3>1, <3>2
    <3> DEFINE w == _reschedule(v, o)
    <3>4. Good(w, reps) /\ Offered(v, w, {o})
      BY <3>1, <3>2, <3>3, Rescheduled
    <3> HIDE DEF w
    <3>5. Offered(v, w, ToSet(others))
      BY <3>1, <3>4, OfferedMore
    <3>6. Offered(back, w, ToSet(others))
      BY <3>2, <3>5, OfferedTwice
    <3> QED BY <3>4, <3>6 DEF w, o, Good
  <2>8. back \in X
    BY <2>4, <2>5 DEF Offered
  <2>9. u \in X
    <3> HIDE DEF X, N
    <3>1. N \in Nat
      BY <2>6
    <3>2. \A v \in X : \A i \in 1..N : _reschedule(v, others[i]) \in X
      BY <2>7
    <3> HIDE DEF others
    <3> QED BY <2>8, <3>1, <3>2, Offers
  <2> HIDE DEF u
  <2>10. Good(u, reps) /\ Offered(back, u, ToSet(others))
    BY <2>9
  <2>11. n \notin ToSet(others)
    BY <1>4
  <2>12. Leaves(s, u, n)
    <3>1. /\ u.scheduled = s.scheduled /\ u.done = s.done /\ u.active = left.active
          /\ s.shutting \subseteq u.shutting /\ u.shutting \subseteq s.shutting \cup ToSet(others)
      BY <2>1, <2>10 DEF Offered
    <3>2. \A o \in Node : o \notin ToSet(others) \/ o \in s.shutting =>
            u.assigned[o] = left.assigned[o] /\ u.sent[o] = left.sent[o]
      BY <2>1, <2>10 DEF Offered
    <3> QED BY <1>3, <1>4, <1>6, <1>11, <2>11, <3>1, <3>2 DEF Leaves
  <2> QED BY <1>2, <1>11, <2>10, <2>12
<1> QED BY <1>10, <1>11

-----------------------------------------------------------------------------
(* What the workers of the session have to do *)

RunTypes ==
  /\ finished \subseteq Node /\ crashed \subseteq Node /\ ran \subseteq Test
  /\ collection \in BOOLEAN /\ reports \in Numbers

\* The workers in assigned_work are the active ones of the affinity.
ActiveInv ==
  \A a \in Affinities :
    /\ OnceEach(st.active[a])
    /\ ToSet(st.active[a]) = {n \in Node : phase[n] = "active" /\ NodeAffinity[n] = a}

\* The others have nothing to do.
IdleInv ==
  \A n \in Node : phase[n] # "active" =>
    st.assigned[n] = <<>> /\ st.sent[n] = <<>> /\ reports[n] = <<>>

\* What is reported was run, and what is complete was reported.
ReportInv ==
  /\ \A n \in Node : \A j \in ToSet(reports[n]) :
       Affinity[Collection[j]] = NodeAffinity[n] /\ Collection[j] \in ran
  /\ st.done \subseteq ran
  /\ st.scheduled # {} => collection

\* While the session runs only active workers are told to shut down, and one that
\* ends without a crash was told, and has run what it was sent.
FinishInv ==
  \A n \in Node :
    /\ session = "run" /\ n \in st.shutting => phase[n] = "active" \/ n \in finished
    /\ session = "run" /\ phase[n] = "pending" => n \notin st.shutting
    /\ n \in finished \ crashed /\ phase[n] \in {"pending", "active"} =>
         n \in st.shutting /\ st.sent[n] = <<>>

WorkInv == RunTypes /\ Good(st, reports) /\ ActiveInv /\ IdleInv /\ ReportInv /\ FinishInv

LEMMA EmptyList == ToSet(<<>>) = {} /\ \A S : \A s \in Seq(S) : ToSet(s) = {} => s = <<>>
<1>1. ASSUME NEW S, NEW s \in Seq(S), s # <<>> PROVE ToSet(s) # {}
  <2>1. ToSet(s) = {Head(s)} \cup ToSet(Tail(s))
    BY <1>1, HeadOff
  <2> QED BY <2>1
<1> QED BY <1>1 DEF ToSet

LEMMA InitWork == Init => WorkInv
<1> SUFFICES ASSUME Init PROVE WorkInv
  OBVIOUS
<1>1. /\ st.scheduled = {} /\ st.queue = [a \in Affinities |-> <<>>]
      /\ st.active = [a \in Affinities |-> <<>>] /\ st.assigned = [n \in Node |-> <<>>]
      /\ st.done = {} /\ st.sent = [n \in Node |-> <<>>] /\ st.shutting = {}
      /\ st = [scheduled |-> {}, queue |-> [a \in Affinities |-> <<>>],
               active |-> [a \in Affinities |-> <<>>], assigned |-> [n \in Node |-> <<>>],
               done |-> {}, sent |-> [n \in Node |-> <<>>], shutting |-> {}]
  BY DEF Init, NoWork
<1>2. /\ reports = [n \in Node |-> <<>>] /\ finished = {} /\ ran = {} /\ crashed = {}
      /\ collection = FALSE /\ phase = [n \in Node |-> IF n = Default THEN "starting" ELSE "none"]
  BY DEF Init
<1>3. st \in Schedulers /\ RunTypes
  <2>1. \A S : <<>> \in Seq(S)
    OBVIOUS
  <2>2. RunTypes
    BY <1>2, <2>1 DEF RunTypes, Numbers
  <2>3. [a \in Affinities |-> <<>>] \in [Affinities -> Seq(Test)]
        /\ [a \in Affinities |-> <<>>] \in [Affinities -> Seq(Node)]
    BY <2>1
  <2>4. [n \in Node |-> <<>>] \in [Node -> Seq(Test)]
        /\ [n \in Node |-> <<>>] \in [Node -> Seq(DOMAIN Collection)]
    BY <2>1
  <2> QED BY <1>1, <2>2, <2>3, <2>4 DEF Schedulers
<1>4. Good(st, reports)
  BY <1>1, <1>3, EmptyList DEF Good, Sorted, Kept, Tracked
<1>5. ActiveInv
  <2>1. OnceEach(<<>>)
    BY DEF OnceEach
  <2> QED BY <1>1, <1>2, <2>1, EmptyList DEF ActiveInv
<1>6. IdleInv /\ ReportInv /\ FinishInv
  BY <1>1, <1>2, EmptyList DEF IdleInv, ReportInv, FinishInv
<1> QED BY <1>3, <1>4, <1>5, <1>6 DEF WorkInv

\* A step of the master that the schedulers do not see.
LEMMA WorkQuiet ==
  ASSUME WorkInv, UNCHANGED workerVars, session' = "run" => session = "run"
  PROVE  WorkInv'
<1>1. UNCHANGED <<st, phase, finished, reports, ran, crashed, collection>>
  BY DEF workerVars, runVars
<1>2. RunTypes' /\ Good(st, reports)' /\ ActiveInv' /\ IdleInv' /\ ReportInv'
  BY <1>1 DEF WorkInv, RunTypes, ActiveInv, IdleInv, ReportInv
<1>3. FinishInv'
  BY <1>1 DEF WorkInv, FinishInv
<1> QED BY <1>2, <1>3 DEF WorkInv

\* A worker that is started, refused or forgotten has nothing to do.
LEMMA WorkPhase ==
  ASSUME WorkInv, NEW n \in Node, NEW p, phase[n] # "active", p \notin {"pending", "active"},
         phase \in [Node -> {"none", "starting", "refused", "pending", "active", "gone"}],
         phase' = [phase EXCEPT ![n] = p], UNCHANGED <<st, runVars>>,
         session' = "run" => session = "run"
  PROVE  WorkInv'
<1>1. UNCHANGED <<st, finished, reports, ran, crashed, collection>>
  BY DEF runVars
<1>2. phase'[n] = p /\ \A o \in Node \ {n} : phase'[o] = phase[o]
  OBVIOUS
<1>3. RunTypes' /\ Good(st, reports)' /\ ReportInv'
  BY <1>1 DEF WorkInv, RunTypes, ReportInv
<1>4. ActiveInv'
  BY <1>1, <1>2 DEF WorkInv, ActiveInv
<1>5. IdleInv'
  BY <1>1, <1>2 DEF WorkInv, IdleInv
<1>6. FinishInv'
  BY <1>1, <1>2 DEF WorkInv, FinishInv
<1> QED BY <1>3, <1>4, <1>5, <1>6 DEF WorkInv

LEMMA WorkRun ==
  ASSUME WorkInv, NEW n \in Node, RunTest(n)
  PROVE  WorkInv'
<1> DEFINE j == Head(st.sent[n])
<1>1. /\ phase[n] = "active" /\ n \notin finished /\ st.sent[n] # <<>>
      /\ ran' = ran \cup {Collection[j]}
      /\ reports' = [reports EXCEPT ![n] = Append(reports[n], j)]
      /\ st' = [st EXCEPT !.sent[n] = Tail(@)]
      /\ UNCHANGED <<phase, finished, crashed, collection, session>>
  BY DEF RunTest, masterVars, endVars
<1>2. /\ st \in Schedulers /\ Sorted(st) /\ Kept(st) /\ Tracked(st, reports)
      /\ st.sent[n] \in Seq(DOMAIN Collection) /\ reports[n] \in Seq(DOMAIN Collection)
  BY DEF WorkInv, Good, Schedulers, RunTypes, Numbers
<1>3. /\ j \in DOMAIN Collection /\ Tail(st.sent[n]) \in Seq(DOMAIN Collection)
      /\ ToSet(st.sent[n]) = {j} \cup ToSet(Tail(st.sent[n]))
  BY <1>1, <1>2, HeadOff
<1> HIDE DEF j
<1>4. /\ Append(reports[n], j) \in Seq(DOMAIN Collection)
      /\ ToSet(Append(reports[n], j)) = ToSet(reports[n]) \cup {j}
  BY <1>2, <1>3, Appended
<1>5. /\ st'.sent = [st.sent EXCEPT ![n] = Tail(st.sent[n])]
      /\ st'.scheduled = st.scheduled /\ st'.queue = st.queue /\ st'.active = st.active
      /\ st'.assigned = st.assigned /\ st'.done = st.done /\ st'.shutting = st.shutting
      /\ st' \in Schedulers
  BY <1>1, <1>2, <1>3 DEF Schedulers
<1>6. st'.sent[n] = Tail(st.sent[n]) /\ \A o \in Node \ {n} : st'.sent[o] = st.sent[o]
  BY <1>2, <1>5 DEF Schedulers
<1>7. /\ reports' \in Numbers /\ reports'[n] = Append(reports[n], j)
      /\ \A o \in Node \ {n} : reports'[o] = reports[o]
  BY <1>1, <1>4 DEF WorkInv, RunTypes, Numbers
<1>8. Good(st, reports)'
  <2>1. \A o \in Node : ToSet(st'.sent[o]) \subseteq ToSet(st.sent[o])
    BY <1>3, <1>6
  <2>2. Sorted(st')
    BY <1>2, <1>5, <2>1 DEF Sorted
  <2>3. Tracked(st', reports')
    <3>1. \A o \in Node : ToSet(st'.sent[o]) \cup ToSet(reports'[o]) =
                          ToSet(st.sent[o]) \cup ToSet(reports[o])
      BY <1>3, <1>4, <1>6, <1>7
    <3> QED BY <1>2, <1>5, <3>1 DEF Tracked
  <2> QED BY <1>2, <1>5, <2>2, <2>3 DEF Good, Kept
<1>9. Affinity[Collection[j]] = NodeAffinity[n] /\ Collection[j] \in Test
  BY <1>2, <1>3, Collected DEF Sorted
<1>10. RunTypes'
  BY <1>1, <1>7, <1>9 DEF WorkInv, RunTypes
<1>11. ActiveInv' /\ IdleInv'
  BY <1>1, <1>5, <1>6, <1>7 DEF WorkInv, ActiveInv, IdleInv
<1>12. ReportInv'
  BY <1>1, <1>4, <1>5, <1>7, <1>9 DEF WorkInv, ReportInv
<1>13. FinishInv'
  BY <1>1, <1>5, <1>6 DEF WorkInv, FinishInv
<1> QED BY <1>8, <1>10, <1>11, <1>12, <1>13 DEF WorkInv

LEMMA WorkEnd ==
  ASSUME WorkInv, NEW n \in Node, WorkerEnds(n) \/ Crash(n)
  PROVE  WorkInv'
<1>1. /\ UNCHANGED <<st, phase, reports, ran, collection, session>>
      /\ finished' = finished \cup {n}
      /\ \/ crashed' = crashed /\ n \in st.shutting /\ st.sent[n] = <<>>
         \/ crashed' = crashed \cup {n}
  BY DEF WorkerEnds, Crash, masterVars, endVars
<1>2. RunTypes' /\ Good(st, reports)' /\ ActiveInv' /\ IdleInv' /\ ReportInv'
  BY <1>1 DEF WorkInv, RunTypes, ActiveInv, IdleInv, ReportInv
<1>3. FinishInv'
  BY <1>1 DEF WorkInv, FinishInv
<1> QED BY <1>2, <1>3 DEF WorkInv

Phases == [Node -> {"none", "starting", "refused", "pending", "active", "gone"}]

\* Workers are told to shut down: nothing else that the schedulers know changes.
LEMMA WorkShutdown ==
  ASSUME WorkInv, NEW N \in SUBSET Node, st' = Shutdown(st, N), session' # "run",
         UNCHANGED <<phase, runVars>>
  PROVE  WorkInv'
<1>1. UNCHANGED <<phase, finished, reports, ran, crashed, collection>>
  BY DEF runVars
<1>2. /\ Good(st', reports) /\ Offered(st, st', N) /\ st'.shutting = st.shutting \cup N
      /\ st'.queue = st.queue /\ st'.assigned = st.assigned /\ st'.sent = st.sent
  BY Shutting DEF WorkInv, RunTypes
<1>3. st'.scheduled = st.scheduled /\ st'.active = st.active /\ st'.done = st.done
  BY <1>2 DEF Offered
<1>4. Good(st, reports)' /\ RunTypes'
  BY <1>1, <1>2 DEF WorkInv, RunTypes
<1>5. ActiveInv' /\ IdleInv' /\ ReportInv'
  BY <1>1, <1>2, <1>3 DEF WorkInv, ActiveInv, IdleInv, ReportInv
<1>6. FinishInv'
  BY <1>1, <1>2 DEF WorkInv, FinishInv
<1> QED BY <1>4, <1>5, <1>6 DEF WorkInv

LEMMA WorkReady ==
  ASSUME WorkInv, phase \in Phases, NEW n \in Node, add_node(n)
  PROVE  WorkInv'
<1>1. /\ phase[n] = "starting" /\ n \notin finished /\ UNCHANGED <<runVars, session>>
      /\ \/ /\ session = "run" /\ phase' = [phase EXCEPT ![n] = "pending"] /\ UNCHANGED st
         \/ /\ session # "run" /\ phase' = [phase EXCEPT ![n] = "refused"]
            /\ st' = Shutdown(st, {n})
  BY DEF add_node, masterVars, endVars
<1>2. UNCHANGED <<finished, reports, ran, crashed, collection>>
  BY <1>1 DEF runVars
<1>3. n \in DOMAIN phase /\ \A o \in Node \ {n} : phase'[o] = phase[o]
  BY <1>1 DEF Phases
<1>4. CASE session = "run"
  <2>1. phase'[n] = "pending" /\ UNCHANGED st
    BY <1>1, <1>3, <1>4
  <2>2. RunTypes' /\ Good(st, reports)' /\ ReportInv'
    BY <1>2, <2>1 DEF WorkInv, RunTypes, ReportInv
  <2>3. ActiveInv' /\ IdleInv'
    BY <1>1, <1>2, <1>3, <2>1 DEF WorkInv, ActiveInv, IdleInv
  <2>4. FinishInv'
    BY <1>1, <1>2, <1>3, <1>4, <2>1 DEF WorkInv, FinishInv
  <2> QED BY <2>2, <2>3, <2>4 DEF WorkInv
<1>5. CASE session # "run"
  <2>1. phase'[n] = "refused" /\ st' = Shutdown(st, {n})
    BY <1>1, <1>3, <1>5
  <2>2. /\ Good(st', reports) /\ Offered(st, st', {n}) /\ st'.shutting = st.shutting \cup {n}
        /\ st'.queue = st.queue /\ st'.assigned = st.assigned /\ st'.sent = st.sent
    BY <2>1, Shutting DEF WorkInv, RunTypes
  <2>3. st'.scheduled = st.scheduled /\ st'.active = st.active /\ st'.done = st.done
    BY <2>2 DEF Offered
  <2>4. RunTypes' /\ Good(st, reports)' /\ ReportInv'
    BY <1>2, <2>2, <2>3 DEF WorkInv, RunTypes, ReportInv
  <2>5. ActiveInv' /\ IdleInv'
    <3>1. \A o \in Node : phase'[o] = "active" <=> phase[o] = "active"
      BY <1>1, <1>3, <2>1
    <3>2. ActiveInv'
      BY <2>3, <3>1 DEF WorkInv, ActiveInv
    <3> QED BY <1>2, <2>2, <3>1, <3>2 DEF WorkInv, IdleInv
  <2>6. FinishInv'
    BY <1>1, <1>2, <1>3, <1>5, <2>1, <2>2 DEF WorkInv, FinishInv
  <2> QED BY <2>4, <2>5, <2>6 DEF WorkInv
<1> QED BY <1>4, <1>5

LEMMA WorkCollected ==
  ASSUME WorkInv, phase \in Phases, NEW n \in Node, NodeCollected(n)
  PROVE  WorkInv'
<1> DEFINE a == NodeAffinity[n]
<1>a. CASE Raise("AssertionError")
  <2>1. /\ UNCHANGED <<st, phase, finished, reports, ran, crashed>> /\ collection' = TRUE
        /\ session' = "failed"
    BY <1>a DEF NodeCollected, Raise, endVars
  <2>2. RunTypes' /\ Good(st, reports)' /\ ActiveInv' /\ IdleInv' /\ ReportInv'
    BY <2>1 DEF WorkInv, RunTypes, ActiveInv, IdleInv, ReportInv
  <2>3. FinishInv'
    BY <2>1 DEF WorkInv, FinishInv
  <2> QED BY <2>2, <2>3 DEF WorkInv
<1> SUFFICES ASSUME ~Raise("AssertionError") PROVE WorkInv'
  BY <1>a
<1>1. /\ session = "run" /\ phase[n] = "pending" /\ phase' = [phase EXCEPT ![n] = "active"]
      /\ st' = add_node_collection(st, n) /\ collection' = TRUE
      /\ UNCHANGED <<finished, reports, ran, crashed, session>>
  BY DEF NodeCollected, endVars
<1>2. n \notin st.shutting /\ n \notin finished \ crashed
  BY <1>1 DEF WorkInv, FinishInv
<1>3. /\ Good(st', reports) /\ Joins(st, st', n)
      /\ st'.active = [st.active EXCEPT ![a] = Append(st.active[a], n)]
  BY <1>1, <1>2, Added DEF WorkInv, RunTypes
<1>4. phase'[n] = "active" /\ \A o \in Node \ {n} : phase'[o] = phase[o]
  BY <1>1 DEF Phases
<1>5. a \in Affinities /\ st.active[a] \in Seq(Node) /\ st.active \in [Affinities -> Seq(Node)]
  BY Affine DEF WorkInv, Good, Schedulers
<1>6. st'.active[a] = Append(st.active[a], n) /\ \A b \in Affinities \ {a} : st'.active[b] = st.active[b]
  BY <1>3, <1>5
<1>7. RunTypes' /\ Good(st, reports)'
  BY <1>1, <1>3 DEF WorkInv, RunTypes
<1>8. ActiveInv'
  <2>1. n \notin ToSet(st.active[a])
    BY <1>1, <1>5 DEF WorkInv, ActiveInv
  <2>2. OnceEach(st'.active[a]) /\ ToSet(st'.active[a]) = ToSet(st.active[a]) \cup {n}
    BY <1>5, <1>6, <2>1, AppendedOnce DEF WorkInv, ActiveInv
  <2> SUFFICES ASSUME NEW b \in Affinities
               PROVE  /\ OnceEach(st'.active[b])
                      /\ ToSet(st'.active[b]) =
                           {o \in Node : phase'[o] = "active" /\ NodeAffinity[o] = b}
    BY DEF ActiveInv
  <2>3. CASE b = a
    BY <1>4, <1>5, <2>2, <2>3 DEF WorkInv, ActiveInv
  <2>4. CASE b # a
    BY <1>4, <1>6, <2>4 DEF WorkInv, ActiveInv
  <2> QED BY <2>3, <2>4
<1>9. IdleInv'
  BY <1>1, <1>3, <1>4 DEF WorkInv, IdleInv, Joins
<1>10. ReportInv'
  BY <1>1, <1>3 DEF WorkInv, ReportInv, Joins
<1>11. FinishInv'
  BY <1>1, <1>2, <1>3, <1>4 DEF WorkInv, FinishInv, Joins
<1> QED BY <1>7, <1>8, <1>9, <1>10, <1>11 DEF WorkInv

\* A report is of an active worker, about a test it has run.
LEMMA CompleteParts ==
  ASSUME WorkInv, NEW n \in Node, TestComplete(n)
  PROVE  /\ Completes(st, st', reports, n) /\ reports' = [reports EXCEPT ![n] = Tail(reports[n])]
         /\ ToSet(reports[n]) = {Head(reports[n])} \cup ToSet(Tail(reports[n]))
         /\ phase[n] = "active" /\ Collection[Head(reports[n])] \in ran
<1> DEFINE a == NodeAffinity[n]
           j == Head(reports[n])
<1>1. /\ reports[n] # <<>> /\ st' = mark_test_complete(st, n, j)
      /\ reports' = [reports EXCEPT ![n] = Tail(reports[n])]
  BY DEF TestComplete
<1>2. reports \in Numbers /\ reports[n] \in Seq(DOMAIN Collection) /\ Good(st, reports)
  BY DEF WorkInv, RunTypes, Numbers
<1>3. phase[n] = "active" /\ a \in Affinities /\ n \in ToSet(st.active[a])
  BY <1>1, Affine DEF WorkInv, IdleInv, ActiveInv
<1>4. ToSet(reports[n]) = {j} \cup ToSet(Tail(reports[n]))
  BY <1>1, <1>2, HeadOff
<1>5. Affinity[Collection[j]] = a /\ Collection[j] \in ran
  BY <1>4 DEF WorkInv, ReportInv
<1>6. Completes(st, mark_test_complete(st, n, Head(reports[n])), reports, n)
  BY <1>1, <1>2, <1>3, <1>5, Marked
<1> QED BY <1>1, <1>3, <1>4, <1>5, <1>6

LEMMA WorkComplete ==
  ASSUME WorkInv, NEW n \in Node, TestComplete(n)
  PROVE  WorkInv'
<1> DEFINE j == Head(reports[n])
<1>1. UNCHANGED <<phase, finished, ran, crashed, collection, session>>
  BY DEF TestComplete, masterVars, endVars
<1>2. /\ Completes(st, st', reports, n) /\ reports' = [reports EXCEPT ![n] = Tail(reports[n])]
      /\ ToSet(reports[n]) = {j} \cup ToSet(Tail(reports[n]))
      /\ phase[n] = "active" /\ Collection[j] \in ran
  BY CompleteParts
<1>3. /\ reports' \in Numbers /\ Good(st', reports')
      /\ st'.scheduled = st.scheduled /\ st'.active = st.active
      /\ st'.done = st.done \cup {Collection[j]}
      /\ st.shutting \subseteq st'.shutting /\ st'.shutting \subseteq st.shutting \cup {n}
      /\ \A o \in Node : o # n \/ o \in st.shutting =>
           st'.assigned[o] = st.assigned[o] /\ st'.sent[o] = st.sent[o]
  BY <1>2 DEF Completes
<1> HIDE DEF j
<1>4. \A o \in Node : ToSet(reports'[o]) \subseteq ToSet(reports[o])
                      /\ (o # n => reports'[o] = reports[o])
  BY <1>2 DEF WorkInv, RunTypes, Numbers
<1>5. RunTypes' /\ Good(st, reports)'
  BY <1>1, <1>3 DEF WorkInv, RunTypes
<1>6. ActiveInv'
  BY <1>1, <1>3 DEF WorkInv, ActiveInv
<1>7. IdleInv'
  BY <1>1, <1>2, <1>3, <1>4 DEF WorkInv, IdleInv
<1>8. ReportInv'
  BY <1>1, <1>2, <1>3, <1>4 DEF WorkInv, ReportInv
<1>9. FinishInv'
  BY <1>1, <1>2, <1>3 DEF WorkInv, FinishInv
<1> QED BY <1>5, <1>6, <1>7, <1>8, <1>9 DEF WorkInv

\* A worker that ended without a crash leaves nothing to do.
LEMMA NothingPending ==
  ASSUME WorkInv, NEW n \in finished \ crashed, phase[n] = "active", reports[n] = <<>>
  PROVE  Pending(st, n) = {}
<1>1. n \in Node /\ st.sent[n] = <<>>
  BY DEF WorkInv, RunTypes, FinishInv
<1> QED BY <1>1, EmptyList DEF WorkInv, Good, Tracked, Pending

LEMMA RemoveLeaves ==
  ASSUME WorkInv, NEW n \in Node, phase[n] = "active"
  PROVE  Good(remove_active(st, n), reports) /\ Leaves(st, remove_active(st, n), n)
<1> DEFINE a == NodeAffinity[n]
<1>1. a \in Affinities /\ n \in ToSet(st.active[a]) /\ OnceEach(st.active[a])
      /\ \A o \in ToSet(st.active[a]) : NodeAffinity[o] = a
  BY Affine DEF WorkInv, ActiveInv
<1> QED BY <1>1, Left DEF WorkInv, RunTypes

LEMMA WorkRemove ==
  ASSUME WorkInv, phase \in Phases, NEW n \in Node, phase[n] = "active", n \in finished,
         reports[n] = <<>>, Leaving(n), UNCHANGED runVars,
         \/ st' = remove_active(st, n) /\ session' = session
         \/ st' = Shutdown(remove_active(st, n), Scheduled \ {n}) /\ session' # "run"
  PROVE  WorkInv'
<1> DEFINE a == NodeAffinity[n]
           u == remove_active(st, n)
<1>1. UNCHANGED <<finished, reports, ran, crashed, collection>> /\ reports \in Numbers
  BY DEF runVars, WorkInv, RunTypes
<1>2. a \in Affinities /\ n \in ToSet(st.active[a]) /\ OnceEach(st.active[a])
      /\ st.active \in [Affinities -> Seq(Node)]
      /\ \A o \in ToSet(st.active[a]) : o \in Node /\ phase[o] = "active" /\ NodeAffinity[o] = a
  BY Affine DEF WorkInv, ActiveInv, Good, Schedulers
<1>3. Good(u, reports) /\ Leaves(st, u, n)
  BY RemoveLeaves
<1> HIDE DEF u
<1>4. /\ Good(st', reports) /\ st'.scheduled = u.scheduled /\ st'.active = u.active
      /\ st'.done = u.done /\ st'.assigned = u.assigned /\ st'.sent = u.sent
      /\ u.shutting \subseteq st'.shutting
      /\ session' = "run" => session = "run" /\ st'.shutting = u.shutting
  <2>1. CASE st' = u /\ session' = session
    BY <1>3, <2>1
  <2>2. CASE st' = Shutdown(u, Scheduled \ {n}) /\ session' # "run"
    <3>1. Scheduled \ {n} \in SUBSET Node
      BY DEF Scheduled
    <3> DEFINE N == Scheduled \ {n}
    <3> HIDE DEF N
    <3>2. Good(Shutdown(u, N), reports) /\ Offered(u, Shutdown(u, N), N)
          /\ Shutdown(u, N).assigned = u.assigned /\ Shutdown(u, N).sent = u.sent
      BY <1>1, <1>3, <3>1, Shutting DEF N
    <3> QED BY <2>2, <3>2 DEF Offered, N
  <2> QED BY <2>1, <2>2 DEF u
<1>5. /\ phase'[n] = "gone"
      /\ \A o \in Node \ {n} :
           phase'[o] = phase[o] \/ (phase[o] = "none" /\ phase'[o] = "starting")
  BY LeavingPhases DEF Phases
<1>6. /\ st'.scheduled = st.scheduled /\ st'.done = st.done
      /\ st'.active = [st.active EXCEPT ![a] = RemoveAt(st.active[a], IndexOf(st.active[a], n))]
      /\ st'.assigned[n] = <<>> /\ st'.sent[n] = <<>>
      /\ st.shutting \subseteq st'.shutting
      /\ session' = "run" =>
           session = "run" /\ st'.shutting \subseteq st.shutting \cup (ToSet(st.active[a]) \ {n})
      /\ \A o \in Node \ {n} : o \notin ToSet(st.active[a]) \/ o \in st.shutting =>
           st'.assigned[o] = st.assigned[o] /\ st'.sent[o] = st.sent[o]
  BY <1>3, <1>4 DEF Leaves
<1>7. RunTypes' /\ Good(st, reports)'
  BY <1>1, <1>4 DEF WorkInv, RunTypes
<1>8. ActiveInv'
  <2> DEFINE i == IndexOf(st.active[a], n)
  <2>1. i \in 1..Len(st.active[a]) /\ st.active[a][i] = n
    <3>1. \E k \in DOMAIN st.active[a] : st.active[a][k] = n
      BY <1>2, Listed
    <3>2. i \in DOMAIN st.active[a] /\ st.active[a][i] = n
      BY <3>1 DEF IndexOf
    <3> QED BY <1>2, <3>2, Listed
  <2> HIDE DEF i
  <2>2. st'.active[a] = RemoveAt(st.active[a], i) /\ \A b \in Affinities \ {a} : st'.active[b] = st.active[b]
    BY <1>2, <1>6 DEF i
  <2>3. st.active[a] \in Seq(Node)
    BY <1>2
  <2>4. OnceEach(st'.active[a]) /\ ToSet(st'.active[a]) = ToSet(st.active[a]) \ {n}
    BY <1>2, <2>1, <2>2, <2>3, RemovedOnce
  <2> SUFFICES ASSUME NEW b \in Affinities
               PROVE  /\ OnceEach(st'.active[b])
                      /\ ToSet(st'.active[b]) =
                           {o \in Node : phase'[o] = "active" /\ NodeAffinity[o] = b}
    BY DEF ActiveInv
  <2>5. CASE b = a
    BY <1>5, <2>4, <2>5 DEF WorkInv, ActiveInv
  <2>6. CASE b # a
    BY <1>5, <2>2, <2>6 DEF WorkInv, ActiveInv
  <2> QED BY <2>5, <2>6
<1>9. IdleInv'
  BY <1>1, <1>2, <1>5, <1>6 DEF WorkInv, IdleInv
<1>10. ReportInv'
  BY <1>1, <1>6 DEF WorkInv, ReportInv
<1>11. FinishInv'
  BY <1>1, <1>2, <1>5, <1>6 DEF WorkInv, FinishInv
<1> QED BY <1>7, <1>8, <1>9, <1>10, <1>11 DEF WorkInv

\* A meter or group that is locked has no worker yet.
LEMMA NewWorker ==
  ASSUME LockInv, LockSingle \/ LockMulti
  PROVE  \E n \in Node : /\ phase[n] # "active" /\ phase' = [phase EXCEPT ![n] = "starting"]
                         /\ UNCHANGED <<st, runVars, session>>
<1>1. session \in {"run", "shutdown"} /\ ListTypes /\ Held
  <2>1. polling # "no"
    BY DEF LockSingle, LockMulti
  <2> QED BY <2>1 DEF LockInv
<1>2. CASE LockSingle
  <2> DEFINE m == meters[at]
  <2>1. /\ at <= Len(meters) /\ row[m] = "free" /\ phase' = [phase EXCEPT ![m] = "starting"]
        /\ UNCHANGED <<st, runVars, session>>
    BY <1>2 DEF LockSingle, endVars
  <2>2. m \in ToSet(Singles)
    BY <1>1, <2>1, ElementOfSeq, LenProperties DEF ListTypes
  <2>3. m \in Node /\ m \in First /\ m # Default /\ m \in Meter /\ m \notin ToSet(Groups)
    BY <2>2, Names DEF First
  <2> HIDE DEF m
  <2>4. ~Live(m)
    BY <1>1, <2>1, <2>3 DEF Held, Mine, ListTypes
  <2> QED BY <2>1, <2>3, <2>4 DEF Live
<1>3. CASE LockMulti
  <2> DEFINE g == multi_meters[at]
  <2>1. /\ at <= Len(multi_meters) /\ FreeAll(g) /\ phase' = [phase EXCEPT ![g] = "starting"]
        /\ UNCHANGED <<st, runVars, session>>
    BY <1>3 DEF LockMulti, endVars
  <2>2. g \in ToSet(Groups)
    BY <1>1, <2>1, ElementOfSeq, LenProperties DEF ListTypes
  <2>3. /\ g \in Node /\ g \in First /\ g # Default /\ g \notin ToSet(Singles)
        /\ Members(g) # {} /\ Members(g) \subseteq Meter
    BY <2>2, GroupsAreLists, Names DEF GroupsListed, First
  <2> HIDE DEF g
  <2>4. g \notin locked_multi_meters
    BY <1>1, <2>1, <2>3 DEF Held, Grouped, Mine, FreeAll
  <2>5. ~Live(g)
    BY <1>1, <2>3, <2>4 DEF Held, ListTypes
  <2> QED BY <2>1, <2>3, <2>5 DEF Live
<1> QED BY <1>2, <1>3

\* The steps of the master that the workers do not notice.
MasterAlone ==
  \/ BeginPoll \/ poll_single_begin \/ SkipSingle \/ poll_single_end
  \/ poll_multi_begin \/ SkipMulti \/ poll_multi_end \/ EndPoll
  \/ SessionEnds \/ Abort \/ close \/ LockTimeout
  \/ (\E m \in Contended : OtherSession(m)) \/ UNCHANGED vars

LEMMA AloneQuiet ==
  MasterAlone => UNCHANGED workerVars /\ (session' = "run" => session = "run")
<1> SUFFICES ASSUME MasterAlone
             PROVE  UNCHANGED workerVars /\ (session' = "run" => session = "run")
  OBVIOUS
<1>1. CASE BeginPoll \/ poll_single_begin \/ SkipSingle \/ poll_single_end
             \/ poll_multi_begin \/ SkipMulti \/ poll_multi_end \/ EndPoll
  BY <1>1 DEF BeginPoll, poll_single_begin, SkipSingle, poll_single_end, poll_multi_begin,
       SkipMulti, poll_multi_end, EndPoll, Raise, endVars
<1>2. CASE SessionEnds \/ Abort \/ close \/ LockTimeout \/ \E m \in Contended : OtherSession(m)
  BY <1>2 DEF SessionEnds, Abort, close, LockTimeout, OtherSession, Raise, endVars
<1>3. CASE UNCHANGED vars
  BY <1>3 DEF vars, masterVars, endVars
<1> QED BY <1>1, <1>2, <1>3 DEF MasterAlone

LEMMA RemoveCases ==
  ASSUME NEW n \in Node, remove_node(n)
  PROVE  /\ Looping /\ n \in finished /\ reports[n] = <<>> /\ UNCHANGED runVars
         /\ \/ /\ phase[n] = "active" /\ Leaving(n)
               /\ \/ st' = remove_active(st, n) /\ UNCHANGED endVars
                  \/ /\ n \in crashed /\ st' = Shutdown(remove_active(st, n), Scheduled \ {n})
                     /\ session' = "shutdown"
            \/ /\ UNCHANGED <<st, phase>> /\ session' = "failed" /\ error' # "none"
            \/ /\ phase[n] = "refused" /\ phase' = [phase EXCEPT ![n] = "gone"]
               /\ UNCHANGED <<st, endVars>>
BY DEF remove_node, Raise, Leaving

LEMMA NextWork ==
  ASSUME LockInv, WorkInv, [Next]_vars
  PROVE  WorkInv'
<1>1. phase \in Phases
  BY DEF LockInv, ListTypes, Phases
<1>2. ASSUME NEW n \in Node, WorkerStep(n) \/ Crash(n) PROVE WorkInv'
  BY <1>2, WorkRun, WorkEnd DEF WorkerStep
<1>3. ASSUME NEW n \in Node, add_node(n) \/ NodeCollected(n) \/ TestComplete(n) PROVE WorkInv'
  BY <1>1, <1>3, WorkReady, WorkCollected, WorkComplete
<1>4. ASSUME NEW n \in Node, remove_node(n) PROVE WorkInv'
  <2>1. /\ Looping /\ n \in finished /\ reports[n] = <<>> /\ UNCHANGED runVars
        /\ \/ /\ phase[n] = "active" /\ Leaving(n)
              /\ \/ st' = remove_active(st, n) /\ session' = session
                 \/ st' = Shutdown(remove_active(st, n), Scheduled \ {n}) /\ session' # "run"
           \/ UNCHANGED <<st, phase>> /\ session' = "failed"
           \/ /\ phase[n] = "refused" /\ phase' = [phase EXCEPT ![n] = "gone"]
              /\ UNCHANGED <<st, session>>
    BY <1>4, RemoveCases DEF endVars
  <2>2. CASE /\ phase[n] = "active" /\ Leaving(n)
             /\ \/ st' = remove_active(st, n) /\ session' = session
                \/ st' = Shutdown(remove_active(st, n), Scheduled \ {n}) /\ session' # "run"
    BY <1>1, <2>1, <2>2, WorkRemove
  <2>3. CASE UNCHANGED <<st, phase>> /\ session' = "failed"
    BY <2>1, <2>3, WorkQuiet DEF workerVars
  <2>4. CASE /\ phase[n] = "refused" /\ phase' = [phase EXCEPT ![n] = "gone"]
             /\ UNCHANGED <<st, session>>
    BY <1>1, <2>1, <2>4, WorkPhase DEF Phases
  <2> QED BY <2>1, <2>2, <2>3, <2>4
<1>5. CASE LockSingle \/ LockMulti
  <2>1. PICK n \in Node : /\ phase[n] # "active" /\ phase' = [phase EXCEPT ![n] = "starting"]
                          /\ UNCHANGED <<st, runVars, session>>
    BY <1>5, NewWorker
  <2> QED BY <1>1, <2>1, WorkPhase DEF Phases
<1>6. CASE TriggerShutdown
  <2>1. Scheduled \in SUBSET Node
    BY DEF Scheduled
  <2>2. st' = Shutdown(st, Scheduled) /\ session' # "run" /\ UNCHANGED <<phase, runVars>>
    BY <1>6 DEF TriggerShutdown
  <2> HIDE DEF Scheduled
  <2> QED BY <2>1, <2>2, WorkShutdown
<1>7. CASE MasterAlone
  BY <1>7, AloneQuiet, WorkQuiet
<1> QED BY <1>2, <1>3, <1>4, <1>5, <1>6, <1>7 DEF Next, Event, Poll, Done, MasterAlone

\* A session without a crash shuts down when all tests were handed out, and ends when
\* all were run; one that fails says so.
EndInv ==
  /\ session \in {"shutdown", "ended"} /\ crashed = {} =>
       /\ \A t \in Test : Affinity[t] \in st.scheduled
       /\ \A a \in Affinities : st.queue[a] = <<>>
  /\ (session = "ended" \/ (session = "closed" /\ error = "none")) /\ crashed = {} => ran = Test
  /\ session = "failed" => error # "none"

\* A step that ends nothing.
LEMMA EndSame ==
  ASSUME EndInv, UNCHANGED endVars, ran \subseteq ran', ran' \subseteq Test, crashed \subseteq crashed',
         session # "run" => st.scheduled \subseteq st'.scheduled,
         \A a \in Affinities : session # "run" /\ crashed' = {} /\ st.queue[a] = <<>> => st'.queue[a] = <<>>
  PROVE  EndInv'
<1>1. session' = session /\ error' = error
  BY DEF endVars
<1>2. crashed' = {} => crashed = {}
  OBVIOUS
<1> QED BY <1>1, <1>2 DEF EndInv

LEMMA ShutdownParts ==
  ASSUME NEW s \in Schedulers, NEW N
  PROVE  Shutdown(s, N).scheduled = s.scheduled /\ Shutdown(s, N).queue = s.queue
BY DEF Shutdown, Schedulers

\* All tests are handed out: the affinities that have none wait for nothing.
LEMMA EndTrigger ==
  ASSUME WorkInv, TriggerShutdown
  PROVE  EndInv'
<1>1. /\ session' = "shutdown" /\ st' = Shutdown(st, Scheduled) /\ ran' = ran
      /\ \A a \in Known : tests_finished(st, a)
  BY DEF TriggerShutdown, runVars
<1>2. st \in Schedulers /\ st'.scheduled = st.scheduled /\ st'.queue = st.queue
  BY <1>1, ShutdownParts DEF WorkInv, Good
<1>3. collection
  <2>1. "default" \in st.scheduled
    BY <1>1 DEF Known, tests_finished
  <2> QED BY <2>1 DEF WorkInv, ReportInv
<1>4. \A t \in Test : tests_finished(st, Affinity[t])
  BY <1>1, <1>3 DEF Known
<1>5. ASSUME NEW a \in Affinities PROVE st.queue[a] = <<>>
  <2>1. CASE \E t \in Test : Affinity[t] = a
    BY <1>4, <2>1 DEF tests_finished
  <2>2. CASE ~\E t \in Test : Affinity[t] = a
    <3>1. ToSet(st.queue[a]) = {}
      BY <2>2 DEF WorkInv, Good, Sorted, Of
    <3>2. st.queue[a] \in Seq(Test)
      BY <1>2 DEF Schedulers
    <3> QED BY <3>1, <3>2, EmptyList
  <2> QED BY <2>1, <2>2
<1>6. \A t \in Test : Affinity[t] \in st.scheduled
  BY <1>4 DEF tests_finished
<1> QED BY <1>1, <1>2, <1>5, <1>6 DEF EndInv

\* When the last worker has gone, what is not complete would still be somewhere.
LEMMA EndReached ==
  ASSUME WorkInv, EndInv, SessionEnds
  PROVE  EndInv'
<1>1. /\ NoWorkers /\ UNCHANGED <<st, ran, crashed>>
      /\ (session = "shutdown" /\ session' = "ended") \/ (session' = "failed" /\ error' = "RuntimeError")
  BY DEF SessionEnds, workerVars, runVars, Raise
<1>2. CASE session' = "failed" /\ error' = "RuntimeError"
  BY <1>2 DEF EndInv
<1>3. CASE session = "shutdown" /\ session' = "ended"
  <2> SUFFICES ASSUME crashed = {} PROVE EndInv'
    BY <1>1, <1>3 DEF EndInv
  <2>1. /\ \A t \in Test : Affinity[t] \in st.scheduled
        /\ \A a \in Affinities : st.queue[a] = <<>>
    BY <1>3 DEF EndInv
  <2>2. ASSUME NEW t \in Test PROVE t \in ran
    <3> DEFINE a == Affinity[t]
    <3>1. a \in st.scheduled /\ a \in Affinities /\ t \in Of(a)
      BY <2>1 DEF WorkInv, Good, Schedulers, Of
    <3>2. \A o \in Node : phase[o] # "active"
      BY <1>1 DEF NoWorkers
    <3>3. ToSet(st.active[a]) = {}
      BY <3>1, <3>2 DEF WorkInv, ActiveInv
    <3>4. ToSet(st.queue[a]) = {}
      BY <2>1, <3>1, EmptyList
    <3>5. t \in st.done
      BY <3>1, <3>3, <3>4 DEF WorkInv, Good, Kept
    <3> QED BY <3>5 DEF WorkInv, ReportInv
  <2>3. ran = Test
    BY <2>2 DEF WorkInv, RunTypes
  <2> QED BY <1>1, <1>3, <2>1, <2>3 DEF EndInv
<1> QED BY <1>1, <1>2, <1>3

LEMMA NextEnd ==
  ASSUME LockInv, WorkInv, WorkInv', EndInv, [Next]_vars
  PROVE  EndInv'
<1>1. st \in Schedulers /\ ran' \subseteq Test
  BY DEF WorkInv, Good, RunTypes
<1>2. ASSUME NEW n \in Node, RunTest(n) PROVE EndInv'
  <2>1. UNCHANGED endVars /\ ran \subseteq ran' /\ crashed' = crashed
    BY <1>2 DEF RunTest, masterVars
  <2>2. st'.scheduled = st.scheduled /\ st'.queue = st.queue
    BY <1>1, <1>2 DEF RunTest, Schedulers
  <2> QED BY <1>1, <2>1, <2>2, EndSame
<1>3. ASSUME NEW n \in Node, WorkerEnds(n) \/ Crash(n) PROVE EndInv'
  <2>1. UNCHANGED endVars /\ ran' = ran /\ crashed \subseteq crashed' /\ st' = st
    BY <1>3 DEF WorkerEnds, Crash, masterVars
  <2> QED BY <1>1, <2>1, EndSame
<1>4. ASSUME NEW n \in Node, add_node(n) PROVE EndInv'
  <2>1. UNCHANGED endVars /\ UNCHANGED <<ran, crashed>> /\ st' \in {st, Shutdown(st, {n})}
    BY <1>4 DEF add_node, masterVars, runVars
  <2>2. st'.scheduled = st.scheduled /\ st'.queue = st.queue
    BY <1>1, <2>1, ShutdownParts
  <2> QED BY <1>1, <2>1, <2>2, EndSame
<1>5. ASSUME NEW n \in Node, NodeCollected(n) PROVE EndInv'
  <2>1. session = "run" /\ (UNCHANGED endVars \/ (session' = "failed" /\ error' # "none"))
    BY <1>5 DEF NodeCollected, Raise
  <2> QED BY <2>1 DEF EndInv, endVars
<1>6. ASSUME NEW n \in Node, TestComplete(n) PROVE EndInv'
  <2>1. UNCHANGED endVars /\ UNCHANGED <<ran, crashed>>
    BY <1>6 DEF TestComplete, masterVars
  <2>2. /\ st'.scheduled = st.scheduled
        /\ \A a \in Affinities : st.queue[a] = <<>> => st'.queue[a] = <<>>
    BY <1>6, CompleteParts DEF Completes
  <2> QED BY <1>1, <2>1, <2>2, EndSame
<1>7. ASSUME NEW n \in Node, remove_node(n) PROVE EndInv'
  <2>1. /\ Looping /\ n \in finished /\ reports[n] = <<>> /\ UNCHANGED <<ran, crashed>>
        /\ \/ /\ phase[n] = "active"
              /\ \/ st' = remove_active(st, n) /\ UNCHANGED endVars
                 \/ n \in crashed /\ session' = "shutdown"
           \/ session' = "failed" /\ error' # "none"
           \/ UNCHANGED <<st, endVars>>
    BY <1>7, RemoveCases DEF runVars
  <2>2. CASE phase[n] = "active" /\ st' = remove_active(st, n) /\ UNCHANGED endVars
    <3>1. n \notin crashed => Pending(st, n) = {}
      BY <2>1, <2>2, NothingPending
    <3>2. Leaves(st, st', n)
      BY <2>2, RemoveLeaves
    <3>3. st'.scheduled = st.scheduled /\ (crashed = {} => st'.queue = st.queue)
      BY <3>1, <3>2 DEF Leaves
    <3> QED BY <1>1, <2>1, <2>2, <3>3, EndSame
  <2>3. CASE n \in crashed /\ session' = "shutdown"
    BY <2>1, <2>3 DEF EndInv
  <2>4. CASE session' = "failed" /\ error' # "none"
    BY <2>4 DEF EndInv
  <2>5. CASE UNCHANGED <<st, endVars>>
    BY <1>1, <2>1, <2>5, EndSame
  <2> QED BY <2>1, <2>2, <2>3, <2>4, <2>5
<1>8. CASE TriggerShutdown
  BY <1>8, EndTrigger
<1>9. CASE SessionEnds
  BY <1>9, EndReached
<1>10. CASE close
  <2>1. /\ session \in {"ended", "failed"} /\ session' = "closed" /\ UNCHANGED <<ran, crashed>>
        /\ error' \in {error, "ValueError"}
    BY <1>10 DEF close, workerVars, runVars
  <2> QED BY <2>1 DEF EndInv
<1>11. CASE UNCHANGED <<workerVars, endVars>>
  BY <1>1, <1>11, EndSame DEF workerVars, runVars
<1>12. CASE session' = "failed" /\ error' # "none"
  BY <1>12 DEF EndInv
<1>13. CASE LockSingle \/ LockMulti
  <2>1. UNCHANGED <<st, runVars, endVars>>
    BY <1>13 DEF LockSingle, LockMulti
  <2> QED BY <1>1, <2>1, EndSame DEF runVars
<1>14. CASE Poll \/ Abort \/ LockTimeout \/ (\E m \in Contended : OtherSession(m)) \/ UNCHANGED vars
  <2>1. \/ LockSingle \/ LockMulti \/ UNCHANGED <<workerVars, endVars>>
        \/ session' = "failed" /\ error' # "none"
    <3>1. CASE Poll
      BY <3>1 DEF Poll, BeginPoll, poll_single_begin, SkipSingle, poll_single_end, poll_multi_begin,
           SkipMulti, poll_multi_end, EndPoll, Raise
    <3>2. CASE Abort \/ LockTimeout \/ \E m \in Contended : OtherSession(m)
      BY <3>2 DEF Abort, LockTimeout, OtherSession, Raise
    <3>3. CASE UNCHANGED vars
      BY <3>3 DEF vars, masterVars
    <3> QED BY <1>14, <3>1, <3>2, <3>3
  <2> QED BY <1>11, <1>12, <1>13, <2>1
<1> QED BY <1>2, <1>3, <1>4, <1>5, <1>6, <1>7, <1>8, <1>9, <1>10, <1>14
        DEF Next, WorkerStep, Event, Done

-----------------------------------------------------------------------------
(* What is left of the types *)

\* The counters, the file and where the loops are.
TableTypes ==
  /\ track_locks \subseteq Meter /\ track_locks_multi \subseteq Meter /\ json \subseteq Meter
  /\ cur_locked \in 0..option.max_meters /\ cur_locked_multi \in 0..option.max_meters
  /\ expired \in BOOLEAN /\ allow_no_nodes \in BOOLEAN /\ option \in Options
  /\ polling \in {"no", "assert", "single", "multiassert", "multi", "end"}
  /\ session \in {"run", "shutdown", "ended", "failed", "closed"}
  /\ error \in {"none", "TypeError", "AssertionError", "ValueError", "RuntimeError", "Interrupted"}

LEMMA InitTables == Init => TableTypes
<1>1. Init => option \in Options /\ option.max_meters \in Nat
  BY BoundAssumption DEF Init
<1>2. \A k \in Nat : 0 \in 0..k
  OBVIOUS
<1> QED BY <1>1, <1>2 DEF Init, TableTypes

\* What a worker had leaves the counters, which count what is locked.
LEMMA ForgetTables ==
  ASSUME LockInv', TableTypes, NEW n \in Node, DropLocks(n), session' # "closed",
         UNCHANGED <<expired, option, allow_no_nodes, polling>>,
         session' \in {"run", "shutdown", "ended", "failed"}, error' = error
  PROVE  TableTypes'
<1>1. Held'
  BY DEF LockInv
<1>2. cur_locked' \in Nat /\ cur_locked_multi' \in Nat
  BY <1>1, FS_CardinalityType DEF Held
<1>3. /\ cur_locked' \in {cur_locked, cur_locked - 1}
      /\ \/ cur_locked_multi' = cur_locked_multi
         \/ n \in ToSet(Groups) /\ cur_locked_multi' = cur_locked_multi - Cardinality(MetersOf(n))
      /\ track_locks' \subseteq track_locks /\ track_locks_multi' \subseteq track_locks_multi
      /\ json' = track_locks'
  BY DEF DropLocks, ForgetLocks
<1>4. n \in ToSet(Groups) => Cardinality(MetersOf(n)) \in Nat
  BY Names, FS_CardinalityType
<1>5. option.max_meters \in Nat /\ cur_locked \in 0..option.max_meters /\ cur_locked_multi \in 0..option.max_meters
  BY BoundAssumption DEF TableTypes
<1>6. cur_locked' \in 0..option.max_meters
  BY <1>2, <1>3, <1>5
<1>7. cur_locked_multi' \in 0..option.max_meters
  BY <1>2, <1>3, <1>4, <1>5
<1> QED BY <1>3, <1>6, <1>7 DEF TableTypes

LEMMA NextTables ==
  ASSUME LockInv, LockInv', TableTypes, [Next]_vars
  PROVE  TableTypes'
<1> DEFINE Errors == {"none", "TypeError", "AssertionError", "ValueError", "RuntimeError",
                      "Interrupted"}
<1>a. ASSUME UNCHANGED <<lockVars, tableVars>>,
             session' \in {session, "shutdown", "ended", "failed"}, error' \in Errors,
             polling' \in {"no", "assert", "single", "multiassert", "multi", "end"},
             allow_no_nodes' \in BOOLEAN
      PROVE  TableTypes'
  BY <1>a DEF TableTypes, lockVars, singleVars, multiVars, tableVars
<1>1. CASE \E n \in Node : WorkerStep(n) \/ Crash(n) \/ add_node(n) \/ NodeCollected(n)
                             \/ TestComplete(n)
  <2>1. /\ UNCHANGED <<lockVars, tableVars, pollVars>>
        /\ UNCHANGED endVars \/ (session' = "failed" /\ error' = "AssertionError")
    BY <1>1 DEF WorkerStep, RunTest, WorkerEnds, Crash, add_node, NodeCollected, TestComplete,
         masterVars, Raise
  <2> QED BY <1>a, <2>1 DEF TableTypes, pollVars, endVars
<1>2. ASSUME NEW n \in Node, remove_node(n) PROVE TableTypes'
  <2>1. /\ session \in {"run", "shutdown"} /\ UNCHANGED <<expired, option, pollVars>>
        /\ \/ DropLocks(n) /\ session' \in {session, "shutdown"} /\ error' = error
           \/ /\ UNCHANGED <<lockVars, row>> /\ session' = "failed"
              /\ error' \in {"TypeError", "AssertionError"}
           \/ UNCHANGED <<lockVars, row, endVars>>
    BY <1>2 DEF remove_node, Looping, Raise, endVars
  <2>2. CASE DropLocks(n) /\ session' \in {session, "shutdown"} /\ error' = error
    BY <2>1, <2>2, ForgetTables DEF pollVars
  <2>3. CASE /\ UNCHANGED <<lockVars, row>> /\ session' = "failed"
             /\ error' \in {"TypeError", "AssertionError"}
    BY <1>a, <2>1, <2>3 DEF TableTypes, pollVars, tableVars
  <2>4. CASE UNCHANGED <<lockVars, row, endVars>>
    BY <1>a, <2>1, <2>4 DEF TableTypes, pollVars, tableVars, endVars
  <2> QED BY <2>1, <2>2, <2>3, <2>4
<1>3. CASE BeginPoll \/ poll_single_begin \/ SkipSingle \/ poll_single_end
             \/ poll_multi_begin \/ SkipMulti \/ poll_multi_end
  <2>1. UNCHANGED <<lockVars, tableVars, allow_no_nodes>>
    BY <1>3 DEF BeginPoll, poll_single_begin, SkipSingle, poll_single_end, poll_multi_begin,
         SkipMulti, poll_multi_end, PollGoes, PollNext, PollStops
  <2>2. polling' \in {polling, "no", "assert", "single", "multiassert", "multi", "end"}
    BY <1>3 DEF BeginPoll, poll_single_begin, SkipSingle, poll_single_end, poll_multi_begin,
         SkipMulti, poll_multi_end, PollGoes, PollNext, PollStops
  <2>3. UNCHANGED endVars \/ (session' = "failed" /\ error' \in {"AssertionError", "ValueError"})
    BY <1>3 DEF BeginPoll, poll_single_begin, SkipSingle, poll_single_end, poll_multi_begin,
         SkipMulti, poll_multi_end, Raise
  <2> QED BY <1>a, <2>1, <2>2, <2>3 DEF TableTypes, endVars
<1>4. CASE EndPoll
  <2>1. /\ polling' = "no" /\ json' = track_locks /\ allow_no_nodes' \in BOOLEAN
        /\ UNCHANGED <<singleVars, multiVars, tableVars, endVars>>
    BY <1>4 DEF EndPoll
  <2> QED BY <2>1 DEF TableTypes, singleVars, multiVars, tableVars, endVars
<1>5. CASE LockSingle
  <2> DEFINE m == meters[at]
  <2>1. /\ at <= Len(meters) /\ cur_locked < option.max_meters /\ track_locks' = track_locks \cup {m}
        /\ cur_locked' = cur_locked + 1 /\ UNCHANGED <<multiVars, json, expired, option, endVars>>
        /\ UNCHANGED <<polling, allow_no_nodes>>
    BY <1>5 DEF LockSingle, PollNext
  <2>2. m \in Meter
    <3>1. m \in ToSet(Singles)
      BY <2>1, ElementOfSeq, LenProperties DEF LockInv, ListTypes
    <3> QED BY <3>1, Names
  <2> HIDE DEF m
  <2> QED BY <2>1, <2>2, BoundAssumption DEF TableTypes, multiVars, endVars
<1>6. CASE LockMulti
  <2> DEFINE g == multi_meters[at]
  <2>1. /\ at <= Len(multi_meters) /\ cur_locked_multi + Cardinality(Members(g)) <= option.max_meters
        /\ track_locks_multi' = track_locks_multi \cup Members(g)
        /\ cur_locked_multi' = cur_locked_multi + Cardinality(Members(g))
        /\ UNCHANGED <<singleVars, json, expired, option, endVars>>
        /\ UNCHANGED <<polling, allow_no_nodes>>
    BY <1>6 DEF LockMulti, PollNext, FitsGroup
  <2>2. Members(g) \subseteq Meter /\ Cardinality(Members(g)) \in Nat
    <3>1. g \in ToSet(Groups)
      BY <2>1, ElementOfSeq, LenProperties DEF LockInv, ListTypes
    <3> QED BY <3>1, Names, FS_CardinalityType
  <2> HIDE DEF g
  <2> QED BY <2>1, <2>2, BoundAssumption DEF TableTypes, singleVars, endVars
<1>7. CASE TriggerShutdown \/ SessionEnds \/ Abort
  <2>1. UNCHANGED <<lockVars, tableVars, pollVars>>
    BY <1>7 DEF TriggerShutdown, SessionEnds, Abort
  <2>2. session' \in {"shutdown", "ended", "failed"} /\ error' \in {error, "RuntimeError", "Interrupted"}
    BY <1>7 DEF TriggerShutdown, SessionEnds, Abort, Raise
  <2> QED BY <1>a, <2>1, <2>2 DEF TableTypes, pollVars
<1>8. CASE close
  <2>1. /\ session' = "closed" /\ track_locks' = {} /\ json' \in {track_locks', json}
        /\ error' \in {error, "ValueError"}
        /\ UNCHANGED <<cur_locked, multiVars, expired, option, pollVars>>
    BY <1>8 DEF close
  <2> QED BY <2>1 DEF TableTypes, multiVars, pollVars
<1>9. CASE LockTimeout \/ (\E m \in Contended : OtherSession(m))
  <2>1. UNCHANGED <<lockVars, option, pollVars, endVars>> /\ expired' \in {expired, TRUE}
    BY <1>9 DEF LockTimeout, OtherSession
  <2> QED BY <2>1 DEF TableTypes, lockVars, singleVars, multiVars, pollVars, endVars
<1>10. CASE UNCHANGED vars
  BY <1>a, <1>10 DEF TableTypes, vars, masterVars, pollVars, endVars
<1> QED BY <1>1, <1>2, <1>3, <1>4, <1>5, <1>6, <1>7, <1>8, <1>9, <1>10 DEF Next, Event, Poll, Done

-----------------------------------------------------------------------------
(* What holds of a session *)

SessionInv == LockInv /\ WorkInv /\ EndInv /\ TableTypes

LEMMA SessionKept == Spec => []SessionInv
<1>1. Init => SessionInv
  <2>1. Init => EndInv
    BY DEF Init, EndInv
  <2> QED BY <2>1, InitLocks, InitWork, InitTables DEF SessionInv
<1>2. SessionInv /\ [Next]_vars => SessionInv'
  <2> SUFFICES ASSUME SessionInv, [Next]_vars PROVE SessionInv'
    OBVIOUS
  <2>1. LockInv'
    BY NextLocks DEF SessionInv
  <2>2. WorkInv'
    BY NextWork DEF SessionInv
  <2>3. EndInv'
    BY <2>2, NextEnd DEF SessionInv
  <2>4. TableTypes'
    BY <2>1, NextTables DEF SessionInv
  <2> QED BY <2>1, <2>2, <2>3, <2>4 DEF SessionInv
<1> QED BY <1>1, <1>2, PTL DEF Spec

\* The state of the session and of its schedulers is what the classes keep
\* (MeterScheduler, LoadAffinityScheduling).
THEOREM SessionTypes == Spec => []TypeOK
<1>1. SessionInv => TypeOK
  <2> SUFFICES ASSUME SessionInv PROVE TypeOK
    OBVIOUS
  <2>1. st \in Schedulers
    BY DEF SessionInv, WorkInv, Good
  <2>2. /\ st.scheduled \subseteq Affinities
        /\ \A a \in Affinities : st.queue[a] \in Seq(Test) /\ st.active[a] \in Seq(Node)
        /\ \A n \in Node : st.assigned[n] \in Seq(Test) /\ st.sent[n] \in Seq(DOMAIN Collection)
        /\ st.done \subseteq Test /\ st.shutting \subseteq Node
    BY <2>1 DEF Schedulers
  <2> QED BY <2>2 DEF SessionInv, TypeOK, LockInv, ListTypes, WorkInv, RunTypes, Numbers, TableTypes
<1> QED BY SessionKept, <1>1, PTL

\* A worker only gets tests of its own affinity and what is marked complete was run,
\* for any collection, fixtures and workers: the renumberings of
\* LoadAffinityScheduling undo each other.
THEOREM KeepsAffinity == Spec => []AffinityKept
<1>1. SessionInv => AffinityKept
  <2> SUFFICES ASSUME SessionInv PROVE AffinityKept
    OBVIOUS
  <2>1. ASSUME NEW n \in Node, NEW j \in ToSet(st.sent[n] \o reports[n])
        PROVE  Affinity[Collection[j]] = NodeAffinity[n]
    <3>1. st.sent[n] \in Seq(DOMAIN Collection) /\ reports[n] \in Seq(DOMAIN Collection)
      BY DEF SessionInv, WorkInv, Good, Schedulers, RunTypes, Numbers
    <3>2. j \in ToSet(st.sent[n]) \cup ToSet(reports[n])
      BY <2>1, <3>1, Joined
    <3> QED BY <3>2 DEF SessionInv, WorkInv, Good, Sorted, ReportInv
  <2> QED BY <2>1 DEF SessionInv, WorkInv, ReportInv, AffinityKept
<1> QED BY SessionKept, <1>1, PTL

\* No test is lost between the queue, the workers and the marks, for any collection,
\* crashes and order of events (SubLoadGroupScheduling, remove_node of xdist).
THEOREM LosesNothing == Spec => []NothingLost
<1>1. SessionInv => NothingLost
  BY SubTests DEF SessionInv, WorkInv, Good, Kept, NothingLost, Tests
<1> QED BY SessionKept, <1>1, PTL

\* A session that closes without an error or a crash has run every test, for any
\* collection, meters and other sessions (LoadAffinityScheduling.tests_finished).
THEOREM EndsComplete == Spec => []WellMeansAllRan
<1>1. SessionInv => WellMeansAllRan
  BY DEF SessionInv, EndInv, WellMeansAllRan
<1> QED BY SessionKept, <1>1, PTL

=============================================================================
