---------------------------- MODULE PickingProofs ----------------------------
(***************************************************************************)
(* Facts about the operators of module Picking, for every number of        *)
(* consumers, leaders and copies.                                          *)
(***************************************************************************)
EXTENDS Picking, FiniteSetTheorems, WellFoundedInduction, TLAPS

\* Whatever the stakes, the total and the random point, a sample is one of
\* the consumers iterated over.
LEMMA SamplesComeFromOrder ==
  ASSUME NEW S, NEW order \in Seq(S), NEW stake, NEW total
  PROVE  UNION sample_consumer_stake_weighted(order, stake, total) \subseteq S
<1>1. \A point : HitBy(order, stake, point) \subseteq S
  BY DEF HitBy
<1>2. QED
  BY <1>1 DEF sample_consumer_stake_weighted

\* A function on 1 .. m is a sequence.
LEMMA FunctionIsSeq ==
  ASSUME NEW S, NEW T \in SUBSET S, NEW m \in Nat, NEW f \in [1 .. m -> T]
  PROVE  f \in Seq(S)
OBVIOUS

\* The m elements of lead are the connected leaders, in the map's order.
LeadersInOrder(order, leaders, lead, m) ==
  /\ \A e \in 1 .. m : lead[e] \in Range(order) \cap leaders
  /\ \A c \in Range(order) \cap leaders : \E e \in 1 .. m : lead[e] = c
  /\ \A a, b \in 1 .. m : a < b =>
       \E x, y \in 1 .. Len(order) :
         x < y /\ order[x] = lead[a] /\ order[y] = lead[b]

\* The leaders of the map in its order are one of LeaderPicks.
LEMMA LeaderPick ==
  ASSUME NEW S, NEW order \in Seq(S), IsInjective(order), NEW leaders,
         NEW m \in Nat, NEW lead \in [1 .. m -> S],
         LeadersInOrder(order, leaders, lead, m)
  PROVE  lead \in LeaderPicks(order, leaders) /\ Len(lead) = m
<1> DEFINE T == Range(order) \cap leaders
<1>1. Len(lead) = m
  OBVIOUS
<1>2. \A a, b \in 1 .. m : a < b => lead[a] # lead[b]
  <2> SUFFICES ASSUME NEW a \in 1 .. m, NEW b \in 1 .. m, a < b, lead[a] = lead[b]
               PROVE  FALSE
    OBVIOUS
  <2>1. PICK x, y \in 1 .. Len(order) :
          x < y /\ order[x] = lead[a] /\ order[y] = lead[b]
    BY DEF LeadersInOrder
  <2>2. x = y
    BY <2>1 DEF IsInjective
  <2>3. Len(order) \in Nat
    OBVIOUS
  <2>4. QED
    BY <2>1, <2>2, <2>3
<1>3. \A a, b \in 1 .. m : a # b => lead[a] # lead[b]
  <2> SUFFICES ASSUME NEW a \in 1 .. m, NEW b \in 1 .. m, a # b
               PROVE  lead[a] # lead[b]
    OBVIOUS
  <2>1. a < b \/ b < a
    OBVIOUS
  <2>2. QED
    BY <1>2, <2>1, Zenon
<1>4. lead \in Bijection(1 .. m, T)
  <2>1. lead \in [1 .. m -> T] /\ \A t \in T : \E e \in 1 .. m : lead[e] = t
    BY DEF LeadersInOrder
  <2> HIDE DEF T
  <2>2. QED
    BY <1>3, <2>1 DEF Bijection, Injection, Surjection, IsInjective
<1>5. Cardinality(T) = m
  <2>1. IsFiniteSet(1 .. m) /\ Cardinality(1 .. m) = m
    <3>1. 1 \in Int /\ m \in Int /\ (IF 1 > m THEN 0 ELSE m - 1 + 1) = m
      OBVIOUS
    <3>2. QED
      BY <3>1, FS_Interval
  <2>2. QED
    BY <1>4, <2>1, FS_Bijection DEF ExistsBijection
<1>6. lead \in [1 .. m -> T]
  BY DEF LeadersInOrder
<1> HIDE DEF T
<1>7. lead \in SetToSeqs(T)
  BY <1>3, <1>5, <1>6 DEF SetToSeqs
<1>8. QED
  BY <1>1, <1>7 DEF LeaderPicks, LeadersInOrder, T

\* pick_consumers picks connected consumers only.
LEMMA PicksComeFromOrder ==
  ASSUME NEW S, IsFiniteSet(S), NEW order \in SetToSeqs(S), NEW stake,
         NEW total, NEW leaders,
         NEW pick \in Picks(order, stake, total, leaders)
  PROVE  pick.list \in Seq(S)
<1> DEFINE outcomes == sample_consumer_stake_weighted(order, stake, total)
           quota(lead) == IF Len(lead) < N_CONSUMERS
                          THEN N_CONSUMERS - Len(lead) ELSE 0
<1>1. order \in Seq(S)
  BY FS_CardinalityType DEF SetToSeqs
<1>2. PICK lead \in LeaderPicks(order, leaders) :
        \E rest \in SampledLists(outcomes, quota(lead)) :
          pick = [own |-> Len(lead), list |-> lead \o rest]
  BY DEF Picks
<1>a. PICK rest \in SampledLists(outcomes, quota(lead)) :
        pick.list = lead \o rest
  BY <1>2
<1>3. lead \in Seq(S)
  <2>1. Range(order) \cap leaders \subseteq S
    BY <1>1 DEF Range
  <2>2. Cardinality(Range(order) \cap leaders) \in Nat
    BY <2>1, FS_Subset, FS_CardinalityType
  <2>3. lead \in SetToSeqs(Range(order) \cap leaders)
    BY <1>2 DEF LeaderPicks
  <2>4. lead \in [1 .. Cardinality(Range(order) \cap leaders) -> Range(order) \cap leaders]
    BY <2>3 DEF SetToSeqs
  <2>5. QED
    BY <2>1, <2>2, <2>4, FunctionIsSeq
<1>4. rest \in Seq(S)
  <2>1. UNION outcomes \subseteq S
    BY <1>1, SamplesComeFromOrder
  <2>2. quota(lead) \in Nat
    BY <1>3, PickingAssumption
  <2>3. PICK m \in 0 .. quota(lead) : rest \in [1 .. m -> UNION outcomes]
    BY <1>a DEF SampledLists, BoundedSeq, SeqOf
  <2>4. QED
    BY <2>1, <2>2, <2>3
<1>5. QED
  BY <1>a, <1>3, <1>4

(***************************************************************************)
(* The sums over the iteration order.                                      *)
(***************************************************************************)

\* A nonempty set of natural numbers has a least element.
LEMMA LeastElement ==
  ASSUME NEW T, T \subseteq Nat, T # {}
  PROVE  \E x \in T : \A y \in T : x <= y
<1>1. PICK x \in T : \A y \in T : ~ (<<y, x>> \in OpToRel(<, Nat))
  BY NatLessThanWellFounded, WFMin
<1>2. \A y \in T : ~ (y < x)
  BY <1>1 DEF OpToRel
<1>3. \A y \in T : x <= y
  BY <1>2
<1>4. QED
  BY <1>3

\* Running totals exist, however long the list: a shortest list without them
\* would have totals up to its last element, and one more.
LEMMA RunningTotals ==
  ASSUME NEW m \in Nat, NEW w \in [1 .. m -> Nat]
  PROVE  \E f \in [0 .. m -> Nat] :
           f[0] = 0 /\ \A i \in 1 .. m : f[i] = f[i - 1] + w[i]
<1> DEFINE Totals(f, k) == f[0] = 0 /\ \A i \in 1 .. k : f[i] = f[i - 1] + w[i]
           Bad == {k \in 0 .. m : ~ \E f \in [0 .. k -> Nat] : Totals(f, k)}
<1>1. SUFFICES ASSUME Bad # {} PROVE FALSE
  <2>1. m \notin Bad => \E f \in [0 .. m -> Nat] : Totals(f, m)
    OBVIOUS
  <2>2. QED
    BY <2>1
<1>2. PICK k \in Bad : \A l \in Bad : k <= l
  BY <1>1, LeastElement, Bad \subseteq Nat
<1>3. k \in 0 .. m /\ ~ \E f \in [0 .. k -> Nat] : Totals(f, k)
  BY <1>2
<1>4. CASE k = 0
  <2>1. [i \in 0 .. 0 |-> 0] \in [0 .. k -> Nat] /\ Totals([i \in 0 .. 0 |-> 0], k)
    BY <1>4
  <2>2. QED
    BY <1>3, <2>1
<1>5. CASE k > 0
  <2>1. k - 1 \in 0 .. m /\ k - 1 \notin Bad
    <3>1. k - 1 \in 0 .. m /\ ~ (k <= k - 1)
      BY <1>3, <1>5
    <3> HIDE DEF Bad
    <3>2. QED
      BY <1>2, <3>1
  <2>2. PICK f \in [0 .. k - 1 -> Nat] : Totals(f, k - 1)
    BY <2>1
  <2> DEFINE g == [i \in 0 .. k |-> IF i = k THEN f[k - 1] + w[k] ELSE f[i]]
  <2>3. g \in [0 .. k -> Nat]
    BY <1>3, <1>5
  <2>4. Totals(g, k)
    <3>1. g[0] = 0
      BY <1>3, <1>5, <2>2
    <3>2. \A i \in 1 .. k - 1 : g[i] = f[i] /\ g[i - 1] = f[i - 1]
      BY <1>3, <1>5
    <3>3. g[k] = f[k - 1] + w[k] /\ g[k - 1] = f[k - 1]
      BY <1>3, <1>5
    <3>4. \A i \in 1 .. k : g[i] = g[i - 1] + w[i]
      <4> SUFFICES ASSUME NEW i \in 1 .. k PROVE g[i] = g[i - 1] + w[i]
        OBVIOUS
      <4> HIDE DEF g
      <4>1. CASE i = k
        BY <3>3, <4>1
      <4>2. CASE i # k
        BY <1>3, <2>2, <3>2, <4>2
      <4>3. QED
        BY <4>1, <4>2
    <3>5. QED
      BY <3>1, <3>4
  <2>5. QED
    BY <1>3, <2>3, <2>4
<1>6. QED
  BY <1>3, <1>4, <1>5

\* accumulated_sum is the sum of the weights of the consumers seen so far.
LEMMA AccumulatedSum ==
  ASSUME NEW S, NEW order \in Seq(S), NEW stake,
         \A i \in 1 .. Len(order) : stake[order[i]] \in Nat
  PROVE  /\ accumulated_sum(order, stake) \in [0 .. Len(order) -> Nat]
         /\ accumulated_sum(order, stake)[0] = 0
         /\ \A i \in 1 .. Len(order) :
              accumulated_sum(order, stake)[i]
                = accumulated_sum(order, stake)[i - 1] + stake[order[i]] + 1
<1> DEFINE Def(f) == f = [i \in 0 .. Len(order) |->
                            IF i = 0 THEN 0 ELSE f[i - 1] + stake[order[i]] + 1]
           w == [i \in 1 .. Len(order) |-> stake[order[i]] + 1]
<1>1. Len(order) \in Nat /\ w \in [1 .. Len(order) -> Nat]
  OBVIOUS
<1>2. PICK f \in [0 .. Len(order) -> Nat] :
        f[0] = 0 /\ \A i \in 1 .. Len(order) : f[i] = f[i - 1] + w[i]
  BY <1>1, RunningTotals
<1>3. Def(f)
  <2>1. \A i \in 1 .. Len(order) : f[i - 1] + w[i] = f[i - 1] + stake[order[i]] + 1
    BY <1>1
  <2> HIDE DEF w
  <2>2. \A i \in 0 .. Len(order) :
          f[i] = IF i = 0 THEN 0 ELSE f[i - 1] + stake[order[i]] + 1
    BY <1>1, <1>2, <2>1
  <2>3. QED
    BY <2>2
<1>4. accumulated_sum(order, stake) = CHOOSE g : Def(g)
  BY DEF accumulated_sum
<1> HIDE DEF Def
<1>5. Def(accumulated_sum(order, stake))
  BY <1>3, <1>4
<1> DEFINE g == accumulated_sum(order, stake)
<1> HIDE DEF g
<1>6. g = [i \in 0 .. Len(order) |->
             IF i = 0 THEN 0 ELSE g[i - 1] + stake[order[i]] + 1]
  BY <1>5 DEF Def, g
<1>7. g[0] = 0 /\ \A i \in 1 .. Len(order) : g[i] = g[i - 1] + stake[order[i]] + 1
  BY <1>1, <1>6
<1>8. g \in [0 .. Len(order) -> Nat]
  <2> DEFINE Bad == {i \in 0 .. Len(order) : g[i] \notin Nat}
  <2>1. SUFFICES ASSUME Bad # {} PROVE FALSE
    BY <1>6
  <2>2. PICK k \in Bad : \A l \in Bad : k <= l
    BY <1>1, <2>1, LeastElement, Bad \subseteq Nat
  <2>3. k > 0
    BY <1>1, <1>7, <2>2
  <2>4. k - 1 \in 0 .. Len(order) /\ k - 1 \notin Bad
    BY <1>1, <2>2, <2>3
  <2>5. QED
    BY <1>1, <1>7, <2>2, <2>3, <2>4
<1>9. QED
  BY <1>7, <1>8 DEF g

\* accumulated_sum grows by at least one with every consumer.
LEMMA SumsGrow ==
  ASSUME NEW m \in Nat, NEW f \in [0 .. m -> Nat],
         \A i \in 1 .. m : f[i] >= f[i - 1] + 1,
         NEW x \in 0 .. m, NEW y \in 0 .. m, x < y
  PROVE  f[x] < f[y]
<1> DEFINE Bad == {k \in 0 .. m : x < k /\ f[k] <= f[x]}
<1>1. SUFFICES ASSUME Bad # {} PROVE FALSE
  <2>1. y \notin Bad => f[x] < f[y]
    OBVIOUS
  <2>2. QED
    BY <2>1
<1>2. PICK k \in Bad : \A l \in Bad : k <= l
  BY <1>1, LeastElement, Bad \subseteq Nat
<1>3. k - 1 \in 0 .. m /\ k - 1 \notin Bad
  BY <1>2
<1>4. QED
  BY <1>2, <1>3

\* A longer accumulated_sum is larger, zero stakes included.
LEMMA AccumulatedSumGrows ==
  ASSUME NEW S, NEW order \in Seq(S), NEW stake,
         \A i \in 1 .. Len(order) : stake[order[i]] \in Nat,
         NEW x \in 0 .. Len(order), NEW y \in 0 .. Len(order), x < y
  PROVE  accumulated_sum(order, stake)[x] < accumulated_sum(order, stake)[y]
<1> DEFINE acc == accumulated_sum(order, stake)
<1>1. /\ acc \in [0 .. Len(order) -> Nat]
      /\ \A i \in 1 .. Len(order) : acc[i] = acc[i - 1] + stake[order[i]] + 1
  BY AccumulatedSum
<1>2. Len(order) \in Nat
  OBVIOUS
<1> HIDE DEF acc
<1>3. \A i \in 1 .. Len(order) : acc[i] >= acc[i - 1] + 1
  <2> SUFFICES ASSUME NEW i \in 1 .. Len(order) PROVE acc[i] >= acc[i - 1] + 1
    OBVIOUS
  <2>1. acc[i] = acc[i - 1] + stake[order[i]] + 1 /\ stake[order[i]] \in Nat
    BY <1>1
  <2>2. acc[i - 1] \in Nat
    BY <1>1, <1>2
  <2>3. QED
    BY <2>1, <2>2
<1>4. acc[x] < acc[y]
  BY <1>1, <1>2, <1>3, SumsGrow
<1>5. QED
  BY <1>4 DEF acc

\* The total recalculated is the last of its own running totals, and the
\* weights exceed it by one for every consumer.
LEMMA ConnectedStake ==
  ASSUME NEW S, NEW order \in Seq(S), NEW stake,
         \A i \in 1 .. Len(order) : stake[order[i]] \in Nat
  PROVE  /\ connected_stake(order, stake) \in Nat
         /\ accumulated_sum(order, stake)[Len(order)]
              = connected_stake(order, stake) + Len(order)
<1> DEFINE acc == accumulated_sum(order, stake)
           Def(f) == f = [i \in 0 .. Len(order) |->
                            IF i = 0 THEN 0 ELSE f[i - 1] + stake[order[i]]]
           w == [i \in 1 .. Len(order) |-> stake[order[i]]]
           s == CHOOSE g : Def(g)
<1>1. Len(order) \in Nat /\ w \in [1 .. Len(order) -> Nat]
  OBVIOUS
<1>2. PICK f \in [0 .. Len(order) -> Nat] :
        f[0] = 0 /\ \A i \in 1 .. Len(order) : f[i] = f[i - 1] + w[i]
  BY <1>1, RunningTotals
<1>3. Def(f)
  BY <1>1, <1>2
<1>4. connected_stake(order, stake) = s[Len(order)]
  BY DEF connected_stake
<1>5. Def(s)
  <2> HIDE DEF Def
  <2>1. QED
    BY <1>3
<1> HIDE DEF s
<1>6. s[0] = 0 /\ \A i \in 1 .. Len(order) : s[i] = s[i - 1] + stake[order[i]]
  BY <1>1, <1>5
<1>7. /\ acc \in [0 .. Len(order) -> Nat] /\ acc[0] = 0
      /\ \A i \in 1 .. Len(order) : acc[i] = acc[i - 1] + stake[order[i]] + 1
  BY AccumulatedSum
<1> HIDE DEF acc
<1> DEFINE Bad == {i \in 0 .. Len(order) : ~ (s[i] \in Nat /\ acc[i] = s[i] + i)}
<1>8. Bad = {}
  <2>1. SUFFICES ASSUME Bad # {} PROVE FALSE
    OBVIOUS
  <2>2. PICK k \in Bad : \A l \in Bad : k <= l
    BY <1>1, <2>1, LeastElement, Bad \subseteq Nat
  <2>3. k > 0
    BY <1>1, <1>6, <1>7, <2>2
  <2>4. k - 1 \in 0 .. Len(order) /\ k - 1 \notin Bad
    BY <1>1, <2>2, <2>3
  <2>5. s[k - 1] \in Nat /\ acc[k - 1] = s[k - 1] + (k - 1)
    BY <2>4
  <2>6. k \in 1 .. Len(order) /\ ~ (s[k] \in Nat /\ acc[k] = s[k] + k)
    BY <1>1, <2>2, <2>3
  <2>7. /\ s[k] = s[k - 1] + stake[order[k]]
        /\ acc[k] = acc[k - 1] + stake[order[k]] + 1
        /\ stake[order[k]] \in Nat
    BY <1>6, <1>7, <2>6
  <2>8. QED
    BY <2>5, <2>6, <2>7
<1>9. Len(order) \in 0 .. Len(order) /\ Len(order) \notin Bad
  BY <1>1, <1>8
<1>10. QED
  BY <1>4, <1>9 DEF acc

(***************************************************************************)
(* Sampling.                                                               *)
(***************************************************************************)

\* A point below one accumulated_sum and not below the one before falls on
\* that consumer and on no other.
LEMMA HitIs ==
  ASSUME NEW S, NEW order \in Seq(S), NEW stake,
         \A i \in 1 .. Len(order) : stake[order[i]] \in Nat,
         NEW point \in Nat, NEW k \in 1 .. Len(order),
         accumulated_sum(order, stake)[k - 1] <= point,
         point < accumulated_sum(order, stake)[k]
  PROVE  HitBy(order, stake, point) = {order[k]}
<1> DEFINE acc == accumulated_sum(order, stake)
           Hit == {i \in 1 .. Len(order) : acc[i - 1] <= point /\ point < acc[i]}
<1>1. Len(order) \in Nat /\ acc \in [0 .. Len(order) -> Nat]
  BY AccumulatedSum
<1>2. \A x, y \in 0 .. Len(order) : x < y => acc[x] < acc[y]
  BY AccumulatedSumGrows
<1>3. acc[k - 1] <= point /\ point < acc[k]
  OBVIOUS
<1>4. HitBy(order, stake, point) = {order[i] : i \in Hit}
  BY DEF HitBy
<1> HIDE DEF acc
<1>5. \A x \in 0 .. Len(order) : acc[x] \in Nat
  BY <1>1
<1>a. \A x, y \in 0 .. Len(order) : x <= y => acc[x] <= acc[y]
  <2> SUFFICES ASSUME NEW x \in 0 .. Len(order), NEW y \in 0 .. Len(order), x <= y
               PROVE  acc[x] <= acc[y]
    OBVIOUS
  <2>1. acc[x] \in Nat /\ acc[y] \in Nat
    BY <1>5
  <2>2. x < y \/ x = y
    BY <1>1
  <2>3. QED
    BY <1>2, <2>1, <2>2
<1>6. \A i \in Hit : i = k
  <2> SUFFICES ASSUME NEW i \in Hit, i # k PROVE FALSE
    OBVIOUS
  <2>1. i \in 1 .. Len(order) /\ acc[i - 1] <= point /\ point < acc[i]
    OBVIOUS
  <2>a. acc[i - 1] \in Nat /\ acc[i] \in Nat /\ acc[k - 1] \in Nat /\ acc[k] \in Nat
    <3>1. {i - 1, i, k - 1, k} \subseteq 0 .. Len(order)
      BY <1>1, <2>1
    <3>2. QED
      BY <1>5, <3>1
  <2>2. CASE i < k
    <3>1. acc[i] <= acc[k - 1]
      BY <1>1, <1>a, <2>1, <2>2
    <3>2. QED
      BY <1>3, <2>1, <2>a, <3>1
  <2>3. CASE k < i
    <3>1. acc[k] <= acc[i - 1]
      BY <1>1, <1>a, <2>1, <2>3
    <3>2. QED
      BY <1>3, <2>1, <2>a, <3>1
  <2>4. QED
    BY <2>1, <2>2, <2>3
<1>7. k \in Hit
  BY <1>3
<1>8. QED
  BY <1>4, <1>6, <1>7

\* A point that is not below the last accumulated_sum falls on nobody.
LEMMA HitNone ==
  ASSUME NEW S, NEW order \in Seq(S), NEW stake,
         \A i \in 1 .. Len(order) : stake[order[i]] \in Nat,
         NEW point \in Nat, accumulated_sum(order, stake)[Len(order)] <= point
  PROVE  HitBy(order, stake, point) = {}
<1> DEFINE acc == accumulated_sum(order, stake)
<1>1. Len(order) \in Nat /\ acc \in [0 .. Len(order) -> Nat]
  BY AccumulatedSum
<1>2. \A x, y \in 0 .. Len(order) : x < y => acc[x] < acc[y]
  BY AccumulatedSumGrows
<1>3. acc[Len(order)] <= point
  OBVIOUS
<1>4. HitBy(order, stake, point)
        = {order[i] : i \in {k \in 1 .. Len(order) : acc[k - 1] <= point /\ point < acc[k]}}
  BY DEF HitBy
<1> HIDE DEF acc
<1>5. \A i \in 1 .. Len(order) : ~ (point < acc[i])
  <2> SUFFICES ASSUME NEW i \in 1 .. Len(order), point < acc[i] PROVE FALSE
    OBVIOUS
  <2>1. i # Len(order)
    BY <1>1, <1>3
  <2>2. acc[i] < acc[Len(order)]
    BY <1>1, <1>2, <2>1
  <2>3. QED
    BY <1>1, <1>3, <2>2
<1>6. QED
  BY <1>4, <1>5

\* While total_connected_stake is what recalc_total_connected_stake would set
\* it to and somebody is connected, a sample always finds a consumer: the
\* "+ 1" in the weights leaves no point beyond their sum, be the stakes zero.
THEOREM FreshTotalHits ==
  ASSUME NEW S, NEW order \in Seq(S), order # <<>>, NEW stake,
         \A i \in 1 .. Len(order) : stake[order[i]] \in Nat
  PROVE  {} \notin sample_consumer_stake_weighted(order, stake,
                                                  connected_stake(order, stake))
<1> DEFINE acc == accumulated_sum(order, stake)
           weight == total_weight(order, connected_stake(order, stake))
<1>1. Len(order) \in Nat \ {0} /\ acc \in [0 .. Len(order) -> Nat] /\ acc[0] = 0
  BY AccumulatedSum
<1>2. connected_stake(order, stake) \in Nat
      /\ acc[Len(order)] = connected_stake(order, stake) + Len(order)
  BY ConnectedStake
<1>3. weight \in Nat \ {0} /\ weight <= acc[Len(order)]
  BY <1>1, <1>2 DEF total_weight
<1>4. sample_consumer_stake_weighted(order, stake, connected_stake(order, stake))
        = {HitBy(order, stake, point) : point \in 0 .. weight - 1}
  BY <1>3 DEF sample_consumer_stake_weighted
<1> HIDE DEF weight
<1>5. SUFFICES ASSUME NEW point \in 0 .. weight - 1
               PROVE  HitBy(order, stake, point) # {}
  BY <1>4
<1>6. \A i \in 1 .. Len(order) :
        acc[i - 1] <= point /\ point < acc[i] => HitBy(order, stake, point) # {}
  BY DEF HitBy
<1> DEFINE Above == {k \in 0 .. Len(order) : point < acc[k]}
<1> HIDE DEF acc
<1>7. Above # {} /\ Above \subseteq Nat
  <2>1. Len(order) \in Above
    BY <1>1, <1>3, <1>5
  <2>2. QED
    BY <1>1, <2>1
<1>8. PICK k \in Above : \A l \in Above : k <= l
  <2> HIDE DEF Above
  <2>1. QED
    BY <1>7, LeastElement
<1>9. k \in 1 .. Len(order) /\ point < acc[k]
  BY <1>1, <1>3, <1>5, <1>8
<1>10. k - 1 \in 0 .. Len(order) /\ k - 1 \notin Above
  <2>1. k - 1 \in 0 .. Len(order) /\ ~ (k <= k - 1)
    BY <1>1, <1>9
  <2> HIDE DEF Above
  <2>2. QED
    BY <1>8, <2>1
<1>11. acc[k - 1] <= point
  BY <1>1, <1>3, <1>5, <1>10
<1>12. QED
  BY <1>6, <1>9, <1>11

(***************************************************************************)
(* Dealing out the leaders.                                                *)
(***************************************************************************)

\* Two numbers less than n apart have different remainders by n.
LEMMA ModDistinct ==
  ASSUME NEW n \in Nat \ {0}, NEW a \in Nat, NEW b \in Nat, a < b, b - a < n
  PROVE  a % n # b % n
<1> DEFINE qa == a \div n
           qb == b \div n
<1>1. /\ qa \in Int /\ qb \in Int
      /\ a = n * qa + (a % n) /\ b = n * qb + (b % n)
      /\ a % n \in Int /\ b % n \in Int
  OBVIOUS
<1>2. SUFFICES ASSUME a % n = b % n PROVE FALSE
  OBVIOUS
<1> HIDE DEF qa, qb
<1>3. b - a = n * (qb - qa)
  BY <1>1, <1>2
<1>4. CASE qb - qa <= 0
  <2>1. n * (qb - qa) <= 0
    BY <1>1, <1>4
  <2>2. QED
    BY <1>3, <2>1
<1>5. CASE qb - qa >= 1
  <2>1. n * (qb - qa) >= n
    BY <1>1, <1>5
  <2>2. QED
    BY <1>3, <2>1
<1>6. QED
  BY <1>1, <1>4, <1>5

\* pick_consumers assigns the N_COPIES copies of a leader to different
\* entries whenever there are that many: no two of the pushes for one leader
\* land on the same entry, wherever its chunk wraps around.
THEOREM CopiesDiffer ==
  ASSUME NEW L \in Nat, NEW n \in Nat \ {0}, N_COPIES <= n,
         chunk_len(L, n) > 0, NEW k \in 1 .. L,
         NEW j1 \in 0 .. N_COPIES - 1, NEW j2 \in 0 .. N_COPIES - 1, j1 < j2
  PROVE  LET i == (k - 1) \div chunk_len(L, n)
         IN  1 + ((i + j1) % n) # 1 + ((i + j2) % n)
<1> DEFINE i == (k - 1) \div chunk_len(L, n)
<1>1. chunk_len(L, n) \in Nat
  BY DEF chunk_len
<1>2. i \in Nat
  BY <1>1
<1> HIDE DEF i
<1>3. (i + j1) % n # (i + j2) % n
  <2>1. /\ i + j1 \in Nat /\ i + j2 \in Nat
        /\ i + j1 < i + j2 /\ (i + j2) - (i + j1) < n
    BY <1>2, PickingAssumption
  <2>2. QED
    BY <2>1, ModDistinct
<1>4. (i + j1) % n \in Int /\ (i + j2) % n \in Int
  BY <1>2, PickingAssumption
<1>5. 1 + ((i + j1) % n) # 1 + ((i + j2) % n)
  BY <1>3, <1>4
<1>6. QED
  BY <1>5 DEF i

\* A leader has as many entries as copies, all of them entries of the pick.
LEMMA CopiesCounted ==
  ASSUME NEW L \in Nat, NEW n \in Nat \ {0}, N_COPIES <= n,
         chunk_len(L, n) > 0, NEW k \in 1 .. L
  PROVE  /\ EntriesOf(k, L, n) \subseteq 1 .. n
         /\ Cardinality(EntriesOf(k, L, n)) = N_COPIES
<1> DEFINE i == (k - 1) \div chunk_len(L, n)
           f == [j \in 0 .. N_COPIES - 1 |-> 1 + ((i + j) % n)]
           E == EntriesOf(k, L, n)
<1>1. chunk_len(L, n) \in Nat
  BY DEF chunk_len
<1>2. i \in Nat
  BY <1>1
<1>3. \A j1, j2 \in 0 .. N_COPIES - 1 :
        j1 < j2 => 1 + ((i + j1) % n) # 1 + ((i + j2) % n)
  BY CopiesDiffer
<1>4. E = {1 + ((i + j) % n) : j \in 0 .. N_COPIES - 1}
  BY DEF EntriesOf
<1> HIDE DEF i, E
<1>5. \A j \in 0 .. N_COPIES - 1 : 1 + ((i + j) % n) \in 1 .. n
  <2> SUFFICES ASSUME NEW j \in 0 .. N_COPIES - 1 PROVE 1 + ((i + j) % n) \in 1 .. n
    OBVIOUS
  <2>1. i + j \in Nat
    BY <1>2, PickingAssumption
  <2>2. (i + j) % n \in 0 .. n - 1
    BY <2>1
  <2>3. QED
    BY <2>2
<1>6. E \subseteq 1 .. n
  BY <1>4, <1>5
<1>7. f \in Bijection(0 .. N_COPIES - 1, E)
  <2>1. f \in [0 .. N_COPIES - 1 -> E] /\ \A t \in E : \E j \in 0 .. N_COPIES - 1 : f[j] = t
    BY <1>4
  <2>2. \A j1, j2 \in 0 .. N_COPIES - 1 : f[j1] = f[j2] => j1 = j2
    <3> SUFFICES ASSUME NEW j1 \in 0 .. N_COPIES - 1, NEW j2 \in 0 .. N_COPIES - 1,
                        f[j1] = f[j2], j1 # j2
                 PROVE  FALSE
      OBVIOUS
    <3>1. 1 + ((i + j1) % n) = 1 + ((i + j2) % n)
      OBVIOUS
    <3>2. j1 < j2 \/ j2 < j1
      BY PickingAssumption
    <3>3. QED
      BY <1>3, <3>1, <3>2, Zenon
  <2> HIDE DEF f
  <2>3. QED
    BY <2>1, <2>2 DEF Bijection, Injection, Surjection, IsInjective
<1>8. IsFiniteSet(0 .. N_COPIES - 1) /\ Cardinality(0 .. N_COPIES - 1) = N_COPIES
  <2>1. 0 \in Int /\ N_COPIES - 1 \in Int /\ ~ (0 > N_COPIES - 1)
        /\ N_COPIES - 1 - 0 + 1 = N_COPIES
    BY PickingAssumption
  <2>2. QED
    BY <2>1, FS_Interval
<1>9. Cardinality(E) = N_COPIES
  BY <1>7, <1>8, FS_Bijection DEF ExistsBijection
<1>10. QED
  BY <1>6, <1>9 DEF E

\* Unless the call panics, every entry of a pick is assigned some leader: no
\* client is sent a transaction without a TPU to forward it to.
THEOREM EveryEntryServed ==
  ASSUME NEW L \in Nat, NEW n \in Nat \ {0}, L > 0, ~ Panics(L, n),
         NEW e \in 1 .. n
  PROVE  \E k \in 1 .. L : e \in EntriesOf(k, L, n)
<1> DEFINE len == chunk_len(L, n)
           k == (e - 1) * len + 1
<1>1. len \in Nat /\ n * len <= L
  BY DEF chunk_len
<1>2. len > 0
  BY <1>1 DEF Panics
<1> HIDE DEF len
<1>3. (e - 1) * len \in Nat /\ (e - 1) * len <= (n - 1) * len
  BY <1>1
<1>4. (n - 1) * len = n * len - len
  BY <1>1
<1>5. k \in 1 .. L
  BY <1>1, <1>2, <1>3, <1>4
<1>6. (k - 1) \div len = e - 1
  BY <1>1, <1>2, <1>3
<1>7. (e - 1 + 0) % n = e - 1
  OBVIOUS
<1>8. e \in EntriesOf(k, L, n)
  <2>1. 0 \in 0 .. N_COPIES - 1
    BY PickingAssumption
  <2>2. e = 1 + (((k - 1) \div len + 0) % n)
    BY <1>6, <1>7
  <2>3. QED
    BY <2>1, <2>2 DEF EntriesOf, len
<1>9. QED
  BY <1>5, <1>8
==============================================================================
