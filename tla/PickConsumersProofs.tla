------------------------ MODULE PickConsumersProofs -------------------------
(***************************************************************************)
(* Theorems about one call of pick_consumers, for any map of consumers,    *)
(* any stakes and total, any list of leaders: the loops compute the closed *)
(* form of module Picking, and what follows from it.                       *)
(***************************************************************************)
EXTENDS PickConsumers, PickingProofs, SequenceTheorems

(***************************************************************************)
(* The inductive invariant.                                                *)
(***************************************************************************)

Leaders == Range(in.leader_tpus)

\* The number of consumers the collection of leaders has looked at.
Seen == IF pc = "leaders" THEN pos - 1 ELSE Len(in.order)

\* The picks up to `own` are the leaders seen, each once, in the map's order.
LeadersInv ==
  /\ pc = "leaders" => n = own
  /\ \A e \in 1 .. own : /\ consumers[e] \in Leaders
                         /\ \E x \in 1 .. Seen : in.order[x] = consumers[e]
  /\ \A x \in 1 .. Seen : in.order[x] \in Leaders =>
       \E e \in 1 .. own : consumers[e] = in.order[x]
  /\ \A a, b \in 1 .. own : a < b =>
       \E x, y \in 1 .. Len(in.order) :
         x < y /\ in.order[x] = consumers[a] /\ in.order[y] = consumers[b]

\* The range points are drawn from.
Weights == total_weight(in.order, in.total)

\* The outcomes of a sample.
Outcomes == sample_consumer_stake_weighted(in.order, in.stake, in.total)

\* A walk has passed the consumers whose weights do not exceed the point.
WalkInv ==
  pc = "walk" =>
    /\ n < N_CONSUMERS /\ point < Weights
    /\ acc = accumulated_sum(in.order, in.stake)[pos - 1] /\ acc <= point

\* The picks after `own` are results of samples; the loop ends at the quota
\* or at a sample that found nobody.
SampleInv ==
  /\ \A e \in own + 1 .. n : {consumers[e]} \in Outcomes
  /\ pc = "draw" /\ n > own =>
       HitBy(in.order, in.stake, point) = {consumers[n]}
  /\ n <= own \/ n <= N_CONSUMERS
  /\ pc \in {"chunks", "done", "panicked"} =>
       n >= N_CONSUMERS \/ {} \in Outcomes

\* The TPU a pick carries of its own, and those of the chunks dealt out.
OwnTpu(e) == {consumers[x] : x \in {e} \cap (1 .. own)}
DealtTpus(e) ==
  {in.leader_tpus[k] : k \in {x \in 1 .. leader_count :
     /\ x <= chunk * chunk_len(leader_count, n)
     /\ e \in EntriesOf(x, leader_count, n)}}

\* Entry by entry, the TPUs are those of the chunks dealt out so far.
DealInv ==
  /\ pc \in {"leaders", "draw", "walk"} =>
       chunk = 0 /\ \A e \in 1 .. n : tpus[e] = OwnTpu(e)
  /\ pc \in {"chunks", "done"} =>
       \A e \in 1 .. n : tpus[e] = OwnTpu(e) \cup DealtTpus(e)
  /\ pc = "panicked" => Panics(leader_count, n)
  /\ pc = "done" =>
       \/ n = 0 \/ leader_count = 0
       \/ /\ chunk_len(leader_count, n) > 0
          /\ chunk * chunk_len(leader_count, n) >= leader_count

IInv == TypeOK /\ LeadersInv /\ WalkInv /\ SampleInv /\ DealInv

\* What the assumption on the calls and the types give.
LEMMA CallFacts ==
  ASSUME TypeOK
  PROVE  /\ in.order \in Seq(Range(in.order)) /\ IsInjective(in.order)
         /\ \A i \in 1 .. Len(in.order) : in.order[i] \in Range(in.order)
         /\ \A i \in 1 .. Len(in.order) : in.stake[in.order[i]] \in Nat
         /\ Len(in.order) \in Nat /\ in.total \in Nat
         /\ in.leader_tpus \in Seq(Leaders)
         /\ leader_count \in Nat /\ n \in Nat /\ own \in Nat
<1>1. in \in Inputs
  BY DEF TypeOK
<1>2. /\ in.order \in Seq(Range(in.order)) /\ IsInjective(in.order)
      /\ \A c \in Range(in.order) : in.stake[c] \in Nat
      /\ in.total \in Nat /\ in.leader_tpus \in Seq(Leaders)
  BY <1>1, InputsAssumption DEF Leaders
<1>3. \A i \in 1 .. Len(in.order) : in.order[i] \in Range(in.order)
  BY <1>2
<1>4. consumers \in Seq(Range(in.order)) /\ own \in 0 .. n
  BY DEF TypeOK
<1>5. n \in Nat /\ own \in Nat
  BY <1>4 DEF n
<1>6. leader_count \in Nat
  BY <1>2 DEF leader_count
<1>7. Len(in.order) \in Nat
  BY <1>2
<1>8. QED
  BY <1>2, <1>3, <1>5, <1>6, <1>7

\* Adding a pick at the end of the list.
LEMMA AddPick ==
  ASSUME NEW S, NEW s \in Seq(S), NEW c \in S
  PROVE  /\ Append(s, c) \in Seq(S) /\ Len(Append(s, c)) = Len(s) + 1
         /\ Append(s, c)[Len(s) + 1] = c
         /\ \A e \in 1 .. Len(s) : Append(s, c)[e] = s[e]
OBVIOUS

\* The chunks dealt out do not outnumber the leaders.
LEMMA ChunkBound ==
  ASSUME NEW L \in Nat, NEW i \in Nat, NEW len \in Nat, len > 0,
         NEW k \in 1 .. L, i * len < k
  PROVE  i + 1 <= L
<1>1. i <= i * len
  OBVIOUS
<1>2. i * len \in Nat
  OBVIOUS
<1>3. QED
  BY <1>1, <1>2

\* The length of a chunk is a natural number.
LEMMA ChunkLen ==
  ASSUME NEW L \in Nat, NEW m \in Nat, m > 0
  PROVE  chunk_len(L, m) \in Nat
BY DEF chunk_len

(***************************************************************************)
(* Types.                                                                  *)
(***************************************************************************)

\* Every step keeps the types.
LEMMA TypeNext ==
  ASSUME TypeOK, DealInv, [Next]_vars
  PROVE  TypeOK'
<1>0. /\ in.order \in Seq(Range(in.order)) /\ Len(in.order) \in Nat
      /\ \A i \in 1 .. Len(in.order) : in.order[i] \in Range(in.order)
      /\ \A i \in 1 .. Len(in.order) : in.stake[in.order[i]] \in Nat
      /\ leader_count \in Nat /\ n \in Nat /\ own \in Nat
      /\ in.total \in Nat
  BY CallFacts
<1>1. CASE PickLeaders
  <2> DEFINE c == in.order[pos]
  <2>1. pos \in 1 .. Len(in.order) /\ pos' = pos + 1 /\ pc = "leaders"
    BY <1>0, <1>1 DEF PickLeaders, TypeOK
  <2>2. CASE c \in Range(in.leader_tpus)
    <3>1. /\ consumers' = Append(consumers, c) /\ tpus' = Append(tpus, {c})
          /\ own' = own + 1
      BY <1>1, <2>2 DEF PickLeaders
    <3>2. /\ consumers' \in Seq(Range(in.order)) /\ n' = n + 1
      BY <1>0, <2>1, <3>1, AddPick DEF TypeOK, n
    <3>3. tpus' \in Seq(SUBSET Range(in.leader_tpus)) /\ Len(tpus') = n'
      <4>1. {c} \in SUBSET Range(in.leader_tpus)
        BY <2>2
      <4>2. tpus \in Seq(SUBSET Range(in.leader_tpus)) /\ Len(tpus) = n
        BY DEF TypeOK
      <4>3. QED
        BY <3>1, <3>2, <4>1, <4>2, AddPick
    <3>4. own' \in 0 .. n'
      BY <1>0, <3>1, <3>2 DEF TypeOK
    <3>5. QED
      BY <1>0, <1>1, <2>1, <3>2, <3>3, <3>4 DEF PickLeaders, TypeOK, leader_count
  <2>3. CASE c \notin Range(in.leader_tpus)
    BY <1>0, <1>1, <2>1, <2>3 DEF PickLeaders, TypeOK, n, leader_count
  <2>4. QED
    BY <2>2, <2>3
<1>2. CASE LeadersPicked \/ StopDrawing \/ WalkNone \/ ChunksPanic \/ Return
  BY <1>0, <1>2 DEF LeadersPicked, StopDrawing, WalkNone, ChunksPanic, Return,
                    TypeOK, n, leader_count
<1>3. CASE Draw
  <2>1. point' \in Nat /\ pos' \in 1 .. Len(in.order) + 1 /\ acc' = 0
    BY <1>0, <1>3 DEF Draw, total_weight
  <2>2. QED
    BY <1>0, <1>3, <2>1 DEF Draw, TypeOK, n, leader_count
<1>4. CASE Walk
  <2> DEFINE c == in.order[pos]
  <2>a. pos \in 1 .. Len(in.order) /\ acc' = acc + Weight(c)
    BY <1>0, <1>4 DEF Walk, TypeOK
  <2>1. /\ pos \in 1 .. Len(in.order) /\ acc' = acc + Weight(c)
        /\ c \in Range(in.order) /\ Weight(c) \in Nat
    BY <1>0, <2>a DEF Weight
  <2>2. acc' \in Nat
    BY <2>1 DEF TypeOK
  <2>3. CASE point < acc'
    <3>1. /\ consumers' = Append(consumers, c) /\ tpus' = Append(tpus, {})
          /\ pc' = "draw" /\ pos' = pos
      BY <1>4, <2>3 DEF Walk
    <3>2. consumers' \in Seq(Range(in.order)) /\ n' = n + 1
      BY <2>1, <3>1, AddPick DEF TypeOK, n
    <3>3. tpus' \in Seq(SUBSET Range(in.leader_tpus)) /\ Len(tpus') = n'
      BY <3>1, <3>2, AddPick DEF TypeOK
    <3>4. own' \in 0 .. n'
      BY <1>0, <1>4, <3>2 DEF TypeOK, Walk
    <3>5. QED
      BY <1>4, <2>1, <2>2, <3>1, <3>2, <3>3, <3>4 DEF Walk, TypeOK, leader_count
  <2>4. CASE ~ (point < acc')
    BY <1>0, <1>4, <2>1, <2>2, <2>4 DEF Walk, TypeOK, n, leader_count
  <2>5. QED
    BY <2>3, <2>4
<1>5. CASE DealChunk
  <2> DEFINE len == chunk_len(leader_count, n)
             ks == {k \in 1 .. leader_count :
                      chunk * len < k /\ k <= (chunk + 1) * len}
             to == {Target(chunk, j) : j \in 0 .. N_COPIES - 1}
  <2>1. /\ n > 0 /\ len > 0 /\ ks # {} /\ chunk' = chunk + 1
        /\ tpus' = [e \in 1 .. n |->
             IF e \in to THEN tpus[e] \cup {in.leader_tpus[k] : k \in ks}
                         ELSE tpus[e]]
        /\ UNCHANGED <<in, pc, consumers, own, point, acc, pos>>
    BY <1>5 DEF DealChunk
  <2> HIDE DEF len, to
  <2>2. chunk' \in 0 .. leader_count
    <3>1. PICK k \in 1 .. leader_count : chunk * len < k
      BY <2>1
    <3>2. len \in Nat /\ chunk \in Nat
      BY <1>0, <2>1, ChunkLen DEF len, TypeOK
    <3>3. chunk + 1 <= leader_count
      BY <1>0, <2>1, <3>1, <3>2, ChunkBound
    <3>4. QED
      BY <1>0, <2>1, <3>2, <3>3
  <2>3. tpus' \in Seq(SUBSET Range(in.leader_tpus)) /\ Len(tpus') = n
    <3>1. \A e \in 1 .. n : tpus[e] \in SUBSET Range(in.leader_tpus)
      BY <1>0 DEF TypeOK
    <3>2. {in.leader_tpus[k] : k \in ks} \subseteq Range(in.leader_tpus)
      <4>1. \A k \in 1 .. leader_count : in.leader_tpus[k] \in Range(in.leader_tpus)
        BY CallFacts DEF leader_count, Leaders
      <4>2. QED
        BY <4>1
    <3> HIDE DEF ks
    <3>3. tpus' \in [1 .. n -> SUBSET Range(in.leader_tpus)]
      BY <2>1, <3>1, <3>2
    <3>4. QED
      BY <1>0, <3>3
  <2>4. QED
    BY <1>0, <2>1, <2>2, <2>3 DEF TypeOK, n, leader_count
<1>6. CASE UNCHANGED vars
  BY <1>6 DEF vars, TypeOK, n, leader_count
<1>7. QED
  BY <1>1, <1>2, <1>3, <1>4, <1>5, <1>6 DEF Next

(***************************************************************************)
(* Collecting the leaders.                                                 *)
(***************************************************************************)

\* A step after the leaders are collected that keeps their entries keeps the
\* invariant.
LEMMA LeadersStay ==
  ASSUME LeadersInv, in' = in, own' = own, Seen' = Seen, Leaders' = Leaders,
         pc' # "leaders", \A e \in 1 .. own : consumers'[e] = consumers[e]
  PROVE  LeadersInv'
<1>1. \A e \in 1 .. own : /\ consumers'[e] \in Leaders
                          /\ \E x \in 1 .. Seen : in.order[x] = consumers'[e]
  BY DEF LeadersInv
<1>2. \A x \in 1 .. Seen : in.order[x] \in Leaders =>
        \E e \in 1 .. own : consumers'[e] = in.order[x]
  <2> SUFFICES ASSUME NEW x \in 1 .. Seen, in.order[x] \in Leaders
               PROVE  \E e \in 1 .. own : consumers'[e] = in.order[x]
    OBVIOUS
  <2>1. PICK e \in 1 .. own : consumers[e] = in.order[x]
    BY DEF LeadersInv
  <2>2. QED
    BY <2>1
<1>3. \A a, b \in 1 .. own : a < b =>
        \E x, y \in 1 .. Len(in.order) :
          x < y /\ in.order[x] = consumers'[a] /\ in.order[y] = consumers'[b]
  <2> SUFFICES ASSUME NEW a \in 1 .. own, NEW b \in 1 .. own, a < b
               PROVE  \E x, y \in 1 .. Len(in.order) :
                        /\ x < y /\ in.order[x] = consumers'[a]
                        /\ in.order[y] = consumers'[b]
    OBVIOUS
  <2>1. PICK x, y \in 1 .. Len(in.order) :
          x < y /\ in.order[x] = consumers[a] /\ in.order[y] = consumers[b]
    BY DEF LeadersInv
  <2>2. consumers'[a] = consumers[a] /\ consumers'[b] = consumers[b]
    OBVIOUS
  <2>3. QED
    BY <2>1, <2>2
<1>4. QED
  BY <1>1, <1>2, <1>3 DEF LeadersInv

\* Every step keeps what is known of the leaders picked.
LEMMA LeadersNext ==
  ASSUME TypeOK, LeadersInv, [Next]_vars
  PROVE  LeadersInv'
<1>0. /\ in.order \in Seq(Range(in.order)) /\ Len(in.order) \in Nat
      /\ n \in Nat /\ own \in Nat /\ own <= n
      /\ consumers \in Seq(Range(in.order))
      /\ \A i \in 1 .. Len(in.order) : in.order[i] \in Range(in.order)
  BY CallFacts DEF TypeOK
<1>1. CASE PickLeaders
  <2> DEFINE c == in.order[pos]
  <2>1. /\ pos \in 1 .. Len(in.order) /\ pos' = pos + 1
        /\ pc = "leaders" /\ pc' = "leaders" /\ in' = in
    BY <1>0, <1>1 DEF PickLeaders, TypeOK
  <2>2. /\ Seen = pos - 1 /\ Seen' = pos /\ n = own
        /\ Leaders' = Leaders
    BY <2>1 DEF Seen, Leaders, LeadersInv
  <2>3. CASE c \in Leaders
    <3>1. consumers' = Append(consumers, c) /\ own' = own + 1
      BY <1>1, <2>3 DEF PickLeaders, Leaders
    <3>2. /\ n' = own' /\ consumers'[own + 1] = c
          /\ \A e \in 1 .. own : consumers'[e] = consumers[e]
      BY <1>0, <2>1, <2>2, <3>1, AddPick DEF n
    <3>a. \A e \in 1 .. own' : e \in 1 .. own \/ e = own + 1
      <4>1. own \in Nat
        BY <1>0
      <4>2. QED
        BY <3>1, <4>1
    <3>b. own + 1 \in 1 .. own' /\ \A e \in 1 .. own : e \in 1 .. own'
      <4>1. own \in Nat
        BY <1>0
      <4>2. QED
        BY <3>1, <4>1
    <3>3. \A e \in 1 .. own' : /\ consumers'[e] \in Leaders
                               /\ \E x \in 1 .. pos : in.order[x] = consumers'[e]
      <4> SUFFICES ASSUME NEW e \in 1 .. own'
                   PROVE  /\ consumers'[e] \in Leaders
                          /\ \E x \in 1 .. pos : in.order[x] = consumers'[e]
        OBVIOUS
      <4>1. CASE e = own + 1
        BY <2>1, <2>3, <3>2, <4>1
      <4>2. CASE e \in 1 .. own
        <5>1. PICK x \in 1 .. pos - 1 : in.order[x] = consumers[e]
          BY <2>2, <4>2 DEF LeadersInv
        <5>2. x \in 1 .. pos
          BY <2>1
        <5>3. QED
          BY <3>2, <4>2, <5>1, <5>2 DEF LeadersInv
      <4>3. QED
        BY <3>a, <4>1, <4>2
    <3>4. \A x \in 1 .. pos : in.order[x] \in Leaders =>
            \E e \in 1 .. own' : consumers'[e] = in.order[x]
      <4> SUFFICES ASSUME NEW x \in 1 .. pos, in.order[x] \in Leaders
                   PROVE  \E e \in 1 .. own' : consumers'[e] = in.order[x]
        OBVIOUS
      <4>1. CASE x = pos
        BY <3>b, <3>2, <4>1
      <4>2. CASE x \in 1 .. pos - 1
        <5>1. PICK e \in 1 .. own : consumers[e] = in.order[x]
          BY <2>2, <4>2 DEF LeadersInv
        <5>2. QED
          BY <3>b, <3>2, <5>1
      <4>3. QED
        BY <2>1, <4>1, <4>2
    <3>5. \A a, b \in 1 .. own' : a < b =>
            \E x, y \in 1 .. Len(in.order) :
              x < y /\ in.order[x] = consumers'[a] /\ in.order[y] = consumers'[b]
      <4> SUFFICES ASSUME NEW a \in 1 .. own', NEW b \in 1 .. own', a < b
                   PROVE  \E x, y \in 1 .. Len(in.order) :
                            /\ x < y /\ in.order[x] = consumers'[a]
                            /\ in.order[y] = consumers'[b]
        OBVIOUS
      <4>1. a \in 1 .. own /\ consumers'[a] = consumers[a]
        <5>1. own \in Nat /\ b <= own + 1 /\ a \in Nat /\ b \in Nat
          BY <1>0, <3>a
        <5>2. a # own + 1
          BY <5>1
        <5>3. QED
          BY <3>a, <3>2, <5>2
      <4>2. CASE b = own + 1
        <5>1. PICK x \in 1 .. pos - 1 : in.order[x] = consumers[a]
          BY <2>2, <4>1 DEF LeadersInv
        <5>2. x \in 1 .. Len(in.order) /\ x < pos
          BY <1>0, <2>1
        <5>3. QED
          BY <2>1, <3>2, <4>1, <4>2, <5>1, <5>2
      <4>3. CASE b \in 1 .. own
        BY <3>2, <4>1, <4>3 DEF LeadersInv
      <4>4. QED
        BY <3>a, <4>2, <4>3
    <3>6. QED
      BY <2>1, <2>2, <3>2, <3>3, <3>4, <3>5 DEF LeadersInv
  <2>4. CASE c \notin Leaders
    <3>1. consumers' = consumers /\ own' = own /\ n' = n
      BY <1>1, <2>4 DEF PickLeaders, Leaders, n
    <3>2. \A x \in 1 .. pos : in.order[x] \in Leaders => x \in 1 .. pos - 1
      BY <2>1, <2>4
    <3>3. \A x \in 1 .. pos - 1 : x \in 1 .. pos
      BY <2>1
    <3>4. QED
      BY <2>1, <2>2, <3>1, <3>2, <3>3 DEF LeadersInv
  <2>5. QED
    BY <2>3, <2>4
<1>2. CASE LeadersPicked
  <2>1. pos \in 1 .. Len(in.order) + 1 /\ pos > Len(in.order)
    BY <1>2 DEF LeadersPicked, TypeOK
  <2>2. pos - 1 = Len(in.order)
    BY <1>0, <2>1
  <2>3. /\ Seen' = Seen /\ pc' # "leaders" /\ Leaders' = Leaders
        /\ in' = in /\ consumers' = consumers /\ own' = own
    BY <1>2, <2>2 DEF LeadersPicked, Seen, Leaders
  <2>4. QED
    BY <2>3, LeadersStay
<1>3. CASE Draw \/ StopDrawing \/ WalkNone \/ ChunksPanic \/ DealChunk \/ Return
  <2>1. /\ Seen' = Seen /\ pc' # "leaders" /\ Leaders' = Leaders
        /\ in' = in /\ consumers' = consumers /\ own' = own
    BY <1>3 DEF Draw, StopDrawing, WalkNone, ChunksPanic, DealChunk, Return, Seen,
                Leaders
  <2>2. QED
    BY <2>1, LeadersStay
<1>4. CASE Walk
  <2>1. /\ Seen' = Seen /\ pc' # "leaders"
        /\ in' = in /\ own' = own /\ Leaders' = Leaders
    BY <1>4 DEF Walk, Seen, Leaders
  <2>2. \A e \in 1 .. own : consumers'[e] = consumers[e]
    <3>1. pos \in 1 .. Len(in.order)
      BY <1>0, <1>4 DEF Walk, TypeOK
    <3>2. consumers' = consumers \/ consumers' = Append(consumers, in.order[pos])
      BY <1>4 DEF Walk
    <3>3. CASE consumers' = Append(consumers, in.order[pos])
      <4>1. /\ in.order[pos] \in Range(in.order)
            /\ \A e \in 1 .. own : e \in 1 .. Len(consumers)
        BY <1>0, <3>1 DEF n
      <4>2. QED
        BY <1>0, <3>3, <4>1, AddPick
    <3>4. QED
      BY <3>2, <3>3
  <2>3. QED
    BY <2>1, <2>2, LeadersStay
<1>5. CASE UNCHANGED vars
  <2>1. /\ Seen' = Seen /\ Leaders' = Leaders /\ in' = in /\ n' = n /\ pc' = pc
        /\ consumers' = consumers /\ own' = own
    BY <1>5 DEF vars, Seen, Leaders, n
  <2>2. QED
    BY <2>1 DEF LeadersInv
<1>6. QED
  BY <1>1, <1>2, <1>3, <1>4, <1>5 DEF Next

(***************************************************************************)
(* Sampling.                                                               *)
(***************************************************************************)

\* A walk that looks at one more consumer adds that consumer's weight.
LEMMA WalkAdds ==
  ASSUME TypeOK, WalkInv, Walk
  PROVE  /\ pos \in 1 .. Len(in.order)
         /\ accumulated_sum(in.order, in.stake)[pos - 1] <= point
         /\ acc' = accumulated_sum(in.order, in.stake)[pos]
<1> DEFINE sums == accumulated_sum(in.order, in.stake)
<1>1. Len(in.order) \in Nat /\ pos \in 1 .. Len(in.order)
  BY CallFacts DEF Walk, TypeOK
<1>2. sums[pos] = sums[pos - 1] + in.stake[in.order[pos]] + 1
  BY <1>1, CallFacts, AccumulatedSum
<1>3. acc = sums[pos - 1] /\ acc <= point
  BY DEF WalkInv, Walk
<1>4. acc' = acc + (in.stake[in.order[pos]] + 1)
  BY DEF Walk, Weight
<1>5. acc \in Nat /\ in.stake[in.order[pos]] \in Nat
  BY <1>1, CallFacts DEF TypeOK
<1> HIDE DEF sums
<1>6. acc' = sums[pos]
  BY <1>2, <1>3, <1>4, <1>5
<1>7. QED
  BY <1>1, <1>3, <1>6 DEF sums

\* Every step keeps what is known of a walk under way.
LEMMA WalkNext ==
  ASSUME TypeOK, WalkInv, [Next]_vars
  PROVE  WalkInv'
<1>1. CASE Draw
  <2>1. accumulated_sum(in.order, in.stake)[0] = 0
    BY CallFacts, AccumulatedSum
  <2>2. /\ in' = in /\ consumers' = consumers /\ acc' = 0 /\ pos' = 1
        /\ n < N_CONSUMERS /\ point' \in 0 .. Weights - 1 /\ n' = n
        /\ Weights' = Weights
    BY <1>1 DEF Draw, Weights, n
  <2>3. Weights \in Nat
    BY CallFacts DEF Weights, total_weight
  <2>4. point' < Weights /\ acc' <= point' /\ pos' - 1 = 0
    BY <2>2, <2>3
  <2>5. QED
    BY <2>1, <2>2, <2>4 DEF WalkInv
<1>2. CASE Walk
  <2>1. /\ in' = in /\ point' = point /\ Weights' = Weights
        /\ n < N_CONSUMERS /\ point < Weights
    BY <1>2 DEF Walk, Weights, WalkInv
  <2>2. CASE point < acc'
    BY <1>2, <2>2 DEF Walk, WalkInv
  <2>3. CASE ~ (point < acc')
    <3>1. pos' = pos + 1 /\ n' = n
      BY <1>2, <2>3 DEF Walk, n
    <3>2. acc' = accumulated_sum(in.order, in.stake)[pos] /\ pos \in Int
      BY <1>2, WalkAdds
    <3>3. acc' \in Nat /\ point \in Nat
      <4>1. acc' = acc + (in.stake[in.order[pos]] + 1)
        BY <1>2 DEF Walk, Weight
      <4>2. in.stake[in.order[pos]] \in Nat
        BY <1>2, WalkAdds, CallFacts
      <4>3. acc \in Nat /\ point \in Nat
        BY DEF TypeOK
      <4>4. QED
        BY <4>1, <4>2, <4>3
    <3>4. acc' <= point /\ pos' - 1 = pos
      BY <2>3, <3>1, <3>2, <3>3
    <3>5. QED
      BY <2>1, <3>1, <3>2, <3>4 DEF WalkInv
  <2>4. QED
    BY <2>2, <2>3
<1>3. CASE PickLeaders \/ LeadersPicked \/ StopDrawing \/ WalkNone \/ ChunksPanic
           \/ DealChunk \/ Return
  BY <1>3 DEF PickLeaders, LeadersPicked, StopDrawing, WalkNone, ChunksPanic,
              DealChunk, Return, WalkInv
<1>4. CASE UNCHANGED vars
  BY <1>4 DEF vars, WalkInv, Weights, n
<1>5. QED
  BY <1>1, <1>2, <1>3, <1>4 DEF Next

\* A point that is drawn has its hit among the outcomes of a sample.
LEMMA HitIsOutcome ==
  ASSUME TypeOK, point < Weights
  PROVE  HitBy(in.order, in.stake, point) \in Outcomes
<1>1. Weights \in Nat /\ point \in Nat
  BY CallFacts DEF Weights, total_weight, TypeOK
<1>2. Weights # 0 /\ point \in 0 .. Weights - 1
  BY <1>1
<1>3. QED
  BY <1>2 DEF Outcomes, sample_consumer_stake_weighted, Weights

\* A walk past the last consumer was for a point that falls on nobody.
LEMMA WalkedPast ==
  ASSUME TypeOK, WalkInv, pc = "walk", pos > Len(in.order)
  PROVE  HitBy(in.order, in.stake, point) = {}
<1>1. pos - 1 = Len(in.order)
  BY CallFacts DEF TypeOK
<1>2. accumulated_sum(in.order, in.stake)[Len(in.order)] <= point /\ point \in Nat
  BY <1>1 DEF WalkInv, TypeOK
<1>3. QED
  BY <1>2, CallFacts, HitNone

\* Every step keeps what is known of the samples taken.
LEMMA SampleNext ==
  ASSUME TypeOK, LeadersInv, WalkInv, SampleInv, [Next]_vars
  PROVE  SampleInv'
<1>0. /\ n \in Nat /\ own \in Nat /\ own <= n /\ N_CONSUMERS \in Nat
      /\ consumers \in Seq(Range(in.order))
  BY CallFacts, PickingAssumption DEF TypeOK
<1>1. CASE PickLeaders
  <2>1. /\ pc = "leaders" /\ pc' = "leaders" /\ n = own
    BY <1>1 DEF PickLeaders, LeadersInv
  <2>2. n' = own'
    BY <1>1, <2>1, LeadersNext DEF Next, LeadersInv
  <2>3. own' \in Nat
    BY <1>0, <1>1 DEF PickLeaders
  <2>4. \A e \in own' + 1 .. n' : FALSE
    <3>1. \A m \in Nat : \A e \in m + 1 .. m : FALSE
      OBVIOUS
    <3>2. QED
      BY <2>2, <2>3, <3>1
  <2>5. n' <= own'
    BY <2>2, <2>3
  <2>6. QED
    BY <2>1, <2>4, <2>5 DEF SampleInv
<1>2. CASE Walk
  <2> DEFINE c == in.order[pos]
  <2>1. /\ pos \in 1 .. Len(in.order) /\ c \in Range(in.order) /\ point \in Nat
        /\ accumulated_sum(in.order, in.stake)[pos - 1] <= point
        /\ acc' = accumulated_sum(in.order, in.stake)[pos]
    BY <1>2, WalkAdds, CallFacts DEF TypeOK
  <2>2. in' = in /\ own' = own /\ point' = point /\ Outcomes' = Outcomes /\ pc = "walk"
    BY <1>2 DEF Walk, Outcomes
  <2>3. CASE point < acc'
    <3>1. consumers' = Append(consumers, c) /\ pc' = "draw"
      BY <1>2, <2>3 DEF Walk
    <3>2. /\ n' = n + 1 /\ consumers'[n + 1] = c
          /\ \A e \in 1 .. n : consumers'[e] = consumers[e]
      BY <1>0, <2>1, <3>1, AddPick DEF n
    <3>3. HitBy(in.order, in.stake, point) = {c}
      BY <2>1, <2>3, CallFacts, HitIs
    <3>4. {c} \in Outcomes /\ n < N_CONSUMERS
      BY <2>2, <3>3, HitIsOutcome DEF WalkInv
    <3>5. \A e \in own + 1 .. n + 1 : e = n + 1 \/ (e \in own + 1 .. n /\ e \in 1 .. n)
      BY <1>0
    <3>6. \A e \in own + 1 .. n' : {consumers'[e]} \in Outcomes
      BY <3>2, <3>4, <3>5 DEF SampleInv
    <3>7. n + 1 <= N_CONSUMERS
      BY <1>0, <3>4
    <3>8. QED
      BY <2>2, <3>1, <3>2, <3>3, <3>6, <3>7 DEF SampleInv
  <2>4. CASE ~ (point < acc')
    BY <1>2, <2>2, <2>4 DEF Walk, SampleInv, n
  <2>5. QED
    BY <2>3, <2>4
<1>3. CASE LeadersPicked
  <2>1. ~ (n > own)
    BY <1>0, <1>3 DEF LeadersPicked, LeadersInv
  <2>2. QED
    BY <1>3, <2>1 DEF LeadersPicked, SampleInv, Outcomes, n
<1>4. CASE Draw
  BY <1>4 DEF Draw, SampleInv, Outcomes, n
<1>5. CASE StopDrawing
  <2>1. n >= N_CONSUMERS \/ {} \in Outcomes
    BY <1>5 DEF StopDrawing, Outcomes, sample_consumer_stake_weighted
  <2>2. QED
    BY <1>5, <2>1 DEF StopDrawing, SampleInv, Outcomes, n
<1>6. CASE WalkNone
  <2>1. pc = "walk" /\ pos > Len(in.order) /\ point < Weights
    BY <1>6 DEF WalkNone, WalkInv
  <2>2. {} \in Outcomes
    BY <2>1, HitIsOutcome, WalkedPast
  <2>3. QED
    BY <1>6, <2>2 DEF WalkNone, SampleInv, Outcomes, n
<1>7. CASE ChunksPanic \/ DealChunk \/ Return
  BY <1>7 DEF ChunksPanic, DealChunk, Return, SampleInv, Outcomes, n
<1>8. CASE UNCHANGED vars
  BY <1>8 DEF vars, SampleInv, Outcomes, n
<1>9. QED
  BY <1>1, <1>2, <1>3, <1>4, <1>5, <1>6, <1>7, <1>8 DEF Next

(***************************************************************************)
(* Dealing out the leaders.                                                *)
(***************************************************************************)

\* The leaders of chunk i, and only they, have i as the number of their chunk.
LEMMA ChunkOf ==
  ASSUME NEW i \in Nat, NEW len \in Nat, len > 0, NEW k \in Nat \ {0}
  PROVE  /\ i * len < k /\ k <= (i + 1) * len => (k - 1) \div len = i
         /\ k <= (i + 1) * len <=> k <= i * len \/ (i * len < k /\ k <= (i + 1) * len)
<1> DEFINE q == (k - 1) \div len
           r == (k - 1) % len
<1>1. q \in Int /\ r \in 0 .. len - 1 /\ k - 1 = len * q + r
  OBVIOUS
<1>2. i * len \in Int /\ (i + 1) * len = i * len + len
  OBVIOUS
<1> HIDE DEF q, r
<1>3. ASSUME i * len < k, k <= (i + 1) * len PROVE q = i
  <2>1. len * q <= k - 1 /\ k - 1 < len * q + len /\ len * q \in Int
    BY <1>1
  <2>2. CASE q < i
    <3>1. len * (q + 1) <= len * i
      BY <1>1, <2>2
    <3>2. len * (q + 1) = len * q + len /\ len * i = i * len
      BY <1>1
    <3>3. QED
      BY <1>2, <1>3, <2>1, <3>1, <3>2
  <2>3. CASE q > i
    <3>1. len * (i + 1) <= len * q
      BY <1>1, <2>3
    <3>2. len * (i + 1) = (i + 1) * len
      OBVIOUS
    <3>3. QED
      BY <1>2, <1>3, <2>1, <3>1, <3>2
  <2>4. QED
    BY <1>1, <2>2, <2>3
<1>4. QED
  BY <1>2, <1>3 DEF q

\* One more chunk: an entry among its targets gets its leaders as well.
LEMMA OneMoreChunk ==
  ASSUME TypeOK, DealInv, DealChunk, NEW e \in 1 .. n
  PROVE  tpus'[e] = OwnTpu(e) \cup DealtTpus(e)'
<1> DEFINE len == chunk_len(leader_count, n)
           ks == {k \in 1 .. leader_count :
                    chunk * len < k /\ k <= (chunk + 1) * len}
           to == {Target(chunk, j) : j \in 0 .. N_COPIES - 1}
           dealt(i) == {x \in 1 .. leader_count :
                          x <= i * len /\ e \in EntriesOf(x, leader_count, n)}
           Tpu(k) == in.leader_tpus[k]
<1>1. /\ n \in Nat /\ leader_count \in Nat /\ chunk \in Nat
  BY CallFacts DEF TypeOK
<1>2. /\ n > 0 /\ len > 0 /\ chunk' = chunk + 1 /\ pc = "chunks"
      /\ tpus' = [x \in 1 .. n |->
           IF x \in to THEN tpus[x] \cup {Tpu(k) : k \in ks} ELSE tpus[x]]
      /\ UNCHANGED <<in, pc, consumers, own>>
  BY DEF DealChunk
<1>3. len \in Nat
  BY <1>1, <1>2, ChunkLen
<1>4. tpus[e] = OwnTpu(e) \cup {Tpu(k) : k \in dealt(chunk)}
  BY <1>2 DEF DealInv, DealtTpus
<1>5. DealtTpus(e)' = {Tpu(k) : k \in dealt(chunk + 1)}
  BY <1>2 DEF DealtTpus, n, leader_count
<1>6. \A k \in ks : e \in EntriesOf(k, leader_count, n) <=> e \in to
  <2> SUFFICES ASSUME NEW k \in ks
               PROVE  e \in EntriesOf(k, leader_count, n) <=> e \in to
    OBVIOUS
  <2>1. (k - 1) \div len = chunk
    <3>1. k \in Nat \ {0} /\ chunk * len < k /\ k <= (chunk + 1) * len
      BY <1>1
    <3> HIDE DEF len
    <3>2. QED
      BY <1>1, <1>2, <1>3, <3>1, ChunkOf
  <2>2. EntriesOf(k, leader_count, n)
          = {1 + (((k - 1) \div len + j) % n) : j \in 0 .. N_COPIES - 1}
    BY DEF EntriesOf
  <2> HIDE DEF len
  <2>3. QED
    BY <2>1, <2>2 DEF Target
<1> HIDE DEF len, to
<1>7. \A k \in 1 .. leader_count :
        k <= (chunk + 1) * len <=> k <= chunk * len \/ k \in ks
  <2> SUFFICES ASSUME NEW k \in 1 .. leader_count
               PROVE  k <= (chunk + 1) * len <=> k <= chunk * len \/ k \in ks
    OBVIOUS
  <2>1. k \in Nat \ {0}
    BY <1>1
  <2>2. k <= (chunk + 1) * len <=>
          k <= chunk * len \/ (chunk * len < k /\ k <= (chunk + 1) * len)
    BY <1>1, <1>2, <1>3, <2>1, ChunkOf
  <2>3. QED
    BY <2>2
<1>8. ks \subseteq 1 .. leader_count
  OBVIOUS
<1> HIDE DEF ks
<1>9. dealt(chunk + 1) = dealt(chunk) \cup {k \in ks : e \in to}
  BY <1>6, <1>7, <1>8
<1>10. tpus'[e] = IF e \in to THEN tpus[e] \cup {Tpu(k) : k \in ks} ELSE tpus[e]
  BY <1>2
<1> HIDE DEF dealt, Tpu
<1>11. CASE e \in to
  <2>1. dealt(chunk + 1) = dealt(chunk) \cup ks
    BY <1>9, <1>11
  <2>2. QED
    BY <1>4, <1>5, <1>10, <1>11, <2>1
<1>12. CASE e \notin to
  <2>1. dealt(chunk + 1) = dealt(chunk)
    BY <1>9, <1>12
  <2>2. QED
    BY <1>4, <1>5, <1>10, <1>12, <2>1
<1>13. QED
  BY <1>11, <1>12

\* Every step keeps what is known of the TPUs dealt out.
LEMMA DealNext ==
  ASSUME TypeOK, LeadersInv, DealInv, [Next]_vars
  PROVE  DealInv'
<1>0. /\ n \in Nat /\ own \in Nat /\ own <= n /\ leader_count \in Nat
      /\ consumers \in Seq(Range(in.order)) /\ Len(in.order) \in Nat
      /\ tpus \in Seq(SUBSET Range(in.leader_tpus)) /\ Len(tpus) = n
      /\ \A i \in 1 .. Len(in.order) : in.order[i] \in Range(in.order)
  BY CallFacts DEF TypeOK
<1>1. CASE PickLeaders
  <2> DEFINE c == in.order[pos]
  <2>1. /\ pos \in 1 .. Len(in.order) /\ pc = "leaders" /\ pc' = "leaders"
        /\ chunk' = chunk /\ chunk = 0 /\ n = own
        /\ \A e \in 1 .. n : tpus[e] = OwnTpu(e)
    BY <1>0, <1>1 DEF PickLeaders, TypeOK, LeadersInv, DealInv
  <2>2. CASE c \in Range(in.leader_tpus)
    <3>1. /\ consumers' = Append(consumers, c) /\ tpus' = Append(tpus, {c})
          /\ own' = own + 1
      BY <1>1, <2>2 DEF PickLeaders
    <3>2. /\ n' = n + 1 /\ consumers'[n + 1] = c
          /\ \A e \in 1 .. n : consumers'[e] = consumers[e]
      BY <1>0, <2>1, <3>1, AddPick DEF n
    <3>3. /\ tpus'[n + 1] = {c}
          /\ \A e \in 1 .. n : tpus'[e] = tpus[e]
      <4>1. {c} \in SUBSET Range(in.leader_tpus)
        BY <2>2
      <4>2. QED
        BY <1>0, <3>1, <4>1, AddPick
    <3>4. \A e \in 1 .. n' : tpus'[e] = OwnTpu(e)'
      <4> SUFFICES ASSUME NEW e \in 1 .. n' PROVE tpus'[e] = OwnTpu(e)'
        OBVIOUS
      <4>1. e \in 1 .. own' /\ OwnTpu(e)' = {consumers'[e]}
        <5>1. own' = n'
          BY <2>1, <3>1, <3>2
        <5>2. QED
          BY <5>1 DEF OwnTpu
      <4>2. CASE e = n + 1
        BY <3>2, <3>3, <4>1, <4>2
      <4>3. CASE e \in 1 .. n
        <5>1. OwnTpu(e) = {consumers[e]}
          BY <2>1, <4>3 DEF OwnTpu
        <5>2. QED
          BY <2>1, <3>2, <3>3, <4>1, <4>3, <5>1
      <4>4. QED
        <5>1. n \in Nat
          BY <1>0
        <5>2. QED
          BY <3>2, <4>2, <4>3, <5>1
    <3>5. QED
      BY <2>1, <3>4 DEF DealInv
  <2>3. CASE c \notin Range(in.leader_tpus)
    BY <1>1, <2>1, <2>3 DEF PickLeaders, DealInv, OwnTpu, n
  <2>4. QED
    BY <2>2, <2>3
<1>2. CASE Walk
  <2> DEFINE c == in.order[pos]
  <2>1. /\ pos \in 1 .. Len(in.order) /\ pc = "walk" /\ pc' \in {"walk", "draw"}
        /\ chunk' = chunk /\ chunk = 0 /\ own' = own
        /\ \A e \in 1 .. n : tpus[e] = OwnTpu(e)
    BY <1>0, <1>2 DEF Walk, TypeOK, DealInv
  <2>2. CASE point < acc'
    <3>1. consumers' = Append(consumers, c) /\ tpus' = Append(tpus, {})
      BY <1>2, <2>2 DEF Walk
    <3>2. /\ n' = n + 1
          /\ \A e \in 1 .. n : consumers'[e] = consumers[e]
      BY <1>0, <2>1, <3>1, AddPick DEF n
    <3>3. /\ tpus'[n + 1] = {}
          /\ \A e \in 1 .. n : tpus'[e] = tpus[e]
      BY <1>0, <3>1, AddPick
    <3>4. \A e \in 1 .. n' : tpus'[e] = OwnTpu(e)'
      <4> SUFFICES ASSUME NEW e \in 1 .. n' PROVE tpus'[e] = OwnTpu(e)'
        OBVIOUS
      <4>1. CASE e = n + 1
        <5>1. {e} \cap (1 .. own) = {}
          BY <1>0, <4>1
        <5>2. QED
          BY <2>1, <3>3, <4>1, <5>1 DEF OwnTpu
      <4>2. CASE e \in 1 .. n
        <5>1. OwnTpu(e)' = OwnTpu(e)
          BY <2>1, <3>2, <4>2 DEF OwnTpu
        <5>2. QED
          BY <2>1, <3>3, <4>2, <5>1
      <4>3. QED
        <5>1. n \in Nat
          BY <1>0
        <5>2. QED
          BY <3>2, <4>1, <4>2, <5>1
    <3>5. QED
      BY <2>1, <3>4 DEF DealInv
  <2>3. CASE ~ (point < acc')
    BY <1>2, <2>1, <2>3 DEF Walk, DealInv, OwnTpu, n
  <2>4. QED
    BY <2>2, <2>3
<1>3. CASE LeadersPicked \/ Draw
  BY <1>3 DEF LeadersPicked, Draw, DealInv, OwnTpu, n
<1>4. CASE StopDrawing \/ WalkNone
  <2>1. /\ pc' = "chunks" /\ UNCHANGED <<in, consumers, own, chunk, tpus>>
        /\ chunk = 0 /\ \A e \in 1 .. n : tpus[e] = OwnTpu(e)
    BY <1>4 DEF StopDrawing, WalkNone, DealInv
  <2>2. \A e \in 1 .. n : DealtTpus(e) = {}
    <3> SUFFICES ASSUME NEW e \in 1 .. n PROVE DealtTpus(e) = {}
      OBVIOUS
    <3>1. chunk_len(leader_count, n) \in Nat
      <4>1. n > 0
        BY <1>0
      <4>2. QED
        BY <1>0, <4>1, ChunkLen
    <3>2. \A x \in 1 .. leader_count : ~ (x <= chunk * chunk_len(leader_count, n))
      BY <1>0, <2>1, <3>1
    <3>3. QED
      BY <3>2 DEF DealtTpus
  <2>3. \A e \in 1 .. n : tpus[e] = OwnTpu(e) \cup DealtTpus(e)
    BY <2>1, <2>2
  <2>4. \A e \in 1 .. n : OwnTpu(e)' = OwnTpu(e) /\ DealtTpus(e)' = DealtTpus(e)
    BY <2>1 DEF OwnTpu, DealtTpus, n, leader_count
  <2>5. QED
    BY <2>1, <2>3, <2>4 DEF DealInv, n
<1>5. CASE DealChunk
  <2>1. /\ pc' = "chunks" /\ UNCHANGED <<in, consumers, own>>
    BY <1>5 DEF DealChunk
  <2>2. \A e \in 1 .. n : OwnTpu(e)' = OwnTpu(e)
    BY <2>1 DEF OwnTpu
  <2>3. \A e \in 1 .. n : tpus'[e] = OwnTpu(e)' \cup DealtTpus(e)'
    BY <1>5, <2>2, OneMoreChunk
  <2>4. QED
    BY <2>1, <2>3 DEF DealInv, n
<1>6. CASE ChunksPanic
  BY <1>6 DEF ChunksPanic, DealInv, Panics, n, leader_count
<1>7. CASE Return
  <2>1. /\ pc = "chunks" /\ pc' = "done" /\ UNCHANGED <<in, consumers, own, chunk, tpus>>
    BY <1>7 DEF Return
  <2>2. \A e \in 1 .. n : OwnTpu(e)' = OwnTpu(e) /\ DealtTpus(e)' = DealtTpus(e)
    BY <2>1 DEF OwnTpu, DealtTpus, n, leader_count
  <2>3. QED
    BY <1>7, <2>1, <2>2 DEF Return, DealInv, n, leader_count
<1>8. CASE UNCHANGED vars
  <2>1. \A e \in 1 .. n : OwnTpu(e)' = OwnTpu(e) /\ DealtTpus(e)' = DealtTpus(e)
    BY <1>8 DEF vars, OwnTpu, DealtTpus, n, leader_count
  <2>2. QED
    BY <1>8, <2>1 DEF vars, DealInv, n, leader_count
<1>9. QED
  BY <1>1, <1>2, <1>3, <1>4, <1>5, <1>6, <1>7, <1>8 DEF Next

(***************************************************************************)
(* What a call computes.                                                   *)
(***************************************************************************)

\* The picks of a call that is done with sampling are one of Picks.
LEMMA CallPicks ==
  ASSUME TypeOK, LeadersInv, SampleInv, pc \in {"chunks", "done", "panicked"}
  PROVE  [own |-> own, list |-> consumers]
           \in Picks(in.order, in.stake, in.total, Range(in.leader_tpus))
<1> DEFINE lead == [e \in 1 .. own |-> consumers[e]]
           rest == [e \in 1 .. n - own |-> consumers[own + e]]
           quota == IF own < N_CONSUMERS THEN N_CONSUMERS - own ELSE 0
<1>1. /\ n \in Nat /\ own \in Nat /\ own <= n /\ N_CONSUMERS \in Nat
      /\ consumers \in Seq(Range(in.order)) /\ n = Len(consumers)
  BY CallFacts, PickingAssumption DEF TypeOK, n
<1>2. lead \in LeaderPicks(in.order, Leaders) /\ Len(lead) = own
  <2>1. lead \in [1 .. own -> Range(in.order)]
    BY <1>1
  <2>2. Seen = Len(in.order)
    BY DEF Seen
  <2>3. \A e \in 1 .. own : lead[e] = consumers[e]
    OBVIOUS
  <2>4. \A e \in 1 .. own : lead[e] \in Range(in.order) \cap Leaders
    BY <2>1, <2>3 DEF LeadersInv
  <2>5. \A c \in Range(in.order) \cap Leaders : \E e \in 1 .. own : lead[e] = c
    <3> SUFFICES ASSUME NEW c \in Range(in.order), c \in Leaders
                 PROVE  \E e \in 1 .. own : lead[e] = c
      OBVIOUS
    <3>1. PICK x \in 1 .. Len(in.order) : in.order[x] = c
      BY CallFacts DEF Range
    <3>2. PICK e \in 1 .. own : consumers[e] = in.order[x]
      BY <2>2, <3>1 DEF LeadersInv
    <3>3. QED
      BY <2>3, <3>1, <3>2
  <2>6. \A a, b \in 1 .. own : a < b =>
          \E x, y \in 1 .. Len(in.order) :
            x < y /\ in.order[x] = lead[a] /\ in.order[y] = lead[b]
    <3> SUFFICES ASSUME NEW a \in 1 .. own, NEW b \in 1 .. own, a < b
                 PROVE  \E x, y \in 1 .. Len(in.order) :
                          x < y /\ in.order[x] = lead[a] /\ in.order[y] = lead[b]
      OBVIOUS
    <3>1. lead[a] = consumers[a] /\ lead[b] = consumers[b]
      BY <2>3
    <3> HIDE DEF lead
    <3>2. PICK x, y \in 1 .. Len(in.order) :
            x < y /\ in.order[x] = consumers[a] /\ in.order[y] = consumers[b]
      BY DEF LeadersInv
    <3>3. QED
      BY <3>1, <3>2
  <2> HIDE DEF lead
  <2>7. QED
    <3>1. in.order \in Seq(Range(in.order)) /\ IsInjective(in.order) /\ own \in Nat
      BY CallFacts
    <3>2. LeadersInOrder(in.order, Leaders, lead, own)
      BY <2>4, <2>5, <2>6, Zenon DEF LeadersInOrder
    <3>3. QED
      BY <2>1, <3>1, <3>2, LeaderPick
<1>3. rest \in SampledLists(Outcomes, quota)
  <2>1. \A e \in 1 .. n - own : consumers[own + e] \in UNION Outcomes
    <3> SUFFICES ASSUME NEW e \in 1 .. n - own
                 PROVE  consumers[own + e] \in UNION Outcomes
      OBVIOUS
    <3>1. own + e \in own + 1 .. n
      BY <1>1
    <3>2. {consumers[own + e]} \in Outcomes
      BY <3>1 DEF SampleInv
    <3>3. QED
      BY <3>2
  <2>2. rest \in [1 .. n - own -> UNION Outcomes]
    BY <2>1
  <2>3. n - own \in 0 .. quota
    BY <1>1 DEF SampleInv
  <2>4. Len(rest) = n - own
    BY <1>1
  <2>5. n - own = quota \/ {} \in Outcomes
    BY <1>1, <2>3 DEF SampleInv
  <2> HIDE DEF rest, quota
  <2>6. rest \in BoundedSeq(UNION Outcomes, quota)
    BY <2>2, <2>3 DEF BoundedSeq, SeqOf
  <2>7. QED
    BY <2>4, <2>5, <2>6 DEF SampledLists
<1>4. consumers = lead \o rest
  <2>1. /\ lead \in Seq(Range(in.order)) /\ rest \in Seq(Range(in.order))
        /\ Len(lead) = own /\ Len(rest) = n - own
    BY <1>1
  <2>2. Len(lead \o rest) = n /\ lead \o rest \in Seq(Range(in.order))
    BY <1>1, <2>1
  <2>3. \A e \in 1 .. n : (lead \o rest)[e] = consumers[e]
    <3> SUFFICES ASSUME NEW e \in 1 .. n PROVE (lead \o rest)[e] = consumers[e]
      OBVIOUS
    <3>1. CASE e <= own
      BY <1>1, <2>1, <3>1
    <3>2. CASE e > own
      <4>1. e - own \in 1 .. n - own /\ own + (e - own) = e
        BY <1>1, <3>2
      <4>2. rest[e - own] = consumers[e]
        BY <4>1
      <4>3. (lead \o rest)[e] = rest[e - own]
        <5> HIDE DEF lead, rest
        <5>1. QED
          BY <1>1, <2>1, <3>2
      <4>4. QED
        BY <4>2, <4>3
    <3>3. QED
      BY <1>1, <3>1, <3>2
  <2> HIDE DEF lead, rest
  <2>4. QED
    BY <1>1, <2>2, <2>3, SeqEqual
<1> HIDE DEF lead, rest
<1>5. [own |-> own, list |-> consumers] = [own |-> Len(lead), list |-> lead \o rest]
  BY <1>2, <1>4
<1>6. rest \in SampledLists(Outcomes, IF Len(lead) < N_CONSUMERS
                                     THEN N_CONSUMERS - Len(lead) ELSE 0)
  BY <1>2, <1>3
<1>7. [own |-> own, list |-> consumers] \in
        {[own |-> Len(lead), list |-> lead \o r] :
           r \in SampledLists(Outcomes, IF Len(lead) < N_CONSUMERS
                                       THEN N_CONSUMERS - Len(lead) ELSE 0)}
  BY <1>5, <1>6, Zenon
<1> DEFINE pick == [own |-> own, list |-> consumers]
           With(l) == {[own |-> Len(l), list |-> l \o r] :
                         r \in SampledLists(Outcomes, IF Len(l) < N_CONSUMERS
                                                     THEN N_CONSUMERS - Len(l) ELSE 0)}
<1>8. Picks(in.order, in.stake, in.total, Leaders)
        = UNION {With(l) : l \in LeaderPicks(in.order, Leaders)}
  BY DEF Picks, Outcomes
<1>9. pick \in With(lead)
  BY <1>7
<1> HIDE DEF pick, With
<1>10. pick \in Picks(in.order, in.stake, in.total, Leaders)
  BY <1>2, <1>8, <1>9
<1>11. QED
  BY <1>10 DEF pick, Leaders

\* When the call returns, every leader has been dealt out.
LEMMA AllDealt ==
  ASSUME TypeOK, DealInv, pc = "done", n > 0, leader_count > 0, NEW e \in 1 .. n
  PROVE  /\ chunk_len(leader_count, n) > 0
         /\ tpus[e] = OwnTpu(e) \cup
              {in.leader_tpus[k] : k \in {x \in 1 .. leader_count :
                                            e \in EntriesOf(x, leader_count, n)}}
<1> DEFINE len == chunk_len(leader_count, n)
<1>1. n \in Nat /\ leader_count \in Nat /\ chunk \in Nat
  BY CallFacts DEF TypeOK
<1>2. len > 0 /\ chunk * len >= leader_count
  BY <1>1 DEF DealInv
<1>3. len \in Nat
  BY <1>1, ChunkLen
<1>4. tpus[e] = OwnTpu(e) \cup
        {in.leader_tpus[k] : k \in {x \in 1 .. leader_count :
           x <= chunk * len /\ e \in EntriesOf(x, leader_count, n)}}
  BY DEF DealInv, DealtTpus
<1> HIDE DEF len
<1>5. chunk * len \in Nat
  BY <1>1, <1>3
<1>6. \A x \in 1 .. leader_count : x <= chunk * len
  BY <1>1, <1>2, <1>5
<1>7. QED
  BY <1>2, <1>4, <1>6 DEF len

\* What holds in every state of a call.
LEMMA InvariantHolds == Spec => []IInv
<1>1. Init => IInv
  <2> SUFFICES ASSUME Init PROVE IInv
    OBVIOUS
  <2>0. n = 0 /\ leader_count \in Nat /\ Len(in.order) \in Nat /\ in \in Inputs
    BY InputsAssumption DEF Init, n, leader_count
  <2>1. TypeOK
    BY <2>0 DEF Init, TypeOK
  <2>2. LeadersInv /\ WalkInv
    BY <2>0 DEF Init, LeadersInv, WalkInv, Seen
  <2>3. SampleInv
    BY <2>0 DEF Init, SampleInv
  <2>4. DealInv
    BY <2>0 DEF Init, DealInv
  <2>5. QED
    BY <2>1, <2>2, <2>3, <2>4 DEF IInv
<1>2. IInv /\ [Next]_vars => IInv'
  BY TypeNext, LeadersNext, WalkNext, SampleNext, DealNext DEF IInv
<1>3. QED
  BY <1>1, <1>2, PTL DEF Spec

\* The variables of a call stay in their ranges: the position in the map, the
\* number of leaders among the picks, the number of chunks.
THEOREM TypeCorrect == Spec => []TypeOK
<1>1. IInv => TypeOK
  BY DEF IInv
<1>2. QED
  BY <1>1, InvariantHolds, PTL

\* The loops of pick_consumers and of sample_consumer_stake_weighted compute
\* what module Picking says in closed form, for every map and every list of
\* leaders: the closed form Balancer uses is the code's.
THEOREM LoopsComputeClosedForm == Spec => []MatchesClosedForm
<1>1. IInv => MatchesClosedForm
  <2> SUFFICES ASSUME IInv PROVE MatchesClosedForm
    OBVIOUS
  <2> USE DEF IInv
  <2>0. n \in Nat /\ leader_count \in Nat
    BY CallFacts
  <2>1. pc = "draw" /\ n > own => HitBy(in.order, in.stake, point) = {Last(consumers)}
    BY DEF SampleInv, Last, n
  <2>2. pc = "walk" /\ pos > Len(in.order) => HitBy(in.order, in.stake, point) = {}
    BY WalkedPast
  <2>3. pc \in {"chunks", "done", "panicked"} =>
          [own |-> own, list |-> consumers]
            \in Picks(in.order, in.stake, in.total, Range(in.leader_tpus))
    BY CallPicks
  <2>4. pc = "panicked" => Panics(leader_count, n)
    BY DEF DealInv
  <2>5. pc = "done" => ~ Panics(leader_count, n)
    BY <2>0 DEF DealInv, Panics
  <2>6. ASSUME pc = "done", n > 0, leader_count > 0, NEW e \in 1 .. n
        PROVE  tpus[e] = TpusOf([own |-> own, list |-> consumers], in.leader_tpus, e)
    <3> DEFINE pick == [own |-> own, list |-> consumers]
    <3>1. pick.own = own /\ pick.list = consumers
      OBVIOUS
    <3> HIDE DEF pick
    <3>2. TpusOf(pick, in.leader_tpus, e) = OwnTpu(e) \cup
            {in.leader_tpus[k] : k \in {x \in 1 .. leader_count :
                                          e \in EntriesOf(x, leader_count, n)}}
      BY <3>1 DEF TpusOf, OwnTpu, leader_count, n
    <3>3. QED
      BY <2>6, <3>2, AllDealt DEF pick
  <2> HIDE DEF IInv
  <2>7. QED
    BY <2>1, <2>2, <2>3, <2>4, <2>5, <2>6 DEF MatchesClosedForm
<1>2. QED
  BY <1>1, InvariantHolds, PTL

\* With somebody connected and an up-to-date total, the sampling of
\* pick_consumers fills its quota, whatever the stakes and the points drawn.
THEOREM QuotaIsFilled == Spec => []QuotaFilled
<1>1. IInv => QuotaFilled
  <2> SUFFICES ASSUME IInv, pc \in {"chunks", "done"}, TotalIsFresh, in.order # <<>>
               PROVE  n >= N_CONSUMERS
    BY DEF QuotaFilled
  <2>1. n >= N_CONSUMERS \/ {} \in Outcomes
    BY DEF IInv, SampleInv
  <2>2. Outcomes = sample_consumer_stake_weighted(in.order, in.stake,
                     connected_stake(in.order, in.stake))
    BY DEF Outcomes, TotalIsFresh
  <2>3. /\ in.order \in Seq(Range(in.order))
        /\ \A i \in 1 .. Len(in.order) : in.stake[in.order[i]] \in Nat
    BY CallFacts DEF IInv
  <2>4. {} \notin Outcomes
    BY <2>2, <2>3, FreshTotalHits
  <2>5. QED
    BY <2>1, <2>4
<1>2. QED
  BY <1>1, InvariantHolds, PTL

\* A call that returns has assigned every leader to N_COPIES different entries,
\* for any number of leaders, picks and copies.
THEOREM LeadersCopied == Spec => []LeadersHaveCopies
<1>1. IInv => LeadersHaveCopies
  <2> SUFFICES ASSUME IInv, pc = "done", n >= N_COPIES,
                      NEW leader \in Range(in.leader_tpus)
               PROVE  Cardinality({e \in 1 .. n : leader \in tpus[e]}) >= N_COPIES
    BY DEF LeadersHaveCopies
  <2> DEFINE E == {e \in 1 .. n : leader \in tpus[e]}
  <2>1. n \in Nat \ {0} /\ leader_count \in Nat /\ N_COPIES <= n /\ n > 0
    BY CallFacts, PickingAssumption DEF IInv
  <2>2. PICK k \in 1 .. leader_count : in.leader_tpus[k] = leader
    <3>1. in.leader_tpus \in Seq(Leaders)
      BY CallFacts DEF IInv
    <3>2. DOMAIN in.leader_tpus = 1 .. leader_count
      BY <3>1 DEF leader_count
    <3>3. QED
      BY <3>2 DEF Range
  <2>3. leader_count > 0
    BY <2>1, <2>2
  <2>4. chunk_len(leader_count, n) > 0
    <3>1. 1 \in 1 .. n
      BY <2>1
    <3>2. QED
      BY <2>1, <2>3, <3>1, AllDealt DEF IInv
  <2>5. /\ EntriesOf(k, leader_count, n) \subseteq 1 .. n
        /\ Cardinality(EntriesOf(k, leader_count, n)) = N_COPIES
    BY <2>1, <2>2, <2>4, CopiesCounted
  <2>6. EntriesOf(k, leader_count, n) \subseteq E
    <3> SUFFICES ASSUME NEW e \in EntriesOf(k, leader_count, n)
                 PROVE  e \in 1 .. n /\ leader \in tpus[e]
      OBVIOUS
    <3>1. e \in 1 .. n
      BY <2>5
    <3>2. tpus[e] = OwnTpu(e) \cup
            {in.leader_tpus[x] : x \in {y \in 1 .. leader_count :
                                          e \in EntriesOf(y, leader_count, n)}}
      BY <2>1, <2>3, <3>1, AllDealt DEF IInv
    <3>3. QED
      BY <2>2, <3>1, <3>2
  <2>7. IsFiniteSet(E)
    <3>1. IsFiniteSet(1 .. n)
      BY <2>1, FS_Interval
    <3>2. QED
      BY <3>1, FS_Subset
  <2>8. Cardinality(EntriesOf(k, leader_count, n)) <= Cardinality(E)
    BY <2>6, <2>7, FS_Subset
  <2>9. Cardinality(E) \in Nat
    BY <2>7, FS_CardinalityType
  <2> HIDE DEF E
  <2>10. Cardinality(E) >= N_COPIES
    BY <2>5, <2>8, <2>9, PickingAssumption
  <2>11. QED
    BY <2>10 DEF E
<1>2. QED
  BY <1>1, InvariantHolds, PTL

\* A call that returns leaves no entry without a TPU when some leader is known:
\* no client is sent a transaction it cannot forward.
THEOREM EntriesServed == Spec => []EntriesHaveTpu
<1>1. IInv => EntriesHaveTpu
  <2> SUFFICES ASSUME IInv, pc = "done", leader_count > 0, NEW e \in 1 .. n
               PROVE  tpus[e] # {}
    BY DEF EntriesHaveTpu
  <2>1. n \in Nat /\ leader_count \in Nat
    BY CallFacts DEF IInv
  <2>2. n > 0 /\ n \in Nat \ {0}
    BY <2>1
  <2>3. /\ chunk_len(leader_count, n) > 0
        /\ tpus[e] = OwnTpu(e) \cup
             {in.leader_tpus[x] : x \in {y \in 1 .. leader_count :
                                           e \in EntriesOf(y, leader_count, n)}}
    BY <2>2, AllDealt DEF IInv
  <2>4. ~ Panics(leader_count, n)
    BY <2>3 DEF Panics
  <2>5. PICK k \in 1 .. leader_count : e \in EntriesOf(k, leader_count, n)
    BY <2>1, <2>2, <2>4, EveryEntryServed
  <2>6. in.leader_tpus[k] \in tpus[e]
    BY <2>3, <2>5
  <2>7. QED
    BY <2>6
<1>2. QED
  BY <1>1, InvariantHolds, PTL
==============================================================================
