------------------------------- MODULE Picking -------------------------------
(***************************************************************************)
(* How the balancer chooses the clients one transaction is sent to, and    *)
(* which leaders' TPUs each of them is told to forward to: the pure part   *)
(* of `Balancer::pick_consumers` and `sample_consumer_stake_weighted`      *)
(* (server/balancer.rs), as sets of possible outcomes.                     *)
(*                                                                         *)
(* `order` is the iteration order of the HashMap of consumers: a sequence  *)
(* without repetition of the connected identities, arbitrary for the code. *)
(* `stake` gives the stake of each.  A leader's identity also stands for   *)
(* the address of its TPU; leader_tpus is the sequence of known leaders.   *)
(***************************************************************************)
EXTENDS Integers, Sequences, FiniteSets, SequencesExt

CONSTANTS N_CONSUMERS,  \* clients a transaction is sent to (3 in the code)
          N_COPIES      \* clients each leader is assigned to (2 in the code)

ASSUME PickingAssumption == /\ N_CONSUMERS \in Nat \ {0}
                            /\ N_COPIES \in Nat \ {0}

(***************************************************************************)
(* Sampling.                                                               *)
(***************************************************************************)

\* accumulated_sum(order, stake)[i]: the loop's sum after i consumers.
accumulated_sum(order, stake) ==
  LET acc[i \in 0 .. Len(order)] ==
        IF i = 0 THEN 0 ELSE acc[i - 1] + stake[order[i]] + 1
  IN  acc

\* The sum recalc_total_connected_stake sets the total to.
connected_stake(order, stake) ==
  LET sum[i \in 0 .. Len(order)] ==
        IF i = 0 THEN 0 ELSE sum[i - 1] + stake[order[i]]
  IN  sum[Len(order)]

\* The range random_stake_point is drawn from; 0 when nobody is connected.
total_weight(order, total_connected_stake) ==
  IF total_connected_stake = 0 THEN Len(order) ELSE total_connected_stake

\* The consumer a random_stake_point falls on: {c}, or {} for None.
HitBy(order, stake, random_stake_point) ==
  LET acc == accumulated_sum(order, stake)
  IN  {order[i] : i \in {k \in 1 .. Len(order) :
         acc[k - 1] <= random_stake_point /\ random_stake_point < acc[k]}}

\* The outcomes of one sample, each {c} (Some(c)) or {} (None).
sample_consumer_stake_weighted(order, stake, total_connected_stake) ==
  LET weight == total_weight(order, total_connected_stake)
  IN  IF weight = 0 THEN {{}}
      ELSE {HitBy(order, stake, point) : point \in 0 .. weight - 1}

(***************************************************************************)
(* Picking.  A pick is [own, list]: the consumers in the order they are    *)
(* sent to, of which the first `own` are leaders and carry their own TPU.  *)
(***************************************************************************)

\* Connected leaders, in iteration order.
LeaderPicks(order, leaders) ==
  {lead \in SetToSeqs(Range(order) \cap leaders) :
     \A a, b \in 1 .. Len(lead) : a < b =>
       \E x, y \in 1 .. Len(order) :
         x < y /\ order[x] = lead[a] /\ order[y] = lead[b]}

\* k samples with replacement; a None ends the loop early.
SampledLists(outcomes, k) ==
  {list \in BoundedSeq(UNION outcomes, k) : Len(list) = k \/ {} \in outcomes}

Picks(order, stake, total_connected_stake, leaders) ==
  LET outcomes == sample_consumer_stake_weighted(order, stake,
                                                 total_connected_stake)
  IN  UNION {{[own |-> Len(lead), list |-> lead \o rest] :
                rest \in SampledLists(outcomes,
                           IF Len(lead) < N_CONSUMERS
                           THEN N_CONSUMERS - Len(lead) ELSE 0)} :
             lead \in LeaderPicks(order, leaders)}

(***************************************************************************)
(* Distributing the leaders' TPUs over the n picked entries.               *)
(***************************************************************************)

chunk_len(leader_count, n) == leader_count \div n

\* slice::chunks panics on a chunk length of 0.
Panics(leader_count, n) ==
  n > 0 /\ leader_count > 0 /\ chunk_len(leader_count, n) = 0

\* The entries (1 .. n) the k-th leader's TPU is pushed to.
EntriesOf(k, leader_count, n) ==
  LET i == (k - 1) \div chunk_len(leader_count, n)
  IN  {1 + ((i + j) % n) : j \in 0 .. N_COPIES - 1}

\* The TPUs entry e of a pick ends up with, as the HashSet publish builds.
TpusOf(pick, leader_tpus, e) ==
  LET n == Len(pick.list)
  IN  {pick.list[x] : x \in {e} \cap (1 .. pick.own)}
      \cup {leader_tpus[k] : k \in {x \in 1 .. Len(leader_tpus) :
                                      e \in EntriesOf(x, Len(leader_tpus), n)}}
==============================================================================
