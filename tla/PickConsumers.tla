---------------------------- MODULE PickConsumers ----------------------------
(***************************************************************************)
(* One call of `Balancer::pick_consumers` (server/balancer.rs), loop by    *)
(* loop: take the connected leaders, sample the rest by stake, deal the    *)
(* leaders' TPUs out in chunks.  Every call is checked against the closed  *)
(* forms of module Picking, which the rest of the project is built on.     *)
(***************************************************************************)
EXTENDS Picking, Functions

CONSTANT Inputs   \* the calls: records of order, stake, total, leader_tpus

ASSUME InputsAssumption ==
  \A in \in Inputs :
    /\ DOMAIN in = {"order", "stake", "total", "leader_tpus"}
    /\ in.order \in Seq(Range(in.order)) /\ IsInjective(in.order)
    /\ in.leader_tpus \in Seq(Range(in.leader_tpus))
    /\ \A c \in Range(in.order) : in.stake[c] \in Nat
    /\ in.total \in Nat

VARIABLES in,         \* the call's input: the balancer's state under the lock
          pc,         \* where the call is
          consumers,  \* the consumers picked so far
          own,        \* how many of them were picked as leaders
          point,      \* random_stake_point of the sample under way
          acc,        \* accumulated_sum of the sample under way
          pos,        \* the present loop's position in the iteration order
          chunk,      \* the number of chunks dealt out
          tpus        \* per entry, the TPUs pushed so far

vars == <<in, pc, consumers, own, point, acc, pos, chunk, tpus>>

leader_count == Len(in.leader_tpus)
n == Len(consumers)

Init == /\ in \in Inputs
        /\ pc = "leaders"
        /\ consumers = <<>>
        /\ own = 0 /\ point = 0 /\ acc = 0 /\ pos = 1 /\ chunk = 0
        /\ tpus = <<>>

\* The iterator looks at one consumer; a leader is picked, with its own TPU.
PickLeaders ==
  /\ pc = "leaders" /\ pos <= Len(in.order)
  /\ LET c == in.order[pos]
     IN  IF c \in Range(in.leader_tpus)
         THEN /\ consumers' = Append(consumers, c)
              /\ tpus' = Append(tpus, {c})
              /\ own' = own + 1
         ELSE UNCHANGED <<consumers, tpus, own>>
  /\ pos' = pos + 1
  /\ UNCHANGED <<in, pc, point, acc, chunk>>

\* The leaders are collected.
LeadersPicked ==
  /\ pc = "leaders" /\ pos > Len(in.order)
  /\ pc' = "draw"
  /\ UNCHANGED <<in, consumers, own, point, acc, pos, chunk, tpus>>

\* The quota loop draws another random_stake_point.
Draw ==
  /\ pc = "draw" /\ n < N_CONSUMERS
  /\ total_weight(in.order, in.total) > 0
  /\ point' \in 0 .. total_weight(in.order, in.total) - 1
  /\ acc' = 0 /\ pos' = 1
  /\ pc' = "walk"
  /\ UNCHANGED <<in, consumers, own, chunk, tpus>>

\* The quota is filled, or there is nobody to sample.
StopDrawing ==
  /\ pc = "draw"
  /\ n >= N_CONSUMERS \/ total_weight(in.order, in.total) = 0
  /\ pc' = "chunks"
  /\ UNCHANGED <<in, consumers, own, point, acc, pos, chunk, tpus>>

\* Plausible slip: the weight without the "+ 1".
WeightNoBonus(c) == in.stake[c]

\* Plausible slip: the weight with the "+ 1" counted twice.
WeightTwice(c) == in.stake[c] + 2

\* The weight a consumer adds to accumulated_sum.
Weight(c) == in.stake[c] + 1

\* The sampling loop looks at one consumer.
Walk ==
  /\ pc = "walk" /\ pos <= Len(in.order)
  /\ LET c == in.order[pos]
     IN  /\ acc' = acc + Weight(c)
         /\ IF point < acc'
            THEN /\ consumers' = Append(consumers, c)
                 /\ tpus' = Append(tpus, {})
                 /\ pc' = "draw"
                 /\ UNCHANGED pos
            ELSE /\ pos' = pos + 1
                 /\ UNCHANGED <<pc, consumers, tpus>>
  /\ UNCHANGED <<in, own, point, chunk>>

\* The point is past the last consumer: None ends the quota loop.
WalkNone ==
  /\ pc = "walk" /\ pos > Len(in.order)
  /\ pc' = "chunks"
  /\ UNCHANGED <<in, consumers, own, point, acc, pos, chunk, tpus>>

\* Plausible slip: every copy goes to the same entry.
TargetSame(i, j) == 1 + (i % n)

\* Plausible slip: the copies start at the first entry for every chunk.
TargetFirst(i, j) == 1 + (j % n)

\* The entries copy j of chunk number i goes to.
Target(i, j) == 1 + ((i + j) % n)

\* leader_tpus.chunks(0) panics.
ChunksPanic ==
  /\ pc = "chunks" /\ n > 0 /\ leader_count > 0
  /\ chunk_len(leader_count, n) = 0
  /\ pc' = "panicked"
  /\ UNCHANGED <<in, consumers, own, point, acc, pos, chunk, tpus>>

\* Plausible slip: the loop does not stop after the last chunk.
DealChunkMore ==
  /\ pc = "chunks" /\ n > 0 /\ leader_count > 0
  /\ LET len == chunk_len(leader_count, n)
         ks  == {k \in 1 .. leader_count : chunk * len < k /\ k <= (chunk + 1) * len}
         to  == {Target(chunk, j) : j \in 0 .. N_COPIES - 1}
     IN  /\ len > 0
         /\ tpus' = [e \in 1 .. n |->
              IF e \in to THEN tpus[e] \cup {in.leader_tpus[k] : k \in ks}
                          ELSE tpus[e]]
  /\ chunk' = chunk + 1
  /\ UNCHANGED <<in, pc, consumers, own, point, acc, pos>>

\* One chunk of leaders goes to N_COPIES entries.
DealChunk ==
  /\ pc = "chunks" /\ n > 0 /\ leader_count > 0
  /\ LET len == chunk_len(leader_count, n)
         ks  == {k \in 1 .. leader_count : chunk * len < k /\ k <= (chunk + 1) * len}
         to  == {Target(chunk, j) : j \in 0 .. N_COPIES - 1}
     IN  /\ len > 0 /\ ks # {}
         /\ tpus' = [e \in 1 .. n |->
              IF e \in to THEN tpus[e] \cup {in.leader_tpus[k] : k \in ks}
                          ELSE tpus[e]]
  /\ chunk' = chunk + 1
  /\ UNCHANGED <<in, pc, consumers, own, point, acc, pos>>

\* No leader is left to deal out.
Return ==
  /\ pc = "chunks"
  /\ \/ n = 0 \/ leader_count = 0
     \/ /\ n > 0 /\ chunk_len(leader_count, n) > 0
        /\ chunk * chunk_len(leader_count, n) >= leader_count
  /\ pc' = "done"
  /\ UNCHANGED <<in, consumers, own, point, acc, pos, chunk, tpus>>

Next == \/ PickLeaders \/ LeadersPicked \/ Draw \/ StopDrawing \/ Walk \/ WalkNone
        \/ ChunksPanic \/ DealChunk \/ Return

Spec == Init /\ [][Next]_vars

(***************************************************************************)
(* Properties.                                                             *)
(***************************************************************************)

\* Every variable stays in its range.
TypeOK ==
  /\ in \in Inputs
  /\ pc \in {"leaders", "draw", "walk", "chunks", "done", "panicked"}
  /\ consumers \in Seq(Range(in.order))
  /\ own \in 0 .. n
  /\ point \in Nat /\ acc \in Nat /\ chunk \in 0 .. leader_count
  /\ pos \in 1 .. Len(in.order) + 1
  /\ tpus \in Seq(SUBSET Range(in.leader_tpus))
  /\ Len(tpus) = n

\* The loops of pick_consumers compute what module Picking says in closed
\* form: a sample is who the random point falls on, or nobody, the list is one
\* of Picks, the call panics exactly when Panics says so, and entry by entry the
\* TPUs are TpusOf.
MatchesClosedForm ==
  /\ pc = "draw" /\ n > own =>
       HitBy(in.order, in.stake, point) = {Last(consumers)}
  /\ pc = "walk" /\ pos > Len(in.order) => HitBy(in.order, in.stake, point) = {}
  /\ pc \in {"chunks", "done", "panicked"} =>
       [own |-> own, list |-> consumers]
         \in Picks(in.order, in.stake, in.total, Range(in.leader_tpus))
  /\ pc = "panicked" => Panics(leader_count, n)
  /\ pc = "done" =>
       /\ ~ Panics(leader_count, n)
       /\ n > 0 /\ leader_count > 0 =>
            \A e \in 1 .. n :
              tpus[e] = TpusOf([own |-> own, list |-> consumers],
                               in.leader_tpus, e)

\* total_connected_stake is what recalc_total_connected_stake would set.
TotalIsFresh ==
  in.total = connected_stake(in.order, in.stake)

\* With somebody connected and an up-to-date total, sampling never comes back
\* empty-handed, so pick_consumers always fills its quota, zero stakes
\* included: a None there would make publish drop the transaction.
QuotaFilled ==
  pc \in {"chunks", "done"} /\ TotalIsFresh /\ in.order # <<>>
    => n >= N_CONSUMERS

\* A call that returns has assigned every known leader to N_COPIES different
\* entries, whatever the remainder of leaders by entries.
LeadersHaveCopies ==
  pc = "done" /\ n >= N_COPIES =>
    \A leader \in Range(in.leader_tpus) :
      Cardinality({e \in 1 .. n : leader \in tpus[e]}) >= N_COPIES

\* A call that returns leaves no entry without a leader to forward to, when
\* some leader is known: no client is sent a transaction with no TPU.
EntriesHaveTpu ==
  pc = "done" /\ leader_count > 0 => \A e \in 1 .. n : tpus[e] # {}

\* With clients connected and leaders known, the transaction is forwarded
\* (README.md:11): pick_consumers returns its picks.
PickReturns == pc # "panicked"
==============================================================================
