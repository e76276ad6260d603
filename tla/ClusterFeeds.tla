----------------------------- MODULE ClusterFeeds ----------------------------
(***************************************************************************)
(* How the server follows the cluster: leaders_stream, which turns slot    *)
(* notifications into sets of upcoming leaders (server/solana_service.rs), *)
(* balancer_updater, which resolves them to validators it has records of   *)
(* and hands them to the balancer (server/balancer.rs), and the loop that  *)
(* refreshes the stake weights once per epoch (server/main.rs).            *)
(*                                                                         *)
(* A call to the cluster either fails or reports the state of the cluster  *)
(* at that moment.  Waiting for the balancer's lock is a step of its own;  *)
(* what holds the lock meanwhile is the business of module Balancer.       *)
(***************************************************************************)
EXTENDS Integers, Sequences, FiniteSets, SequencesExt

CONSTANTS
  Identity,          \* validators
  Schedules,         \* per epoch, the leader of each slot of the epoch
  SLOTS_PER_EPOCH,   \* 432000 in the code
  N_LEADERS,         \* leaders looked ahead (7 in the code)
  SlotsPerLeader,    \* consecutive slots of a leader (4 in the code)
  InfoMaps,          \* sets of validators get_leader_info may know
  FirstSlot,         \* the slot at which the server starts
  MaxSlot,           \* bound on the slots
  Failures           \* kinds of failures: see the actions

Epoch(s) == s \div SLOTS_PER_EPOCH

ASSUME ClusterFeedsAssumption ==
  /\ SLOTS_PER_EPOCH \in Nat \ {0} /\ SlotsPerLeader \in Nat \ {0}
  /\ N_LEADERS \in Nat \ {0}
  /\ FirstSlot \in Nat
  /\ MaxSlot \in Nat /\ MaxSlot >= FirstSlot
  /\ \A e \in Epoch(FirstSlot) .. Epoch(MaxSlot) :
       Schedules[e] \in [0 .. SLOTS_PER_EPOCH - 1 -> Identity]
  /\ InfoMaps \subseteq SUBSET Identity

VARIABLES
  slot,            \* the cluster's slot (external)
  subscribed,      \* the slot subscription is alive (external)
  \* leaders_stream
  feed,            \* "up", or "ended" by an error
  schedule,        \* slot of the epoch -> leader
  seen,            \* the last slot notification taken
  last_leaders,
  rx_leaders,      \* the channel to balancer_updater
  \* balancer_updater
  updater,         \* where the task is
  info_map,        \* validators with a record
  taken,           \* the last set of leaders taken from the channel
  leaders_info,    \* what it resolved to
  leaders,         \* Balancer.leaders
  \* the stake loop
  stake_loop,      \* where the task is
  last_epoch,
  epoch,           \* the epoch it was told
  fetched,         \* the epoch of the stakes it holds
  weights_epoch,   \* the epoch of Balancer.stake_weights, 0 before the first
  exited           \* the panic hook has ended the process

cluster == <<slot, subscribed>>
stream  == <<feed, schedule, seen, last_leaders>>
update  == <<updater, info_map, taken, leaders_info, leaders>>
stakes  == <<stake_loop, last_epoch, epoch, fetched, weights_epoch>>
vars    == <<cluster, stream, rx_leaders, update, stakes, exited>>

Init ==
  /\ slot = FirstSlot /\ subscribed = TRUE
  /\ feed = "up" /\ schedule = <<>> /\ seen = FirstSlot - 1
  /\ last_leaders = {} /\ rx_leaders = <<>>
  /\ updater = "select" /\ info_map = {} /\ taken = {}
  /\ leaders_info = {} /\ leaders = {}
  /\ stake_loop = "epoch" /\ last_epoch = 0 /\ epoch = 0 /\ fetched = 0
  /\ weights_epoch = 0
  /\ exited = FALSE

(***************************************************************************)
(* The cluster (external).                                                 *)
(***************************************************************************)

NextSlot ==
  /\ ~ exited /\ slot < MaxSlot
  /\ slot' = slot + 1
  /\ UNCHANGED <<subscribed, stream, rx_leaders, update, stakes, exited>>

\* The connection behind the slot subscription is lost.
Unsubscribed ==
  /\ ~ exited /\ subscribed /\ "subscription" \in Failures
  /\ subscribed' = FALSE
  /\ UNCHANGED <<slot, stream, rx_leaders, update, stakes, exited>>

(***************************************************************************)
(* leaders_stream.                                                         *)
(***************************************************************************)

\* Every hour: get_leader_schedule answers for the epoch it is.
RefreshSchedule ==
  /\ ~ exited /\ feed = "up"
  /\ schedule' = Schedules[Epoch(slot)]
  /\ UNCHANGED <<cluster, feed, seen, last_leaders, rx_leaders, update, stakes,
                 exited>>

\* The call fails: `?` ends the task, and with it the channel's sender.
RefreshFails ==
  /\ ~ exited /\ feed = "up" /\ "schedule" \in Failures
  /\ feed' = "ended"
  /\ UNCHANGED <<cluster, schedule, seen, last_leaders, rx_leaders, update, stakes,
                 exited>>

\* The cluster has no schedule: expect panics.
RefreshPanics ==
  /\ ~ exited /\ feed = "up" /\ "no_schedule" \in Failures
  /\ exited' = TRUE
  /\ UNCHANGED <<cluster, stream, rx_leaders, update, stakes>>

\* Plausible slip: the window starts with the leader after the current one.
current_leaders_late(s) ==
  {schedule[k] : k \in DOMAIN schedule \cap
     {nth * SlotsPerLeader + (s % SLOTS_PER_EPOCH) : nth \in 1 .. N_LEADERS}}

\* The leaders of the slots looked ahead, as far as the schedule goes.
current_leaders(s) ==
  {schedule[k] : k \in DOMAIN schedule \cap
     {nth * SlotsPerLeader + (s % SLOTS_PER_EPOCH) : nth \in 0 .. N_LEADERS - 1}}

\* Plausible slip: a channel of one, which refuses a change while it is full.
AnnounceTrySend(now) ==
  /\ last_leaders' = now
  /\ rx_leaders' = IF now = last_leaders \/ rx_leaders # <<>> THEN rx_leaders
                   ELSE Append(rx_leaders, now)

\* A set of leaders that differs from the last one is sent on.
Announce(now) ==
  /\ last_leaders' = now
  /\ rx_leaders' = IF now = last_leaders THEN rx_leaders ELSE Append(rx_leaders, now)

\* Plausible slip: the slot is taken for the one that comes next.
NotifiableEarly == seen + 1 .. slot + 1

\* Slots a notification may come for: in order, and some slots get none.
Notifiable == seen + 1 .. slot

\* A slot notification.
SlotNotification ==
  /\ ~ exited /\ feed = "up" /\ subscribed
  /\ seen' \in Notifiable
  /\ Announce(current_leaders(seen'))
  /\ UNCHANGED <<cluster, feed, schedule, update, stakes, exited>>

(***************************************************************************)
(* balancer_updater.                                                       *)
(***************************************************************************)

\* Every minute the task asks for the validators' records, and waits.
FetchNodes ==
  /\ ~ exited /\ updater = "select" /\ InfoMaps # {}
  /\ updater' = "nodes"
  /\ UNCHANGED <<cluster, stream, rx_leaders, info_map, taken, leaders_info,
                 leaders, stakes, exited>>

\* get_leader_info merges TPUs and records; the leaders are not resolved anew.
NodesFetched ==
  /\ ~ exited /\ updater = "nodes"
  /\ info_map' \in InfoMaps
  /\ updater' = "select"
  /\ UNCHANGED <<cluster, stream, rx_leaders, taken, leaders_info, leaders, stakes,
                 exited>>

\* One of the three calls failed: the old records stay.
NodesFailed ==
  /\ ~ exited /\ updater = "nodes" /\ "nodes" \in Failures
  /\ updater' = "select"
  /\ UNCHANGED <<cluster, stream, rx_leaders, info_map, taken, leaders_info,
                 leaders, stakes, exited>>

\* Leaders that have a record; gossip may update its TPU.
lookup_info(identities) == identities \cap info_map

\* Plausible slip: leaders wait for the first records.
LeadersReadyOnceKnown == updater = "select" /\ rx_leaders # <<>> /\ info_map # {}

\* The arm of the leaders is ready.
LeadersReady == updater = "select" /\ rx_leaders # <<>>

\* The next set of leaders is resolved with lookup_info; the lock is asked for.
TakeLeaders ==
  /\ ~ exited /\ LeadersReady
  /\ taken' = Head(rx_leaders)
  /\ rx_leaders' = Tail(rx_leaders)
  /\ leaders_info' = lookup_info(Head(rx_leaders))
  /\ updater' = "write"
  /\ UNCHANGED <<cluster, stream, info_map, leaders, stakes, exited>>

\* Plausible slip: leaders nobody has a record of do not replace the old ones.
NewLeadersKnown == IF leaders_info = {} THEN leaders ELSE leaders_info

\* The new leaders replace the old ones, also by none.
NewLeaders == leaders_info

\* With the lock held.
set_leaders ==
  /\ ~ exited /\ updater = "write"
  /\ leaders' = NewLeaders
  /\ updater' = "select"
  /\ UNCHANGED <<cluster, stream, rx_leaders, info_map, taken, leaders_info,
                 stakes, exited>>

(***************************************************************************)
(* The stake loop.                                                         *)
(***************************************************************************)

\* Plausible slip: stakes are fetched in the first round only.
NewsOnce(e) == last_epoch = 0 /\ e # 0

\* last_epoch starts as 0: epoch 0 is no news, and its stakes are never fetched.
News(e) == last_epoch # e

\* Every minute: the epoch is asked for; a failure counts as no news.
AskEpoch ==
  /\ ~ exited /\ stake_loop = "epoch"
  /\ epoch' \in {Epoch(slot)} \cup (IF "epoch" \in Failures THEN {last_epoch} ELSE {})
  /\ stake_loop' = IF News(epoch') THEN "stakes" ELSE "epoch"
  /\ UNCHANGED <<cluster, stream, rx_leaders, update, last_epoch, fetched,
                 weights_epoch, exited>>

FetchStakes ==
  /\ ~ exited /\ stake_loop = "stakes"
  /\ fetched' = Epoch(slot)
  /\ stake_loop' = "write"
  /\ UNCHANGED <<cluster, stream, rx_leaders, update, last_epoch, epoch,
                 weights_epoch, exited>>

\* Plausible slip: the epoch is remembered although its stakes are missing.
StakesLost ==
  /\ ~ exited /\ stake_loop = "stakes" /\ "stakes" \in Failures
  /\ last_epoch' = epoch
  /\ stake_loop' = "epoch"
  /\ UNCHANGED <<cluster, stream, rx_leaders, update, epoch, fetched, weights_epoch,
                 exited>>

\* The stakes cannot be had: last_epoch stays, the next round tries again.
StakesFailed ==
  /\ ~ exited /\ stake_loop = "stakes" /\ "stakes" \in Failures
  /\ stake_loop' = "epoch"
  /\ UNCHANGED <<cluster, stream, rx_leaders, update, last_epoch, epoch, fetched,
                 weights_epoch, exited>>

\* update_stake_weights under the lock, then last_epoch.
WriteStakes ==
  /\ ~ exited /\ stake_loop = "write"
  /\ weights_epoch' = fetched
  /\ last_epoch' = epoch
  /\ stake_loop' = "epoch"
  /\ UNCHANGED <<cluster, stream, rx_leaders, update, epoch, fetched, exited>>

LeadersStream == RefreshSchedule \/ RefreshFails \/ RefreshPanics \/ SlotNotification

BalancerUpdater == \/ FetchNodes \/ NodesFetched \/ NodesFailed
                   \/ TakeLeaders \/ set_leaders

StakeLoop == AskEpoch \/ FetchStakes \/ StakesFailed \/ WriteStakes

Next == NextSlot \/ Unsubscribed \/ LeadersStream \/ BalancerUpdater \/ StakeLoop

Spec == Init /\ [][Next]_vars

\* Tasks are polled, select! picks among ready arms at random, locks are granted,
\* and a call that is repeated for ever is not always a failure.
FairSpec ==
  /\ Spec
  /\ WF_vars(SlotNotification)
  /\ WF_vars(NodesFetched \/ NodesFailed) /\ SF_vars(TakeLeaders)
  /\ WF_vars(set_leaders)
  /\ SF_vars(AskEpoch /\ epoch' = Epoch(slot)) /\ SF_vars(FetchStakes)
  /\ WF_vars(WriteStakes)

(***************************************************************************)
(* Properties.                                                             *)
(***************************************************************************)

\* Every variable stays in its range.
TypeOK ==
  /\ slot \in FirstSlot .. MaxSlot /\ subscribed \in BOOLEAN
  /\ feed \in {"up", "ended"}
  /\ schedule \in {Schedules[e] : e \in Epoch(FirstSlot) .. Epoch(MaxSlot)} \cup {<<>>}
  /\ seen \in FirstSlot - 1 .. slot
  /\ last_leaders \in SUBSET Identity /\ rx_leaders \in Seq(SUBSET Identity)
  /\ updater \in {"select", "nodes", "write"}
  /\ info_map \in SUBSET Identity /\ taken \in SUBSET Identity
  /\ leaders_info \in SUBSET Identity /\ leaders \in SUBSET Identity
  /\ stake_loop \in {"epoch", "stakes", "write"}
  /\ {last_epoch, epoch, fetched, weights_epoch} \subseteq 0 .. Epoch(MaxSlot)
  /\ exited \in BOOLEAN

\* What the updater takes last is what leaders_stream saw last: no change of
\* leaders is lost on the way, however long the updater waits for records or for
\* the lock.
NoChangeLost == last_leaders = IF rx_leaders = <<>> THEN taken ELSE Last(rx_leaders)

\* The leaders, by epoch e's schedule, of the slots from s on that are looked ahead;
\* the window ends with the epoch.
Upcoming(e, s) ==
  LET k0 == s % SLOTS_PER_EPOCH
  IN  {Schedules[e][k] : k \in {k \in 0 .. SLOTS_PER_EPOCH - 1 :
         k0 <= k /\ k <= k0 + (N_LEADERS - 1) * SlotsPerLeader}}

\* Once every announcement has been dealt with, all leaders in the balancer are up
\* in the window of the last slot that was notified, by the schedule of one epoch
\* that has begun: leaders of earlier windows are replaced, also where none of the
\* new ones has a record, and a window that runs past the epoch names nobody else.
\* (The schedule may be an old one, and when the stream has ended or lost its
\* source, the last slot notified stays what it is, and so do the leaders.)
LeadersUpcoming ==
  rx_leaders = <<>> /\ updater # "write" =>
    \E e \in Epoch(FirstSlot) .. Epoch(slot) : leaders \subseteq Upcoming(e, seen)

\* The leader of a slot is announced with it, if the schedule is that epoch's.
ProducerAnnounced ==
  [][seen' # seen /\ schedule = Schedules[Epoch(seen')] =>
       Schedules[Epoch(seen')][seen' % SLOTS_PER_EPOCH] \in last_leaders']_vars

\* The loop never takes an epoch for done whose stakes it does not have, although
\* the epoch may turn between its two calls.
StakesNotOlder == last_epoch <= weights_epoch

\* Every slot is taken note of, unless the stream has lost its source, and whatever
\* it announces is taken up by the updater and reaches the balancer.
LeadersFollowed ==
  \A s \in FirstSlot .. MaxSlot :
    slot = s ~> \/ exited
                \/ /\ rx_leaders = <<>> /\ updater # "write"
                   /\ seen >= s \/ feed = "ended" \/ ~ subscribed

\* The stakes of every epoch that lasts, or of a later one, become the weights;
\* only those of the cluster's very first epoch are never asked for.
StakesFollowed ==
  \A e \in Epoch(FirstSlot) .. Epoch(MaxSlot) :
    Epoch(slot) = e /\ e > 0 ~> weights_epoch >= e \/ exited
==============================================================================
