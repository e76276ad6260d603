-------------------------- MODULE ClusterFeedsProofs -------------------------
(***************************************************************************)
(* Theorems about module ClusterFeeds, for every length of the epochs,     *)
(* every schedule, every look-ahead and every kind of failure.             *)
(***************************************************************************)
EXTENDS ClusterFeeds, SequenceTheorems, TLAPS

(***************************************************************************)
(* The inductive invariant.                                                *)
(***************************************************************************)

\* Once the updater has written what it took, the balancer's leaders are among it.
LeadersAreTaken == updater # "write" => leaders \subseteq taken

\* What waits for the balancer's lock was resolved from the leaders taken last.
ResolvedAreTaken == updater = "write" => leaders_info \subseteq taken

\* The epoch the stake loop was told is not ahead of the cluster, and the stakes it
\* holds are not older than that epoch.
EpochNotAhead ==
  /\ stake_loop = "stakes" => epoch <= Epoch(slot)
  /\ stake_loop = "write" => epoch <= fetched

IInv == /\ TypeOK /\ NoChangeLost /\ LeadersAreTaken /\ ResolvedAreTaken
        /\ StakesNotOlder /\ EpochNotAhead

(***************************************************************************)
(* Slots and epochs.                                                       *)
(***************************************************************************)

\* Division by a positive number keeps the order.
LEMMA DivMonotone ==
  ASSUME NEW n \in Nat \ {0}, NEW a \in Nat, NEW b \in Nat, a <= b
  PROVE  a \div n <= b \div n
<1> DEFINE qa == a \div n
           qb == b \div n
<1>1. /\ qa \in Nat /\ qb \in Nat
      /\ n * qa <= a /\ b < n * (qb + 1)
  OBVIOUS
<1> HIDE DEF qa, qb
<1>2. SUFFICES ASSUME qb + 1 <= qa PROVE FALSE
  BY <1>1 DEF qa, qb
<1>3. n * (qb + 1) <= n * qa
  BY <1>1, <1>2
<1>4. n * (qb + 1) \in Nat /\ n * qa \in Nat
  BY <1>1
<1>5. QED
  BY <1>1, <1>3, <1>4

\* The epoch of a slot within the bounds is one of the epochs of the instance.
LEMMA EpochBounds ==
  ASSUME NEW s \in FirstSlot .. MaxSlot
  PROVE  /\ s \in Nat
         /\ Epoch(s) \in Epoch(FirstSlot) .. Epoch(MaxSlot)
         /\ Epoch(s) \in 0 .. Epoch(MaxSlot)
         /\ Epoch(MaxSlot) \in Nat
<1>1. s \in Nat /\ FirstSlot \in Nat /\ MaxSlot \in Nat /\ SLOTS_PER_EPOCH \in Nat \ {0}
  BY ClusterFeedsAssumption
<1>2. Epoch(FirstSlot) <= Epoch(s) /\ Epoch(s) <= Epoch(MaxSlot)
  BY <1>1, DivMonotone DEF Epoch
<1>3. Epoch(FirstSlot) \in Nat /\ Epoch(s) \in Nat /\ Epoch(MaxSlot) \in Nat
  BY <1>1 DEF Epoch
<1>4. QED
  BY <1>1, <1>2, <1>3

\* The current slot's epoch does not decrease.
LEMMA EpochAdvances ==
  ASSUME NEW s \in FirstSlot .. MaxSlot, s + 1 \in FirstSlot .. MaxSlot
  PROVE  Epoch(s) <= Epoch(s + 1)
<1>1. s \in Nat /\ s + 1 \in Nat /\ s <= s + 1 /\ SLOTS_PER_EPOCH \in Nat \ {0}
  BY ClusterFeedsAssumption
<1>2. QED
  BY <1>1, DivMonotone DEF Epoch

\* A remainder is below the divisor.
LEMMA ModRange ==
  ASSUME NEW n \in Nat \ {0}, NEW a \in Nat
  PROVE  a % n \in 0 .. n - 1
OBVIOUS

\* The last element of a queue is the last one of its tail, if that has any.
LEMMA LastOfTail ==
  ASSUME NEW S, NEW q \in Seq(S), q # <<>>
  PROVE  Last(q) = IF Tail(q) = <<>> THEN Head(q) ELSE Last(Tail(q))
<1>1. Len(q) \in Nat \ {0} /\ Len(Tail(q)) = Len(q) - 1 /\ Tail(q) \in Seq(S)
  BY EmptySeq, HeadTailProperties
<1>2. CASE Len(q) = 1
  <2>1. Len(Tail(q)) = 0
    BY <1>1, <1>2
  <2>2. Tail(q) = <<>>
    BY <1>1, <2>1, EmptySeq
  <2>3. QED
    BY <1>2, <2>2 DEF Last
<1>3. CASE Len(q) > 1
  <2>1. Tail(q) # <<>>
    <3>1. Len(Tail(q)) # 0
      BY <1>1, <1>3
    <3>2. QED
      BY <3>1, EmptySeq, Zenon
  <2>2. Tail(q)[Len(q) - 1] = q[Len(q)]
    BY <1>1, <1>3
  <2>3. QED
    BY <1>1, <2>1, <2>2 DEF Last
<1>4. QED
  BY <1>1, <1>2, <1>3

(***************************************************************************)
(* The parts of the invariant, by the variables they are about.            *)
(***************************************************************************)

ClusterTypes ==
  /\ slot \in FirstSlot .. MaxSlot /\ seen \in FirstSlot - 1 .. slot
  /\ subscribed \in BOOLEAN /\ feed \in {"up", "ended"} /\ exited \in BOOLEAN
  /\ schedule \in {Schedules[e] : e \in Epoch(FirstSlot) .. Epoch(MaxSlot)} \cup {<<>>}

LeaderTypes ==
  /\ last_leaders \in SUBSET Identity /\ rx_leaders \in Seq(SUBSET Identity)
  /\ updater \in {"select", "nodes", "write"}
  /\ info_map \in SUBSET Identity /\ taken \in SUBSET Identity
  /\ leaders_info \in SUBSET Identity /\ leaders \in SUBSET Identity

StakeTypes ==
  /\ stake_loop \in {"epoch", "stakes", "write"}
  /\ {last_epoch, epoch, fetched, weights_epoch} \subseteq 0 .. Epoch(MaxSlot)

LeaderInv == LeaderTypes /\ NoChangeLost /\ LeadersAreTaken /\ ResolvedAreTaken

StakeInv == StakeTypes /\ StakesNotOlder /\ EpochNotAhead

LEMMA InvParts == IInv <=> ClusterTypes /\ LeaderInv /\ StakeInv
BY Zenon DEF IInv, TypeOK, ClusterTypes, LeaderTypes, StakeTypes, LeaderInv, StakeInv

LEMMA InvNextParts == ClusterTypes' /\ LeaderInv' /\ StakeInv' => IInv'
BY Zenon DEF IInv, TypeOK, ClusterTypes, LeaderTypes, StakeTypes, LeaderInv, StakeInv

\* A step that leaves the variables of a part alone keeps it.
LEMMA FramePart ==
  /\ ClusterTypes /\ UNCHANGED <<cluster, feed, schedule, seen, exited>> => ClusterTypes'
  /\ LeaderInv /\ UNCHANGED <<last_leaders, rx_leaders, update>> => LeaderInv'
  /\ StakeInv /\ UNCHANGED <<slot, stakes>> => StakeInv'
<1>1. ClusterTypes /\ UNCHANGED <<cluster, feed, schedule, seen, exited>> => ClusterTypes'
  BY DEF ClusterTypes, cluster
<1>2. LeaderInv /\ UNCHANGED <<last_leaders, rx_leaders, update>> => LeaderInv'
  BY DEF LeaderInv, LeaderTypes, NoChangeLost, LeadersAreTaken, ResolvedAreTaken, update
<1>3. StakeInv /\ UNCHANGED <<slot, stakes>> => StakeInv'
  BY DEF StakeInv, StakeTypes, StakesNotOlder, EpochNotAhead, stakes
<1>4. QED
  BY <1>1, <1>2, <1>3

LEMMA InitIInv == Init => IInv
<1> SUFFICES ASSUME Init PROVE IInv
  OBVIOUS
<1>1. FirstSlot \in FirstSlot .. MaxSlot /\ FirstSlot - 1 \in FirstSlot - 1 .. FirstSlot
  BY ClusterFeedsAssumption
<1>2. Epoch(MaxSlot) \in Nat
  BY <1>1, EpochBounds
<1>3. ClusterTypes
  BY <1>1 DEF Init, ClusterTypes
<1>4. LeaderInv
  BY DEF Init, LeaderInv, LeaderTypes, NoChangeLost, LeadersAreTaken, ResolvedAreTaken
<1>5. StakeInv
  BY <1>2 DEF Init, StakeInv, StakeTypes, StakesNotOlder, EpochNotAhead
<1>6. QED
  BY <1>3, <1>4, <1>5, InvParts

(***************************************************************************)
(* The steps.                                                              *)
(***************************************************************************)

\* The cluster moves on, or the subscription is lost.
LEMMA ClusterSteps ==
  ASSUME IInv, NextSlot \/ Unsubscribed
  PROVE  IInv'
<1>1. ClusterTypes /\ LeaderInv /\ StakeInv
  BY InvParts
<1>2. LeaderInv'
  BY <1>1, FramePart DEF NextSlot, Unsubscribed, stream
<1>3. CASE NextSlot
  <2>1. slot' = slot + 1 /\ slot + 1 \in FirstSlot .. MaxSlot /\ slot \in FirstSlot .. MaxSlot
    BY <1>1, <1>3, ClusterFeedsAssumption DEF NextSlot, ClusterTypes
  <2>2. ClusterTypes'
    BY <1>1, <1>3, <2>1, ClusterFeedsAssumption DEF NextSlot, ClusterTypes, stream
  <2>3. Epoch(slot) <= Epoch(slot') /\ Epoch(slot) \in Nat /\ Epoch(slot') \in Nat
    BY <2>1, EpochAdvances, EpochBounds
  <2>4. Epoch(MaxSlot) \in Nat
    BY <2>1, EpochBounds
  <2>5. StakeInv'
    BY <1>1, <1>3, <2>3, <2>4
    DEF NextSlot, StakeInv, StakeTypes, StakesNotOlder, EpochNotAhead, stakes
  <2>6. QED
    BY <1>2, <2>2, <2>5, InvNextParts
<1>4. CASE Unsubscribed
  <2>1. ClusterTypes'
    BY <1>1, <1>4 DEF Unsubscribed, ClusterTypes, stream
  <2>2. StakeInv'
    BY <1>1, <1>4, FramePart DEF Unsubscribed
  <2>3. QED
    BY <1>2, <2>1, <2>2, InvNextParts
<1>5. QED
  BY <1>3, <1>4

\* The leaders looked ahead are validators of the schedule.
LEMMA LeadersType ==
  ASSUME ClusterTypes, NEW s
  PROVE  current_leaders(s) \in SUBSET Identity
<1>1. CASE schedule = <<>>
  BY <1>1 DEF current_leaders
<1>2. CASE schedule # <<>>
  <2>1. PICK e \in Epoch(FirstSlot) .. Epoch(MaxSlot) : schedule = Schedules[e]
    BY <1>2 DEF ClusterTypes
  <2>2. schedule \in [0 .. SLOTS_PER_EPOCH - 1 -> Identity]
    BY <2>1, ClusterFeedsAssumption
  <2>3. QED
    BY <2>2 DEF current_leaders
<1>3. QED
  BY <1>1, <1>2

\* leaders_stream: a change is appended to the channel, and remembered.
LEMMA StreamSteps ==
  ASSUME IInv, LeadersStream
  PROVE  IInv'
<1>1. ClusterTypes /\ LeaderInv /\ StakeInv
  BY InvParts
<1>2. StakeInv'
  BY <1>1, FramePart
  DEF LeadersStream, RefreshSchedule, RefreshFails, RefreshPanics, SlotNotification,
      cluster
<1>3. CASE RefreshSchedule
  <2>1. Epoch(slot) \in Epoch(FirstSlot) .. Epoch(MaxSlot)
    BY <1>1, EpochBounds DEF ClusterTypes
  <2>2. ClusterTypes'
    BY <1>1, <1>3, <2>1 DEF RefreshSchedule, ClusterTypes, cluster
  <2>3. LeaderInv'
    BY <1>1, <1>3, FramePart DEF RefreshSchedule
  <2>4. QED
    BY <1>2, <2>2, <2>3, InvNextParts
<1>4. CASE RefreshFails \/ RefreshPanics
  <2>1. ClusterTypes'
    BY <1>1, <1>4 DEF RefreshFails, RefreshPanics, ClusterTypes, cluster, stream
  <2>2. LeaderInv'
    BY <1>1, <1>4, FramePart DEF RefreshFails, RefreshPanics, stream
  <2>3. QED
    BY <1>2, <2>1, <2>2, InvNextParts
<1>5. CASE SlotNotification
  <2>1. ClusterTypes'
    BY <1>1, <1>5, ClusterFeedsAssumption
    DEF SlotNotification, Notifiable, ClusterTypes, cluster
  <2> DEFINE now == current_leaders(seen')
  <2>2. now \in SUBSET Identity
    BY <1>1, LeadersType
  <2>3. /\ last_leaders' = now
        /\ rx_leaders' = IF now = last_leaders THEN rx_leaders
                         ELSE Append(rx_leaders, now)
    BY <1>5 DEF SlotNotification, Announce
  <2>4. UNCHANGED update
    BY <1>5 DEF SlotNotification
  <2> HIDE DEF now
  <2>5. LeaderTypes'
    BY <1>1, <2>2, <2>3, <2>4 DEF LeaderInv, LeaderTypes, update
  <2>6. NoChangeLost'
    BY <1>1, <2>2, <2>3, <2>4 DEF LeaderInv, LeaderTypes, NoChangeLost, update, Last
  <2>7. LeadersAreTaken' /\ ResolvedAreTaken'
    BY <1>1, <2>4 DEF LeaderInv, LeadersAreTaken, ResolvedAreTaken, update
  <2>8. QED
    BY <1>2, <2>1, <2>5, <2>6, <2>7, InvNextParts DEF LeaderInv
<1>6. QED
  BY <1>3, <1>4, <1>5 DEF LeadersStream

\* balancer_updater: the oldest change is taken, resolved and written.
LEMMA UpdaterSteps ==
  ASSUME IInv, BalancerUpdater
  PROVE  IInv'
<1>1. ClusterTypes /\ LeaderInv /\ StakeInv
  BY InvParts
<1>2. ClusterTypes' /\ StakeInv'
  BY <1>1, FramePart
  DEF BalancerUpdater, FetchNodes, NodesFetched, NodesFailed, TakeLeaders, set_leaders,
      cluster, stream
<1>3. ASSUME FetchNodes \/ NodesFetched \/ NodesFailed PROVE LeaderInv'
  BY <1>1, <1>3, ClusterFeedsAssumption
  DEF FetchNodes, NodesFetched, NodesFailed, stream, LeaderInv, LeaderTypes,
      NoChangeLost, LeadersAreTaken, ResolvedAreTaken
<1>4. ASSUME TakeLeaders PROVE LeaderInv'
  <2>1. /\ rx_leaders \in Seq(SUBSET Identity) /\ rx_leaders # <<>>
        /\ taken' = Head(rx_leaders) /\ rx_leaders' = Tail(rx_leaders)
        /\ leaders_info' = Head(rx_leaders) \cap info_map
        /\ updater' = "write" /\ UNCHANGED <<last_leaders, info_map, leaders>>
    BY <1>1, <1>4
    DEF TakeLeaders, LeadersReady, lookup_info, stream, LeaderInv, LeaderTypes
  <2>2. LeaderTypes'
    BY <1>1, <2>1 DEF LeaderInv, LeaderTypes
  <2>3. NoChangeLost'
    BY <1>1, <2>1, LastOfTail DEF LeaderInv, NoChangeLost
  <2>4. QED
    BY <2>1, <2>2, <2>3 DEF LeaderInv, LeadersAreTaken, ResolvedAreTaken
<1>5. ASSUME set_leaders PROVE LeaderInv'
  BY <1>1, <1>5
  DEF set_leaders, NewLeaders, stream, LeaderInv, LeaderTypes, NoChangeLost,
      LeadersAreTaken, ResolvedAreTaken
<1>6. QED
  BY <1>2, <1>3, <1>4, <1>5, InvNextParts DEF BalancerUpdater

\* The stake loop: stakes are fetched after the epoch was asked for.
LEMMA StakeSteps ==
  ASSUME IInv, StakeLoop
  PROVE  IInv'
<1>1. ClusterTypes /\ LeaderInv /\ StakeInv
  BY InvParts
<1>2. ClusterTypes' /\ LeaderInv'
  BY <1>1, FramePart
  DEF StakeLoop, AskEpoch, FetchStakes, StakesFailed, WriteStakes, cluster, stream
<1>3. Epoch(slot) \in 0 .. Epoch(MaxSlot) /\ Epoch(MaxSlot) \in Nat /\ slot' = slot
  BY <1>1, EpochBounds
  DEF ClusterTypes, StakeLoop, AskEpoch, FetchStakes, StakesFailed, WriteStakes, cluster
<1>4. ASSUME AskEpoch PROVE StakeInv'
  BY <1>1, <1>3, <1>4
  DEF AskEpoch, News, StakeInv, StakeTypes, StakesNotOlder, EpochNotAhead
<1>5. ASSUME FetchStakes PROVE StakeInv'
  BY <1>1, <1>3, <1>5
  DEF FetchStakes, StakeInv, StakeTypes, StakesNotOlder, EpochNotAhead
<1>6. ASSUME StakesFailed PROVE StakeInv'
  BY <1>1, <1>3, <1>6
  DEF StakesFailed, StakeInv, StakeTypes, StakesNotOlder, EpochNotAhead
<1>7. ASSUME WriteStakes PROVE StakeInv'
  BY <1>1, <1>3, <1>7
  DEF WriteStakes, StakeInv, StakeTypes, StakesNotOlder, EpochNotAhead
<1>8. QED
  BY <1>2, <1>4, <1>5, <1>6, <1>7, InvNextParts DEF StakeLoop

\* A step that changes nothing keeps everything.
LEMMA UnchangedInv == IInv /\ UNCHANGED vars => IInv'
<1> SUFFICES ASSUME IInv, UNCHANGED vars PROVE IInv'
  OBVIOUS
<1>1. /\ UNCHANGED <<cluster, feed, schedule, seen, exited>>
      /\ UNCHANGED <<last_leaders, rx_leaders, update>>
      /\ UNCHANGED <<slot, stakes>>
  BY DEF vars, stream, cluster
<1>2. QED
  BY <1>1, FramePart, InvParts, InvNextParts

\* The invariant holds in every reachable state.
THEOREM Invariant == Spec => []IInv
<1>1. IInv /\ [Next]_vars => IInv'
  BY UnchangedInv, ClusterSteps, StreamSteps, UpdaterSteps, StakeSteps DEF Next
<1>2. QED
  BY <1>1, InitIInv, PTL DEF Spec

(***************************************************************************)
(* The theorems.                                                           *)
(***************************************************************************)

\* Types of leaders_stream, balancer_updater and the stake loop.
THEOREM TypeCorrect == Spec => []TypeOK
<1>1. IInv => TypeOK
  BY DEF IInv
<1>2. QED
  BY <1>1, Invariant, PTL

\* No change of leaders is lost between leaders_stream and balancer_updater.
THEOREM ChangesArrive == Spec => []NoChangeLost
<1>1. IInv => NoChangeLost
  BY DEF IInv
<1>2. QED
  BY <1>1, Invariant, PTL

\* The epochs that have begun since the server was started.
EpochsBegun == Epoch(FirstSlot) .. Epoch(slot)

\* The schedule at hand is that of an epoch that has begun, and so was the one by
\* which the last announcement was made.
AnnouncedInv ==
  /\ schedule = <<>> \/ \E e \in EpochsBegun : schedule = Schedules[e]
  /\ \E e \in EpochsBegun : last_leaders \subseteq Upcoming(e, seen)

\* Looking ahead in strides, as leaders_stream does, stays in the window.
LEMMA WindowUpcoming ==
  ASSUME NEW s \in FirstSlot .. MaxSlot,
         NEW e \in Epoch(FirstSlot) .. Epoch(MaxSlot), schedule = Schedules[e]
  PROVE  current_leaders(s) \subseteq Upcoming(e, s)
<1> DEFINE k0 == s % SLOTS_PER_EPOCH
           last == (N_LEADERS - 1) * SlotsPerLeader
<1>1. schedule \in [0 .. SLOTS_PER_EPOCH - 1 -> Identity]
  BY ClusterFeedsAssumption
<1>2. k0 \in Nat
  <2>1. s \in Nat /\ SLOTS_PER_EPOCH \in Nat \ {0}
    BY ClusterFeedsAssumption
  <2>2. k0 \in 0 .. SLOTS_PER_EPOCH - 1
    BY <2>1, ModRange
  <2>3. QED
    BY <2>2
<1>3. ASSUME NEW nth \in 0 .. N_LEADERS - 1
      PROVE  nth * SlotsPerLeader \in Nat /\ nth * SlotsPerLeader <= last /\ last \in Nat
  <2>1. /\ nth \in Nat /\ N_LEADERS - 1 \in Nat /\ nth <= N_LEADERS - 1
        /\ SlotsPerLeader \in Nat
    BY ClusterFeedsAssumption
  <2>2. \A a, b, c \in Nat : a <= b => a * c \in Nat /\ b * c \in Nat /\ a * c <= b * c
    BY Z3
  <2>3. QED
    BY <2>1, <2>2
<1> HIDE DEF k0, last
<1>4. SUFFICES ASSUME NEW i \in current_leaders(s) PROVE i \in Upcoming(e, s)
  OBVIOUS
<1>5. PICK nth \in 0 .. N_LEADERS - 1 :
        /\ nth * SlotsPerLeader + k0 \in 0 .. SLOTS_PER_EPOCH - 1
        /\ i = schedule[nth * SlotsPerLeader + k0]
  BY <1>1 DEF current_leaders, k0
<1> DEFINE k == nth * SlotsPerLeader + k0
<1>6. k \in 0 .. SLOTS_PER_EPOCH - 1 /\ k0 <= k /\ k <= k0 + last /\ i = Schedules[e][k]
  BY <1>2, <1>3, <1>5
<1> HIDE DEF k
<1>7. QED
  BY <1>6 DEF Upcoming, k0, last

LEMMA InitAnnounced == Init => AnnouncedInv
<1> SUFFICES ASSUME Init PROVE AnnouncedInv
  OBVIOUS
<1>1. FirstSlot \in FirstSlot .. MaxSlot
  BY ClusterFeedsAssumption
<1>2. Epoch(FirstSlot) \in EpochsBegun
  BY <1>1, EpochBounds DEF Init, EpochsBegun
<1>3. QED
  BY <1>2 DEF Init, AnnouncedInv

\* Only a refresh changes the schedule, and only a slot notification the
\* announcement, which is made by the schedule at hand.
LEMMA StepAnnounced ==
  ASSUME IInv, AnnouncedInv, [Next]_vars
  PROVE  AnnouncedInv'
<1>1. ClusterTypes /\ ClusterTypes'
  <2>1. IInv'
    BY ClusterSteps, StreamSteps, UpdaterSteps, StakeSteps, UnchangedInv DEF Next
  <2>2. ClusterTypes'
    BY <2>1 DEF IInv, TypeOK, ClusterTypes
  <2>3. QED
    BY <2>2, InvParts
<1>2. /\ EpochsBegun \subseteq EpochsBegun'
      /\ EpochsBegun \subseteq Epoch(FirstSlot) .. Epoch(MaxSlot)
  <2>1. slot' = slot \/ slot' = slot + 1
    BY DEF Next, NextSlot, Unsubscribed, LeadersStream, RefreshSchedule, RefreshFails,
           RefreshPanics, SlotNotification, BalancerUpdater, FetchNodes, NodesFetched,
           NodesFailed, TakeLeaders, set_leaders, StakeLoop, AskEpoch, FetchStakes,
           StakesFailed, WriteStakes, vars, cluster
  <2>2. slot \in FirstSlot .. MaxSlot /\ slot' \in FirstSlot .. MaxSlot
    BY <1>1 DEF ClusterTypes
  <2>3. /\ Epoch(slot) \in Epoch(FirstSlot) .. Epoch(MaxSlot)
        /\ Epoch(slot') \in Nat /\ Epoch(slot) \in Nat /\ Epoch(MaxSlot) \in Nat
    BY <2>2, EpochBounds
  <2>4. Epoch(slot) <= Epoch(slot')
    <3>1. CASE slot' = slot
      BY <2>3, <3>1
    <3>2. CASE slot' = slot + 1
      BY <2>2, <3>2, EpochAdvances
    <3>3. QED
      BY <2>1, <3>1, <3>2
  <2>5. Epoch(FirstSlot) \in Nat
    <3>1. FirstSlot \in FirstSlot .. MaxSlot
      BY ClusterFeedsAssumption
    <3>2. QED
      BY <3>1, EpochBounds
  <2>6. QED
    BY <2>3, <2>4, <2>5 DEF EpochsBegun
<1>3. CASE UNCHANGED <<schedule, seen, last_leaders>>
  BY <1>2, <1>3 DEF AnnouncedInv, Upcoming
<1>4. CASE RefreshSchedule
  <2>1. Epoch(slot) \in EpochsBegun
    <3>1. slot \in FirstSlot .. MaxSlot
      BY <1>1 DEF ClusterTypes
    <3>2. QED
      BY <3>1, EpochBounds DEF EpochsBegun
  <2>2. schedule' = Schedules[Epoch(slot)] /\ UNCHANGED <<seen, last_leaders>>
    BY <1>4 DEF RefreshSchedule
  <2>3. QED
    BY <1>2, <2>1, <2>2 DEF AnnouncedInv, Upcoming
<1>5. CASE SlotNotification
  <2>1. /\ last_leaders' = current_leaders(seen') /\ seen' \in FirstSlot .. MaxSlot
        /\ UNCHANGED schedule
    <3>1. last_leaders' = current_leaders(seen') /\ UNCHANGED schedule
      BY <1>5 DEF SlotNotification, Announce
    <3>2. seen' \in seen + 1 .. slot
      BY <1>5 DEF SlotNotification, Notifiable
    <3>3. QED
      BY <1>1, <3>1, <3>2, ClusterFeedsAssumption DEF ClusterTypes
  <2>2. PICK e0 \in EpochsBegun : last_leaders \subseteq Upcoming(e0, seen)
    BY DEF AnnouncedInv
  <2>3. CASE schedule = <<>>
    <3>1. last_leaders' = {}
      BY <2>1, <2>3 DEF current_leaders
    <3>2. QED
      BY <1>2, <2>1, <2>2, <2>3, <3>1 DEF AnnouncedInv
  <2>4. ASSUME NEW e \in EpochsBegun, schedule = Schedules[e] PROVE AnnouncedInv'
    <3>1. current_leaders(seen') \subseteq Upcoming(e, seen')
      BY <1>2, <2>1, <2>4, WindowUpcoming
    <3>2. e \in EpochsBegun'
      BY <1>2
    <3>3. Upcoming(e, seen') = Upcoming(e, seen)'
      BY Zenon DEF Upcoming
    <3>4. QED
      BY <2>1, <2>4, <3>1, <3>2, <3>3 DEF AnnouncedInv
  <2>5. QED
    BY <2>3, <2>4 DEF AnnouncedInv
<1>6. QED
  BY <1>3, <1>4, <1>5
  DEF Next, NextSlot, Unsubscribed, LeadersStream, RefreshFails, RefreshPanics,
      BalancerUpdater, FetchNodes, NodesFetched, NodesFailed, TakeLeaders, set_leaders,
      StakeLoop, AskEpoch, FetchStakes, StakesFailed, WriteStakes, vars, stream

\* When all announcements have been dealt with, the balancer's leaders are up in the
\* window of the last slot notified, by the schedule of an epoch that has begun.
THEOREM LeadersAreUpcoming == Spec => []LeadersUpcoming
<1>1. IInv /\ AnnouncedInv => LeadersUpcoming
  BY DEF IInv, AnnouncedInv, NoChangeLost, LeadersAreTaken, LeadersUpcoming, EpochsBegun
<1>2. Spec => []AnnouncedInv
  BY InitAnnounced, StepAnnounced, Invariant, PTL DEF Spec
<1>3. QED
  BY <1>1, <1>2, Invariant, PTL

\* The stake loop takes no epoch for done whose stakes it does not have, although
\* the epoch may turn between its two calls and either may fail.
THEOREM StakesKeepUp == Spec => []StakesNotOlder
<1>1. IInv => StakesNotOlder
  BY DEF IInv
<1>2. QED
  BY <1>1, Invariant, PTL

\* With the schedule of the epoch at hand, leaders_stream announces the leader of a
\* slot together with the slot, also when its look-ahead runs over the epoch's end.
THEOREM ProducerIsAnnounced == Spec => ProducerAnnounced
<1> DEFINE A == seen' # seen /\ schedule = Schedules[Epoch(seen')] =>
                  Schedules[Epoch(seen')][seen' % SLOTS_PER_EPOCH] \in last_leaders'
<1>1. IInv /\ [Next]_vars => [A]_vars
  <2> SUFFICES ASSUME IInv, Next, seen' # seen, schedule = Schedules[Epoch(seen')]
               PROVE  Schedules[Epoch(seen')][seen' % SLOTS_PER_EPOCH] \in last_leaders'
    OBVIOUS
  <2>1. SlotNotification
    BY DEF Next, NextSlot, Unsubscribed, LeadersStream, RefreshSchedule, RefreshFails,
           RefreshPanics, BalancerUpdater, FetchNodes, NodesFetched, NodesFailed,
           TakeLeaders, set_leaders, StakeLoop, AskEpoch, FetchStakes, StakesFailed,
           WriteStakes, stream
  <2>2. last_leaders' = current_leaders(seen') /\ seen' \in seen + 1 .. slot
    BY <2>1 DEF SlotNotification, Announce, Notifiable
  <2>3. seen' \in FirstSlot .. MaxSlot
    BY <2>2, ClusterFeedsAssumption, InvParts DEF ClusterTypes
  <2>4. schedule \in [0 .. SLOTS_PER_EPOCH - 1 -> Identity]
    BY <2>3, EpochBounds, ClusterFeedsAssumption
  <2>5. seen' % SLOTS_PER_EPOCH \in 0 .. SLOTS_PER_EPOCH - 1
    <3>1. seen' \in Nat /\ SLOTS_PER_EPOCH \in Nat \ {0}
      BY <2>3, ClusterFeedsAssumption
    <3>2. QED
      BY <3>1, ModRange
  <2>6. /\ 0 \in 0 .. N_LEADERS - 1
        /\ 0 * SlotsPerLeader + (seen' % SLOTS_PER_EPOCH) = seen' % SLOTS_PER_EPOCH
    BY <2>5, ClusterFeedsAssumption
  <2>7. QED
    BY <2>2, <2>4, <2>5, <2>6 DEF current_leaders
<1>2. Spec => [][A]_vars
  BY <1>1, Invariant, PTL DEF Spec
<1>3. QED
  BY <1>2 DEF ProducerAnnounced
==============================================================================
