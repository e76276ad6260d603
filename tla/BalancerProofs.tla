---------------------------- MODULE BalancerProofs ---------------------------
(***************************************************************************)
(* Theorems about module Balancer, for every set of sessions, identities   *)
(* and requests, every capacity, and whatever the stakes and the leaders.  *)
(***************************************************************************)
EXTENDS Balancer, PickingProofs

(***************************************************************************)
(* The inductive invariant.                                                *)
(***************************************************************************)

\* A session past the certificate check has an identity.
HasIdentity ==
  \A s \in Session : pc[s] \notin {"start", "rejected"} => IdentityOf[s] \in Identity

\* The consumer of an identity belongs to a session of that identity which
\* has not cleaned up yet.
OwnToken ==
  \A i \in Identity : tx_consumers[i].token # NoSession =>
    /\ IdentityOf[tx_consumers[i].token] = i
    /\ pc[tx_consumers[i].token] \in {"select", "rtt", "ping", "cleanup"}

\* No session is told that it has left while it is in the map.
InMapNotTold == \A i \in Identity : tx_consumers[i].token \notin unsubscribed

\* Only sessions that did subscribe are told that they have left.
ToldHadJoined ==
  \A s \in unsubscribed :
    pc[s] \in {"select", "rtt", "ping", "cleanup", "reset", "done"}

\* A session that is about to take its consumer out has lost its client.
LeavingIsGone ==
  \A i \in Identity :
    /\ tx_consumers[i].token # NoSession
    /\ pc[tx_consumers[i].token] = "cleanup"
    => tx_consumers[i].token \in rx_dropped \cup input_ended

\* A request that is sending has somebody left to send to.
SendingHasTodo == \A r \in Request : rpc[r] = "sending" => todo[r] # <<>>

IInv == /\ TypeOK /\ HasIdentity /\ OwnToken /\ InMapNotTold /\ ToldHadJoined
        /\ LeavingIsGone /\ SendingHasTodo /\ StreamingOrTold /\ FlaggedAreClosed
        /\ PicksStayRegistered /\ ResetSeriesOwned

\* The initial state satisfies the invariant: nobody is connected.
LEMMA InitIInv == Init => IInv
<1> SUFFICES ASSUME Init PROVE IInv
  OBVIOUS
<1>1. TypeOK
  <2>1. BalancerTypes
    <3>1. 0 \in 0 .. U64 - 1
      BY BalancerAssumption
    <3>2. QED
      BY <3>1 DEF Init, BalancerTypes, Consumer, NoConsumer
  <2>2. SessionTypes
    BY BalancerAssumption DEF Init, SessionTypes
  <2>3. RequestTypes /\ GaugeTypes
    BY DEF Init, RequestTypes, GaugeTypes, NoLabel
  <2>4. FlagTypes
    BY DEF Init, FlagTypes
  <2>5. queue \in Seq(Task)
    BY DEF Init
  <2>6. QED
    BY <2>1, <2>2, <2>3, <2>4, <2>5 DEF TypeOK
<1>2. HasIdentity /\ OwnToken /\ InMapNotTold /\ ToldHadJoined /\ LeavingIsGone
  BY BalancerAssumption
  DEF Init, HasIdentity, OwnToken, InMapNotTold, ToldHadJoined, LeavingIsGone,
      NoConsumer
<1>3. StreamingOrTold /\ FlaggedAreClosed /\ PicksStayRegistered /\ SendingHasTodo
  BY BalancerAssumption
  DEF Init, StreamingOrTold, FlaggedAreClosed, PicksStayRegistered,
      SendingHasTodo, NoConsumer
<1>4. ResetSeriesOwned
  BY DEF Init, ResetSeriesOwned
<1>5. QED
  BY <1>1, <1>2, <1>3, <1>4 DEF IInv

(***************************************************************************)
(* Types.  The two Boolean flags are kept apart from the rest.             *)
(***************************************************************************)

DataTypes == /\ BalancerTypes /\ SessionTypes /\ RequestTypes /\ GaugeTypes
             /\ queue \in Seq(Task)

\* A task that is at the head of the queue is waiting; the tail is a queue.
LEMMA QueueType ==
  ASSUME queue \in Seq(Task), NEW t \in Task
  PROVE  /\ Append(queue, t) \in Seq(Task)
         /\ Granted(t) => Tail(queue) \in Seq(Task)
BY DEF Granted

\* What is left of the queue when a task leaves it is a queue.
LEMMA LeaveQueueType ==
  ASSUME queue \in Seq(Task), NEW t, LeaveQueue(t)
  PROVE  queue' \in Seq(Task)
<1>1. PICK k \in 1 .. Len(queue) : queue' = RemoveAt(queue, k)
  BY DEF LeaveQueue
<1>2. /\ SubSeq(queue, 1, k - 1) \in Seq(Task)
      /\ SubSeq(queue, k + 1, Len(queue)) \in Seq(Task)
  BY <1>1
<1>3. QED
  BY <1>1, <1>2 DEF RemoveAt

\* A running average, whether or not its computation wraps, is a u64.
LEMMA RttSlotType ==
  ASSUME NEW slot \in [rtt : 0 .. U64 - 1, n : Nat], NEW value \in 0 .. U64 - 1
  PROVE  new_rtt_slot(slot, value) \in [rtt : 0 .. U64 - 1, n : Nat]
<1> DEFINE sum  == slot.n * slot.rtt + value
           kept == sum % U64
           m    == slot.n + 1
           a    == kept \div m
<1>1. slot.n \in Nat /\ slot.rtt \in Nat /\ value \in Nat /\ m \in Nat \ {0}
  OBVIOUS
<1>2. sum \in Nat
  <2>1. \A x, y \in Nat : x * y \in Nat
    OBVIOUS
  <2>2. QED
    BY <1>1, <2>1
<1> HIDE DEF sum, m
<1>3. kept \in Nat /\ kept < U64
  BY <1>2, BalancerAssumption
<1> HIDE DEF kept
<1>4. a \in Nat /\ a <= kept
  <2>1. a \in Nat /\ m * a <= kept
    BY <1>1, <1>3
  <2> HIDE DEF a
  <2>2. a <= m * a
    BY <1>1, <2>1
  <2>3. m * a \in Nat
    BY <1>1, <2>1
  <2>4. QED
    BY <1>3, <2>1, <2>2, <2>3
<1>5. a \in 0 .. U64 - 1
  BY <1>3, <1>4, BalancerAssumption
<1>6. QED
  BY <1>1, <1>5 DEF new_rtt_slot, a, kept, sum, m

\* The steps of a session and its client that leave the map of consumers alone
\* keep the types.
LEMMA QuietSessionTypes ==
  ASSUME IInv, NEW s \in Session
  PROVE  /\ Reject(s) => DataTypes'
         /\ Connect(s) => DataTypes'
         /\ ReceiveMetrics(s) => DataTypes'
         /\ ReceivePong(s) => DataTypes'
         /\ ReceiveRtt(s) => DataTypes'
         /\ UpdateRtt(s) => DataTypes'
         /\ StartPing(s) => DataTypes'
         /\ PingSent(s) => DataTypes'
         /\ Break(s) => DataTypes'
         /\ ResetMetrics(s) => DataTypes'
         /\ Deliver(s) => DataTypes'
         /\ DropReceiver(s) => DataTypes'
         /\ EndInput(s) => DataTypes'
         /\ GiveUp(s) => DataTypes'
<1>t. DataTypes
  BY DEF IInv, TypeOK, DataTypes
<1> USE <1>t DEF DataTypes, BalancerTypes, SessionTypes,
            RequestTypes, GaugeTypes, balancer, session, request, gauges, At,
            Enqueue
<1>0. s \in Task
  BY DEF Task
<1>1. ASSUME Reject(s) PROVE DataTypes'
  BY <1>0, <1>1, BalancerAssumption DEF Reject
<1>2. ASSUME Connect(s) PROVE DataTypes'
  BY <1>0, <1>2, BalancerAssumption, QueueType DEF Connect
<1>3. ASSUME ReceiveMetrics(s) PROVE DataTypes'
  <2>1. IdentityOf[s] \in Identity
    BY <1>3 DEF IInv, HasIdentity, ReceiveMetrics
  <2>2. GaugeTypes'
    BY <1>3, <2>1 DEF ReceiveMetrics
  <2>3. (BalancerTypes /\ SessionTypes /\ RequestTypes /\ queue \in Seq(Task))'
    BY <1>3 DEF ReceiveMetrics
  <2>4. QED
    BY <2>2, <2>3
<1>4. ASSUME ReceivePong(s) PROVE DataTypes'
  <2>1. IdentityOf[s] \in Identity
    BY <1>4 DEF IInv, HasIdentity, ReceivePong
  <2>2. GaugeTypes'
    BY <1>4, <2>1 DEF ReceivePong
  <2>3. (BalancerTypes /\ SessionTypes /\ RequestTypes /\ queue \in Seq(Task))'
    BY <1>4 DEF ReceivePong
  <2>4. QED
    BY <2>2, <2>3
<1>5. ASSUME ReceiveRtt(s) PROVE DataTypes'
  BY <1>0, <1>5, BalancerAssumption, QueueType DEF ReceiveRtt
<1>6. ASSUME UpdateRtt(s) PROVE DataTypes'
  <2>1. PICK value \in RttSamples :
          rtt_values' = [rtt_values EXCEPT ![IdentityOf[s]] =
                           new_rtt_slot(rtt_values[IdentityOf[s]], value)]
    BY <1>6 DEF UpdateRtt
  <2>2. ASSUME NEW slot \in [rtt : 0 .. U64 - 1, n : Nat]
        PROVE  new_rtt_slot(slot, value) \in [rtt : 0 .. U64 - 1, n : Nat]
    BY BalancerAssumption, RttSlotType
  <2>3. rtt_values' \in [Identity -> [rtt : 0 .. U64 - 1, n : Nat]]
    BY <2>1, <2>2
  <2>4. QED
    BY <1>0, <1>6, <2>3, QueueType DEF UpdateRtt
<1>7. ASSUME StartPing(s) PROVE DataTypes'
  <2>1. last_ping' \in [Session -> 0 .. MaxPings]
    BY <1>7, BalancerAssumption DEF StartPing
  <2>2. (BalancerTypes /\ RequestTypes /\ GaugeTypes /\ queue \in Seq(Task))'
    BY <1>7 DEF StartPing
  <2>3. QED
    BY <1>7, <2>1, <2>2 DEF StartPing
<1>8. ASSUME PingSent(s) PROVE DataTypes'
  BY <1>0, <1>8, BalancerAssumption DEF PingSent
<1>9. ASSUME Break(s) PROVE DataTypes'
  BY <1>0, <1>9, BalancerAssumption, QueueType DEF Break, MustBreak
<1>10. ASSUME ResetMetrics(s) PROVE DataTypes'
  BY <1>0, <1>10, BalancerAssumption DEF IInv, HasIdentity, ResetMetrics, NoLabel
<1>11. ASSUME Deliver(s) PROVE DataTypes'
  BY <1>0, <1>11, BalancerAssumption DEF Deliver
<1>12. ASSUME DropReceiver(s) PROVE DataTypes'
  BY <1>0, <1>12, BalancerAssumption DEF DropReceiver, Streaming
<1>13. ASSUME EndInput(s) PROVE DataTypes'
  BY <1>0, <1>13, BalancerAssumption DEF EndInput, Streaming
<1>14. ASSUME GiveUp(s) PROVE DataTypes'
  BY <1>0, <1>14, LeaveQueueType DEF GiveUp
<1>15. QED
  BY <1>1, <1>2, <1>3, <1>4, <1>5, <1>6, <1>7, <1>8, <1>9, <1>10, <1>11, <1>12, <1>13,
     <1>14

\* The number of connected consumers is a number: identities are finite.
LEMMA ConnectedCount == ASSUME NEW tc PROVE Cardinality(ConnectedIn(tc)) \in Nat
<1>1. ConnectedIn(tc) \in SUBSET Identity
  BY DEF ConnectedIn
<1>2. QED
  BY <1>1, FS_Subset, FS_CardinalityType, BalancerAssumption

\* What taking consumers out of the map does, whichever goes first: the series
\* of a gauge it creates are those of identities that were connected.
LEMMA RemoveEffect ==
  ASSUME IInv, NEW R \in SUBSET Connected, RemoveConsumers(R)
  PROVE  /\ tx_consumers' \in [Identity -> Consumer]
         /\ \A i \in Identity :
              tx_consumers'[i] = IF i \in R THEN NoConsumer ELSE tx_consumers[i]
         /\ unsubscribed' = unsubscribed \cup {tx_consumers[i].token : i \in R}
         /\ unsubscribed' \in SUBSET Session
         /\ consumers_gauge' \in Nat
         /\ stake_gauge' \in [Identity -> Nat \cup {NoLabel}]
         /\ \A i \in Identity : stake_gauge'[i] # NoLabel =>
              stake_gauge[i] # NoLabel \/ i \in Connected
<1> DEFINE left == [i \in Identity |-> IF i \in R THEN NoConsumer
                                       ELSE tx_consumers[i]]
<1>1. /\ tx_consumers \in [Identity -> Consumer]
      /\ unsubscribed \in SUBSET Session
      /\ consumers_gauge \in Nat
      /\ stake_gauge \in [Identity -> Nat \cup {NoLabel}]
  BY DEF IInv, TypeOK, BalancerTypes, SessionTypes, GaugeTypes
<1>2. R \subseteq Identity
  BY DEF Connected, ConnectedIn
<1>3. tx_consumers' = left /\ left \in [Identity -> Consumer]
  BY <1>1 DEF RemoveConsumers, Consumer, NoConsumer
<1>4. /\ unsubscribed' = unsubscribed \cup {tx_consumers[i].token : i \in R}
      /\ unsubscribed' \in SUBSET Session
  BY <1>1, <1>2 DEF RemoveConsumers, Dropped, Connected, ConnectedIn, Consumer
<1>5. CASE R = {}
  BY <1>1, <1>3, <1>4, <1>5 DEF RemoveConsumers
<1>6. CASE R # {}
  <2>1. PICK x \in R : recalc_total_connected_stake(
                          [tx_consumers EXCEPT ![x] = NoConsumer], left)
    BY <1>6 DEF RemoveConsumers
  <2> DEFINE shown == [tx_consumers EXCEPT ![x] = NoConsumer]
  <2>2. shown \in [Identity -> Consumer]
    BY <1>1, <1>2 DEF Consumer, NoConsumer
  <2>3. ConnectedIn(shown) \subseteq Connected
    BY <1>1, <1>2 DEF Connected, ConnectedIn, NoConsumer
  <2>4. /\ consumers_gauge' = Cardinality(ConnectedIn(left))
        /\ stake_gauge' = [i \in Identity |-> IF i \in ConnectedIn(shown)
                                             THEN shown[i].stake
                                             ELSE stake_gauge[i]]
    BY <2>1 DEF recalc_total_connected_stake
  <2>5. consumers_gauge' \in Nat
    BY <2>4, ConnectedCount
  <2>6. \A i \in Identity : shown[i].stake \in Nat
    BY <2>2 DEF Consumer
  <2> HIDE DEF shown
  <2>7. stake_gauge' \in [Identity -> Nat \cup {NoLabel}]
    BY <1>1, <2>4, <2>6
  <2>8. \A i \in Identity : stake_gauge'[i] # NoLabel =>
          stake_gauge[i] # NoLabel \/ i \in Connected
    BY <2>3, <2>4
  <2>9. QED
    BY <1>3, <1>4, <2>5, <2>7, <2>8
<1>7. QED
  BY <1>5, <1>6

\* A stake looked up in the weights, known or not, is a number.
LEMMA StakeType ==
  ASSUME NEW weights \in StakeMaps \cup {<<>>}, NEW i
  PROVE  stake_of(weights, i) \in Nat
BY BalancerAssumption DEF stake_of

\* What subscribing does: the session's consumer replaces that of its identity,
\* whose session is told, and every series set belongs to a connected client.
LEMMA SubscribeEffect ==
  ASSUME IInv, NEW s \in Session, Subscribe(s)
  PROVE  /\ IdentityOf[s] \in Identity
         /\ tx_consumers' \in [Identity -> Consumer]
         /\ \A i \in Identity : i # IdentityOf[s] => tx_consumers'[i] = tx_consumers[i]
         /\ tx_consumers'[IdentityOf[s]].token = s
         /\ ~ tx_consumers'[IdentityOf[s]].do_unsubscribe
         /\ unsubscribed' = unsubscribed \cup
                              ({tx_consumers[IdentityOf[s]].token} \ {NoSession})
         /\ unsubscribed' \in SUBSET Session
         /\ consumers_gauge' \in Nat
         /\ stake_gauge' \in [Identity -> Nat \cup {NoLabel}]
         /\ \A i \in Identity : stake_gauge'[i] # NoLabel =>
              stake_gauge[i] # NoLabel \/ i \in ConnectedIn(tx_consumers')
<1> DEFINE id == IdentityOf[s]
           consumer == [token |-> s, stake |-> stake_of(stake_weights, id),
                        do_unsubscribe |-> FALSE]
<1>1. /\ tx_consumers \in [Identity -> Consumer]
      /\ stake_weights \in StakeMaps \cup {<<>>}
      /\ unsubscribed \in SUBSET Session
      /\ stake_gauge \in [Identity -> Nat \cup {NoLabel}]
  BY DEF IInv, TypeOK, BalancerTypes, SessionTypes, GaugeTypes
<1>2. id \in Identity
  BY DEF IInv, HasIdentity, Subscribe, At
<1>3. consumer \in Consumer
  BY <1>1, StakeType DEF Consumer
<1>4. tx_consumers' = [tx_consumers EXCEPT ![id] = consumer]
  BY DEF Subscribe
<1>5. tx_consumers' \in [Identity -> Consumer]
  BY <1>1, <1>2, <1>3, <1>4
<1>6. /\ tx_consumers'[id].token = s /\ ~ tx_consumers'[id].do_unsubscribe
      /\ \A i \in Identity : i # id => tx_consumers'[i] = tx_consumers[i]
  BY <1>1, <1>2, <1>4
<1>7. unsubscribed' = unsubscribed \cup ({tx_consumers[id].token} \ {NoSession})
  BY DEF Subscribe, Dropped
<1>8. unsubscribed' \in SUBSET Session
  BY <1>1, <1>2, <1>7 DEF Consumer
<1>9. /\ consumers_gauge' = Cardinality(ConnectedIn(tx_consumers'))
      /\ stake_gauge' = [i \in Identity |-> IF i \in ConnectedIn(tx_consumers')
                                           THEN tx_consumers'[i].stake
                                           ELSE stake_gauge[i]]
  BY DEF Subscribe, recalc_total_connected_stake
<1>10. consumers_gauge' \in Nat
  BY <1>9, ConnectedCount
<1>11. \A i \in Identity : tx_consumers'[i].stake \in Nat
  BY <1>5 DEF Consumer
<1>12. stake_gauge' \in [Identity -> Nat \cup {NoLabel}]
  BY <1>1, <1>9, <1>11
<1>13. QED
  BY <1>2, <1>5, <1>6, <1>7, <1>8, <1>9, <1>10, <1>12

\* The steps that change the map of consumers keep the types.
LEMMA MapTypes ==
  ASSUME IInv
  PROVE  /\ \A s \in Session : Subscribe(s) \/ Cleanup(s) => DataTypes'
         /\ SetLeaders \/ UpdateStakeWeights => DataTypes'
<1>t. DataTypes
  BY DEF IInv, TypeOK, DataTypes
<1> USE <1>t DEF DataTypes, BalancerTypes, SessionTypes,
            RequestTypes, GaugeTypes, session, request, gauges
<1>1. ASSUME NEW s \in Session, Subscribe(s) PROVE DataTypes'
  <2>1. s \in Task
    BY DEF Task
  <2>2. (queue \in Seq(Task))'
    BY <1>1, <2>1, QueueType DEF Subscribe
  <2>3. QED
    BY <1>1, <2>2, SubscribeEffect DEF Subscribe
<1>2. ASSUME NEW s \in Session, Cleanup(s) PROVE DataTypes'
  <2> DEFINE R == {i \in {IdentityOf[s]} : tx_consumers[i].token = s}
  <2>1. s \in Task
    BY DEF Task
  <2>2. IdentityOf[s] \in Identity
    BY <1>2 DEF IInv, HasIdentity, Cleanup, At
  <2>3. R \in SUBSET Connected /\ RemoveConsumers(R)
    BY <1>2, <2>2, BalancerAssumption DEF Cleanup, unsubscribe, Connected, ConnectedIn
  <2>4. (queue \in Seq(Task))'
    BY <1>2, <2>1, QueueType DEF Cleanup
  <2> HIDE DEF R
  <2>5. QED
    BY <1>2, <2>3, <2>4, RemoveEffect DEF Cleanup
<1>3. ASSUME SetLeaders PROVE DataTypes'
  <2> DEFINE R == {i \in Connected : tx_consumers[i].do_unsubscribe}
  <2>1. Updater \in Task
    BY DEF Task
  <2>2. R \in SUBSET Connected /\ RemoveConsumers(R)
    BY <1>3 DEF SetLeaders, flush_unsubscribes
  <2>3. (queue \in Seq(Task))' /\ leaders' \in SUBSET Identity
    BY <1>3, <2>1, QueueType, BalancerAssumption DEF SetLeaders
  <2> HIDE DEF R
  <2>4. QED
    BY <1>3, <2>2, <2>3, RemoveEffect DEF SetLeaders
<1>4. ASSUME UpdateStakeWeights PROVE DataTypes'
  <2>1. StakeTask \in Task
    BY DEF Task
  <2>2. (queue \in Seq(Task))'
    BY <1>4, <2>1, QueueType DEF UpdateStakeWeights
  <2>3. \A i : stake_of(stake_weights', i) \in Nat
    BY <1>4, StakeType DEF UpdateStakeWeights
  <2>4. tx_consumers' \in [Identity -> Consumer]
    BY <1>4, <2>3 DEF UpdateStakeWeights, Consumer
  <2>5. QED
    BY <1>4, <2>2, <2>4 DEF UpdateStakeWeights
<1>5. QED
  BY <1>1, <1>2, <1>3, <1>4

\* A pick names connected consumers, so its tokens are registered sessions.
LEMMA PickedTokens ==
  ASSUME IInv, NEW pick \in CurrentPicks
  PROVE  /\ pick.list \in Seq(Connected)
         /\ \A k \in 1 .. Len(pick.list) :
              /\ tx_consumers[pick.list[k]].token \in Session
              /\ Registered(tx_consumers[pick.list[k]].token)
<1>1. PICK order \in SetToSeqs(Connected) :
        pick \in Picks(order, [i \in Connected |-> tx_consumers[i].stake],
                      total_connected_stake, leaders)
  BY DEF CurrentPicks
<1>2. IsFiniteSet(Connected)
  BY FS_Subset, BalancerAssumption DEF Connected, ConnectedIn
<1>3. pick.list \in Seq(Connected)
  BY <1>1, <1>2, PicksComeFromOrder
<1>4. \A i \in Connected : /\ tx_consumers[i].token \in Session
                           /\ Registered(tx_consumers[i].token)
  BY DEF Connected, ConnectedIn, Registered, IInv, TypeOK, BalancerTypes, Consumer
<1>5. \A k \in 1 .. Len(pick.list) : pick.list[k] \in Connected
  BY <1>3
<1>6. QED
  BY <1>3, <1>4, <1>5

\* What is left of a list after its first element.
LEMMA TailFacts ==
  ASSUME NEW S, NEW q \in Seq(S), q # <<>>
  PROVE  /\ Head(q) \in S /\ Head(q) = q[1] /\ 1 \in 1 .. Len(q)
         /\ Tail(q) \in Seq(S)
         /\ Len(Tail(q)) = Len(q) - 1
         /\ \A k \in 1 .. Len(Tail(q)) : k + 1 \in 1 .. Len(q) /\ Tail(q)[k] = q[k + 1]
         /\ Len(q) # 1 => Tail(q) # <<>>
<1>1. Len(q) \in Nat /\ Len(q) > 0
  OBVIOUS
<1>2. Tail(q) \in Seq(S) /\ Len(Tail(q)) = Len(q) - 1
  BY <1>1
<1>3. \A k \in 1 .. Len(Tail(q)) : k + 1 \in 1 .. Len(q) /\ Tail(q)[k] = q[k + 1]
  BY <1>1, <1>2
<1>4. Len(q) # 1 => Tail(q) # <<>>
  <2>1. Len(q) # 1 => Len(Tail(q)) # 0
    BY <1>1, <1>2
  <2>2. QED
    BY <2>1
<1>5. Head(q) \in S /\ Head(q) = q[1] /\ 1 \in 1 .. Len(q)
  BY <1>1
<1>6. QED
  BY <1>2, <1>3, <1>4, <1>5

\* The consumer a request sends to next is a session of some identity.
LEMMA NextToSend ==
  ASSUME IInv, NEW r \in Request, rpc[r] = "sending"
  PROVE  /\ todo[r] \in Seq(Session) /\ todo[r] # <<>>
         /\ Head(todo[r]) \in Session /\ IdentityOf[Head(todo[r])] \in Identity
<1>1. todo[r] \in Seq(Session) /\ todo[r] # <<>>
  BY DEF IInv, TypeOK, RequestTypes, SendingHasTodo
<1>2. Head(todo[r]) \in Session /\ 1 \in 1 .. Len(todo[r]) /\ Head(todo[r]) = todo[r][1]
  BY <1>1
<1>3. Registered(Head(todo[r]))
  BY <1>2 DEF IInv, PicksStayRegistered
<1>4. IdentityOf[Head(todo[r])] \in Identity
  BY <1>2, <1>3, BalancerAssumption DEF IInv, OwnToken, Registered
<1>5. QED
  BY <1>1, <1>2, <1>4

\* Going on to the next pick keeps the types of the request and the inbox.
LEMMA AdvanceTypes ==
  ASSUME IInv, NEW r \in Request, rpc[r] = "sending", Advance(r)
  PROVE  /\ rpc' \in [Request -> {"start", "waiting", "sending", "ok", "error",
                           "cancelled"}]
         /\ todo' \in [Request -> Seq(Session)]
         /\ watcher_inbox' \in Seq(Request)
<1>1. /\ rpc \in [Request -> {"start", "waiting", "sending", "ok", "error",
                           "cancelled"}]
      /\ todo \in [Request -> Seq(Session)]
      /\ watcher_inbox \in Seq(Request)
  BY DEF IInv, TypeOK, RequestTypes, BalancerTypes
<1>2. Tail(todo[r]) \in Seq(Session)
  BY NextToSend, TailFacts
<1>3. todo' \in [Request -> Seq(Session)]
  BY <1>1, <1>2 DEF Advance
<1>4. CASE Len(todo[r]) = 1
  <2>1. /\ rpc' = [rpc EXCEPT ![r] = "ok"]
        /\ watcher_inbox' = Append(watcher_inbox, r)
    BY <1>4 DEF Advance
  <2>2. watcher_inbox' \in Seq(Request)
    BY <1>1, <2>1
  <2>3. rpc' \in [Request -> {"start", "waiting", "sending", "ok", "error",
                           "cancelled"}]
    BY <1>1, <2>1
  <2>4. QED
    BY <1>3, <2>2, <2>3
<1>5. CASE Len(todo[r]) # 1
  BY <1>1, <1>3, <1>5 DEF Advance
<1>6. QED
  BY <1>4, <1>5

\* The steps of a request keep the types.
LEMMA RequestTypesNext ==
  ASSUME IInv, NEW r \in Request
  PROVE  /\ Call(r) => DataTypes'
         /\ Publish(r) => DataTypes'
         /\ SendOk(r) => DataTypes'
         /\ SendErr(r) => DataTypes'
         /\ HangUp(r) => DataTypes'
<1>t. DataTypes
  BY DEF IInv, TypeOK, DataTypes
<1> USE <1>t DEF DataTypes, BalancerTypes, SessionTypes,
            RequestTypes, GaugeTypes, balancer, session, gauges, Rpc
<1>0. r \in Task
  BY DEF Task
<1>1. ASSUME Call(r) PROVE DataTypes'
  BY <1>0, <1>1, QueueType DEF Call, Enqueue
<1>2. ASSUME Publish(r) PROVE DataTypes'
  <2>1. (queue \in Seq(Task))'
    BY <1>0, <1>2, QueueType DEF Publish
  <2>2. PICK pick \in CurrentPicks :
          \/ UNCHANGED <<rpc, todo>>
          \/ rpc' = [rpc EXCEPT ![r] = "error"] /\ UNCHANGED todo
          \/ /\ rpc' = [rpc EXCEPT ![r] = "sending"]
             /\ todo' = [todo EXCEPT ![r] = [k \in 1 .. Len(pick.list) |->
                                             tx_consumers[pick.list[k]].token]]
    BY <1>2 DEF Publish
  <2>3. [k \in 1 .. Len(pick.list) |-> tx_consumers[pick.list[k]].token] \in Seq(Session)
    <3>1. Len(pick.list) \in Nat
      BY PickedTokens
    <3>2. [k \in 1 .. Len(pick.list) |-> tx_consumers[pick.list[k]].token]
            \in [1 .. Len(pick.list) -> Session]
      BY PickedTokens
    <3>3. QED
      BY <3>1, <3>2, FunctionIsSeq
  <2>4. RequestTypes'
    BY <1>2, <2>2, <2>3 DEF Publish
  <2>5. QED
    BY <1>2, <2>1, <2>4 DEF Publish
<1>3. ASSUME SendOk(r) PROVE DataTypes'
  <2> DEFINE s == Head(todo[r])
  <2>1. s \in Session /\ IdentityOf[s] \in Identity
    BY <1>3, NextToSend DEF SendOk
  <2>2. /\ chan' = [chan EXCEPT ![s] = Append(@, r)] /\ Len(chan[s]) < Capacity
        /\ sent' = [sent EXCEPT ![r] = Append(@, IdentityOf[s])]
    BY <1>3 DEF SendOk
  <2>3. /\ rpc' \in [Request -> {"start", "waiting", "sending", "ok", "error",
                           "cancelled"}]
        /\ todo' \in [Request -> Seq(Session)]
        /\ watcher_inbox' \in Seq(Request)
    BY <1>3, AdvanceTypes DEF SendOk
  <2> HIDE DEF s
  <2>4. chan' \in [Session -> Seq(Request \cup {PING})]
    BY <2>1, <2>2
  <2>5. \A t \in Session : Len(chan'[t]) <= Capacity
    BY <2>1, <2>2, BalancerAssumption
  <2>6. sent' \in [Request -> Seq(Identity)]
    BY <2>1, <2>2
  <2>7. QED
    BY <1>3, <2>3, <2>4, <2>5, <2>6 DEF SendOk
<1>4. ASSUME SendErr(r) PROVE DataTypes'
  <2>1. /\ rpc' \in [Request -> {"start", "waiting", "sending", "ok", "error",
                           "cancelled"}]
        /\ todo' \in [Request -> Seq(Session)]
        /\ watcher_inbox' \in Seq(Request)
    BY <1>4, AdvanceTypes DEF SendErr
  <2>2. tx_consumers' \in [Identity -> Consumer]
    BY <1>4 DEF SendErr, Consumer
  <2>3. (SessionTypes /\ GaugeTypes)'
    BY <1>4 DEF SendErr
  <2>4. RequestTypes'
    BY <1>4, <2>1 DEF SendErr
  <2>5. (BalancerTypes /\ queue \in Seq(Task))'
    BY <1>4, <2>1, <2>2 DEF SendErr
  <2>6. QED
    BY <2>3, <2>4, <2>5
<1>5. ASSUME HangUp(r) PROVE DataTypes'
  <2>1. (queue \in Seq(Task))'
    BY <1>5, LeaveQueueType DEF HangUp
  <2>2. RequestTypes'
    <3>1. <<>> \in Seq(Session)
      OBVIOUS
    <3>2. todo' \in [Request -> Seq(Session)]
      BY <1>5, <3>1 DEF HangUp
    <3>3. rpc' \in [Request -> {"start", "waiting", "sending", "ok", "error",
                               "cancelled"}]
      BY <1>5 DEF HangUp
    <3>4. QED
      BY <1>5, <3>2, <3>3 DEF HangUp
  <2>3. (BalancerTypes /\ SessionTypes /\ GaugeTypes)'
    BY <1>5 DEF HangUp
  <2>4. QED
    BY <2>1, <2>2, <2>3
<1>6. QED
  BY <1>1, <1>2, <1>3, <1>4, <1>5

\* The flags stay Boolean: publish may set one, init_metrics the other.
LEMMA FlagTypesNext == FlagTypes /\ Next => FlagTypes'
<1> SUFFICES ASSUME FlagTypes, Next PROVE FlagTypes'
  OBVIOUS
<1> USE DEF FlagTypes, gauges
<1>1. ASSUME NEW s \in Session, SessionStep(s) \/ ClientStep(s) PROVE FlagTypes'
  BY <1>1, Zenon DEF SessionStep, ClientStep, Reject, Connect, Subscribe,
     ReceiveMetrics, ReceivePong, ReceiveRtt, UpdateRtt, StartPing, PingSent,
     Break, Cleanup, ResetMetrics, Deliver, DropReceiver, EndInput, GiveUp
<1>2. ASSUME NEW r \in Request, RequestStep(r) PROVE FlagTypes'
  BY <1>2, Zenon DEF RequestStep, Call, Publish, SendOk, SendErr, HangUp
<1>3. ASSUME TaskStep PROVE FlagTypes'
  BY <1>3, Zenon DEF TaskStep, NewLeaders, SetLeaders, NewStakes,
     UpdateStakeWeights, InitMetrics
<1>4. QED
  BY <1>1, <1>2, <1>3 DEF Next

\* Every step keeps the types.
LEMMA TypeNext == IInv /\ Next => TypeOK'
<1> SUFFICES ASSUME IInv, Next PROVE TypeOK'
  OBVIOUS
<1>1. FlagTypes'
  BY FlagTypesNext DEF IInv, TypeOK
<1>2. ASSUME NEW s \in Session, SessionStep(s) \/ ClientStep(s) PROVE DataTypes'
  BY <1>2, QuietSessionTypes, MapTypes DEF SessionStep, ClientStep
<1>3. ASSUME NEW r \in Request, RequestStep(r) PROVE DataTypes'
  BY <1>3, RequestTypesNext DEF RequestStep
<1>4. ASSUME NewLeaders \/ NewStakes PROVE DataTypes'
  <2>1. (queue \in Seq(Task))'
    BY <1>4, QueueType DEF NewLeaders, NewStakes, Enqueue, Task, IInv, TypeOK
  <2>2. QED
    BY <1>4, <2>1 DEF NewLeaders, NewStakes, IInv, TypeOK, DataTypes,
       BalancerTypes, SessionTypes, RequestTypes, GaugeTypes, balancer, session,
       request, gauges
<1>5. ASSUME InitMetrics PROVE DataTypes'
  BY <1>5 DEF InitMetrics, IInv, TypeOK, DataTypes, BalancerTypes, SessionTypes,
     RequestTypes, GaugeTypes, balancer, session, request
<1>6. DataTypes'
  BY <1>2, <1>3, <1>4, <1>5, MapTypes DEF Next, TaskStep
<1>7. QED
  BY <1>1, <1>6 DEF TypeOK, DataTypes

(***************************************************************************)
(* Steps that leave the tokens in the map of consumers alone.              *)
(***************************************************************************)

Loop == {"select", "rtt", "ping"}

\* How the task of session s may move in such a step.
PcMove(s) ==
  \/ pc'[s] = pc[s]
  \/ pc[s] = "start" /\ pc'[s] = "rejected"
  \/ pc[s] = "start" /\ pc'[s] = "subscribe" /\ IdentityOf[s] \in Identity
  \/ pc[s] = "subscribe" /\ pc'[s] = "gone"
  \/ pc[s] \in Loop /\ pc'[s] \in Loop
  \/ /\ pc[s] \in Loop /\ pc'[s] = "cleanup"
     /\ s \in unsubscribed \cup rx_dropped \cup input_ended

Quiet ==
  /\ UNCHANGED <<unsubscribed, stake_gauge>>
  /\ \A i \in Identity :
       /\ tx_consumers'[i].token = tx_consumers[i].token
       /\ tx_consumers'[i].do_unsubscribe =>
            tx_consumers[i].do_unsubscribe \/ tx_consumers[i].token \in rx_dropped
  /\ \A s \in Session : PcMove(s)
  /\ rx_dropped \subseteq rx_dropped' /\ input_ended \subseteq input_ended'
  /\ \A i \in ping_labels' \ ping_labels :
       \E s \in Session : IdentityOf[s] = i /\ pc[s] = "select"
  /\ \A r \in Request : rpc'[r] = "sending" =>
       todo'[r] # <<>> /\ \A k \in 1 .. Len(todo'[r]) : Registered(todo'[r][k])

\* A quiet step keeps every part of the invariant.
LEMMA QuietKeeps ==
  ASSUME IInv, TypeOK', Quiet
  PROVE  IInv'
<1>1. HasIdentity'
  BY DEF IInv, HasIdentity, Quiet, PcMove, Loop
<1>2. \A i \in Identity : tx_consumers[i].token \in Session \cup {NoSession}
  BY DEF IInv, TypeOK, BalancerTypes, Consumer
<1>3. OwnToken'
  BY <1>2 DEF IInv, OwnToken, Quiet, PcMove, Loop
<1>4. InMapNotTold' /\ FlaggedAreClosed'
  BY DEF IInv, InMapNotTold, FlaggedAreClosed, Quiet
<1>5. LeavingIsGone'
  BY <1>2 DEF IInv, LeavingIsGone, InMapNotTold, Quiet, PcMove, Loop
<1>6. SendingHasTodo'
  BY DEF IInv, SendingHasTodo, Quiet
<1>7. StreamingOrTold'
  <2>1. ASSUME NEW s \in Session, pc'[s] \in Loop
        PROVE  (Registered(s) \/ s \in unsubscribed)'
    <3>1. pc[s] \in Loop
      BY <2>1 DEF Quiet, PcMove, Loop
    <3>2. QED
      BY <3>1 DEF IInv, StreamingOrTold, Registered, Quiet, Loop
  <2>2. QED
    BY <2>1 DEF StreamingOrTold, Loop
<1>8. PicksStayRegistered'
  BY DEF IInv, PicksStayRegistered, Registered, Quiet
<1>9. ResetSeriesOwned'
  <2>1. SUFFICES ASSUME NEW i \in Identity,
                        stake_gauge'[i] # NoLabel \/ i \in ping_labels'
                 PROVE  \E s \in Session :
                          /\ IdentityOf[s] = i
                          /\ pc'[s] \in {"select", "rtt", "ping", "cleanup", "reset"}
    BY DEF ResetSeriesOwned
  <2>2. PICK s \in Session :
          /\ IdentityOf[s] = i
          /\ pc[s] \in {"select", "rtt", "ping", "cleanup", "reset"}
    BY <2>1 DEF IInv, ResetSeriesOwned, Quiet
  <2>3. pc'[s] \in {"select", "rtt", "ping", "cleanup", "reset"}
    BY <2>2 DEF Quiet, PcMove, Loop
  <2>4. QED
    BY <2>2, <2>3
<1>10. ToldHadJoined'
  BY DEF IInv, TypeOK, SessionTypes, ToldHadJoined, Quiet, PcMove, Loop
<1>11. QED
  BY <1>1, <1>3, <1>4, <1>5, <1>6, <1>7, <1>8, <1>9, <1>10 DEF IInv

\* With the requests unchanged, those that are sending are as the invariant says.
LEMMA RequestsKept ==
  ASSUME IInv, UNCHANGED <<rpc, todo>>
  PROVE  \A r \in Request : rpc'[r] = "sending" =>
           todo'[r] # <<>> /\ \A k \in 1 .. Len(todo'[r]) : Registered(todo'[r][k])
BY DEF IInv, SendingHasTodo, PicksStayRegistered

\* Most steps of a session, and all of its client's, are quiet.
LEMMA QuietSession ==
  ASSUME IInv, NEW s \in Session
  PROVE  /\ Reject(s) => Quiet
         /\ Connect(s) => Quiet
         /\ ReceiveMetrics(s) => Quiet
         /\ ReceivePong(s) => Quiet
         /\ ReceiveRtt(s) => Quiet
         /\ UpdateRtt(s) => Quiet
         /\ StartPing(s) => Quiet
         /\ PingSent(s) => Quiet
         /\ Break(s) => Quiet
         /\ Deliver(s) => Quiet
         /\ DropReceiver(s) => Quiet
         /\ EndInput(s) => Quiet
         /\ GiveUp(s) => Quiet
<1> USE RequestsKept DEF Quiet, PcMove, Loop, balancer, session, request, gauges, At
<1>0. pc \in [Session -> {"start", "rejected", "subscribe", "select", "rtt",
                         "ping", "cleanup", "reset", "done", "gone"}]
  BY DEF IInv, TypeOK, SessionTypes
<1>1. ASSUME Reject(s) PROVE Quiet
  BY <1>0, <1>1 DEF Reject
<1>2. ASSUME Connect(s) PROVE Quiet
  BY <1>0, <1>2, BalancerAssumption DEF Connect, Enqueue
<1>3. ASSUME ReceiveMetrics(s) PROVE Quiet
  BY <1>0, <1>3 DEF ReceiveMetrics
<1>4. ASSUME ReceivePong(s) PROVE Quiet
  BY <1>0, <1>4 DEF ReceivePong
<1>5. ASSUME ReceiveRtt(s) PROVE Quiet
  BY <1>0, <1>5 DEF ReceiveRtt
<1>6. ASSUME UpdateRtt(s) PROVE Quiet
  BY <1>0, <1>6 DEF UpdateRtt
<1>7. ASSUME StartPing(s) PROVE Quiet
  BY <1>0, <1>7 DEF StartPing
<1>8. ASSUME PingSent(s) PROVE Quiet
  BY <1>0, <1>8 DEF PingSent
<1>9. ASSUME Break(s) PROVE Quiet
  BY <1>0, <1>9 DEF Break, MustBreak
<1>10. ASSUME Deliver(s) PROVE Quiet
  BY <1>0, <1>10 DEF Deliver
<1>11. ASSUME DropReceiver(s) PROVE Quiet
  BY <1>0, <1>11 DEF DropReceiver, Streaming
<1>12. ASSUME EndInput(s) PROVE Quiet
  BY <1>0, <1>12 DEF EndInput, Streaming
<1>13. ASSUME GiveUp(s) PROVE Quiet
  BY <1>0, <1>13 DEF GiveUp
<1>14. QED
  BY <1>1, <1>2, <1>3, <1>4, <1>5, <1>6, <1>7, <1>8, <1>9, <1>10, <1>11, <1>12, <1>13

\* The steps of a request are quiet: it sends to registered consumers, and flags
\* one only when that one's receiver is gone.
LEMMA QuietRequest ==
  ASSUME IInv, NEW r \in Request, RequestStep(r)
  PROVE  Quiet
<1> USE DEF Quiet, PcMove, balancer, session, gauges, Rpc
<1>0. /\ rpc \in [Request -> {"start", "waiting", "sending", "ok", "error",
                           "cancelled"}]
      /\ todo \in [Request -> Seq(Session)]
      /\ \A q \in Request : rpc[q] = "sending" =>
           todo[q] # <<>> /\ \A k \in 1 .. Len(todo[q]) : Registered(todo[q][k])
  BY DEF IInv, TypeOK, RequestTypes, SendingHasTodo, PicksStayRegistered
<1>1. CASE Call(r)
  BY <1>0, <1>1 DEF Call
<1>2. CASE Publish(r)
  <2>1. PICK pick \in CurrentPicks :
          \/ UNCHANGED <<rpc, todo>>
          \/ rpc' = [rpc EXCEPT ![r] = "error"] /\ UNCHANGED todo
          \/ /\ pick.list # <<>>
             /\ rpc' = [rpc EXCEPT ![r] = "sending"]
             /\ todo' = [todo EXCEPT ![r] = [k \in 1 .. Len(pick.list) |->
                                             tx_consumers[pick.list[k]].token]]
    BY <1>2 DEF Publish
  <2> DEFINE tokens == [k \in 1 .. Len(pick.list) |-> tx_consumers[pick.list[k]].token]
  <2>2. pick.list # <<>> =>
          tokens # <<>> /\ \A k \in 1 .. Len(tokens) : Registered(tokens[k])
    <3>1. Len(pick.list) \in Nat /\ (pick.list # <<>> => Len(pick.list) > 0)
      BY PickedTokens
    <3>2. Len(tokens) = Len(pick.list)
      BY <3>1
    <3>3. QED
      BY <3>1, <3>2, PickedTokens
  <2> HIDE DEF tokens
  <2>3. \A q \in Request : rpc'[q] = "sending" =>
          todo'[q] # <<>> /\ \A k \in 1 .. Len(todo'[q]) : Registered(todo'[q][k])
    BY <1>0, <2>1, <2>2 DEF tokens
  <2>4. QED
    BY <1>2, <2>3 DEF Publish
<1>3. ASSUME rpc[r] = "sending", Advance(r)
      PROVE  \A q \in Request : rpc'[q] = "sending" =>
               todo'[q] # <<>> /\ \A k \in 1 .. Len(todo'[q]) : Registered(todo'[q][k])
  <2>1. todo'[r] = Tail(todo[r]) /\ \A q \in Request \ {r} :
          todo'[q] = todo[q] /\ rpc'[q] = rpc[q]
    BY <1>0, <1>3 DEF Advance
  <2>2. rpc'[r] = "sending" => Len(todo[r]) # 1
    BY <1>0, <1>3 DEF Advance
  <2>3. rpc'[r] = "sending" =>
          todo'[r] # <<>> /\ \A k \in 1 .. Len(todo'[r]) : Registered(todo'[r][k])
    BY <1>0, <1>3, <2>1, <2>2, TailFacts
  <2>4. QED
    BY <1>0, <2>1, <2>3
<1>4. CASE SendOk(r)
  BY <1>3, <1>4 DEF SendOk
<1>5. CASE SendErr(r)
  <2>1. tx_consumers \in [Identity -> Consumer]
    BY DEF IInv, TypeOK, BalancerTypes
  <2>2. \A i \in Identity :
       /\ tx_consumers'[i].token = tx_consumers[i].token
       /\ tx_consumers'[i].do_unsubscribe =>
            tx_consumers[i].do_unsubscribe \/ tx_consumers[i].token \in rx_dropped
    BY <1>5, <2>1 DEF SendErr, SendErrs, Consumer
  <2>3. QED
    BY <1>3, <1>5, <2>2 DEF SendErr
<1>6. CASE HangUp(r)
  BY <1>0, <1>6 DEF HangUp
<1>7. QED
  BY <1>1, <1>2, <1>4, <1>5, <1>6 DEF RequestStep

\* The updates of the tasks that do not touch the tokens are quiet.
LEMMA QuietTask ==
  ASSUME IInv, NewLeaders \/ NewStakes \/ UpdateStakeWeights \/ InitMetrics
  PROVE  Quiet
<1>1. tx_consumers \in [Identity -> Consumer]
  BY DEF IInv, TypeOK, BalancerTypes
<1>2. CASE NewLeaders \/ NewStakes
  BY <1>2, RequestsKept
  DEF NewLeaders, NewStakes, Quiet, PcMove, balancer, session, request, gauges
<1>3. CASE UpdateStakeWeights
  <2>1. \A i \in Identity :
          /\ tx_consumers'[i].token = tx_consumers[i].token
          /\ tx_consumers'[i].do_unsubscribe = tx_consumers[i].do_unsubscribe
    BY <1>1, <1>3 DEF UpdateStakeWeights, Consumer
  <2>2. QED
    BY <1>3, <2>1, RequestsKept
    DEF UpdateStakeWeights, Quiet, PcMove, session, request, gauges
<1>4. CASE InitMetrics
  BY <1>4, RequestsKept
  DEF InitMetrics, Quiet, PcMove, balancer, session, request
<1>5. QED
  BY <1>2, <1>3, <1>4

(***************************************************************************)
(* Steps that change the map, which need the lock to themselves.           *)
(***************************************************************************)

\* A writer is granted the lock only when nobody is sending.
LEMMA WriterAlone ==
  ASSUME NEW t, t \notin Request, Granted(t)
  PROVE  \A r \in Request : rpc[r] # "sending"
BY DEF Granted, Readers

\* Subscribing keeps the invariant.
LEMMA SubscribeKeeps ==
  ASSUME IInv, TypeOK', NEW s \in Session, Subscribe(s)
  PROVE  IInv'
<1> DEFINE id == IdentityOf[s]
           old == tx_consumers[id].token
<1>1. /\ pc \in [Session -> {"start", "rejected", "subscribe", "select", "rtt",
                            "ping", "cleanup", "reset", "done", "gone"}]
      /\ unsubscribed \in SUBSET Session
      /\ \A i \in Identity : tx_consumers[i].token \in Session \cup {NoSession}
  BY DEF IInv, TypeOK, SessionTypes, BalancerTypes, Consumer
<1>2. /\ pc[s] = "subscribe" /\ pc' = [pc EXCEPT ![s] = "select"]
      /\ UNCHANGED <<rx_dropped, input_ended, rpc, todo, ping_labels>>
  BY DEF Subscribe, At, request
<1>3. /\ id \in Identity
      /\ \A i \in Identity : i # id => tx_consumers'[i] = tx_consumers[i]
      /\ tx_consumers'[id].token = s /\ ~ tx_consumers'[id].do_unsubscribe
      /\ unsubscribed' = unsubscribed \cup ({old} \ {NoSession})
      /\ \A i \in Identity : stake_gauge'[i] # NoLabel =>
           stake_gauge[i] # NoLabel \/ i \in ConnectedIn(tx_consumers')
  BY SubscribeEffect
<1>4. old # s /\ s \notin unsubscribed
  BY <1>2, <1>3, BalancerAssumption DEF IInv, OwnToken, ToldHadJoined
<1>5. \A i \in Identity : i # id /\ tx_consumers[i].token # NoSession =>
        tx_consumers[i].token \notin {s, old}
  BY <1>3 DEF IInv, OwnToken
<1>6. \A r \in Request : rpc[r] # "sending"
  BY WriterAlone, BalancerAssumption DEF Subscribe
<1> HIDE DEF id, old
<1>7. HasIdentity' /\ OwnToken' /\ LeavingIsGone'
  <2>1. HasIdentity'
    BY <1>1, <1>2 DEF IInv, HasIdentity
  <2>2. OwnToken'
    BY <1>1, <1>2, <1>3, <1>5, BalancerAssumption DEF IInv, OwnToken, id
  <2>3. LeavingIsGone'
    BY <1>1, <1>2, <1>3, <1>5, BalancerAssumption DEF IInv, LeavingIsGone
  <2>4. QED
    BY <2>1, <2>2, <2>3
<1>8. InMapNotTold'
  <2>1. NoSession \notin unsubscribed'
    BY <1>1, <1>3, BalancerAssumption
  <2>2. QED
    BY <1>3, <1>4, <1>5, <2>1 DEF IInv, InMapNotTold
<1>9. ToldHadJoined'
  BY <1>1, <1>2, <1>3, <1>4 DEF IInv, ToldHadJoined, OwnToken, old
<1>10. StreamingOrTold'
  <2>1. SUFFICES ASSUME NEW t \in Session, pc'[t] \in {"select", "rtt", "ping"}
                 PROVE  (Registered(t) \/ t \in unsubscribed)'
    BY DEF StreamingOrTold
  <2>2. CASE t = s
    BY <1>3, <2>2 DEF Registered
  <2>3. CASE t # s
    <3>1. Registered(t) \/ t \in unsubscribed
      BY <1>1, <1>2, <2>1, <2>3 DEF IInv, StreamingOrTold
    <3>2. CASE Registered(t)
      <4>1. PICK i \in Identity : tx_consumers[i].token = t
        BY <3>2 DEF Registered
      <4>2. CASE i = id
        BY <1>3, <4>1, <4>2, BalancerAssumption DEF old
      <4>3. CASE i # id
        BY <1>3, <4>1, <4>3 DEF Registered
      <4>4. QED
        BY <4>2, <4>3
    <3>3. QED
      BY <1>3, <3>1, <3>2
  <2>4. QED
    BY <2>2, <2>3
<1>11. FlaggedAreClosed'
  BY <1>2, <1>3 DEF IInv, FlaggedAreClosed
<1>12. SendingHasTodo' /\ PicksStayRegistered'
  BY <1>2, <1>6 DEF SendingHasTodo, PicksStayRegistered
<1>13. ResetSeriesOwned'
  <2>1. SUFFICES ASSUME NEW i \in Identity,
                        stake_gauge'[i] # NoLabel \/ i \in ping_labels'
                 PROVE  \E t \in Session :
                          /\ IdentityOf[t] = i
                          /\ pc'[t] \in {"select", "rtt", "ping", "cleanup", "reset"}
    BY DEF ResetSeriesOwned
  <2>2. CASE i = id
    BY <1>1, <1>2, <2>2 DEF id
  <2>3. CASE i # id /\ i \in ConnectedIn(tx_consumers')
    BY <1>1, <1>2, <1>3, <1>5, <2>3 DEF IInv, OwnToken, ConnectedIn
  <2>4. CASE stake_gauge[i] # NoLabel \/ i \in ping_labels
    BY <1>1, <1>2, <2>4 DEF IInv, ResetSeriesOwned
  <2>5. QED
    BY <1>2, <1>3, <2>1, <2>2, <2>3, <2>4
<1>14. QED
  BY <1>7, <1>8, <1>9, <1>10, <1>11, <1>12, <1>13 DEF IInv

\* Taking consumers out of the map keeps the invariant, when the only session
\* that moves is one that has cleaned up and is not in the map any more.
LEMMA RemovalKeeps ==
  ASSUME IInv, TypeOK', NEW R \in SUBSET Connected, RemoveConsumers(R),
         \A r \in Request : rpc[r] # "sending",
         UNCHANGED <<rx_dropped, input_ended, rpc, todo, ping_labels>>,
         \A s \in Session :
           \/ pc'[s] = pc[s]
           \/ /\ pc[s] = "cleanup" /\ pc'[s] = "reset"
              /\ \A i \in Identity \ R : tx_consumers[i].token # s
  PROVE  IInv'
<1>1. /\ unsubscribed \in SUBSET Session
      /\ \A i \in Identity : tx_consumers[i].token \in Session \cup {NoSession}
  BY DEF IInv, TypeOK, SessionTypes, BalancerTypes, Consumer
<1>2. /\ \A i \in Identity :
           tx_consumers'[i] = IF i \in R THEN NoConsumer ELSE tx_consumers[i]
      /\ unsubscribed' = unsubscribed \cup {tx_consumers[i].token : i \in R}
      /\ \A i \in Identity : stake_gauge'[i] # NoLabel =>
           stake_gauge[i] # NoLabel \/ i \in Connected
  BY RemoveEffect
<1>3. \A i \in R : i \in Identity /\ tx_consumers[i].token \in Session
  BY <1>1 DEF Connected, ConnectedIn
<1>4. HasIdentity'
  BY DEF IInv, HasIdentity
<1>5. OwnToken'
  BY <1>1, <1>2 DEF IInv, OwnToken, NoConsumer
<1>6. InMapNotTold'
  <2>1. NoSession \notin unsubscribed'
    BY <1>1, <1>2, <1>3, BalancerAssumption
  <2>2. \A i \in Identity \ R : tx_consumers[i].token # NoSession =>
          \A j \in R : tx_consumers[i].token # tx_consumers[j].token
    BY <1>3, BalancerAssumption DEF IInv, OwnToken
  <2>3. QED
    BY <1>2, <2>1, <2>2 DEF IInv, InMapNotTold, NoConsumer
<1>7. ToldHadJoined'
  <2>1. \A i \in R : pc[tx_consumers[i].token] \in {"select", "rtt", "ping", "cleanup"}
    BY <1>3, BalancerAssumption DEF IInv, OwnToken
  <2>2. QED
    BY <1>1, <1>2, <1>3, <2>1 DEF IInv, ToldHadJoined
<1>8. LeavingIsGone'
  BY <1>1, <1>2 DEF IInv, LeavingIsGone, NoConsumer
<1>9. StreamingOrTold'
  <2>1. SUFFICES ASSUME NEW t \in Session, pc'[t] \in {"select", "rtt", "ping"}
                 PROVE  (Registered(t) \/ t \in unsubscribed)'
    BY DEF StreamingOrTold
  <2>2. Registered(t) \/ t \in unsubscribed
    BY <2>1 DEF IInv, StreamingOrTold
  <2>3. CASE Registered(t)
    <3>1. PICK i \in Identity : tx_consumers[i].token = t
      BY <2>3 DEF Registered
    <3>2. QED
      BY <1>2, <3>1 DEF Registered
  <2>4. QED
    BY <1>2, <2>2, <2>3
<1>10. FlaggedAreClosed'
  BY <1>2 DEF IInv, FlaggedAreClosed, NoConsumer
<1>11. SendingHasTodo' /\ PicksStayRegistered'
  BY DEF SendingHasTodo, PicksStayRegistered
<1>12. ResetSeriesOwned'
  <2>1. SUFFICES ASSUME NEW i \in Identity,
                        stake_gauge'[i] # NoLabel \/ i \in ping_labels'
                 PROVE  \E t \in Session :
                          /\ IdentityOf[t] = i
                          /\ pc'[t] \in {"select", "rtt", "ping", "cleanup", "reset"}
    BY DEF ResetSeriesOwned
  <2>2. PICK t \in Session :
          /\ IdentityOf[t] = i
          /\ pc[t] \in {"select", "rtt", "ping", "cleanup", "reset"}
    <3>1. CASE stake_gauge[i] # NoLabel \/ i \in ping_labels
      BY <3>1 DEF IInv, ResetSeriesOwned
    <3>2. CASE i \in Connected
      BY <1>1, <3>2 DEF IInv, OwnToken, Connected, ConnectedIn
    <3>3. QED
      BY <1>2, <2>1, <3>1, <3>2
  <2>3. QED
    BY <2>2
<1>13. QED
  BY <1>4, <1>5, <1>6, <1>7, <1>8, <1>9, <1>10, <1>11, <1>12 DEF IInv

\* A session's clean-up keeps the invariant.
LEMMA CleanupKeeps ==
  ASSUME IInv, TypeOK', NEW s \in Session, Cleanup(s)
  PROVE  IInv'
<1> DEFINE R == {i \in {IdentityOf[s]} : tx_consumers[i].token = s}
<1>1. IdentityOf[s] \in Identity
  BY DEF IInv, HasIdentity, Cleanup, At
<1>2. R \in SUBSET Connected /\ RemoveConsumers(R)
  BY <1>1, BalancerAssumption DEF Cleanup, unsubscribe, Connected, ConnectedIn
<1>3. \A r \in Request : rpc[r] # "sending"
  BY WriterAlone, BalancerAssumption DEF Cleanup
<1>4. \A i \in Identity \ R : tx_consumers[i].token # s
  BY BalancerAssumption DEF IInv, OwnToken
<1>5. /\ UNCHANGED <<rx_dropped, input_ended, rpc, todo, ping_labels>>
      /\ pc[s] = "cleanup" /\ pc' = [pc EXCEPT ![s] = "reset"]
      /\ pc \in [Session -> {"start", "rejected", "subscribe", "select", "rtt",
                            "ping", "cleanup", "reset", "done", "gone"}]
  BY DEF Cleanup, At, request, IInv, TypeOK, SessionTypes
<1> HIDE DEF R
<1>6. \A t \in Session :
        \/ pc'[t] = pc[t]
        \/ /\ pc[t] = "cleanup" /\ pc'[t] = "reset"
           /\ \A i \in Identity \ R : tx_consumers[i].token # t
  BY <1>4, <1>5
<1>7. QED
  BY <1>2, <1>3, <1>5, <1>6, RemovalKeeps

\* A change of leaders, and the flush that comes with it, keep the invariant.
LEMMA SetLeadersKeeps ==
  ASSUME IInv, TypeOK', SetLeaders
  PROVE  IInv'
<1> DEFINE R == {i \in Connected : tx_consumers[i].do_unsubscribe}
<1>1. R \in SUBSET Connected /\ RemoveConsumers(R)
  BY DEF SetLeaders, flush_unsubscribes
<1>2. \A r \in Request : rpc[r] # "sending"
  BY WriterAlone, BalancerAssumption DEF SetLeaders
<1>3. UNCHANGED <<rx_dropped, input_ended, rpc, todo, ping_labels, pc>>
  BY DEF SetLeaders, request
<1> HIDE DEF R
<1>4. QED
  BY <1>1, <1>2, <1>3, RemovalKeeps

\* Resetting a client's metrics keeps the invariant: its session is not in the
\* map, and another session of the same identity sees its series removed.
LEMMA ResetKeeps ==
  ASSUME IInv, TypeOK', NEW s \in Session, ResetMetrics(s)
  PROVE  IInv'
<1>1. /\ pc[s] = "reset" /\ pc' = [pc EXCEPT ![s] = "done"]
      /\ UNCHANGED <<tx_consumers, unsubscribed, rx_dropped, input_ended, rpc, todo>>
      /\ ping_labels' = ping_labels \ {IdentityOf[s]}
      /\ stake_gauge' = [stake_gauge EXCEPT ![IdentityOf[s]] = NoLabel]
  BY DEF ResetMetrics, At, balancer, request
<1>2. /\ pc \in [Session -> {"start", "rejected", "subscribe", "select", "rtt",
                            "ping", "cleanup", "reset", "done", "gone"}]
      /\ unsubscribed \in SUBSET Session
      /\ stake_gauge \in [Identity -> Nat \cup {NoLabel}]
      /\ \A i \in Identity : tx_consumers[i].token \in Session \cup {NoSession}
  BY DEF IInv, TypeOK, SessionTypes, GaugeTypes, BalancerTypes, Consumer
<1>3. HasIdentity' /\ ToldHadJoined' /\ InMapNotTold' /\ FlaggedAreClosed'
  BY <1>1, <1>2 DEF IInv, HasIdentity, ToldHadJoined, InMapNotTold, FlaggedAreClosed
<1>4. OwnToken' /\ LeavingIsGone'
  BY <1>1, <1>2, BalancerAssumption DEF IInv, OwnToken, LeavingIsGone
<1>5. SendingHasTodo' /\ StreamingOrTold' /\ PicksStayRegistered'
  BY <1>1, <1>2
  DEF IInv, SendingHasTodo, StreamingOrTold, PicksStayRegistered, Registered
<1>6. ResetSeriesOwned'
  BY <1>1, <1>2 DEF IInv, ResetSeriesOwned
<1>7. QED
  BY <1>3, <1>4, <1>5, <1>6 DEF IInv

(***************************************************************************)
(* The theorems.                                                           *)
(***************************************************************************)

\* A step that changes nothing keeps the invariant.
LEMMA StutterKeeps == ASSUME IInv, UNCHANGED vars PROVE IInv'
<1>1. UNCHANGED <<balancer, session, request, gauges, queue, exited>>
  BY DEF vars
<1>2. DataTypes'
  BY <1>1 DEF IInv, TypeOK, DataTypes, BalancerTypes, SessionTypes, RequestTypes,
     GaugeTypes, balancer, session, request, gauges
<1>3. FlagTypes'
  BY <1>1, Zenon DEF IInv, TypeOK, FlagTypes, gauges
<1>4. TypeOK'
  BY <1>2, <1>3 DEF TypeOK, DataTypes
<1>5. Quiet
  BY <1>1, RequestsKept DEF Quiet, PcMove, balancer, session, request, gauges
<1>6. QED
  BY <1>4, <1>5, QuietKeeps

\* Every step keeps the invariant.
LEMMA NextIInv == IInv /\ [Next]_vars => IInv'
<1> SUFFICES ASSUME IInv, [Next]_vars PROVE IInv'
  OBVIOUS
<1>1. CASE UNCHANGED vars
  BY <1>1, StutterKeeps
<1>2. CASE Next
  <2>1. TypeOK'
    BY <1>2, TypeNext
  <2>2. ASSUME NEW s \in Session, SessionStep(s) \/ ClientStep(s) PROVE IInv'
    BY <2>1, <2>2, QuietSession, QuietKeeps, SubscribeKeeps, CleanupKeeps, ResetKeeps
    DEF SessionStep, ClientStep
  <2>3. ASSUME NEW r \in Request, RequestStep(r) PROVE IInv'
    BY <2>1, <2>3, QuietRequest, QuietKeeps
  <2>4. ASSUME TaskStep PROVE IInv'
    BY <2>1, <2>4, QuietTask, QuietKeeps, SetLeadersKeeps DEF TaskStep
  <2>5. QED
    BY <1>2, <2>2, <2>3, <2>4 DEF Next
<1>3. QED
  BY <1>1, <1>2

\* The inductive invariant holds in every reachable state of the server.
THEOREM Invariant == Spec => []IInv
BY InitIInv, NextIInv, PTL DEF Spec

\* Types are kept, and no client's channel exceeds its capacity: neither a ping
\* nor a transaction is queued without waiting for room.
THEOREM TypeCorrect == Spec => []TypeOK
<1>1. IInv => TypeOK
  BY DEF IInv
<1>2. QED
  BY <1>1, Invariant, PTL

\* A session that serves a client is offered transactions or has been told that
\* it was replaced or removed (Drop of TxConsumer fires the oneshot).
THEOREM NoForgottenClient == Spec => []StreamingOrTold
<1>1. IInv => StreamingOrTold
  BY DEF IInv
<1>2. QED
  BY <1>1, Invariant, PTL

\* flush_unsubscribes only ever removes clients whose stream is gone.
THEOREM FlushIsSafe == Spec => []FlaggedAreClosed
<1>1. IInv => FlaggedAreClosed
  BY DEF IInv
<1>2. QED
  BY <1>1, Invariant, PTL

\* publish sends to clients that are in the map, however long its sends take.
THEOREM SendsToRegistered == Spec => []PicksStayRegistered
<1>1. IInv => PicksStayRegistered
  BY DEF IInv
<1>2. QED
  BY <1>1, Invariant, PTL

\* The series of connected stake and of ping times, the two that
\* reset_client_metrics removes, are never left without a session that is still
\* to call it.  The other series of a client are not removed by the code.
THEOREM ResetIsStillDue == Spec => []ResetSeriesOwned
<1>1. IInv => ResetSeriesOwned
  BY DEF IInv
<1>2. QED
  BY <1>1, Invariant, PTL

\* What ClientKept says of one step.
KeptInStep ==
  \A i \in Identity :
    LET old == tx_consumers[i].token
        new == tx_consumers'[i].token
    IN  old \notin {new, NoSession} =>
          \/ new \in Session /\ IdentityOf[new] = i /\ pc[new] = "subscribe"
          \/ new = NoSession /\ old \in rx_dropped \cup input_ended

\* Only a reconnection, or the loss of its stream, takes a client out of the map.
THEOREM OnlyLostClientsLeave == Spec => ClientKept
<1>1. ASSUME IInv, [Next]_vars PROVE KeptInStep
  <2>0. \A i \in Identity : tx_consumers[i].token \in Session \cup {NoSession}
    BY <1>1 DEF IInv, TypeOK, BalancerTypes, Consumer
  <2>1. ASSUME Quiet PROVE KeptInStep
    BY <2>1 DEF Quiet, KeptInStep
  <2>2. CASE UNCHANGED vars
    BY <2>2 DEF vars, balancer, KeptInStep
  <2>3. ASSUME NEW s \in Session, Subscribe(s) PROVE KeptInStep
    <3>1. /\ pc[s] = "subscribe"
          /\ \A i \in Identity : i # IdentityOf[s] => tx_consumers'[i] = tx_consumers[i]
          /\ tx_consumers'[IdentityOf[s]].token = s
      BY <1>1, <2>3, SubscribeEffect DEF Subscribe, At
    <3>2. QED
      BY <3>1 DEF KeptInStep
  <2>4. ASSUME NEW R \in SUBSET Connected, RemoveConsumers(R),
               \A i \in R : tx_consumers[i].token \in rx_dropped \cup input_ended
        PROVE  KeptInStep
    BY <1>1, <2>4, RemoveEffect DEF KeptInStep, NoConsumer
  <2>5. ASSUME NEW s \in Session, Cleanup(s) PROVE KeptInStep
    <3> DEFINE R == {i \in {IdentityOf[s]} : tx_consumers[i].token = s}
    <3>1. IdentityOf[s] \in Identity /\ pc[s] = "cleanup"
      BY <1>1, <2>5 DEF IInv, HasIdentity, Cleanup, At
    <3>2. R \in SUBSET Connected /\ RemoveConsumers(R)
      BY <2>5, <3>1, BalancerAssumption DEF Cleanup, unsubscribe, Connected, ConnectedIn
    <3>3. \A i \in R : tx_consumers[i].token \in rx_dropped \cup input_ended
      BY <1>1, <3>1, BalancerAssumption DEF IInv, LeavingIsGone
    <3> HIDE DEF R
    <3>4. QED
      BY <2>4, <3>2, <3>3
  <2>6. ASSUME SetLeaders PROVE KeptInStep
    <3> DEFINE R == {i \in Connected : tx_consumers[i].do_unsubscribe}
    <3>1. R \in SUBSET Connected /\ RemoveConsumers(R)
      BY <2>6 DEF SetLeaders, flush_unsubscribes
    <3>2. \A i \in R : tx_consumers[i].token \in rx_dropped \cup input_ended
      BY <1>1 DEF IInv, FlaggedAreClosed, Connected, ConnectedIn
    <3> HIDE DEF R
    <3>3. QED
      BY <2>4, <3>1, <3>2
  <2>7. ASSUME NEW s \in Session, ResetMetrics(s) PROVE KeptInStep
    BY <2>7 DEF ResetMetrics, balancer, KeptInStep
  <2>8. ASSUME NEW s \in Session, SessionStep(s) \/ ClientStep(s) PROVE KeptInStep
    BY <1>1, <2>1, <2>3, <2>5, <2>7, <2>8, QuietSession DEF SessionStep, ClientStep
  <2>9. ASSUME NEW r \in Request, RequestStep(r) PROVE KeptInStep
    BY <1>1, <2>1, <2>9, QuietRequest
  <2>10. ASSUME TaskStep PROVE KeptInStep
    BY <1>1, <2>1, <2>6, <2>10, QuietTask DEF TaskStep
  <2>11. QED
    BY <1>1, <2>2, <2>8, <2>9, <2>10 DEF Next
<1>2. Spec => [][KeptInStep]_vars
  BY <1>1, Invariant, PTL DEF Spec
<1>3. QED
  BY <1>2 DEF ClientKept, KeptInStep

\* What GaugeFollowsMap says of one step.
CountedInStep ==
  Connected # ConnectedIn(tx_consumers')
    => consumers_gauge' = Cardinality(ConnectedIn(tx_consumers'))

\* Whoever joins or leaves, the gauge that get_health reads is brought up to date
\* in the same step.
THEOREM JoinsAndLeavesCounted == Spec => GaugeFollowsMap
<1>1. ASSUME IInv, [Next]_vars PROVE CountedInStep
  <2>1. ASSUME Quiet PROVE CountedInStep
    BY <2>1 DEF Quiet, CountedInStep, Connected, ConnectedIn
  <2>2. CASE UNCHANGED vars
    BY <2>2 DEF vars, balancer, CountedInStep, Connected, ConnectedIn
  <2>3. ASSUME NEW s \in Session, Subscribe(s) PROVE CountedInStep
    BY <2>3 DEF Subscribe, recalc_total_connected_stake, CountedInStep
  <2>4. ASSUME NEW R, RemoveConsumers(R) PROVE CountedInStep
    <3>1. CASE R = {}
      BY <2>4, <3>1 DEF RemoveConsumers, CountedInStep, Connected, ConnectedIn
    <3>2. CASE R # {}
      BY <2>4, <3>2 DEF RemoveConsumers, recalc_total_connected_stake, CountedInStep
    <3>3. QED
      BY <3>1, <3>2
  <2>5. ASSUME NEW s \in Session, Cleanup(s) PROVE CountedInStep
    BY <2>4, <2>5 DEF Cleanup, unsubscribe
  <2>6. ASSUME SetLeaders PROVE CountedInStep
    BY <2>4, <2>6 DEF SetLeaders, flush_unsubscribes
  <2>7. ASSUME NEW s \in Session, ResetMetrics(s) PROVE CountedInStep
    BY <2>7 DEF ResetMetrics, balancer, CountedInStep, Connected, ConnectedIn
  <2>8. ASSUME NEW s \in Session, SessionStep(s) \/ ClientStep(s) PROVE CountedInStep
    BY <1>1, <2>1, <2>3, <2>5, <2>7, <2>8, QuietSession DEF SessionStep, ClientStep
  <2>9. ASSUME NEW r \in Request, RequestStep(r) PROVE CountedInStep
    BY <1>1, <2>1, <2>9, QuietRequest
  <2>10. ASSUME TaskStep PROVE CountedInStep
    BY <1>1, <2>1, <2>6, <2>10, QuietTask DEF TaskStep
  <2>11. QED
    BY <1>1, <2>2, <2>8, <2>9, <2>10 DEF Next
<1>2. Spec => [][CountedInStep]_vars
  BY <1>1, Invariant, PTL DEF Spec
<1>3. QED
  BY <1>2 DEF GaugeFollowsMap, CountedInStep

(***************************************************************************)
(* Round-trip times.                                                       *)
(***************************************************************************)

\* An average in integers lies between any bounds of what it is made of.
LEMMA AverageBounds ==
  ASSUME NEW k \in Nat, NEW x \in Nat, NEW v \in Nat, NEW low \in Nat, NEW high \in Nat,
         k > 0 => low <= x /\ x <= high, low <= v, v <= high
  PROVE  LET a == (k * x + v) \div (k + 1) IN low <= a /\ a <= high
<1> DEFINE sum == k * x + v
           m   == k + 1
           a   == sum \div m
<1>1. /\ k * x \in Nat /\ k * low \in Nat /\ k * high \in Nat
      /\ k * low <= k * x /\ k * x <= k * high
  BY Z3
<1>2. m * low = k * low + low /\ m * high = k * high + high
  OBVIOUS
<1>3. sum \in Nat /\ m \in Nat \ {0} /\ m * low <= sum /\ sum <= m * high
  BY <1>1, <1>2
<1> HIDE DEF sum, m
<1>4. a \in Nat /\ m * a <= sum /\ sum < m * (a + 1)
  BY <1>3
<1> HIDE DEF a
<1>5. m * low < m * (a + 1) /\ m * a <= m * high
  BY <1>3, <1>4
<1>6. low < a + 1 /\ a <= high
  BY <1>3, <1>4, <1>5
<1>7. QED
  BY <1>4, <1>6 DEF a, sum, m

\* If n + 1 samples cannot overflow, n of them cannot.
LEMMA FewerFit ==
  ASSUME NEW n \in Nat, NoOverflow(n + 1)
  PROVE  NoOverflow(n)
<1> SUFFICES ASSUME NEW v \in RttSamples PROVE n * v < U64
  BY DEF NoOverflow
<1>1. v \in Nat /\ U64 \in Nat
  BY BalancerAssumption
<1>2. (n + 1) * v < U64
  BY DEF NoOverflow
<1>3. (n + 1) * v = n * v + v /\ n * v \in Nat
  BY <1>1
<1>4. QED
  BY <1>1, <1>2, <1>3

\* Where nothing can overflow, the sum of update_rtt is what it is.
LEMMA SumKept ==
  ASSUME NEW k \in Nat, NEW x \in Nat, NEW v \in Nat, NEW high \in Nat,
         k > 0 => x <= high, v <= high, (k + 1) * high < U64
  PROVE  (k * x + v) % U64 = k * x + v
<1> DEFINE sum == k * x + v
<1>1. k * x \in Nat /\ k * high \in Nat /\ k * x <= k * high
  BY Z3
<1>2. (k + 1) * high = k * high + high
  OBVIOUS
<1>3. sum \in Nat /\ sum < U64
  BY <1>1, <1>2, BalancerAssumption
<1> HIDE DEF sum
<1>4. sum % U64 = sum
  BY <1>3, BalancerAssumption
<1>5. QED
  BY <1>4 DEF sum

\* update_rtt keeps an average within the samples it has seen.
LEMMA UpdateKeepsRange ==
  ASSUME IInv, RttInRange, NEW s \in Session, UpdateRtt(s)
  PROVE  RttInRange'
<1> DEFINE o == IdentityOf[s]
<1>1. PICK v \in RttSamples : rtt_values' = [rtt_values EXCEPT ![o] = new_rtt_slot(rtt_values[o], v)]
  BY DEF UpdateRtt
<1>2. /\ o \in Identity /\ v \in Nat
      /\ rtt_values \in [Identity -> [rtt : 0 .. U64 - 1, n : Nat]]
      /\ RttSamples \subseteq Nat
  <2>1. RttSamples \subseteq Nat /\ v \in Nat
    BY BalancerAssumption
  <2>2. o \in Identity
    BY BalancerAssumption DEF IInv, HasIdentity, UpdateRtt, At
  <2>3. rtt_values \in [Identity -> [rtt : 0 .. U64 - 1, n : Nat]]
    BY DEF IInv, TypeOK, BalancerTypes
  <2>4. QED
    BY <2>1, <2>2, <2>3
<1> DEFINE k == rtt_values[o].n
           x == rtt_values[o].rtt
<1>3. k \in Nat /\ x \in Nat
  BY <1>2
<1>4. /\ rtt_values'[o].rtt = ((k * x + v) % U64) \div (k + 1)
      /\ rtt_values'[o].n = k + 1
  BY <1>1, <1>2 DEF new_rtt_slot
<1>8. \A i \in Identity : i # o => rtt_values'[i] = rtt_values[i]
  BY <1>1, <1>2
<1>9. CASE ~ NoOverflow(k + 1)
  BY <1>4, <1>8, <1>9 DEF RttInRange, NoOverflow
<1>10. SUFFICES ASSUME NoOverflow(k + 1) PROVE RttInRange'
  BY <1>9
<1>11. NoOverflow(k)
  BY <1>3, <1>10, FewerFit
<1>5. PICK low \in RttSamples : low <= v /\ (k > 0 => low <= x)
  <2>1. CASE k > 0
    <3>1. PICK l \in RttSamples : l <= x
      BY <1>2, <1>11, <2>1 DEF RttInRange
    <3>2. CASE l <= v
      BY <3>1, <3>2
    <3>3. CASE ~ (l <= v)
      <4>1. v <= v /\ v <= x
        BY <1>2, <1>3, <3>1, <3>3
      <4>2. QED
        BY <4>1
    <3>4. QED
      BY <3>2, <3>3
  <2>2. CASE ~ (k > 0)
    BY <1>2, <2>2
  <2>3. QED
    BY <2>1, <2>2
<1>6. PICK high \in RttSamples : v <= high /\ (k > 0 => x <= high)
  <2>1. CASE k > 0
    <3>1. PICK h \in RttSamples : x <= h
      BY <1>2, <1>11, <2>1 DEF RttInRange
    <3>2. CASE v <= h
      BY <3>1, <3>2
    <3>3. CASE ~ (v <= h)
      <4>1. v <= v /\ x <= v
        BY <1>2, <1>3, <3>1, <3>3
      <4>2. QED
        BY <4>1
    <3>4. QED
      BY <3>2, <3>3
  <2>2. CASE ~ (k > 0)
    BY <1>2, <2>2
  <2>3. QED
    BY <2>1, <2>2
<1> HIDE DEF k, x
<1>12. (k * x + v) % U64 = k * x + v
  <2>1. (k + 1) * high < U64
    BY <1>10 DEF NoOverflow
  <2>2. QED
    BY <1>2, <1>3, <1>6, <2>1, SumKept
<1>13. low <= rtt_values'[o].rtt /\ rtt_values'[o].rtt <= high
  BY <1>2, <1>3, <1>4, <1>5, <1>6, <1>12, AverageBounds
<1> HIDE DEF o
<1>14. QED
  BY <1>8, <1>13 DEF RttInRange, NoOverflow

\* Nothing but an rtt message changes an average.
LEMMA RttElsewhere ==
  ASSUME [Next]_vars
  PROVE  UNCHANGED rtt_values \/ \E s \in Session : UpdateRtt(s)
<1> USE DEF balancer
<1>1. CASE UNCHANGED vars
  BY <1>1 DEF vars
<1>2. ASSUME NEW s \in Session, SessionStep(s) \/ ClientStep(s)
      PROVE  UNCHANGED rtt_values \/ UpdateRtt(s)
  BY <1>2 DEF SessionStep, ClientStep, Reject, Connect, Subscribe,
     ReceiveMetrics, ReceivePong, ReceiveRtt, StartPing, PingSent,
     Break, Cleanup, ResetMetrics, Deliver, DropReceiver, EndInput, GiveUp
<1>3. ASSUME NEW r \in Request, RequestStep(r) PROVE UNCHANGED rtt_values
  BY <1>3 DEF RequestStep, Call, Publish, SendOk, SendErr, HangUp
<1>4. ASSUME TaskStep PROVE UNCHANGED rtt_values
  BY <1>4 DEF TaskStep, NewLeaders, SetLeaders, NewStakes, UpdateStakeWeights, InitMetrics
<1>5. QED
  BY <1>1, <1>2, <1>3, <1>4 DEF Next

\* While the samples of an identity cannot add up to more than a u64 holds, its
\* running average stays between the smallest and the largest of them, whatever
\* width the integers have.
THEOREM AveragesStayInRange == Spec => []RttInRange
<1>1. Init => RttInRange
  BY DEF Init, RttInRange
<1>2. ASSUME IInv, RttInRange, [Next]_vars PROVE RttInRange'
  <2>1. CASE UNCHANGED rtt_values
    BY <1>2, <2>1 DEF RttInRange, NoOverflow
  <2>2. CASE \E s \in Session : UpdateRtt(s)
    BY <1>2, <2>2, UpdateKeepsRange
  <2>3. QED
    BY <1>2, <2>1, <2>2, RttElsewhere
<1>3. QED
  BY <1>1, <1>2, Invariant, PTL DEF Spec

(***************************************************************************)
(* The promise about a call.                                               *)
(***************************************************************************)

\* The watcher has the records of the requests that were answered with ok.
HandedOver == \A r \in Request : r \in Range(watcher_inbox) <=> rpc[r] = "ok"

\* The fates by the place of the request; in particular none is lost.
LEMMA Fates ==
  ASSUME HandedOver, NEW r \in Request
  PROVE  /\ rpc[r] = "start" => FateOf(r) = "new"
         /\ rpc[r] \in {"waiting", "sending"} => FateOf(r) = "publishing"
         /\ rpc[r] = "error" => FateOf(r) = "failed"
         /\ rpc[r] = "cancelled" => FateOf(r) = "hungup"
         /\ rpc[r] = "ok" => FateOf(r) = "watched"
BY DEF HandedOver, FateOf

\* The same after a step.
LEMMA FatesNext ==
  ASSUME HandedOver', NEW r \in Request
  PROVE  /\ rpc'[r] = "start" => FateOf(r)' = "new"
         /\ rpc'[r] \in {"waiting", "sending"} => FateOf(r)' = "publishing"
         /\ rpc'[r] = "error" => FateOf(r)' = "failed"
         /\ rpc'[r] = "cancelled" => FateOf(r)' = "hungup"
         /\ rpc'[r] = "ok" => FateOf(r)' = "watched"
BY DEF HandedOver, FateOf

\* A step in which one request moves on without being handed over.
LEMMA OneMoves ==
  ASSUME IInv, HandedOver, NEW r \in Request, rpc[r] # "ok", NEW to, to # "ok",
         rpc' = [rpc EXCEPT ![r] = to], UNCHANGED <<watcher_inbox, sent>>
  PROVE  /\ HandedOver' /\ rpc'[r] = to
         /\ Fate[r] = FateOf(r) /\ Fate' = [Fate EXCEPT ![r] = FateOf(r)']
         /\ Carriers' = Carriers
<1>1. rpc'[r] = to /\ \A q \in Request \ {r} : rpc'[q] = rpc[q]
  BY DEF IInv, TypeOK, RequestTypes
<1>2. HandedOver'
  BY <1>1 DEF HandedOver
<1>3. ASSUME NEW q \in Request \ {r} PROVE FateOf(q)' = FateOf(q)
  <2>1. rpc[q] \in {"start", "waiting", "sending", "ok", "error", "cancelled"}
    BY DEF IInv, TypeOK, RequestTypes
  <2>2. rpc'[q] = rpc[q]
    BY <1>1
  <2>3. QED
    BY <1>2, <2>1, <2>2, Fates, FatesNext
<1>4. Fate[r] = FateOf(r) /\ Fate' = [Fate EXCEPT ![r] = FateOf(r)']
  BY <1>3 DEF Fate
<1>5. Carriers' = Carriers
  BY DEF Carriers
<1>6. QED
  BY <1>1, <1>2, <1>4, <1>5

\* A step that answers no request and hands none over.
LEMMA NoneMoves ==
  ASSUME HandedOver, UNCHANGED <<rpc, watcher_inbox>>,
         \A q \in Request : rpc[q] = "ok" => sent'[q] = sent[q]
  PROVE  HandedOver' /\ UNCHANGED Promise!vars
<1>1. HandedOver'
  BY DEF HandedOver
<1>2. Fate' = Fate
  BY DEF Fate, FateOf
<1>3. Carriers' = Carriers
  BY DEF Carriers, HandedOver
<1>4. QED
  BY <1>1, <1>2, <1>3 DEF Promise!vars

\* A request that asks for the lock is to be published.
LEMMA PromiseCall ==
  ASSUME IInv, HandedOver, NEW r \in Request, Call(r)
  PROVE  HandedOver' /\ Promise!Take(r)
<1>1. /\ rpc[r] = "start" /\ rpc' = [rpc EXCEPT ![r] = "waiting"]
      /\ UNCHANGED <<watcher_inbox, sent>>
  BY DEF Call, Rpc, balancer
<1>2. /\ HandedOver' /\ rpc'[r] = "waiting"
      /\ Fate[r] = FateOf(r) /\ Fate' = [Fate EXCEPT ![r] = FateOf(r)']
      /\ Carriers' = Carriers
  BY <1>1, OneMoves
<1>3. Fate[r] = "new" /\ FateOf(r)' = "publishing"
  BY <1>1, <1>2, Fates, FatesNext
<1>4. QED
  BY <1>2, <1>3 DEF Promise!Take, Promise!Moves

\* A request that fails, or whose caller hangs up, is abandoned.
LEMMA PromiseAbandon ==
  ASSUME IInv, HandedOver, NEW r \in Request, rpc[r] \in {"waiting", "sending"},
         NEW to \in {"error", "cancelled"},
         rpc' = [rpc EXCEPT ![r] = to], UNCHANGED <<watcher_inbox, sent>>
  PROVE  HandedOver' /\ Promise!Abandon(r)
<1>1. /\ HandedOver' /\ rpc'[r] = to
      /\ Fate[r] = FateOf(r) /\ Fate' = [Fate EXCEPT ![r] = FateOf(r)']
      /\ Carriers' = Carriers
  BY OneMoves
<1>2. Fate[r] = "publishing" /\ FateOf(r)' \in {"failed", "hungup"}
  BY <1>1, Fates, FatesNext
<1>3. QED
  BY <1>1, <1>2 DEF Promise!Abandon, Promise!Moves

\* publish picks: the request fails, or goes on, or the process ends.
LEMMA PromisePublish ==
  ASSUME IInv, HandedOver, NEW r \in Request, Publish(r)
  PROVE  HandedOver' /\ (Promise!Abandon(r) \/ UNCHANGED Promise!vars)
<1>1. /\ rpc[r] = "waiting" /\ UNCHANGED <<watcher_inbox, sent>>
      /\ \/ UNCHANGED rpc
         \/ rpc' = [rpc EXCEPT ![r] = "error"]
         \/ rpc' = [rpc EXCEPT ![r] = "sending"]
  BY DEF Publish, Rpc, balancer
<1>2. CASE UNCHANGED rpc
  BY <1>1, <1>2, NoneMoves
<1>3. CASE rpc' = [rpc EXCEPT ![r] = "error"]
  BY <1>1, <1>3, PromiseAbandon
<1>4. CASE rpc' = [rpc EXCEPT ![r] = "sending"]
  <2>1. /\ HandedOver' /\ rpc'[r] = "sending"
        /\ Fate[r] = FateOf(r) /\ Fate' = [Fate EXCEPT ![r] = FateOf(r)']
        /\ Carriers' = Carriers
    BY <1>1, <1>4, OneMoves
  <2>2. FateOf(r)' = Fate[r]
    BY <1>1, <2>1, Fates, FatesNext
  <2>3. Fate' = Fate
    BY <2>1, <2>2 DEF Fate
  <2>4. QED
    BY <2>1, <2>3 DEF Promise!vars
<1>5. QED
  BY <1>1, <1>2, <1>3, <1>4

\* A pick is dealt with; with the last one the request is handed over.
LEMMA PromiseSend ==
  ASSUME IInv, HandedOver, NEW r \in Request, SendOk(r) \/ SendErr(r)
  PROVE  HandedOver' /\ (Promise!HandOver(r) \/ UNCHANGED Promise!vars)
<1>1. rpc[r] = "sending" /\ Advance(r)
  BY DEF SendOk, SendErr, Rpc
<1>2. sent \in [Request -> Seq(Identity)] /\ sent' \in [Request -> Seq(Identity)]
  <2>1. DataTypes'
    BY RequestTypesNext
  <2>2. QED
    BY <2>1 DEF IInv, TypeOK, DataTypes, RequestTypes
<1>3. \A q \in Request \ {r} : sent'[q] = sent[q]
  BY <1>2 DEF SendOk, SendErr
<1>4. CASE Len(todo[r]) = 1
  <2>1. rpc' = [rpc EXCEPT ![r] = "ok"] /\ watcher_inbox' = Append(watcher_inbox, r)
    BY <1>1, <1>4 DEF Advance
  <2>2. Range(watcher_inbox') = Range(watcher_inbox) \cup {r}
    <3>1. watcher_inbox \in Seq(Request)
      BY DEF IInv, TypeOK, BalancerTypes
    <3>2. QED
      BY <2>1, <3>1 DEF Range
  <2>3. rpc'[r] = "ok" /\ \A q \in Request \ {r} : rpc'[q] = rpc[q]
    BY <2>1 DEF IInv, TypeOK, RequestTypes
  <2>4. HandedOver'
    BY <2>2, <2>3 DEF HandedOver
  <2>5. Fate[r] = "publishing" /\ FateOf(r)' = "watched"
    BY <1>1, <2>3, <2>4, Fates, FatesNext DEF Fate
  <2>6. \A q \in Request \ {r} : FateOf(q)' = FateOf(q)
    BY <2>3, <2>4, Fates, FatesNext DEF IInv, TypeOK, RequestTypes
  <2>7. Fate' = [Fate EXCEPT ![r] = "watched"]
    BY <2>5, <2>6 DEF Fate
  <2>8. Carriers'[r] = sent'[r] /\ Carriers' = [Carriers EXCEPT ![r] = sent'[r]]
    BY <1>3, <2>2 DEF Carriers
  <2>9. QED
    BY <1>2, <2>4, <2>5, <2>7, <2>8 DEF Promise!HandOver, Promise!Moves
<1>5. CASE Len(todo[r]) # 1
  <2>1. UNCHANGED <<rpc, watcher_inbox>>
    BY <1>1, <1>5 DEF Advance
  <2>2. \A q \in Request : rpc[q] = "ok" => sent'[q] = sent[q]
    BY <1>1, <1>3
  <2>3. QED
    BY <2>1, <2>2, NoneMoves
<1>6. QED
  BY <1>4, <1>5

\* Sessions, their clients and the refreshing tasks leave the requests alone.
LEMMA RequestsElsewhere ==
  ASSUME [Next]_vars
  PROVE  UNCHANGED <<rpc, sent, watcher_inbox>> \/ \E r \in Request : RequestStep(r)
<1> USE DEF balancer, request
<1>1. CASE UNCHANGED vars
  BY <1>1 DEF vars
<1>2. ASSUME NEW s \in Session, SessionStep(s) \/ ClientStep(s)
      PROVE  UNCHANGED <<rpc, sent, watcher_inbox>>
  BY <1>2 DEF SessionStep, ClientStep, Reject, Connect, Subscribe, UpdateRtt,
     ReceiveMetrics, ReceivePong, ReceiveRtt, StartPing, PingSent,
     Break, Cleanup, ResetMetrics, Deliver, DropReceiver, EndInput, GiveUp
<1>3. ASSUME TaskStep PROVE UNCHANGED <<rpc, sent, watcher_inbox>>
  BY <1>3 DEF TaskStep, NewLeaders, SetLeaders, NewStakes, UpdateStakeWeights, InitMetrics
<1>4. QED
  BY <1>1, <1>2, <1>3 DEF Next

\* Every step of the server is a step of the promise, or does not show.
LEMMA PromiseNext ==
  ASSUME IInv, HandedOver, [Next]_vars
  PROVE  HandedOver' /\ [Promise!Next]_(Promise!vars)
<1>1. CASE UNCHANGED <<rpc, sent, watcher_inbox>>
  BY <1>1, NoneMoves
<1>2. ASSUME NEW r \in Request, RequestStep(r)
      PROVE  HandedOver' /\ (Promise!Next \/ UNCHANGED Promise!vars)
  <2>1. CASE Call(r)
    BY <2>1, PromiseCall DEF Promise!Next
  <2>2. CASE Publish(r)
    BY <2>2, PromisePublish DEF Promise!Next
  <2>3. CASE SendOk(r) \/ SendErr(r)
    BY <2>3, PromiseSend DEF Promise!Next
  <2>4. CASE HangUp(r)
    <3>1. /\ rpc[r] \in {"waiting", "sending"} /\ rpc' = [rpc EXCEPT ![r] = "cancelled"]
          /\ UNCHANGED <<watcher_inbox, sent>>
      BY <2>4 DEF HangUp, balancer
    <3>2. QED
      BY <3>1, PromiseAbandon DEF Promise!Next
  <2>5. QED
    BY <1>2, <2>1, <2>2, <2>3, <2>4 DEF RequestStep
<1>3. QED
  BY <1>1, <1>2, RequestsElsewhere

\* publish implements Delivery up to the hand-over: a request fails, is given up or
\* goes to the watcher, and it goes there once, when all its sends are done.
THEOREM PublishKeepsPromise == Spec => KeepsPromise
<1>1. ASSUME Init PROVE HandedOver /\ Promise!Init
  <2>1. HandedOver
    BY <1>1 DEF Init, HandedOver, Range
  <2>2. Fate = [r \in Request |-> "new"]
    BY <1>1, <2>1, Fates DEF Fate, Init
  <2>3. Carriers \in [Request -> Seq(Identity)]
    BY <1>1, <2>1 DEF Carriers, Init
  <2>4. QED
    BY <2>1, <2>2, <2>3 DEF Promise!Init
<1>2. QED
  BY <1>1, PromiseNext, Invariant, PTL DEF Spec, KeepsPromise, Promise!Spec
==============================================================================
