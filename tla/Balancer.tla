------------------------------- MODULE Balancer ------------------------------
(***************************************************************************)
(* The server's core: the balancer (server/balancer.rs), the client        *)
(* sessions that register with it (server/grpc_server.rs, tx_stream), the  *)
(* RPC requests that publish through it (server/rpc_server.rs), the two    *)
(* tasks that refresh it (balancer_updater; the stake loop of              *)
(* server/main.rs) and the gauges they maintain (server/metrics.rs).       *)
(*                                                                         *)
(* A session is one gRPC stream, named by the random token it draws, so    *)
(* tokens are distinct.  Reconnecting clients are sessions that share an   *)
(* identity.  Everything a task does between two awaits is one step.  A    *)
(* writer never awaits while it holds the RwLock, so acquiring it, writing *)
(* and releasing it are one step; publish awaits each send with the read   *)
(* lock held, so a sending request is a reader for many steps.             *)
(***************************************************************************)
EXTENDS Picking, Functions

CONSTANTS
  Session,      \* gRPC streams, i.e. tokens
  Identity,     \* certificate common names, validators' identities
  IdentityOf,   \* the identity a session's certificate shows
  NoIdentity,   \* no readable certificate
  NoSession,    \* no token
  Request,      \* sendPriorityTransaction calls
  PING,         \* the ping message
  Updater,      \* the balancer_updater task
  StakeTask,    \* the task that refreshes the stake weights
  Capacity,     \* bound of a session's message channel (100 in the code)
  LeaderSets,   \* the sets of leaders balancer_updater may come up with
  StakeMaps,    \* the stake weights the cluster may report
  Inputs,       \* kinds of client messages: "metrics", "rtt", "pong"
  U64,          \* number of values of a u64 (2^64 in the code)
  RttSamples,   \* the values of rtt messages
  MaxRtt,       \* bound on the rtt messages counted per identity
  MaxPings      \* bound on the pings of a session

Task == Session \cup Request \cup {Updater, StakeTask}

ASSUME BalancerAssumption ==
  /\ IdentityOf \in [Session -> Identity \cup {NoIdentity}]
  /\ NoIdentity \notin Identity /\ NoSession \notin Session
  /\ Session \cap Request = {}
  /\ Updater \notin Session \cup Request /\ StakeTask \notin Session \cup Request
  /\ Updater # StakeTask /\ PING \notin Request
  /\ IsFiniteSet(Identity)
  /\ Capacity \in Nat \ {0}
  /\ LeaderSets \subseteq SUBSET Identity
  /\ \A m \in StakeMaps : \A i \in DOMAIN m : m[i] \in Nat
  /\ Inputs \subseteq {"metrics", "rtt", "pong"}
  /\ U64 \in Nat \ {0} /\ RttSamples \subseteq 0 .. U64 - 1
  /\ MaxRtt \in 0 .. U64 - 1 /\ MaxPings \in Nat

VARIABLES
  \* Balancer
  tx_consumers,           \* identity -> its TxConsumer, or NoConsumer
  stake_weights,          \* identity -> stake, for the validators known
  total_connected_stake,
  leaders,                \* the current leaders; leader_tpus are their TPUs
  rtt_values,             \* identity -> running average and count
  watcher_inbox,          \* requests handed to the signature watcher
  \* RwLock<Balancer>
  queue,                  \* tasks waiting for the lock, first come first served
  \* sessions
  pc,                     \* where the session's task is
  chan,                   \* the mpsc channel towards the client
  last_ping,              \* id of the last ping
  unsubscribed,           \* sessions whose oneshot has fired
  rx_dropped,             \* sessions whose channel's receiver is gone
  input_ended,            \* sessions whose input stream has ended
  \* requests
  rpc,                    \* where the request is
  todo,                   \* the picks still to be sent to, as tokens
  sent,                   \* SignatureRecord.consumers
  \* metrics
  consumers_gauge,        \* SERVER_TOTAL_CONNECTED_TX_CONSUMERS
  stake_gauge,            \* SERVER_TOTAL_CONNECTED_STAKE, per identity
  ping_labels,            \* identities with a CLIENT_PING_RTT series
  client_labels,          \* identities with CLIENT_TX_* and CLIENT_MEMORY_* series
  metrics_ready,          \* init_metrics has run
  exited                  \* the panic hook has ended the process

balancer == <<tx_consumers, stake_weights, total_connected_stake, leaders,
              rtt_values, watcher_inbox>>
session  == <<pc, chan, last_ping, unsubscribed, rx_dropped, input_ended>>
request  == <<rpc, todo, sent>>
gauges   == <<consumers_gauge, stake_gauge, ping_labels, client_labels,
              metrics_ready>>
vars     == <<balancer, queue, session, request, gauges, exited>>

NoConsumer == [token |-> NoSession, stake |-> 0, do_unsubscribe |-> FALSE]

NoLabel == -1   \* the gauge has no series for the identity

\* Identities with an entry in the map tc.
ConnectedIn(tc) == {i \in Identity : tc[i].token # NoSession}

Connected == ConnectedIn(tx_consumers)

Registered(s) == \E i \in Identity : tx_consumers[i].token = s

Init ==
  /\ tx_consumers = [i \in Identity |-> NoConsumer]
  /\ stake_weights = <<>>
  /\ total_connected_stake = 0
  /\ leaders = {}
  /\ rtt_values = [i \in Identity |-> [rtt |-> 0, n |-> 0]]
  /\ watcher_inbox = <<>>
  /\ queue = <<>>
  /\ pc = [s \in Session |-> "start"]
  /\ chan = [s \in Session |-> <<>>]
  /\ last_ping = [s \in Session |-> 0]
  /\ unsubscribed = {} /\ rx_dropped = {} /\ input_ended = {}
  /\ rpc = [r \in Request |-> "start"]
  /\ todo = [r \in Request |-> <<>>]
  /\ sent = [r \in Request |-> <<>>]
  /\ consumers_gauge = 0
  /\ stake_gauge = [i \in Identity |-> NoLabel]
  /\ ping_labels = {} /\ client_labels = {}
  /\ metrics_ready = FALSE
  /\ exited = FALSE

(***************************************************************************)
(* tokio's RwLock is fair: tasks get it in the order they asked for it.    *)
(***************************************************************************)

Readers == {r \in Request : rpc[r] = "sending"}

Enqueue(t) == queue' = Append(queue, t)

\* A task that is dropped while it waits leaves the queue.
LeaveQueue(t) ==
  \E k \in 1 .. Len(queue) : queue[k] = t /\ queue' = RemoveAt(queue, k)

\* Plausible slip: a writer does not wait for the readers.
GrantedAnyway(t) == queue # <<>> /\ Head(queue) = t

\* The lock goes to t: a reader joins the readers, a writer waits for them.
Granted(t) == /\ queue # <<>> /\ Head(queue) = t
              /\ t \in Request \/ Readers = {}

(***************************************************************************)
(* What the write-locked methods of Balancer do to the map.                *)
(***************************************************************************)

\* stake_weights.get(identity).unwrap_or(&1)
stake_of(weights, i) == IF i \in DOMAIN weights THEN weights[i] ELSE 1

\* Plausible slip: the gauge of connected consumers is left alone.
recalc_no_gauge(shown, left) ==
  /\ UNCHANGED consumers_gauge
  /\ stake_gauge' = [i \in Identity |-> IF i \in ConnectedIn(shown)
                                       THEN shown[i].stake ELSE stake_gauge[i]]
  /\ total_connected_stake' = SumFunction([i \in Identity |-> left[i].stake])

\* recalc_total_connected_stake, with the maps `shown` when it last set the
\* series of the identities in it and `left` when it returned.
recalc_total_connected_stake(shown, left) ==
  /\ consumers_gauge' = Cardinality(ConnectedIn(left))
  /\ stake_gauge' = [i \in Identity |-> IF i \in ConnectedIn(shown)
                                       THEN shown[i].stake ELSE stake_gauge[i]]
  /\ total_connected_stake' = SumFunction([i \in Identity |-> left[i].stake])

\* Plausible slip: a dropped consumer does not tell its session.
DroppedSilently(identities) == UNCHANGED unsubscribed

\* Consumers taken out of the map are dropped, which fires their oneshot.
Dropped(identities) ==
  unsubscribed' = unsubscribed \cup
                    ({tx_consumers[i].token : i \in identities} \ {NoSession})

\* unsubscribe called for the consumers of a set of identities, one by one:
\* each call recalculates, so that only the first one is out of the map
\* before any series is set.
RemoveConsumers(identities) ==
  LET left == [i \in Identity |-> IF i \in identities THEN NoConsumer
                                  ELSE tx_consumers[i]]
  IN  /\ tx_consumers' = left
      /\ Dropped(identities)
      /\ IF identities = {}
         THEN UNCHANGED <<consumers_gauge, stake_gauge, total_connected_stake>>
         ELSE \E i \in identities :
                recalc_total_connected_stake(
                  [tx_consumers EXCEPT ![i] = NoConsumer], left)

\* Plausible slip: unsubscribe does not compare the tokens.
unsubscribe_any(s) == RemoveConsumers({IdentityOf[s]} \cap Connected)

\* unsubscribe(identity, token), from a session's own clean-up.
unsubscribe(s) ==
  RemoveConsumers({i \in {IdentityOf[s]} : tx_consumers[i].token = s})

flush_unsubscribes == RemoveConsumers({i \in Connected : tx_consumers[i].do_unsubscribe})

(***************************************************************************)
(* A session (tx_stream).                                                  *)
(***************************************************************************)

\* The session's task is here, and the process is running.
At(s, label) == ~ exited /\ pc[s] = label

\* A client without an identity is refused.
Reject(s) ==
  /\ At(s, "start") /\ IdentityOf[s] = NoIdentity
  /\ pc' = [pc EXCEPT ![s] = "rejected"]
  /\ UNCHANGED <<balancer, queue, chan, last_ping, unsubscribed, rx_dropped,
                 input_ended, request, gauges, exited>>

\* An identified client asks for the write lock.
Connect(s) ==
  /\ At(s, "start") /\ IdentityOf[s] # NoIdentity
  /\ pc' = [pc EXCEPT ![s] = "subscribe"]
  /\ Enqueue(s)
  /\ UNCHANGED <<balancer, chan, last_ping, unsubscribed, rx_dropped,
                 input_ended, request, gauges, exited>>

\* subscribe: replaces, and so drops, the consumer of the same identity.
Subscribe(s) ==
  LET i == IdentityOf[s]
      consumer == [token |-> s, stake |-> stake_of(stake_weights, i),
                   do_unsubscribe |-> FALSE]
  IN  /\ At(s, "subscribe") /\ Granted(s)
      /\ tx_consumers' = [tx_consumers EXCEPT ![i] = consumer]
      /\ Dropped({i})
      /\ recalc_total_connected_stake(tx_consumers', tx_consumers')
      /\ pc' = [pc EXCEPT ![s] = "select"]
      /\ queue' = Tail(queue)
      /\ UNCHANGED <<stake_weights, leaders, rtt_values, watcher_inbox, chan,
                     last_ping, rx_dropped, input_ended, request, ping_labels,
                     client_labels, metrics_ready, exited>>

\* The client is gone before it has been subscribed: the handler is dropped.
GiveUp(s) ==
  /\ At(s, "subscribe") /\ LeaveQueue(s)
  /\ pc' = [pc EXCEPT ![s] = "gone"]
  /\ UNCHANGED <<balancer, chan, last_ping, unsubscribed, rx_dropped,
                 input_ended, request, gauges, exited>>

\* handle_client_metrics sets the client's own gauges.
ReceiveMetrics(s) ==
  /\ At(s, "select") /\ s \notin input_ended /\ "metrics" \in Inputs
  /\ client_labels' = client_labels \cup {IdentityOf[s]}
  /\ UNCHANGED <<balancer, queue, session, request, consumers_gauge,
                 stake_gauge, ping_labels, metrics_ready, exited>>

\* handle_client_pong observes a pong that echoes the last ping; before the
\* first ping that is one with the id 0.
ReceivePong(s) ==
  /\ At(s, "select") /\ s \notin input_ended /\ "pong" \in Inputs
  /\ ping_labels' = ping_labels \cup {IdentityOf[s]}
  /\ UNCHANGED <<balancer, queue, session, request, consumers_gauge,
                 stake_gauge, client_labels, metrics_ready, exited>>

\* An rtt message needs the write lock.
ReceiveRtt(s) ==
  /\ At(s, "select") /\ s \notin input_ended /\ "rtt" \in Inputs
  /\ rtt_values[IdentityOf[s]].n < MaxRtt
  /\ pc' = [pc EXCEPT ![s] = "rtt"]
  /\ Enqueue(s)
  /\ UNCHANGED <<balancer, chan, last_ping, unsubscribed, rx_dropped,
                 input_ended, request, gauges, exited>>

\* Plausible slip: the old average is weighted by the new count.
new_rtt_slot_wrong(slot, value) ==
  [rtt |-> (((slot.n + 1) * slot.rtt + value) % U64) \div (slot.n + 1),
   n   |-> slot.n + 1]

\* The running average of update_rtt, in the arithmetic of the release build:
\* product and sum wrap.  (A debug build would panic where they overflow.)
new_rtt_slot(slot, value) ==
  [rtt |-> ((slot.n * slot.rtt + value) % U64) \div (slot.n + 1),
   n   |-> slot.n + 1]

UpdateRtt(s) ==
  /\ At(s, "rtt") /\ Granted(s)
  /\ \E value \in RttSamples :
       rtt_values' = [rtt_values EXCEPT ![IdentityOf[s]] =
                        new_rtt_slot(rtt_values[IdentityOf[s]], value)]
  /\ pc' = [pc EXCEPT ![s] = "select"]
  /\ queue' = Tail(queue)
  /\ UNCHANGED <<tx_consumers, stake_weights, total_connected_stake, leaders,
                 watcher_inbox, chan, last_ping, unsubscribed, rx_dropped,
                 input_ended, request, gauges, exited>>

\* Every ten seconds the session sends a ping, and waits for the channel.
StartPing(s) ==
  /\ At(s, "select") /\ last_ping[s] < MaxPings
  /\ last_ping' = [last_ping EXCEPT ![s] = @ + 1]
  /\ pc' = [pc EXCEPT ![s] = "ping"]
  /\ UNCHANGED <<balancer, queue, chan, unsubscribed, rx_dropped, input_ended,
                 request, gauges, exited>>

\* Plausible slip: the ping does not wait for a free slot.
PingSentNoWait(s) ==
  /\ At(s, "ping") /\ s \notin rx_dropped
  /\ chan' = [chan EXCEPT ![s] = Append(@, PING)]
  /\ pc' = [pc EXCEPT ![s] = "select"]
  /\ UNCHANGED <<balancer, queue, last_ping, unsubscribed, rx_dropped,
                 input_ended, request, gauges, exited>>

PingSent(s) ==
  /\ At(s, "ping") /\ s \notin rx_dropped /\ Len(chan[s]) < Capacity
  /\ chan' = [chan EXCEPT ![s] = Append(@, PING)]
  /\ pc' = [pc EXCEPT ![s] = "select"]
  /\ UNCHANGED <<balancer, queue, last_ping, unsubscribed, rx_dropped,
                 input_ended, request, gauges, exited>>

\* Plausible slip: the loop does not listen to the oneshot.
MustBreakDeaf(s) ==
  \/ At(s, "select") /\ s \in input_ended \cup rx_dropped
  \/ At(s, "ping") /\ s \in rx_dropped

\* Plausible slip: a ping that cannot be sent is tried again, for ever.
MustBreakPingIgnored(s) ==
  At(s, "select") /\ s \in unsubscribed \cup input_ended \cup rx_dropped

\* The arms that end the loop: the oneshot, the end of the input stream, the
\* closed channel, or a ping that cannot be sent.
MustBreak(s) ==
  \/ At(s, "select") /\ s \in unsubscribed \cup input_ended \cup rx_dropped
  \/ At(s, "ping") /\ s \in rx_dropped

\* Break out of the loop, and ask for the write lock to clean up.
Break(s) ==
  /\ MustBreak(s)
  /\ pc' = [pc EXCEPT ![s] = "cleanup"]
  /\ Enqueue(s)
  /\ UNCHANGED <<balancer, chan, last_ping, unsubscribed, rx_dropped,
                 input_ended, request, gauges, exited>>

\* Plausible slip: the clean-up forgets the client's metrics.
CleanupNoReset(s) ==
  /\ At(s, "cleanup") /\ Granted(s)
  /\ unsubscribe(s)
  /\ pc' = [pc EXCEPT ![s] = "done"]
  /\ queue' = Tail(queue)
  /\ UNCHANGED <<stake_weights, leaders, rtt_values, watcher_inbox, chan,
                 last_ping, rx_dropped, input_ended, request, ping_labels,
                 client_labels, metrics_ready, exited>>

Cleanup(s) ==
  /\ At(s, "cleanup") /\ Granted(s)
  /\ unsubscribe(s)
  /\ pc' = [pc EXCEPT ![s] = "reset"]
  /\ queue' = Tail(queue)
  /\ UNCHANGED <<stake_weights, leaders, rtt_values, watcher_inbox, chan,
                 last_ping, rx_dropped, input_ended, request, ping_labels,
                 client_labels, metrics_ready, exited>>

\* reset_client_metrics runs after the lock is released.
ResetMetrics(s) ==
  /\ At(s, "reset")
  /\ ping_labels' = ping_labels \ {IdentityOf[s]}
  /\ stake_gauge' = [stake_gauge EXCEPT ![IdentityOf[s]] = NoLabel]
  /\ pc' = [pc EXCEPT ![s] = "done"]
  /\ UNCHANGED <<balancer, queue, chan, last_ping, unsubscribed, rx_dropped,
                 input_ended, request, consumers_gauge, client_labels,
                 metrics_ready, exited>>

(***************************************************************************)
(* The client's end of a stream, and the network (external).               *)
(***************************************************************************)

Streaming(s) ==
  ~ exited /\ pc[s] \in {"select", "rtt", "ping", "cleanup"}

\* The client takes a message off the stream.
Deliver(s) ==
  /\ ~ exited /\ chan[s] # <<>>
  /\ chan' = [chan EXCEPT ![s] = Tail(@)]
  /\ UNCHANGED <<balancer, queue, pc, last_ping, unsubscribed, rx_dropped,
                 input_ended, request, gauges, exited>>

\* The response stream is dropped, with what it still holds.
DropReceiver(s) ==
  /\ Streaming(s) /\ s \notin rx_dropped
  /\ rx_dropped' = rx_dropped \cup {s}
  /\ chan' = [chan EXCEPT ![s] = <<>>]
  /\ UNCHANGED <<balancer, queue, pc, last_ping, unsubscribed, input_ended,
                 request, gauges, exited>>

\* The client closes its half of the stream.
EndInput(s) ==
  /\ Streaming(s) /\ s \notin input_ended
  /\ input_ended' = input_ended \cup {s}
  /\ UNCHANGED <<balancer, queue, pc, chan, last_ping, unsubscribed,
                 rx_dropped, request, gauges, exited>>

(***************************************************************************)
(* A request (send_priority_transaction, publish).                         *)
(***************************************************************************)

\* The request is here, and the process is running.
Rpc(r, label) == ~ exited /\ rpc[r] = label

\* A transaction to be forwarded asks for the read lock.
Call(r) ==
  /\ Rpc(r, "start")
  /\ rpc' = [rpc EXCEPT ![r] = "waiting"]
  /\ Enqueue(r)
  /\ UNCHANGED <<balancer, session, todo, sent, gauges, exited>>

\* The picks pick_consumers may return now.
CurrentPicks ==
  UNION {Picks(order, [i \in Connected |-> tx_consumers[i].stake],
               total_connected_stake, leaders) : order \in SetToSeqs(Connected)}

\* publish picks the consumers: the pick panics and the panic hook ends the
\* process, it is empty and the request fails, or sending begins.
Publish(r) ==
  /\ Rpc(r, "waiting") /\ Granted(r)
  /\ queue' = Tail(queue)
  /\ \E pick \in CurrentPicks :
       \/ /\ Panics(Cardinality(leaders), Len(pick.list))
          /\ exited' = TRUE
          /\ UNCHANGED <<rpc, todo>>
       \/ /\ ~ Panics(Cardinality(leaders), Len(pick.list))
          /\ pick.list = <<>>
          /\ rpc' = [rpc EXCEPT ![r] = "error"]
          /\ UNCHANGED <<todo, exited>>
       \/ /\ ~ Panics(Cardinality(leaders), Len(pick.list))
          /\ pick.list # <<>>
          /\ rpc' = [rpc EXCEPT ![r] = "sending"]
          /\ todo' = [todo EXCEPT ![r] = [k \in 1 .. Len(pick.list) |->
                                          tx_consumers[pick.list[k]].token]]
          /\ UNCHANGED exited
  /\ UNCHANGED <<balancer, session, sent, gauges>>

\* Plausible slip: the record goes to the watcher with the first pick.
AdvanceEarly(r) ==
  /\ todo' = [todo EXCEPT ![r] = Tail(@)]
  /\ rpc' = [rpc EXCEPT ![r] = IF Len(todo[r]) = 1 THEN "ok" ELSE @]
  /\ watcher_inbox' = IF r \in Range(watcher_inbox) THEN watcher_inbox
                      ELSE Append(watcher_inbox, r)

\* One pick is dealt with.  After the last one the record goes to the watcher,
\* the read lock is released and the request answered.
Advance(r) ==
  /\ todo' = [todo EXCEPT ![r] = Tail(@)]
  /\ IF Len(todo[r]) = 1
     THEN /\ rpc' = [rpc EXCEPT ![r] = "ok"]
          /\ watcher_inbox' = Append(watcher_inbox, r)
     ELSE UNCHANGED <<rpc, watcher_inbox>>

\* The message fits into the client's channel.
SendOk(r) ==
  /\ Rpc(r, "sending")
  /\ LET s == Head(todo[r])
     IN  /\ s \notin rx_dropped /\ Len(chan[s]) < Capacity
         /\ chan' = [chan EXCEPT ![s] = Append(@, r)]
         /\ sent' = [sent EXCEPT ![r] = Append(@, IdentityOf[s])]
  /\ Advance(r)
  /\ UNCHANGED <<tx_consumers, stake_weights, total_connected_stake, leaders,
                 rtt_values, queue, pc, last_ping, unsubscribed, rx_dropped,
                 input_ended, gauges, exited>>

\* Plausible slip: a channel that is full counts as disconnected.
SendFails(s) == s \in rx_dropped \/ Len(chan[s]) = Capacity

\* Plausible slip: a send to a dropped receiver never completes.
SendHangs(s) == FALSE

\* send fails when the receiver is gone.
SendErrs(s) == s \in rx_dropped

\* The failing consumer is flagged for flush_unsubscribes.
SendErr(r) ==
  /\ Rpc(r, "sending")
  /\ LET s == Head(todo[r])
     IN  /\ SendErrs(s)
         /\ tx_consumers' = [i \in Identity |->
              [tx_consumers[i] EXCEPT !.do_unsubscribe =
                 @ \/ tx_consumers[i].token = s]]
  /\ Advance(r)
  /\ UNCHANGED <<stake_weights, total_connected_stake, leaders, rtt_values,
                 queue, session, sent, gauges, exited>>

\* The caller hangs up and the handler's future is dropped: it leaves the lock's
\* queue, or releases the lock in the middle of its sends.
HangUp(r) ==
  /\ ~ exited /\ rpc' = [rpc EXCEPT ![r] = "cancelled"]
  /\ \/ rpc[r] = "waiting" /\ LeaveQueue(r) /\ UNCHANGED todo
     \/ rpc[r] = "sending" /\ todo' = [todo EXCEPT ![r] = <<>>] /\ UNCHANGED queue
  /\ UNCHANGED <<balancer, session, sent, gauges, exited>>

(***************************************************************************)
(* The tasks that refresh the balancer.                                    *)
(***************************************************************************)

\* balancer_updater has resolved a new set of leaders.
NewLeaders ==
  /\ ~ exited /\ LeaderSets # {}
  /\ \A k \in 1 .. Len(queue) : queue[k] # Updater
  /\ Enqueue(Updater)
  /\ UNCHANGED <<balancer, session, request, gauges, exited>>

\* set_leaders, then flush_unsubscribes, under one write lock.
SetLeaders ==
  /\ ~ exited /\ Granted(Updater)
  /\ leaders' \in LeaderSets
  /\ flush_unsubscribes
  /\ queue' = Tail(queue)
  /\ UNCHANGED <<stake_weights, rtt_values, watcher_inbox, pc, chan, last_ping,
                 rx_dropped, input_ended, request, ping_labels, client_labels,
                 metrics_ready, exited>>

\* The stake task has fetched the stakes of a new epoch.
NewStakes ==
  /\ ~ exited /\ StakeMaps # {}
  /\ \A k \in 1 .. Len(queue) : queue[k] # StakeTask
  /\ Enqueue(StakeTask)
  /\ UNCHANGED <<balancer, session, request, gauges, exited>>

\* update_stake_weights, which does not recalculate the total.
UpdateStakeWeights ==
  /\ ~ exited /\ Granted(StakeTask)
  /\ stake_weights' \in StakeMaps
  /\ tx_consumers' = [i \in Identity |->
       IF i \in Connected
       THEN [tx_consumers[i] EXCEPT !.stake = stake_of(stake_weights', i)]
       ELSE tx_consumers[i]]
  /\ queue' = Tail(queue)
  /\ UNCHANGED <<total_connected_stake, leaders, rtt_values, watcher_inbox,
                 session, request, gauges, exited>>

\* metrics::spawn's task gets to run.
InitMetrics ==
  /\ ~ exited /\ ~ metrics_ready
  /\ metrics_ready' = TRUE
  /\ consumers_gauge' = 0
  /\ UNCHANGED <<balancer, queue, session, request, stake_gauge, ping_labels,
                 client_labels, exited>>

(***************************************************************************)
(* The server.                                                             *)
(***************************************************************************)

SessionStep(s) ==
  \/ Reject(s) \/ Connect(s) \/ Subscribe(s) \/ GiveUp(s)
  \/ ReceiveMetrics(s) \/ ReceivePong(s) \/ ReceiveRtt(s) \/ UpdateRtt(s)
  \/ StartPing(s) \/ PingSent(s) \/ Break(s) \/ Cleanup(s) \/ ResetMetrics(s)

ClientStep(s) == Deliver(s) \/ DropReceiver(s) \/ EndInput(s)

RequestStep(r) ==
  Call(r) \/ Publish(r) \/ SendOk(r) \/ SendErr(r) \/ HangUp(r)

TaskStep == NewLeaders \/ SetLeaders \/ NewStakes \/ UpdateStakeWeights
            \/ InitMetrics

Next == \/ \E s \in Session : SessionStep(s) \/ ClientStep(s)
        \/ \E r \in Request : RequestStep(r)
        \/ TaskStep

Spec == Init /\ [][Next]_vars

\* The runtime polls every task that can go on, and select! picks among the
\* ready arms at random, so that no arm is passed over forever.  Clients keep
\* reading their stream: the code sets no timeout on a client that does not.
Fairness ==
  /\ \A s \in Session :
       /\ WF_vars(Subscribe(s)) /\ WF_vars(UpdateRtt(s))
       /\ WF_vars(PingSent(s)) /\ SF_vars(Break(s))
       /\ WF_vars(Cleanup(s)) /\ WF_vars(ResetMetrics(s))
       /\ WF_vars(Deliver(s))
  /\ \A r \in Request :
       /\ WF_vars(Publish(r))
       /\ WF_vars(SendOk(r) \/ SendErr(r))
  /\ WF_vars(SetLeaders) /\ WF_vars(UpdateStakeWeights)

FairSpec == Spec /\ Fairness

(***************************************************************************)
(* Safety.                                                                 *)
(***************************************************************************)

Consumer == [token : Session \cup {NoSession}, stake : Nat,
             do_unsubscribe : BOOLEAN]

BalancerTypes ==
  /\ tx_consumers \in [Identity -> Consumer]
  /\ stake_weights \in StakeMaps \cup {<<>>}
  /\ leaders \in SUBSET Identity
  /\ rtt_values \in [Identity -> [rtt : 0 .. U64 - 1, n : Nat]]
  /\ watcher_inbox \in Seq(Request)

SessionTypes ==
  /\ pc \in [Session -> {"start", "rejected", "subscribe", "select", "rtt",
                         "ping", "cleanup", "reset", "done", "gone"}]
  /\ chan \in [Session -> Seq(Request \cup {PING})]
  /\ \A s \in Session : Len(chan[s]) <= Capacity
  /\ last_ping \in [Session -> 0 .. MaxPings]
  /\ unsubscribed \in SUBSET Session /\ rx_dropped \in SUBSET Session
  /\ input_ended \in SUBSET Session

RequestTypes ==
  /\ rpc \in [Request -> {"start", "waiting", "sending", "ok", "error",
                       "cancelled"}]
  /\ todo \in [Request -> Seq(Session)]
  /\ sent \in [Request -> Seq(Identity)]

GaugeTypes ==
  /\ consumers_gauge \in Nat
  /\ stake_gauge \in [Identity -> Nat \cup {NoLabel}]
  /\ ping_labels \in SUBSET Identity /\ client_labels \in SUBSET Identity

FlagTypes == metrics_ready \in BOOLEAN /\ exited \in BOOLEAN

\* Every variable stays in its range, and no channel exceeds its capacity.
TypeOK == /\ BalancerTypes /\ SessionTypes /\ RequestTypes /\ GaugeTypes
          /\ FlagTypes /\ queue \in Seq(Task)

\* A client leaves the map only to its own reconnection, or because its stream
\* is really gone: no clean-up of an old session, no flush, no failing send
\* ever removes a client that is still there (unsubscribe's token check).
ClientKept ==
  [][\A i \in Identity :
       LET old == tx_consumers[i].token
           new == tx_consumers'[i].token
       IN  old \notin {new, NoSession} =>
             \/ new \in Session /\ IdentityOf[new] = i /\ pc[new] = "subscribe"
             \/ new = NoSession /\ old \in rx_dropped \cup input_ended]_vars

\* A session whose loop is running is in the map, or its oneshot has fired:
\* no client stays connected without being offered transactions, unknowing.
StreamingOrTold ==
  \A s \in Session :
    pc[s] \in {"select", "rtt", "ping"} => Registered(s) \/ s \in unsubscribed

\* Only consumers whose channel is closed are flagged for removal.
FlaggedAreClosed ==
  \A i \in Identity :
    tx_consumers[i].do_unsubscribe => tx_consumers[i].token \in rx_dropped

\* The consumers a request is still to send to stay in the map until it has:
\* publish holds the read lock across its awaits.
PicksStayRegistered ==
  \A r \in Request : \A k \in 1 .. Len(todo[r]) :
    rpc[r] = "sending" => Registered(todo[r][k])

\* The two kinds of series that reset_client_metrics is there to remove, the
\* connected stake and the ping times of an identity, exist only while some
\* session of that identity is still to call it, although recalculating a total
\* re-creates the series of every consumer and the reset happens outside the
\* lock.  (The CLIENT_TX_* and CLIENT_MEMORY_* series, client_labels, are never
\* removed by the code; nothing is said of them.)
ResetSeriesOwned ==
  \A i \in Identity :
    stake_gauge[i] # NoLabel \/ i \in ping_labels =>
      \E s \in Session : /\ IdentityOf[s] = i
                         /\ pc[s] \in {"select", "rtt", "ping", "cleanup", "reset"}

\* Whenever a client joins or leaves, the gauge get_health reads is set to the
\* number of connected consumers.
GaugeFollowsMap ==
  [][Connected # ConnectedIn(tx_consumers')
       => consumers_gauge' = Cardinality(ConnectedIn(tx_consumers'))]_vars

\* n samples, whatever they are, add up to a u64.
NoOverflow(n) == \A v \in RttSamples : n * v < U64

\* As long as an identity's samples cannot add up to more than a u64 holds, its
\* running average is between the smallest and the largest sample, the rounding
\* of every update included.  (Nothing in the code limits a sample: once the
\* product of update_rtt wraps, the average can be anything.)
RttInRange ==
  \A i \in Identity : rtt_values[i].n > 0 /\ NoOverflow(rtt_values[i].n) =>
    /\ \E v \in RttSamples : v <= rtt_values[i].rtt
    /\ \E v \in RttSamples : rtt_values[i].rtt <= v

(***************************************************************************)
(* Liveness, under Fairness.                                               *)
(***************************************************************************)

\* Every request gets its answer, unless the process exits: no wait for the
\* lock or for room in a channel lasts forever while clients read or leave.
RequestAnswered ==
  \A r \in Request : rpc[r] = "waiting" ~>
    rpc[r] \in {"ok", "error", "cancelled"} \/ exited

\* A client whose stream is gone leaves the map.
DepartedRemoved ==
  \A s \in Session : s \in rx_dropped ~> ~ Registered(s) \/ exited

\* A session that was taken out of the map ends.
ToldEnds == \A s \in Session : s \in unsubscribed ~> pc[s] = "done" \/ exited

(***************************************************************************)
(* What comments and documentation say.                                    *)
(***************************************************************************)

\* publish drops a transaction with "no available clients" (balancer.rs:218)
\* only when no client is connected.
FailsOnlyWithoutClients ==
  [][\A r \in Request : rpc[r] # rpc'[r] /\ rpc'[r] = "error"
       => Connected = {}]_vars

(***************************************************************************)
(* What the server promises about a call, up to the hand-over.             *)
(***************************************************************************)

FateOf(r) ==
  IF r \in Range(watcher_inbox) THEN "watched"
  ELSE CASE rpc[r] = "start" -> "new"
         [] rpc[r] \in {"waiting", "sending"} -> "publishing"
         [] rpc[r] = "error" -> "failed"
         [] rpc[r] = "cancelled" -> "hungup"
         [] rpc[r] = "ok" -> "lost"

Fate     == [r \in Request |-> FateOf(r)]
Carriers == [r \in Request |-> IF r \in Range(watcher_inbox) THEN sent[r] ELSE <<>>]

Promise == INSTANCE Delivery WITH
  Partner <- {"caller"},
  Lists <- Seq(Identity),
  fate <- Fate,
  owner <- [r \in Request |-> "caller"],
  carriers <- Carriers,
  tally <- [p \in {"caller"} |-> 0]

\* publish implements Delivery: a request fails, is given up by its caller, or goes
\* to the watcher once all its sends are done, with a list of carriers that does
\* not change any more.
KeepsPromise == Promise!Spec
==============================================================================
