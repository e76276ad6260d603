# A TLA+ development for mTransaction

mTransaction is a server (`server/`) that takes Solana transactions over JSON-RPC
and hands each of them to a few validators that run its client (`client/`), chosen
by stake and by who is about to produce blocks. This directory models both. Of the
server: the registry of clients and the lock around it, the clients' sessions, the
picks, authentication, publishing, the watcher of signatures, and the feeds of leaders
and stakes. Of the client: the tasks it keeps per server and their reload, the
connections and their retries, the forwarders and the feeder of metrics. TLC checks
the models on small instances; TLAPS proves every safety property the runs check, and
both refinements, for all instances.

Paths below are relative to `src/`.

## Inventory

| Component | State | Operations | Hard part |
|---|---|---|---|
| Balancer, `server/balancer.rs` | map identity -> consumer (token, stake, channel, oneshot, flag), stake weights, their total, leaders, round-trip times | subscribe, unsubscribe, publish, set_leaders, flush_unsubscribes, update_stake_weights, update_rtt | publish awaits sends with the read lock held; a failed send is remembered in a flag and acted upon later |
| Picks, same file | none | pick_consumers, sample_consumer_stake_weighted | a lottery over a map without order; division of leaders into chunks |
| Client sessions, `server/grpc_server.rs` | where the session's task is, channel, last ping | connect, metrics, rtt, pong, ping, break, clean-up | a client reconnects before its old session has cleaned up; clean-up is partly outside the lock |
| RPC server, `server/rpc_server.rs` | calls in progress | sendPriorityTransaction, sendTransaction, getHealth | the same lock; publish may take long |
| Signature watcher, `server/solana_service.rs` | queue of records, bundles being checked | queue, bundle, check | records arrive out of order; calls to the chain fail |
| Leader feed, `server/solana_service.rs`, `server/balancer.rs` | schedule, last leaders, validators' records | refresh, slot notification, resolve, set_leaders | epochs end, refreshes fail, notifications are late |
| Stake loop, `server/main.rs` | last epoch | ask, fetch, update | the epoch turns between two calls |
| Metrics, `server/metrics.rs` | gauges and counters | init_metrics, reset_client_metrics | a gauge is what getHealth reads; series belong to identities, not to sessions |
| Authentication, `server/auth.rs`, `server/rpc_server.rs` | the key, if any | extract, authenticate, select_mode | none, but every answer depends on it |
| Client tasks, `client/main.rs` | list of URLs, handle per URL, channel of one list | read, signal, reload, build_tasks | signals are merged, lists wait for one another, handles are overwritten |
| Client streams, `client/main.rs`, `client/grpc_client.rs` | where the task is, attempt | connect, stream, retry, abort | what an attempt leaves behind; which results end the retries |
| Client feeder, `client/metrics.rs` | one task per attempt, channel of one report, a global gauge | make up a report, send, reset, sleep | the gauge is reset after an await and shared by all feeders |
| Client forwarders, `client/*forwarder.rs` | channel of transactions, semaphore, counters | process, observe, acquire, send | one task per TPU, all of them behind one semaphore |
| TLS, HTTP sources, gossip, start-up, demo, scripts | | | not modelled: parsing, I/O |

They interact through the balancer's `RwLock` (sessions, requests, updater, stake
loop), one bounded channel per client, a oneshot per session that fires when its
consumer is dropped, an unbounded channel of records to the watcher, an unbounded
channel of leader sets to the updater, and the global gauges. In the client: a channel
of one list from the signal handler to the main task, a channel of one report from
each feeder to its stream, an unbounded channel of transactions to the forwarder, a
semaphore, and the global gauge and counters.

What makes each of them correct, and what is asked of the models:

- *Registry*: a client is not removed while it is there (`ClientKept`), is not left
  unserved unknowingly (`StreamingOrTold`), does leave when it is gone
  (`DepartedRemoved`, `ToldEnds`).
- *Publishing*: references into the map stay valid (`PicksStayRegistered`), only
  closed clients get flagged (`FlaggedAreClosed`), every request is answered
  (`RequestAnswered`).
- *Picks*: the quota is filled, leaders get their copies, nobody is without a leader
  (`QuotaFilled`, `LeadersHaveCopies`, `EntriesHaveTpu`).
- *Metrics*: the count follows the map (`GaugeFollowsMap`); the series of stake and of
  ping times, which a session is to reset, do not outlive the sessions of their client
  (`ResetSeriesOwned`); an average that has not overflowed is one of its samples' range
  (`RttInRange`).
- *Watcher*: every transaction accepted is accounted for once (`BooksBalance`,
  `OnePlace`), consumers are not credited for what they did not carry
  (`NoUndueCredit`), none is overlooked (`DueInFront`, `PublishedIsCounted`).
- *A call as a whole*: it is dismissed, given up or published, and what is published is
  counted once for its partner (`KeepsPromise`, of `Balancer` and of `Transactions`).
- *Feeds*: no change is lost (`NoChangeLost`, `LeadersFollowed`), the balancer's leaders
  are up in the window of the last slot notified (`LeadersUpcoming`), the producer of a
  slot is among the leaders (`ProducerAnnounced`), stakes are those of the epoch (`StakesNotOlder`,
  `StakesFollowed`).
- *Client tasks*: exactly the servers listed have a task that can be aborted
  (`OneTaskPerUrl`), and the file that was signalled last comes into use
  (`NoReloadLost`, `ReloadApplied`).
- *Client streams*: a connection is retried until it is aborted (`RetryNeverEnds`),
  and what it leaves behind ends (`FeedersEnd`, `CopiesEnd`) and is accounted for
  (`ForwardBooks`).

## Modules

| Module | What it is |
|---|---|
| `Picking` | pick_consumers and its sampling in closed form, as sets of outcomes |
| `PickConsumers`, `MCPickConsumers` | one call of pick_consumers, loop by loop, over all small inputs |
| `Balancer`, `MCBalancer` | registry, sessions, publishing, refresh tasks, gauges; uses `Picking` |
| `Delivery` | what the server promises about a call; abstract, implemented by `Balancer` and `Transactions` |
| `Transactions`, `MCTransactions` | authentication, the RPC handler and the signature watcher around publish |
| `ClusterFeeds`, `MCClusterFeeds` | leaders_stream, balancer_updater, stake loop |
| `ClientTasks`, `MCClientTasks` | the client's file of servers, its reload and the connection tasks |
| `ClientStreams`, `MCClientStreams` | connections and retries, feeders, forwarders |
| `PickingProofs`, `PickConsumersProofs`, `BalancerProofs`, `TransactionsProofs`, `DeliveryProofs`, `ClusterFeedsProofs`, `ClientTasksProofs`, `ClientStreamsProofs` | theorems about the module named, `DeliveryProofs` about `Transactions` and its refinement of `Delivery` |

`PROJECT.json` maps each definition to the lines it models. A definition whose
comment starts with "Plausible slip" is not part of a model: it is a wrong variant of
the definition that follows it, with which the property named in `PROJECT.json` fails.

### Balancer

*State.* `tx_consumers[i]` is the entry of identity `i`, or `NoConsumer`. A session
is named by its token: the code draws 16 random characters, taken to be distinct.
`IdentityOf` is what the certificate shows, so reconnecting clients are sessions with
the same identity. `pc[s]` says which await the session's task is in; `rpc[r]` the
same for a request, `todo[r]` the picks it has not sent to. `queue` is the fair queue
of tokio's `RwLock`; who is in `Readers` holds the read lock.

*Steps.* What a task does between two awaits is one step. Writers do not await while
they hold the lock, so their step happens when they reach the head of the queue and no
reader is left (`Granted`). `Publish` picks and becomes a reader; `SendOk` and
`SendErr` are the sends, which wait for room in the channel; after the last one the
record goes to the watcher and the lock is released. `Break` collects the arms of the
session's `select!` that end its loop; an rtt update and a ping are awaited inside
their arm and cannot be interrupted, except that a ping to a dropped receiver fails.
`RemoveConsumers` serves both a session's unsubscribe and the flush, which calls
unsubscribe in the map's order: the gauge series that are set on the way depend on
which consumer goes first. A panic (`chunks(0)`) ends the process: `exited`.

*Abstractions.* A map's iteration order is chosen anew by each pick, which allows
every order the code may meet. `leaders` and `leader_tpus` always change together and
are one set of identities. Round-trip times are kept for one address per identity;
their average is computed modulo `U64`, which stands for 2^64, as `mtx-server` is shipped
as a release build (`.github/workflows/release.yaml:23`); a debug build would panic where
this wraps. The sums of stakes are not given a width: lamports of all validators together
are far below 2^64.
A client message with several parts is several messages.

*Cancellation.* The server drops the future of a call whose peer goes away. `GiveUp`
is a client that does so while its session waits to subscribe, `HangUp` a caller that
does so while its request waits for the lock or sends: either leaves the lock's queue
or gives up the read lock, and nothing goes to the watcher. A session's own task is
spawned and not dropped.

### Transactions

The handler runs from authentication to publish without an await and is one step per
outcome. What a caller sends is chosen when the call arrives: a header
(`Header`, reduced to the questions `authorization_header_auth` asks of it), then
whether config and data are good. `Auths` is whom the extractor may take the caller
for, with a key and without one; a header that is no text panics, as does data that is
no base64, and the panic hook ends the server. The mode is drawn by `select_mode`.
Publish returns at any time with an error or with some list of consumers, in which a
client may appear several times, as sampling is with replacement, or nobody; or the
caller hangs up before it does. `age[r]` is the age of the record's `created_at`, which
the watcher sets anew when it queues the record, up to the first second at which it is
due. One round of the watcher's inner loop drains all bundles. What the chain says of
a bundle, or that it says nothing, is chosen when the checker runs.

### Delivery

The abstract specification: a call is `new`, then `dismissed`, or `publishing` for an
owner; then `failed`, `hungup` or `watched` with its carriers fixed; and `watched` calls
are counted in sets, each once, for their owner. `Transactions` implements all of it:
`Fate` reads the fate off the answer and off where the record is, `Owner` is the partner
of a call that was taken on, `Tally` the sum of the partner's two counters. A record the
watcher loses would be `counted` without the tally rising, and one it counts twice a
tally without a call, so `KeepsPromise` is an end-to-end statement about the watcher.
`Balancer` implements the part up to `watched`: its `Carriers` are the clients whose
send succeeded, and they change only in the step in which publish returns.

### ClusterFeeds

`Schedules` is what the cluster would answer per epoch; `schedule` what
leaders_stream has. Each call to the cluster succeeds with the present state or fails,
if its kind is in `Failures`. A failed refresh ends leaders_stream (`?`), a missing
schedule panics, failed records or stakes are skipped. `taken` and `leaders_info` are
local to balancer_updater's arm; waiting for the lock is a step, during which
notifications go on. `Upcoming` is what the window of a slot should be, an interval of
the epoch, where `current_leaders` computes it in strides. `LeadersUpcoming` says by which
slot the balancer's leaders are up, the last one notified, and not how long ago that was:
when leaders_stream has ended or lost its subscription, leaders stay. The stake loop's `last_epoch` starts as 0, so that epoch 0 of a
cluster is no news (`News`) and its stakes are never loaded; from epoch 1 on they are.

### ClientTasks

`file` is what the file of servers holds: how often each entry is listed, or something
that cannot be read. A list of URLs is the number of times each is in it: its order
decides only in which order tasks are spawned, all in one step. `Edit` and `Sighup` are
the operator; the code waits in `signals.next()` and sees several signals as one.
`HandleSignal` reads the file, `SendList` is the send into the channel of one list,
`Reload` a round of the main loop, which takes the lock around `all_tasks` but has no
rival for it. `all_tasks` is the set of URLs with a handle; `detached[u]` counts the
tasks for `u` whose handle another one was inserted over. `signalled` is a history
variable: has a SIGHUP come since the last edit?

### ClientStreams

`task[s]` says which await a connection task is in, `attempt[s]` the attempt it is at.
Every attempt spawns a feeder, so feeders of earlier attempts and the present one run
side by side. `Closed` is what tokio's channel knows: the receiver is a local of
`spawn_grpc_client` and dropped when that returns or is aborted. A failed connection,
a stream that ends and an `Err` inside it are told apart as the code does: the first
two return an error and are retried, the third is only logged; a failed call of
`tx_stream` panics. Reading the gauge and setting it (`ObserveRead`, `ObserveSet`),
and making up a report, sending it and resetting the gauge (`FeederHead`, `FeederSend`,
`FeederReset`), are separate steps, because other threads run in between. `forwarder` is the choice of
`spawn_forwarder`; the RPC forwarder's task starts where it waits for a permit.

## Runs

Passing runs, with the mutant of each property in `PROJECT.json`:

| Run | Instance | Shows |
|---|---|---|
| `pick` | up to 3 consumers with stakes 0..2, totals 0..7 (fresh or stale), 6 leader lists of 0 to 7 leaders; 4 consumers that are all leaders; 3 picks, 2 copies as in the code | the loops compute the closed form of `Picking`; quota, copies and TPUs |
| `reconnect` | two sessions of A, one of B, one request, changes of leaders with their flush, capacity 1; the sessions of A are symmetric | joins, replacements, departures and flushes in every order; what a sending request refers to stays in the map |
| `inputs` | a session of A and one without identity, one request, no leader and then one that runs no client, a change of stakes, every client message, a ping, capacity 1; `U64` = 8, three round-trip times of 2 or 3 | types, channel bound, series that are reset, running averages with all tasks at work |
| `balancer_liveness` | two sessions of A, one request, one ping each, with fairness | clean-up of gone and of replaced clients, answers |
| `transactions` | 3 calls, with and without a key, two partners, one of them a test partner; publish that ends with nobody, or with one client twice and another once; bundles of 2, records due one second after they were stamped; with fairness | books, credits, queue, bundles, end-to-end counting, the refinement of `Delivery` |
| `cluster_feeds` | epochs of 2 slots with a leader each, 2 leaders ahead, 4 slots from epoch 0 to epoch 2, all failures, with fairness | feeds |
| `client_tasks` | two good URLs and a malformed one, lists with a duplicate, an empty entry, none, or unreadable; 4 edits, any number of signals, with fairness | reload |
| `client_streams` | a task with 3 attempts, all three forwarders, a transaction for up to 2 TPUs, one permit, with fairness | retries, feeders, forwarding tasks |

Why these bounds are enough for the cases in mind: two sessions of one identity and
one of another give every order of replacement, clean-up and reset; a capacity of 1
makes a channel full after one message; bundles of 2 and three records give a full
and a partial bundle, and queues of mixed age; four slots cross two epochs with
the window running over their ends; three attempts give feeders of two earlier
attempts beside the present one; two TPUs and one permit make a forwarding task wait.
Two round-trip times of 3 fit below 8 and three do not, so averages are rounded, and also
wrap, in the model. The waits for a ping and for an rtt update are reached in `inputs`
and `balancer_liveness`, not in `reconnect`; what several sessions of one identity do to
the series of ping times is left to the proof of `ResetSeriesOwned`.
With one client and one leader every publish of `inputs` fails, goes out before the leader
is set, or panics; picks among more leaders are the subject of `pick`.
Four edits are one more than the stages a list passes through (offer, channel, list in
use). Deadlock is not checked: all calls may be over, all
sessions closed, the bound on slots reached, or the process exited.

Violations, each a disagreement between the code and what a comment, message or
document says (details under `findings` in `PROJECT.json`):

| Run | What happens |
|---|---|
| `pick_returns` | fewer known leaders than picks: `chunks(0)` panics, the panic hook ends the server |
| `fails_only_without_clients` | stakes fall, the total is not recalculated, a sample finds nobody, publish says no client is available |
| `success_means_no_error` | transactions that failed on chain are counted as successes |
| `permits_fed` | permits used while a report waits to be sent are wiped from the gauge and are in no report |

Also noticed while modelling, and visible in the models, but without a run of their
own:

- sampling weighs a consumer with `stake + 1` and draws below the sum of the stakes,
  so consumers at the end of the map's order may not be drawn (`server/balancer.rs:134`);
- `reset_client_metrics` of a replaced session removes the series of its successor
  until the next recalculation (`server/grpc_server.rs:237`);
- the `CLIENT_TX_*`, `CLIENT_QUIC_FORWARDER_PERMITS_USED_MAX` and
  `CLIENT_MEMORY_PHYSICAL` series of a client are removed by nobody: they keep their last
  values after the client has gone (`client_labels` only grows; `server/metrics.rs:119`);
- a client chooses the round-trip times it reports, as 64-bit numbers: with large ones
  `slot.n * slot.rtt + value.rtt` overflows, and the average leaves the range of the
  samples, or a debug build panics and exits; nothing reads the averages so far
  (`server/balancer.rs:288`);
- `init_metrics` runs in a task of its own and may zero the gauge after a client has
  joined; getHealth then fails until the map changes (`server/metrics.rs:147`);
- a client picked twice for a transaction is credited twice
  (`server/solana_service.rs:248`), and a failed call for the statuses is a timeout of
  the partner, not of the consumers (`server/solana_service.rs:275`);
- publish returns Ok, and the caller gets a signature, when every send failed
  (`server/balancer.rs:253`);
- the schedule is refreshed every hour and not when the epoch ends, so slots of a new
  epoch are looked up in the old schedule until then (`server/solana_service.rs:103`);
- towards the end of an epoch the window looked ahead is cut off: the first leaders of
  the next epoch are not announced before it begins (`server/solana_service.rs:108`);
- one failed refresh ends leaders_stream, and a lost subscription silences it; the
  balancer keeps its last leaders for good (`server/solana_service.rs:103`);
- leaders are resolved when they are announced: one whose record arrives later is not
  among the balancer's leaders before the leaders change (`server/balancer.rs:370`);
- a caller that hangs up in the middle of publish has sent its transaction to some
  clients, and nothing watches for it (`server/rpc_server.rs:199`);
- a URL listed twice gets two tasks and one handle; the first task cannot be aborted
  any more, and as both have the client's identity, the server replaces one by the
  other again and again (`client/main.rs:301`);
- `retry` is never reset, so that after a minute's worth of failures every
  reconnection waits for the longest delay (`client/main.rs:198`);
- a server that refuses `tx_stream`, or a URL that does not parse in a reloaded file,
  ends the client with its connections to all other servers
  (`client/grpc_client.rs:77`, `client/main.rs:286`);
- the QUIC forwarder counts a success or failure per TPU, the others per transaction,
  while `tx_received` is per transaction (`client/quic_forwarder.rs:84`);
- the gauge of permits is one for the process: each feeder resets what the others have
  not reported, and a task that read it before a reset writes the old value back
  (`client/metrics.rs:43`);
- the JavaScript example of `README.md` sends no config, which the handler refuses
  ("config options are mandatory").

### Fairness

The runtime polls every task that is ready: weak fairness of the steps of a session,
a request, the updater, the stake loop, the watcher and, in the client, of the signal
handler, the main task, the feeders and the forwarding tasks (their sends end, if need
be with an error). `select!` starts with a
random arm, so an arm that is ready again and again is taken: strong fairness of
`Break` and of `TakeLeaders`. tokio's lock is fair by its queue, which is in the
model. Two assumptions are about the world and not the code: clients keep
reading their stream (`Deliver`), since the code sets no timeout on a send, and a
client that neither reads nor leaves blocks publish with the lock held; and a call
that is repeated for ever is not always a failure (stake loop). Nothing is assumed
about when slots, schedules, stakes, clients, requests or signals come, nor about the
servers a client connects to.

## Proofs

TLAPS checks the theorems below for every value of the constants that satisfies the
assumption named in the component's module; TLC evaluates these assumptions on every
run. Each invariant is proved from an inductive one, `IInv`, which TLC was asked about
first. The proof that a step keeps `IInv` has a lemma per action or per group of
actions that touch the same variables.

`PickConsumersProofs`, for any map of consumers, any stakes and total, any list of
leaders, and any `N_CONSUMERS` and `N_COPIES` (from `PickingAssumption` and
`InputsAssumption`: the iteration order has no repetition, stakes and total are
natural numbers):

| Theorem | States |
|---|---|
| `TypeCorrect` | `TypeOK` |
| `LoopsComputeClosedForm` | `MatchesClosedForm` |
| `QuotaIsFilled` | `QuotaFilled` |
| `LeadersCopied` | `LeadersHaveCopies` |
| `EntriesServed` | `EntriesHaveTpu` |

`IInv` has a part per loop: the leaders picked are those seen so far, in the map's order
(`LeadersInv`); a walk has passed exactly the consumers whose weights do not exceed the
point (`WalkInv`); every further pick is the result of a sample, and the loop ended at
the quota or at a sample without a result (`SampleInv`); the TPUs of an entry are its
own and those of the chunks dealt out (`DealInv`). `PickingProofs` has what the closed
form itself gives: the sums over the map exist and grow, so that a point falls on one
consumer at most (`HitIs`); below an up-to-date total it always falls on one
(`FreshTotalHits`); copies of a leader go to different entries (`CopiesDiffer`); no entry
is left without a leader unless the call panics (`EveryEntryServed`). That
`MatchesClosedForm` is a theorem means that `Balancer`, which uses the closed form,
loses nothing of the loops. `accumulated_sum` and `connected_stake` are recursive
functions; that they exist, and what they are, is proved by looking at the least index
at which it fails (`LeastElement`, from the library's `WFMin`), since the provers cannot
use the library's induction theorems.

`BalancerProofs`, for every set of sessions, identities and requests, every capacity,
and any leaders and stakes (from `BalancerAssumption` and `PickingAssumption`:
identities are finite, names of tasks are distinct, stakes are natural numbers, samples
are below `U64`, whatever that is):

| Theorem | States |
|---|---|
| `TypeCorrect` | `TypeOK`, the bound on channels included |
| `NoForgottenClient` | `StreamingOrTold` |
| `FlushIsSafe` | `FlaggedAreClosed` |
| `SendsToRegistered` | `PicksStayRegistered` |
| `ResetIsStillDue` | `ResetSeriesOwned` |
| `OnlyLostClientsLeave` | `ClientKept` |
| `JoinsAndLeavesCounted` | `GaugeFollowsMap` |
| `AveragesStayInRange` | `RttInRange` |
| `PublishKeepsPromise` | `KeepsPromise`: publish implements `Delivery` |

The inductive invariant `IInv` adds to these: past the certificate check a session has
an identity (`HasIdentity`); an entry belongs to a session of its identity which has
not cleaned up (`OwnToken`, without which a clean-up could hit a stranger); a session
in the map has not been told to go, and only sessions that joined are told
(`InMapNotTold`, `ToldHadJoined`); a session in the map that is about to clean up has
lost its client (`LeavingIsGone`, what `ClientKept` rests on); a sending request has
somebody left to send to (`SendingHasTodo`). Most steps leave the tokens of the map
alone: they are shown to be `Quiet`, and `Quiet` keeps everything (`QuietKeeps`).
Subscribe, clean-up and flush change the map and need the lock to themselves
(`WriterAlone`); both kinds of removal are one lemma (`RemovalKeeps`). The averages rest
on `AverageBounds`, about the rounding division of `update_rtt`, and on `SumKept`: where
the samples cannot add up to more than a u64 holds, nothing wraps. For the refinement one
more invariant is needed: the watcher has the records of exactly the requests that were
answered with ok (`HandedOver`); then each step changes the fate of one request in the
way `Delivery` allows, or that of none.

`TransactionsProofs` and `DeliveryProofs`, for any number of calls, any size of
bundles and any age of the check (from `TransactionsAssumption`):

| Theorem | States |
|---|---|
| `TypeCorrect` | `TypeOK` |
| `RecordsInOnePlace` | `OnePlace` |
| `DueRecordsInFront` | `DueInFront` |
| `BooksAlwaysBalance` | `BooksBalance` |
| `CreditIsDue` | `NoUndueCredit` |
| `ServerKeepsPromise` | `KeepsPromise`: the handler and the watcher implement `Delivery` |

The records in the channel, the queue and the bundles are distinct and in one of them
only (`OnePlace`), and the queue is ordered by age (`OldestFirst`), because records are
stamped when they are queued; so taking the old ones from the front takes all of them.
`BundlesPartition` is the heart: splitting the old part into bundles neither drops nor
repeats a record, for any bundle size. On it rest the books: what the watcher holds was
published and answered (`WatchedAreOk`), only calls to be forwarded are published and
carriers are known of answered ones only (`HandlerInv`), so a check moves the records of
its bundle from open to counted, one for one (`CheckTally`), and credits their carriers
no more than their mentions (`SplitMentions`). The refinement is a lemma per action.

`ClusterFeedsProofs`, for any length of epochs, any schedules, any look-ahead and any
failures (from `ClusterFeedsAssumption`: every epoch has a schedule for all of its slots):

| Theorem | States |
|---|---|
| `TypeCorrect` | `TypeOK` |
| `ChangesArrive` | `NoChangeLost` |
| `LeadersAreUpcoming` | `LeadersUpcoming` |
| `StakesKeepUp` | `StakesNotOlder` |
| `ProducerIsAnnounced` | `ProducerAnnounced` |

What waits for the lock was resolved from the leaders taken last (`ResolvedAreTaken`), and
what is in the balancer otherwise is among them (`LeadersAreTaken`); these are the last
ones announced once the channel is empty (`NoChangeLost`), and were announced by the
schedule of an epoch that has begun (`AnnouncedInv`), in whose window the strides of
`current_leaders` stay (`WindowUpcoming`);
the epoch the stake loop was told is not ahead of the cluster, nor of the stakes it then
fetched (`EpochNotAhead`), which is what the order of its two calls is for.

`ClientTasksProofs`, for any set of URLs, any contents of the file and any number of
edits and signals (from `ClientTasksAssumption`):

| Theorem | States |
|---|---|
| `TypeCorrect` | `TypeOK` |
| `TasksMatchUrls` | `OneTaskPerUrl` |
| `ReloadsArrive` | `NoReloadLost` |

Every list in hand was read from some version of the file (`ListsAreRead`), and a
readable file whose signal was handled is the newest of them (`SignalledIsNewest`),
wherever it waits.

`ClientStreamsProofs`, for any number of tasks, attempts, transactions, TPUs and permits
(from `ClientStreamsAssumption`):

| Theorem | States |
|---|---|
| `TypeCorrect` | `TypeOK`, the bounds on permits and gauge included |
| `RetriesGoOn` | `RetryNeverEnds` |
| `BooksBalance` | `ForwardBooks` |

The feeder of an attempt that is not over has not ended (`StreamInv`), so a stream can
never end without an error and be taken for done; tasks that send hold a permit each
(`PermitInv`); no task forwards a transaction that has not been processed (`ForwardInv`).

Only model-checked: liveness (the prover has no rule for fairness), and that the
recalculated `total_connected_stake` of `Balancer`, a fold over the map, is a natural
number and a sum; `BalancerProofs` needs neither.

## Not modelled

- *What a client sends upstream.* Reports and pongs go into an unbounded channel that
  nobody waits for; the server's side of them is in `Balancer` (`ReceiveMetrics`,
  `ReceivePong`), with any order and loss.
- *Numbers in logs and metrics* that nothing in the code reads back: counters by TPU
  address, latencies, memory, versions, and the HTTP endpoints that render metrics.
- *Reading certificates, TLS, tokens' cryptography, JSON and base64*: whether each of
  them succeeds is a choice of the models.
- *Sources of validator records* (gossip, HTTP): their result, or its failure, is an
  input of `ClusterFeeds`.
- *Start-up*: parameters and spawning. A failure there ends the process before there
  is anything to say about it. The panic hooks of server and client are `exited`.

## Plan

What is left to prove is small: that the fold in `recalc_total_connected_stake` of
`Balancer` is the sum `Picking` calls `connected_stake`, which would carry
`QuotaFilled` over to the picks of a running server between two changes of stakes.
