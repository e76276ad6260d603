---------------------------- MODULE ClientStreams ----------------------------
(***************************************************************************)
(* The connection tasks of the client: the retry loop of client/main.rs,   *)
(* the stream of client/grpc_client.rs, the feeder of client/metrics.rs    *)
(* that every attempt to connect spawns, and the forwarders                *)
(* (client/forwarder.rs, quic_forwarder.rs, rpc_forwarder.rs) that send    *)
(* what the streams deliver.                                               *)
(*                                                                         *)
(* The runtime has several threads, so two tasks may both read a metric    *)
(* before either writes it: reading and writing are two steps wherever the *)
(* code does them by two calls.  A report is reduced to the gauge of       *)
(* permits in it.  What the client sends upstream, its pongs included,     *)
(* goes into an unbounded channel nobody waits for, and is left out.       *)
(***************************************************************************)
EXTENDS Integers, Sequences, FiniteSets, Functions

CONSTANTS
  Stream,        \* connection tasks
  Source,        \* hosts they connect to, labels of the metrics
  SourceOf,      \* the host of a stream
  max_permits,   \* throttle_parallel (1000 by default)
  MaxAttempts,   \* bound on the attempts of a task to connect
  MaxTx,         \* bound on the transactions received
  MaxTpus        \* bound on the TPUs of a transaction

Feeder == Stream \X (1 .. MaxAttempts)          \* one per attempt
Copy   == (1 .. MaxTx) \X (1 .. MaxTpus)        \* forwarding tasks

ASSUME ClientStreamsAssumption ==
  /\ SourceOf \in [Stream -> Source]
  /\ IsFiniteSet(Stream)
  /\ max_permits \in Nat \ {0}
  /\ MaxAttempts \in Nat /\ MaxTx \in Nat /\ MaxTpus \in Nat \ {0}

VARIABLES
  forwarder,   \* which forwarder the parameters ask for
  task,        \* where a connection task is
  attempt,     \* the attempt it is at
  feeder,      \* where the feeder of an attempt is
  report,      \* the report a feeder is sending, until the gauge is reset
  buffer,      \* the channel of reports, of one slot
  arrived,     \* the transactions ever put into the forwarder's channel
  taken,       \* how many of them the forwarder has processed
  copy,        \* where a forwarding task is
  seen,        \* what a forwarding task is about to set the gauge to
  permits_max, \* QUIC_FORWARDER_PERMITS_USED_MAX
  succeeded,   \* TX_FORWARD_SUCCEEDED_COUNT
  failed,      \* TX_FORWARD_FAILED_COUNT
  exited       \* the panic hook has ended the process

streams == <<task, attempt>>
feeders == <<feeder, report, buffer>>
inputs  == <<arrived, taken>>
copies  == <<copy, seen>>
counts  == <<succeeded, failed>>
vars    == <<forwarder, streams, feeders, inputs, copies, permits_max, counts, exited>>

Init ==
  /\ forwarder \in {"quic", "rpc", "blackhole"}
  /\ task = [s \in Stream |-> "delay"] /\ attempt = [s \in Stream |-> 0]
  /\ feeder = [f \in Feeder |-> "none"]
  /\ report = [f \in Feeder |-> 0] /\ buffer = [f \in Feeder |-> <<>>]
  /\ arrived = <<>> /\ taken = 0
  /\ copy = [c \in Copy |-> "none"] /\ seen = [c \in Copy |-> 0]
  /\ permits_max = 0
  /\ succeeded = [h \in Source |-> 0] /\ failed = [h \in Source |-> 0]
  /\ exited = FALSE

(***************************************************************************)
(* A connection task.                                                      *)
(***************************************************************************)

At(s, label) == ~ exited /\ task[s] = label

Goes(s, label) == task' = [task EXCEPT ![s] = label]

\* The feeder of the task's attempt, whose reports the task receives.
Current(s) == <<s, attempt[s]>>

\* The attempt is over: its end of the channel is dropped, with what it holds.
DropReports(s) ==
  buffer' = [f \in Feeder |-> IF f = Current(s) THEN <<>> ELSE buffer[f]]

\* At the start and after every delay: a new feeder, and a new attempt.
spawn_grpc_client(s) ==
  /\ At(s, "delay") /\ attempt[s] < MaxAttempts
  /\ attempt' = [attempt EXCEPT ![s] = @ + 1]
  /\ feeder' = [feeder EXCEPT ![<<s, attempt[s] + 1>>] = "head"]
  /\ Goes(s, "connecting")
  /\ UNCHANGED <<forwarder, report, buffer, inputs, copies, permits_max, counts, exited>>

Connected(s) ==
  /\ At(s, "connecting") /\ Goes(s, "calling")
  /\ UNCHANGED <<forwarder, attempt, feeders, inputs, copies, permits_max, counts,
                 exited>>

\* The TLS files cannot be read, or the server cannot be reached.
ConnectFails(s) ==
  /\ At(s, "connecting") /\ Goes(s, "delay")
  /\ DropReports(s)
  /\ UNCHANGED <<forwarder, attempt, feeder, report, inputs, copies, permits_max,
                 counts, exited>>

StreamOpened(s) ==
  /\ At(s, "calling") /\ Goes(s, "streaming")
  /\ UNCHANGED <<forwarder, attempt, feeders, inputs, copies, permits_max, counts,
                 exited>>

\* client.tx_stream(..).await.unwrap() panics.
CallFails(s) ==
  /\ At(s, "calling")
  /\ exited' = TRUE
  /\ UNCHANGED <<forwarder, streams, feeders, inputs, copies, permits_max, counts>>

\* The arm of the reports: one is passed on; without one and without a feeder the
\* loop breaks, spawn_grpc_client returns Ok and the task ends for good.
ReceiveReport(s) ==
  LET waits == buffer[Current(s)] # <<>>
  IN  /\ At(s, "streaming") /\ (~ waits => feeder[Current(s)] = "done")
      /\ Goes(s, IF waits THEN "streaming" ELSE "ended")
      /\ DropReports(s)
      /\ UNCHANGED <<forwarder, attempt, feeder, report, inputs, copies, permits_max,
                     counts, exited>>

\* The arm of the stream: a transaction for some TPUs goes to the forwarder.
process_transaction(s) ==
  /\ At(s, "streaming") /\ Len(arrived) < MaxTx
  /\ \E tpus \in 0 .. MaxTpus :
       arrived' = Append(arrived, [source |-> SourceOf[s], tpus |-> tpus])
  /\ UNCHANGED <<forwarder, streams, feeders, taken, copies, permits_max, counts,
                 exited>>

\* The stream ends, in order or not.
UpstreamClosed(s) ==
  /\ At(s, "streaming") /\ Goes(s, "delay")
  /\ DropReports(s)
  /\ UNCHANGED <<forwarder, attempt, feeder, report, inputs, copies, permits_max,
                 counts, exited>>

\* A reload takes the task's URL off the list.
Abort(s) ==
  /\ ~ exited /\ task[s] \notin {"aborted", "ended"}
  /\ Goes(s, "aborted")
  /\ DropReports(s)
  /\ UNCHANGED <<forwarder, attempt, feeder, report, inputs, copies, permits_max,
                 counts, exited>>

(***************************************************************************)
(* A feeder.                                                               *)
(***************************************************************************)

\* The receiver of the feeder's channel has been dropped.
Closed(f) ==
  task[f[1]] \notin {"connecting", "calling", "streaming"} \/ attempt[f[1]] # f[2]

\* Plausible slip: a feeder whose last report was not taken gives up.
is_closed_or_full(f) == Closed(f) \/ buffer[f] # <<>>

\* metrics_sender.is_closed()
is_closed(f) == Closed(f)

\* The head of the loop: end it, or make up a report.
FeederHead(f) ==
  /\ ~ exited /\ feeder[f] = "head"
  /\ feeder' = [feeder EXCEPT ![f] = IF is_closed(f) THEN "done" ELSE "send"]
  /\ report' = [report EXCEPT ![f] = IF is_closed(f) THEN 0 ELSE permits_max]
  /\ UNCHANGED <<forwarder, streams, buffer, inputs, copies, permits_max, counts, exited>>

\* Plausible slip: the feeder waits for room even if nobody makes any.
SendReturnsOnRoom(f) == ~ Closed(f) /\ buffer[f] = <<>>

\* send(..).await returns: there is room for the report, or nobody to take it.
SendReturns(f) == Closed(f) \/ buffer[f] = <<>>

\* The report is sent, or lost.
FeederSend(f) ==
  /\ ~ exited /\ feeder[f] = "send" /\ SendReturns(f)
  /\ buffer' = [buffer EXCEPT ![f] = IF Closed(f) THEN <<>> ELSE <<report[f]>>]
  /\ feeder' = [feeder EXCEPT ![f] = "reset"]
  /\ UNCHANGED <<forwarder, streams, report, inputs, copies, permits_max, counts, exited>>

\* In either case the gauge then starts again at 0.
FeederReset(f) ==
  /\ ~ exited /\ feeder[f] = "reset"
  /\ permits_max' = 0
  /\ report' = [report EXCEPT ![f] = 0]
  /\ feeder' = [feeder EXCEPT ![f] = "sleep"]
  /\ UNCHANGED <<forwarder, streams, buffer, inputs, copies, counts, exited>>

FeederWakes(f) ==
  /\ ~ exited /\ feeder[f] = "sleep"
  /\ feeder' = [feeder EXCEPT ![f] = "head"]
  /\ UNCHANGED <<forwarder, streams, report, buffer, inputs, copies, permits_max, counts,
                 exited>>

(***************************************************************************)
(* The forwarders.                                                         *)
(***************************************************************************)

\* Plausible slip: the RPC forwarder sends one copy for every TPU.
CopiesOfEachTpu(n) == IF forwarder = "blackhole" THEN 0 ELSE arrived[n].tpus

\* How many tasks forward the n-th transaction.
CopiesOf(n) == CASE forwarder = "quic" -> arrived[n].tpus
                 [] forwarder = "rpc" -> 1
                 [] forwarder = "blackhole" -> 0

\* process: the tasks are spawned; a blackholed transaction counts as forwarded.
process ==
  LET n == taken + 1
      h == arrived[n].source
  IN  /\ ~ exited /\ taken < Len(arrived)
      /\ taken' = n
      /\ copy' = [c \in Copy |->
           IF c[1] = n /\ c[2] <= CopiesOf(n)
           THEN IF forwarder = "quic" THEN "observe" ELSE "wait" ELSE copy[c]]
      /\ succeeded' = [succeeded EXCEPT ![h] =
                         IF forwarder = "blackhole" THEN @ + 1 ELSE @]
      /\ UNCHANGED <<forwarder, streams, feeders, arrived, seen, permits_max, failed,
                     exited>>

\* Plausible slip: the permit is not given back.
permits_used_kept == Cardinality({c \in Copy : copy[c] \in {"send", "done"}})

\* Permits taken out of the semaphore.
permits_used == Cardinality({c \in Copy : copy[c] = "send"})

\* observe_quic_forwarded_available_permits reads the semaphore and the gauge ...
ObserveRead(c) ==
  /\ ~ exited /\ copy[c] = "observe"
  /\ seen' = [seen EXCEPT ![c] = IF permits_used > permits_max THEN permits_used
                                 ELSE permits_max]
  /\ copy' = [copy EXCEPT ![c] = "observed"]
  /\ UNCHANGED <<forwarder, streams, feeders, inputs, permits_max, counts, exited>>

\* ... and sets the gauge.  Then the task waits for a permit.
ObserveSet(c) ==
  /\ ~ exited /\ copy[c] = "observed"
  /\ permits_max' = seen[c] /\ seen' = [seen EXCEPT ![c] = 0]
  /\ copy' = [copy EXCEPT ![c] = "wait"]
  /\ UNCHANGED <<forwarder, streams, feeders, inputs, counts, exited>>

\* The TPU's address or the transaction's data do not parse.
CopyPanics(c) ==
  /\ ~ exited /\ copy[c] = "observed"
  /\ permits_max' = seen[c]
  /\ exited' = TRUE
  /\ UNCHANGED <<forwarder, streams, feeders, inputs, copies, counts>>

\* Plausible slip: nothing limits the tasks that send.
AvailableAlways == TRUE

Available == permits_used < max_permits

AcquirePermit(c) ==
  /\ ~ exited /\ copy[c] = "wait" /\ Available
  /\ copy' = [copy EXCEPT ![c] = "send"]
  /\ UNCHANGED <<forwarder, streams, feeders, inputs, seen, permits_max, counts, exited>>

\* The transaction is sent, or that fails; the permit is given back.
Sent(c) ==
  LET h == arrived[c[1]].source
  IN  /\ ~ exited /\ copy[c] = "send"
      /\ copy' = [copy EXCEPT ![c] = "done"]
      /\ \/ succeeded' = [succeeded EXCEPT ![h] = @ + 1] /\ UNCHANGED failed
         \/ failed' = [failed EXCEPT ![h] = @ + 1] /\ UNCHANGED succeeded
      /\ UNCHANGED <<forwarder, streams, feeders, inputs, seen, permits_max, exited>>

(***************************************************************************)
(* The client.                                                             *)
(***************************************************************************)

StreamStep(s) ==
  \/ spawn_grpc_client(s) \/ Connected(s) \/ ConnectFails(s) \/ StreamOpened(s)
  \/ CallFails(s) \/ ReceiveReport(s) \/ process_transaction(s)
  \/ UpstreamClosed(s) \/ Abort(s)

FeederStep(f) == FeederHead(f) \/ FeederSend(f) \/ FeederReset(f) \/ FeederWakes(f)

CopyStep(c) == \/ ObserveRead(c) \/ ObserveSet(c) \/ CopyPanics(c)
               \/ AcquirePermit(c) \/ Sent(c)

Next == \/ \E s \in Stream : StreamStep(s)
        \/ \E f \in Feeder : FeederStep(f)
        \/ process
        \/ \E c \in Copy : CopyStep(c)

Spec == Init /\ [][Next]_vars

\* The runtime polls feeders and forwarding tasks, time passes, and sending to a
\* TPU or to an RPC node ends, with an error if need be.  Nothing is assumed of
\* servers: an attempt may stay where it is.
FairSpec == /\ Spec
            /\ \A f \in Feeder : WF_vars(FeederStep(f))
            /\ WF_vars(process)
            /\ \A c \in Copy : WF_vars(CopyStep(c))

(***************************************************************************)
(* Properties.                                                             *)
(***************************************************************************)

\* Every variable stays in its range, and no more tasks send, and no more are ever
\* shown in the gauge, than there are permits.
TypeOK ==
  /\ forwarder \in {"quic", "rpc", "blackhole"}
  /\ task \in [Stream -> {"delay", "connecting", "calling", "streaming", "aborted",
                          "ended"}]
  /\ attempt \in [Stream -> 0 .. MaxAttempts]
  /\ feeder \in [Feeder -> {"none", "head", "send", "reset", "sleep", "done"}]
  /\ report \in [Feeder -> 0 .. max_permits]
  /\ \A f \in Feeder : buffer[f] \in Seq(0 .. max_permits) /\ Len(buffer[f]) <= 1
  /\ arrived \in Seq([source : Source, tpus : 0 .. MaxTpus])
  /\ taken \in 0 .. Len(arrived)
  /\ copy \in [Copy -> {"none", "observe", "observed", "wait", "send", "done"}]
  /\ seen \in [Copy -> 0 .. max_permits] /\ permits_max \in 0 .. max_permits
  /\ permits_used <= max_permits
  /\ succeeded \in [Source -> Nat] /\ failed \in [Source -> Nat]
  /\ exited \in BOOLEAN

\* A connection is retried until its task is aborted: the retry loop's break is
\* never reached, because a feeder outlives the stream it feeds.
RetryNeverEnds == \A s \in Stream : task[s] # "ended"

\* Forwarding tasks of a source that have not finished.
OpenCopies(h) ==
  {c \in Copy : copy[c] \notin {"none", "done"} /\ arrived[c[1]].source = h}

\* The books of a source balance: every copy of a transaction that was processed
\* (one for each TPU, or one in all) is on its way, or counted once as succeeded
\* or failed, whatever became of the stream that brought it.
ForwardBooks ==
  \A h \in Source :
    LET mine == {n \in 1 .. taken : arrived[n].source = h}
        due  == CASE forwarder = "quic" ->
                       Cardinality({c \in Copy : c[1] \in mine
                                                 /\ c[2] <= arrived[c[1]].tpus})
                  [] OTHER -> Cardinality(mine)
    IN  succeeded[h] + failed[h] + Cardinality(OpenCopies(h)) = due

\* The feeder of an attempt that is over ends, also if it was waiting to send.
FeedersEnd ==
  \A f \in Feeder : feeder[f] # "none" /\ Closed(f) ~> feeder[f] = "done" \/ exited

\* Every forwarding task gets its permit and ends.
CopiesEnd == \A c \in Copy : copy[c] # "none" ~> copy[c] = "done" \/ exited

\* "QUIC concurrent tasks created at any single moment since the last metric feed
\* to the server" (client/metrics.rs:37): the gauge is reset only when the report
\* that was fed has shown its value.
PermitsFed ==
  [][\A f \in Feeder : feeder[f] = "reset" /\ feeder'[f] = "sleep"
       => report[f] >= permits_max]_vars
==============================================================================
