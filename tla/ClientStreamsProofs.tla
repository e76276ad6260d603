------------------------- MODULE ClientStreamsProofs -------------------------
(***************************************************************************)
(* Theorems about module ClientStreams, for any number of connection       *)
(* tasks, attempts, transactions, TPUs and permits.                        *)
(***************************************************************************)
EXTENDS ClientStreams, FiniteSetTheorems, SequenceTheorems, TLAPS

(***************************************************************************)
(* The inductive invariant, in parts that share few variables.             *)
(***************************************************************************)

Connecting == {"connecting", "calling", "streaming"}

\* Connection tasks and feeders.  The feeder of an attempt that is not over has not
\* ended, so the arm of the reports never breaks the loop.
StreamInv ==
  /\ task \in [Stream -> {"delay", "aborted"} \cup Connecting]
  /\ attempt \in [Stream -> 0 .. MaxAttempts]
  /\ feeder \in [Feeder -> {"none", "head", "send", "reset", "sleep", "done"}]
  /\ \A s \in Stream : task[s] \in Connecting =>
       attempt[s] # 0 /\ feeder[Current(s)] \in {"head", "send", "reset", "sleep"}

CopyTypes == copy \in [Copy -> {"none", "observe", "observed", "wait", "send", "done"}]

Sending == {c \in Copy : copy[c] = "send"}

\* Permits and the gauge.
PermitInv ==
  /\ CopyTypes
  /\ Cardinality(Sending) <= max_permits
  /\ seen \in [Copy -> 0 .. max_permits] /\ permits_max \in 0 .. max_permits
  /\ report \in [Feeder -> 0 .. max_permits]
  /\ buffer \in [Feeder -> Seq(0 .. max_permits)]
  /\ \A f \in Feeder : Len(buffer[f]) <= 1

\* The transactions a source has brought and the forwarder has processed.
Mine(h) == {n \in 1 .. taken : arrived[n].source = h}

DueCopies(h) == {c \in Copy : c[1] \in Mine(h) /\ c[2] <= arrived[c[1]].tpus}

Due(h) == IF forwarder = "quic" THEN Cardinality(DueCopies(h)) ELSE Cardinality(Mine(h))

Books == \A h \in Source : succeeded[h] + failed[h] + Cardinality(OpenCopies(h)) = Due(h)

\* No task forwards a transaction the forwarder has not come to.
Fresh == \A c \in Copy : c[1] > taken => copy[c] = "none"

InputTypes ==
  /\ forwarder \in {"quic", "rpc", "blackhole"}
  /\ arrived \in Seq([source : Source, tpus : 0 .. MaxTpus]) /\ Len(arrived) <= MaxTx
  /\ taken \in 0 .. Len(arrived)
  /\ succeeded \in [Source -> Nat] /\ failed \in [Source -> Nat]

ForwardInv == CopyTypes /\ InputTypes /\ Fresh /\ Books

IInv == StreamInv /\ PermitInv /\ ForwardInv /\ exited \in BOOLEAN

(***************************************************************************)
(* Finite sets of copies.                                                  *)
(***************************************************************************)

\* There are finitely many copies, so their numbers are natural numbers.
LEMMA CopiesAreFinite ==
  ASSUME NEW C \in SUBSET Copy
  PROVE  IsFiniteSet(C) /\ Cardinality(C) \in Nat
<1>1. IsFiniteSet(1 .. MaxTx) /\ IsFiniteSet(1 .. MaxTpus)
  BY ClientStreamsAssumption, FS_Interval
<1>2. IsFiniteSet(Copy)
  BY <1>1, FS_Product DEF Copy
<1>3. IsFiniteSet(C)
  BY <1>2, FS_Subset
<1>4. QED
  BY <1>3, FS_CardinalityType

\* A set of transactions is finite.
LEMMA MineIsFinite ==
  ASSUME NEW k \in Nat, NEW M \in SUBSET (1 .. k)
  PROVE  IsFiniteSet(M) /\ Cardinality(M) \in Nat
<1>1. IsFiniteSet(1 .. k)
  BY FS_Interval
<1>2. IsFiniteSet(M)
  BY <1>1, FS_Subset
<1>3. QED
  BY <1>2, FS_CardinalityType

\* Disjoint finite sets add up.
LEMMA DisjointUnion ==
  ASSUME NEW S, NEW T, IsFiniteSet(S), IsFiniteSet(T), S \cap T = {}
  PROVE  Cardinality(S \cup T) = Cardinality(S) + Cardinality(T)
<1>1. Cardinality(S) \in Nat /\ Cardinality(T) \in Nat
  BY FS_CardinalityType
<1>2. Cardinality(S \cap T) = 0
  BY FS_EmptySet
<1>3. Cardinality(S \cup T) = Cardinality(S) + Cardinality(T) - Cardinality(S \cap T)
  BY FS_Union
<1>4. QED
  BY <1>1, <1>2, <1>3

\* Copies and feeders are pairs.
LEMMA Pairs ==
  /\ \A c \in Copy : /\ c[1] \in 1 .. MaxTx /\ c[2] \in 1 .. MaxTpus
                     /\ c = <<c[1], c[2]>>
  /\ \A f \in Feeder : /\ f[1] \in Stream /\ f[2] \in 1 .. MaxAttempts
                       /\ f = <<f[1], f[2]>>
BY DEF Copy, Feeder

(***************************************************************************)
(* Connection tasks and feeders.                                           *)
(***************************************************************************)

\* While an attempt lasts, its feeder is one of the feeders.
LEMMA CurrentIsFeeder ==
  ASSUME StreamInv, NEW s \in Stream, task[s] \in Connecting
  PROVE  /\ Current(s) \in Feeder
         /\ feeder[Current(s)] \in {"head", "send", "reset", "sleep"}
<1>1. attempt[s] \in 1 .. MaxAttempts
  BY ClientStreamsAssumption DEF StreamInv
<1>2. QED
  BY <1>1 DEF StreamInv, Current, Feeder

\* A step of a connection task: none ends the retry loop.
LEMMA StreamInvStream ==
  ASSUME StreamInv, NEW s \in Stream, StreamStep(s)
  PROVE  StreamInv'
<1>1. CASE spawn_grpc_client(s)
  <2> DEFINE n == attempt[s] + 1
  <2>1. n \in 1 .. MaxAttempts /\ <<s, n>> \in Feeder
    BY <1>1, ClientStreamsAssumption DEF spawn_grpc_client, StreamInv, Feeder
  <2>2. /\ attempt' = [attempt EXCEPT ![s] = n]
        /\ feeder' = [feeder EXCEPT ![<<s, n>>] = "head"]
        /\ task' = [task EXCEPT ![s] = "connecting"]
    BY <1>1 DEF spawn_grpc_client, Goes
  <2> HIDE DEF n
  <2>3. /\ task' \in [Stream -> {"delay", "aborted"} \cup Connecting]
        /\ attempt' \in [Stream -> 0 .. MaxAttempts]
        /\ feeder' \in [Feeder -> {"none", "head", "send", "reset", "sleep", "done"}]
    BY <2>1, <2>2 DEF StreamInv, Connecting
  <2>4. ASSUME NEW t \in Stream, task'[t] \in Connecting
        PROVE  /\ attempt'[t] # 0
               /\ feeder'[<<t, attempt'[t]>>] \in {"head", "send", "reset", "sleep"}
    <3>1. CASE t = s
      BY <2>1, <2>2, <3>1 DEF StreamInv
    <3>2. CASE t # s
      <4>1. task[t] \in Connecting /\ attempt'[t] = attempt[t]
        BY <2>2, <2>4, <3>2 DEF StreamInv
      <4>2. <<t, attempt[t]>> \in Feeder /\ <<t, attempt[t]>> # <<s, n>>
        BY <3>2, <4>1, CurrentIsFeeder DEF Current
      <4>3. feeder'[<<t, attempt[t]>>] = feeder[<<t, attempt[t]>>]
        BY <2>1, <2>2, <4>2 DEF StreamInv
      <4>4. QED
        BY <4>1, <4>3 DEF StreamInv, Current
    <3>3. QED
      BY <3>1, <3>2
  <2>5. QED
    BY <2>3, <2>4 DEF StreamInv, Current
<1>2. ASSUME UNCHANGED <<attempt, feeder>>,
             \/ task' = task
             \/ task' = [task EXCEPT ![s] = "delay"]
             \/ task' = [task EXCEPT ![s] = "aborted"]
             \/ task[s] = "connecting" /\ task' = [task EXCEPT ![s] = "calling"]
             \/ task[s] \in {"calling", "streaming"}
                /\ task' = [task EXCEPT ![s] = "streaming"]
      PROVE  StreamInv'
  <2>1. task' \in [Stream -> {"delay", "aborted"} \cup Connecting]
    BY <1>2 DEF StreamInv, Connecting
  <2>2. \A t \in Stream : task'[t] \in Connecting => task[t] \in Connecting
    BY <1>2 DEF StreamInv, Connecting
  <2>3. QED
    BY <1>2, <2>1, <2>2 DEF StreamInv, Current
<1>3. CASE ReceiveReport(s)
  <2>1. task[s] = "streaming" /\ UNCHANGED <<attempt, feeder>>
    BY <1>3 DEF ReceiveReport, At
  <2>2. feeder[Current(s)] # "done"
    BY <2>1, CurrentIsFeeder DEF Connecting
  <2>3. task' = [task EXCEPT ![s] = "streaming"]
    BY <1>3, <2>2 DEF ReceiveReport, Goes
  <2>4. QED
    BY <1>2, <2>1, <2>3
<1>4. CASE Connected(s) \/ StreamOpened(s)
  BY <1>2, <1>4 DEF Connected, StreamOpened, At, Goes, feeders
<1>5. CASE ConnectFails(s) \/ UpstreamClosed(s) \/ Abort(s)
  BY <1>2, <1>5 DEF ConnectFails, UpstreamClosed, Abort, Goes
<1>6. CASE CallFails(s) \/ process_transaction(s)
  BY <1>2, <1>6 DEF CallFails, process_transaction, streams, feeders
<1>7. QED
  BY <1>1, <1>3, <1>4, <1>5, <1>6 DEF StreamStep

\* A step of a feeder: it ends only if its attempt is over.
LEMMA StreamInvFeeder ==
  ASSUME StreamInv, NEW f \in Feeder, FeederStep(f)
  PROVE  StreamInv'
<1>1. UNCHANGED <<task, attempt>>
  BY DEF FeederStep, FeederHead, FeederSend, FeederReset, FeederWakes, streams
<1>2. PICK to \in {"head", "send", "reset", "sleep", "done"} :
        /\ feeder' = [feeder EXCEPT ![f] = to]
        /\ to = "done" => Closed(f)
  BY DEF FeederStep, FeederHead, FeederSend, FeederReset, FeederWakes, is_closed
<1>3. feeder' \in [Feeder -> {"none", "head", "send", "reset", "sleep", "done"}]
  BY <1>2 DEF StreamInv
<1>4. ASSUME NEW s \in Stream, task[s] \in Connecting
      PROVE  feeder'[Current(s)] \in {"head", "send", "reset", "sleep"}
  <2>1. Current(s) \in Feeder /\ feeder[Current(s)] \in {"head", "send", "reset", "sleep"}
    BY <1>4, CurrentIsFeeder
  <2>2. CASE Current(s) = f
    <3>1. ~ Closed(f)
      BY <1>4, <2>2 DEF Closed, Current, Connecting
    <3>2. QED
      BY <1>2, <2>2, <3>1 DEF StreamInv
  <2>3. CASE Current(s) # f
    BY <1>2, <2>1, <2>3 DEF StreamInv
  <2>4. QED
    BY <2>2, <2>3
<1>5. QED
  BY <1>1, <1>3, <1>4 DEF StreamInv, Current

LEMMA StreamInvStep ==
  ASSUME StreamInv, Next
  PROVE  StreamInv'
<1>1. CASE \E s \in Stream : StreamStep(s)
  BY <1>1, StreamInvStream
<1>2. CASE \E f \in Feeder : FeederStep(f)
  BY <1>2, StreamInvFeeder
<1>3. CASE process \/ \E c \in Copy : CopyStep(c)
  <2>1. UNCHANGED <<task, attempt, feeder>>
    BY <1>3 DEF process, CopyStep, ObserveRead, ObserveSet, CopyPanics, AcquirePermit,
                Sent, streams, feeders
  <2>2. QED
    BY <2>1 DEF StreamInv, Current
<1>4. QED
  BY <1>1, <1>2, <1>3 DEF Next

(***************************************************************************)
(* Permits and the gauge.                                                  *)
(***************************************************************************)

\* A report, alone in its channel.
LEMMA OneReport ==
  ASSUME NEW S, NEW x \in S
  PROVE  <<x>> \in Seq(S) /\ Len(<<x>>) = 1
OBVIOUS

\* A step of a connection task takes reports out of channels, if anything.
LEMMA PermitInvStream ==
  ASSUME PermitInv, NEW s \in Stream, StreamStep(s)
  PROVE  PermitInv'
<1>1. UNCHANGED <<copy, seen, permits_max, report>>
  BY DEF StreamStep, spawn_grpc_client, Connected, ConnectFails, StreamOpened, CallFails,
         ReceiveReport, process_transaction, UpstreamClosed, Abort, feeders, copies
<1>2. buffer' = buffer \/ DropReports(s)
  BY DEF StreamStep, spawn_grpc_client, Connected, ConnectFails, StreamOpened, CallFails,
         ReceiveReport, process_transaction, UpstreamClosed, Abort, feeders
<1>3. /\ buffer' \in [Feeder -> Seq(0 .. max_permits)]
      /\ \A f \in Feeder : Len(buffer'[f]) <= 1
  <2>1. CASE buffer' = buffer
    BY <2>1 DEF PermitInv
  <2>2. CASE DropReports(s)
    <3>1. <<>> \in Seq(0 .. max_permits) /\ Len(<<>>) = 0
      BY EmptySeq
    <3>2. \A f \in Feeder : buffer[f] \in Seq(0 .. max_permits) /\ Len(buffer[f]) <= 1
      BY DEF PermitInv
    <3> DEFINE left(f) == IF f = Current(s) THEN <<>> ELSE buffer[f]
    <3>3. ASSUME NEW f \in Feeder
          PROVE  left(f) \in Seq(0 .. max_permits) /\ Len(left(f)) <= 1
      <4>1. CASE f = Current(s)
        <5>1. left(f) = <<>>
          BY <4>1
        <5> HIDE DEF left
        <5>2. QED
          BY <3>1, <5>1
      <4>2. CASE f # Current(s)
        BY <3>2, <4>2
      <4>3. QED
        BY <4>1, <4>2
    <3>4. buffer' = [f \in Feeder |-> left(f)]
      BY <2>2 DEF DropReports
    <3> HIDE DEF left
    <3>5. QED
      BY <3>3, <3>4
  <2>3. QED
    BY <1>2, <2>1, <2>2
<1>4. QED
  BY <1>1, <1>3 DEF PermitInv, CopyTypes, Sending

\* A step of a feeder: its channel has one slot, and the report is the gauge's value.
LEMMA PermitInvFeeder ==
  ASSUME PermitInv, NEW f \in Feeder, FeederStep(f)
  PROVE  PermitInv'
<1>1. UNCHANGED copies
  BY DEF FeederStep, FeederHead, FeederSend, FeederReset, FeederWakes
<1>2. 0 \in 0 .. max_permits
  BY ClientStreamsAssumption
<1>3. /\ report' \in [Feeder -> 0 .. max_permits] /\ permits_max' \in 0 .. max_permits
  BY <1>2 DEF FeederStep, FeederHead, FeederSend, FeederReset, FeederWakes, PermitInv
<1>4. /\ buffer' \in [Feeder -> Seq(0 .. max_permits)]
      /\ \A g \in Feeder : Len(buffer'[g]) <= 1
  <2>1. CASE FeederSend(f)
    <3>1. /\ <<report[f]>> \in Seq(0 .. max_permits) /\ Len(<<report[f]>>) = 1
          /\ <<>> \in Seq(0 .. max_permits) /\ Len(<<>>) = 0
      BY OneReport, EmptySeq DEF PermitInv
    <3>2. PICK b \in {<<>>, <<report[f]>>} : buffer' = [buffer EXCEPT ![f] = b]
      BY <2>1 DEF FeederSend
    <3>3. b \in Seq(0 .. max_permits) /\ Len(b) <= 1
      <4>1. CASE b = <<>>
        BY <3>1, <4>1
      <4>2. CASE b = <<report[f]>>
        BY <3>1, <4>2
      <4>3. QED
        BY <4>1, <4>2
    <3>4. QED
      BY <3>2, <3>3 DEF PermitInv
  <2>2. CASE FeederHead(f) \/ FeederReset(f) \/ FeederWakes(f)
    BY <2>2 DEF FeederHead, FeederReset, FeederWakes, PermitInv
  <2>3. QED
    BY <2>1, <2>2 DEF FeederStep
<1>5. QED
  BY <1>1, <1>3, <1>4 DEF PermitInv, CopyTypes, Sending, copies

\* Copies keep their types.
LEMMA CopyTypesStep ==
  ASSUME CopyTypes, process \/ \E c \in Copy : CopyStep(c)
  PROVE  CopyTypes'
<1>1. CASE process
  BY <1>1 DEF process, CopyTypes
<1>2. ASSUME NEW c \in Copy, CopyStep(c) PROVE CopyTypes'
  BY <1>2 DEF CopyStep, ObserveRead, ObserveSet, CopyPanics, AcquirePermit, Sent, copies,
              CopyTypes
<1>3. QED
  BY <1>1, <1>2

\* Processing a transaction takes no permit.
LEMMA PermitInvProcess ==
  ASSUME PermitInv, process
  PROVE  PermitInv'
<1>1. CopyTypes'
  BY CopyTypesStep DEF PermitInv
<1>2. Sending' \subseteq Sending
  BY DEF process, Sending
<1>3. /\ Cardinality(Sending') <= Cardinality(Sending)
      /\ Cardinality(Sending) \in Nat /\ Cardinality(Sending') \in Nat
  <2>1. Sending \in SUBSET Copy /\ Sending' \in SUBSET Copy
    BY DEF Sending
  <2>2. QED
    BY <1>2, <2>1, CopiesAreFinite, FS_Subset
<1>4. Cardinality(Sending') <= max_permits
  BY <1>3, ClientStreamsAssumption DEF PermitInv
<1>5. UNCHANGED <<seen, permits_max, report, buffer>>
  BY DEF process, feeders
<1>6. QED
  BY <1>1, <1>4, <1>5 DEF PermitInv

\* A step of a forwarding task: a permit is taken only if one is left.
LEMMA PermitInvCopy ==
  ASSUME PermitInv, NEW c \in Copy, CopyStep(c)
  PROVE  PermitInv'
<1>1. CopyTypes' /\ CopyTypes
  BY CopyTypesStep DEF PermitInv
<1>2. Sending \in SUBSET Copy /\ Sending' \in SUBSET Copy
  BY DEF Sending
<1>3. IsFiniteSet(Sending) /\ Cardinality(Sending) \in Nat /\ Cardinality(Sending') \in Nat
  BY <1>2, CopiesAreFinite
<1>4. permits_used = Cardinality(Sending)
  BY DEF permits_used, Sending
<1>5. UNCHANGED <<report, buffer>>
  BY DEF CopyStep, ObserveRead, ObserveSet, CopyPanics, AcquirePermit, Sent, feeders
<1>6. seen' \in [Copy -> 0 .. max_permits] /\ permits_max' \in 0 .. max_permits
  <2>1. CASE ObserveRead(c)
    <3>1. (IF permits_used > permits_max THEN permits_used ELSE permits_max)
            \in 0 .. max_permits
      BY <1>3, <1>4, ClientStreamsAssumption DEF PermitInv
    <3>2. QED
      BY <2>1, <3>1 DEF ObserveRead, PermitInv
  <2>2. CASE ObserveSet(c)
    BY <2>2, ClientStreamsAssumption DEF ObserveSet, PermitInv
  <2>3. CASE CopyPanics(c) \/ AcquirePermit(c) \/ Sent(c)
    BY <2>3 DEF CopyPanics, AcquirePermit, Sent, PermitInv, copies
  <2>4. QED
    BY <2>1, <2>2, <2>3 DEF CopyStep
<1>7. Cardinality(Sending') <= max_permits
  <2>1. CASE AcquirePermit(c)
    <3>1. Sending' = Sending \cup {c}
      BY <1>1, <2>1 DEF AcquirePermit, Sending, CopyTypes
    <3>2. Cardinality(Sending) < max_permits
      BY <1>4, <2>1 DEF AcquirePermit, Available
    <3>3. Cardinality(Sending') <= Cardinality(Sending) + 1
      BY <1>3, <3>1, FS_AddElement
    <3>4. QED
      BY <1>3, <3>2, <3>3, ClientStreamsAssumption
  <2>2. CASE ~ AcquirePermit(c)
    <3>1. Sending' \subseteq Sending
      BY <1>1, <2>2 DEF CopyStep, ObserveRead, ObserveSet, CopyPanics, Sent, copies, Sending,
                        CopyTypes
    <3>2. Cardinality(Sending') <= Cardinality(Sending)
      BY <1>3, <3>1, FS_Subset
    <3>3. QED
      BY <1>3, <3>2, ClientStreamsAssumption DEF PermitInv
  <2>3. QED
    BY <2>1, <2>2
<1>8. QED
  BY <1>1, <1>5, <1>6, <1>7 DEF PermitInv

LEMMA PermitInvStep ==
  ASSUME PermitInv, Next
  PROVE  PermitInv'
BY PermitInvStream, PermitInvFeeder, PermitInvProcess, PermitInvCopy DEF Next

(***************************************************************************)
(* The books of the forwarders.                                            *)
(***************************************************************************)

\* What the books are about is finite.
LEMMA BooksAreFinite ==
  ASSUME InputTypes, NEW h \in Source
  PROVE  /\ IsFiniteSet(OpenCopies(h)) /\ Cardinality(OpenCopies(h)) \in Nat
         /\ IsFiniteSet(DueCopies(h)) /\ Cardinality(DueCopies(h)) \in Nat
         /\ IsFiniteSet(Mine(h)) /\ Cardinality(Mine(h)) \in Nat
         /\ succeeded[h] \in Nat /\ failed[h] \in Nat
<1>1. OpenCopies(h) \in SUBSET Copy /\ DueCopies(h) \in SUBSET Copy
  BY DEF OpenCopies, DueCopies
<1>2. taken \in Nat /\ Mine(h) \in SUBSET (1 .. taken)
  BY DEF InputTypes, Mine
<1>3. QED
  BY <1>1, <1>2, CopiesAreFinite, MineIsFinite DEF InputTypes

\* A transaction that was processed has arrived.
LEMMA ProcessedArrived ==
  ASSUME InputTypes, NEW n \in 1 .. taken
  PROVE  /\ taken \in Nat /\ Len(arrived) \in Nat /\ n \in 1 .. Len(arrived)
         /\ arrived[n].source \in Source /\ arrived[n].tpus \in 0 .. MaxTpus
<1>1. taken \in Nat /\ Len(arrived) \in Nat /\ taken <= Len(arrived)
  BY DEF InputTypes
<1>2. n \in 1 .. Len(arrived)
  BY <1>1
<1>3. arrived[n] \in [source : Source, tpus : 0 .. MaxTpus]
  BY <1>2, ElementOfSeq DEF InputTypes
<1>4. QED
  BY <1>1, <1>2, <1>3

\* A forwarding task has a transaction that was processed.
LEMMA CopiesProcessed ==
  ASSUME InputTypes, Fresh, NEW c \in Copy, copy[c] # "none"
  PROVE  c[1] \in 1 .. taken
<1>1. taken \in Nat
  BY DEF InputTypes
<1>2. c[1] \in Nat /\ c[1] >= 1 /\ ~ (c[1] > taken)
  BY Pairs, ClientStreamsAssumption DEF Fresh
<1>3. QED
  BY <1>1, <1>2

\* A transaction that arrives changes nothing in the books of those processed.
LEMMA ForwardInvArrives ==
  ASSUME ForwardInv, NEW s \in Stream, process_transaction(s)
  PROVE  ForwardInv'
<1>1. PICK tpus \in 0 .. MaxTpus :
        arrived' = Append(arrived, [source |-> SourceOf[s], tpus |-> tpus])
  BY DEF process_transaction
<1>2. UNCHANGED <<forwarder, taken, copy, succeeded, failed>>
  BY DEF process_transaction, copies, counts
<1>3. /\ arrived \in Seq([source : Source, tpus : 0 .. MaxTpus])
      /\ [source |-> SourceOf[s], tpus |-> tpus] \in [source : Source, tpus : 0 .. MaxTpus]
      /\ Len(arrived) < MaxTx
  BY ClientStreamsAssumption DEF ForwardInv, InputTypes, process_transaction
<1>4. /\ arrived' \in Seq([source : Source, tpus : 0 .. MaxTpus])
      /\ Len(arrived') = Len(arrived) + 1
      /\ \A n \in 1 .. Len(arrived) : arrived'[n] = arrived[n]
  BY <1>1, <1>3, AppendProperties
<1>5. InputTypes'
  BY <1>2, <1>3, <1>4, ClientStreamsAssumption DEF ForwardInv, InputTypes
<1>6. CopyTypes' /\ Fresh'
  BY <1>2 DEF ForwardInv, CopyTypes, Fresh
<1>7. \A n \in 1 .. taken : arrived'[n] = arrived[n]
  BY <1>4, ProcessedArrived DEF ForwardInv
<1>8. ASSUME NEW h \in Source
      PROVE  Mine(h)' = Mine(h) /\ DueCopies(h)' = DueCopies(h)
             /\ OpenCopies(h)' = OpenCopies(h)
  <2>1. Mine(h)' = Mine(h)
    BY <1>2, <1>7 DEF Mine
  <2>2. DueCopies(h)' = DueCopies(h)
    BY <1>7, <2>1 DEF DueCopies, Mine
  <2>3. \A c \in Copy : copy[c] # "none" => c[1] \in 1 .. taken
    BY CopiesProcessed DEF ForwardInv
  <2>4. OpenCopies(h)' = OpenCopies(h)
    BY <1>2, <1>7, <2>3 DEF OpenCopies
  <2>5. QED
    BY <2>1, <2>2, <2>4
<1>9. Books'
  BY <1>2, <1>8 DEF ForwardInv, Books, Due
<1>10. QED
  BY <1>5, <1>6, <1>9 DEF ForwardInv

\* A forwarding task that goes on without having finished stays in the books.
LEMMA ForwardInvOngoing ==
  ASSUME ForwardInv, NEW c \in Copy, CopyStep(c), ~ Sent(c)
  PROVE  ForwardInv'
<1>1. CopyTypes' /\ CopyTypes
  BY CopyTypesStep DEF ForwardInv
<1>2. UNCHANGED <<forwarder, arrived, taken, succeeded, failed>>
  BY DEF CopyStep, ObserveRead, ObserveSet, CopyPanics, AcquirePermit, inputs, counts
<1>3. \A d \in Copy : /\ copy'[d] = "none" <=> copy[d] = "none"
                      /\ copy'[d] = "done" <=> copy[d] = "done"
  BY <1>1 DEF CopyStep, ObserveRead, ObserveSet, CopyPanics, AcquirePermit, copies,
              CopyTypes
<1>4. InputTypes' /\ Fresh'
  BY <1>2, <1>3 DEF ForwardInv, InputTypes, Fresh
<1>5. ASSUME NEW h \in Source
      PROVE  Mine(h)' = Mine(h) /\ DueCopies(h)' = DueCopies(h)
             /\ OpenCopies(h)' = OpenCopies(h)
  BY <1>2, <1>3 DEF Mine, DueCopies, OpenCopies
<1>6. Books'
  BY <1>2, <1>5 DEF ForwardInv, Books, Due
<1>7. QED
  BY <1>1, <1>4, <1>6 DEF ForwardInv

\* A copy that was sent, or could not be, is counted once.
LEMMA ForwardInvSent ==
  ASSUME ForwardInv, NEW c \in Copy, Sent(c)
  PROVE  ForwardInv'
<1> DEFINE src == arrived[c[1]].source
<1>1. /\ copy[c] = "send" /\ copy' = [copy EXCEPT ![c] = "done"]
      /\ UNCHANGED <<forwarder, arrived, taken>>
      /\ \/ succeeded' = [succeeded EXCEPT ![src] = @ + 1] /\ UNCHANGED failed
         \/ failed' = [failed EXCEPT ![src] = @ + 1] /\ UNCHANGED succeeded
  BY DEF Sent, inputs
<1>2. CopyTypes' /\ CopyTypes
  BY CopyTypesStep DEF ForwardInv, CopyStep
<1>3. c[1] \in 1 .. taken /\ src \in Source
  <2>1. c[1] \in 1 .. taken
    BY <1>1, CopiesProcessed DEF ForwardInv
  <2>2. QED
    BY <2>1, ProcessedArrived DEF ForwardInv
<1> HIDE DEF src
<1>4. InputTypes'
  <2>1. succeeded' \in [Source -> Nat] /\ failed' \in [Source -> Nat]
    <3>1. succeeded \in [Source -> Nat] /\ failed \in [Source -> Nat]
      BY DEF ForwardInv, InputTypes
    <3>2. CASE succeeded' = [succeeded EXCEPT ![src] = @ + 1] /\ failed' = failed
      BY <1>3, <3>1, <3>2
    <3>3. CASE failed' = [failed EXCEPT ![src] = @ + 1] /\ succeeded' = succeeded
      BY <1>3, <3>1, <3>3
    <3>4. QED
      BY <1>1, <3>2, <3>3
  <2>2. UNCHANGED <<forwarder, arrived, taken>>
    BY <1>1
  <2>3. QED
    BY <2>1, <2>2 DEF ForwardInv, InputTypes
<1>5. Fresh'
  <2>1. \A d \in Copy : d[1] > taken => copy[d] = "none"
    BY DEF ForwardInv, Fresh
  <2>2. ~ (c[1] > taken)
    BY <1>1, <2>1
  <2>3. QED
    BY <1>1, <1>2, <2>1, <2>2 DEF Fresh, CopyTypes
<1>6. ASSUME NEW h \in Source
      PROVE  succeeded'[h] + failed'[h] + Cardinality(OpenCopies(h)') = Due(h)'
  <2>1. Due(h)' = Due(h)
    BY <1>1 DEF Due, DueCopies, Mine
  <2>2. succeeded[h] + failed[h] + Cardinality(OpenCopies(h)) = Due(h)
    BY DEF ForwardInv, Books
  <2>3. /\ IsFiniteSet(OpenCopies(h)) /\ Cardinality(OpenCopies(h)) \in Nat
        /\ succeeded[h] \in Nat /\ failed[h] \in Nat
    BY BooksAreFinite DEF ForwardInv
  <2>4. CASE h = src
    <3>1. OpenCopies(h)' = OpenCopies(h) \ {c} /\ c \in OpenCopies(h)
      BY <1>1, <1>2, <2>4 DEF OpenCopies, CopyTypes, src
    <3>2. Cardinality(OpenCopies(h)') = Cardinality(OpenCopies(h)) - 1
      BY <2>3, <3>1, FS_RemoveElement
    <3>0. succeeded \in [Source -> Nat] /\ failed \in [Source -> Nat]
      BY DEF ForwardInv, InputTypes
    <3>3. succeeded'[h] + failed'[h] = succeeded[h] + failed[h] + 1
      BY <1>1, <2>3, <2>4, <3>0
    <3>4. succeeded'[h] \in Nat /\ failed'[h] \in Nat
      BY <1>4 DEF InputTypes
    <3>5. QED
      BY <2>1, <2>2, <2>3, <3>2, <3>3, <3>4
  <2>5. CASE h # src
    <3>1. OpenCopies(h)' = OpenCopies(h)
      BY <1>1, <1>2, <2>5 DEF OpenCopies, CopyTypes, src
    <3>2. succeeded'[h] = succeeded[h] /\ failed'[h] = failed[h]
      BY <1>1, <2>5 DEF ForwardInv, InputTypes
    <3>3. QED
      BY <2>1, <2>2, <3>1, <3>2
  <2>6. QED
    BY <2>4, <2>5
<1>7. QED
  BY <1>2, <1>4, <1>5, <1>6 DEF ForwardInv, Books

\* The forwarder takes the next transaction: what it spawns, or counts at once, is
\* what falls due with it.
LEMMA ForwardInvProcess ==
  ASSUME ForwardInv, process
  PROVE  ForwardInv'
<1> DEFINE n   == taken + 1
           src == arrived[n].source
           new == {c \in Copy : c[1] = n /\ c[2] <= CopiesOf(n)}
<1>1. /\ taken \in Nat /\ n \in 1 .. Len(arrived) /\ n \in 1 .. MaxTx /\ taken' = n
      /\ src \in Source /\ arrived[n].tpus \in 0 .. MaxTpus
  <2>1. taken \in Nat /\ Len(arrived) \in Nat /\ taken < Len(arrived) /\ taken' = n
    BY DEF ForwardInv, InputTypes, process
  <2>2. n \in 1 .. Len(arrived) /\ n \in 1 .. MaxTx
    BY <2>1, ClientStreamsAssumption DEF ForwardInv, InputTypes
  <2>3. arrived[n] \in [source : Source, tpus : 0 .. MaxTpus]
    BY <2>2, ElementOfSeq DEF ForwardInv, InputTypes
  <2>4. QED
    BY <2>1, <2>2, <2>3
<1>2. /\ succeeded' = [succeeded EXCEPT ![src] =
                         IF forwarder = "blackhole" THEN @ + 1 ELSE @]
      /\ UNCHANGED <<forwarder, arrived, failed>>
  BY DEF process
<1>3. \A c \in Copy : /\ c \in new => copy'[c] \in {"observe", "wait"}
                      /\ c \notin new => copy'[c] = copy[c]
  BY DEF process
<1>4. \A c \in Copy : c[1] > taken => copy[c] = "none"
  BY DEF ForwardInv, Fresh
<1>5. CopyTypes' /\ CopyTypes
  BY CopyTypesStep DEF ForwardInv
<1>6. InputTypes'
  <2>1. succeeded' \in [Source -> Nat]
    BY <1>1, <1>2 DEF ForwardInv, InputTypes
  <2>2. taken' \in 0 .. Len(arrived)
    BY <1>1
  <2>3. QED
    BY <1>2, <2>1, <2>2 DEF ForwardInv, InputTypes
<1> HIDE DEF src
<1>7. Fresh'
  <2>1. SUFFICES ASSUME NEW c \in Copy, c[1] > n PROVE copy'[c] = "none"
    BY <1>1 DEF Fresh
  <2>2. c[1] \in Nat
    BY Pairs
  <2>3. c[1] > taken /\ c \notin new
    BY <1>1, <2>1, <2>2
  <2>4. QED
    BY <1>3, <1>4, <2>3
<1>8. /\ IsFiniteSet(new) /\ Cardinality(new) \in Nat
  <2>1. new \in SUBSET Copy
    OBVIOUS
  <2>2. QED
    BY <2>1, CopiesAreFinite
<1>9. \A c \in new : c \in Copy /\ copy[c] = "none" /\ c[1] = n /\ arrived[c[1]].source = src
  BY <1>1, <1>4 DEF src
<1>10. /\ forwarder = "quic" => new = {c \in Copy : c[1] = n /\ c[2] <= arrived[n].tpus}
       /\ forwarder = "rpc" => new = {<<n, 1>>}
       /\ forwarder = "blackhole" => new = {}
  <2>1. CASE forwarder = "quic"
    BY <2>1 DEF CopiesOf
  <2>2. CASE forwarder = "rpc"
    <3>1. CopiesOf(n) = 1
      BY <2>2 DEF CopiesOf
    <3>2. <<n, 1>> \in Copy
      BY <1>1, ClientStreamsAssumption DEF Copy
    <3>3. \A c \in Copy : c[1] = n /\ c[2] <= 1 <=> c = <<n, 1>>
      BY Pairs
    <3>4. QED
      BY <2>2, <3>1, <3>2, <3>3
  <2>3. CASE forwarder = "blackhole"
    <3>1. CopiesOf(n) = 0
      BY <2>3 DEF CopiesOf
    <3>2. \A c \in Copy : ~ (c[2] <= 0)
      BY Pairs
    <3>3. QED
      BY <2>3, <3>1, <3>2
  <2>4. QED
    BY <2>1, <2>2, <2>3
<1>11. /\ \A h \in Source : Mine(h)' = IF h = src THEN Mine(h) \cup {n} ELSE Mine(h)
       /\ \A h \in Source : n \notin Mine(h)
  BY <1>1, <1>2 DEF Mine, src
<1>12. \A h \in Source :
         OpenCopies(h)' = IF h = src THEN OpenCopies(h) \cup new ELSE OpenCopies(h)
  <2> SUFFICES ASSUME NEW h \in Source
               PROVE  OpenCopies(h)' = IF h = src THEN OpenCopies(h) \cup new ELSE OpenCopies(h)
    OBVIOUS
  <2>1. \A c \in Copy : c \in OpenCopies(h)' <=>
                          c \in OpenCopies(h) \/ (h = src /\ c \in new)
    BY <1>2, <1>3, <1>9 DEF OpenCopies
  <2>2. OpenCopies(h)' \subseteq Copy /\ OpenCopies(h) \subseteq Copy /\ new \subseteq Copy
    BY DEF OpenCopies
  <2> HIDE DEF new
  <2>3. QED
    BY <2>1, <2>2
<1>13. \A h \in Source : OpenCopies(h) \cap new = {}
  BY <1>9 DEF OpenCopies
<1> HIDE DEF new
<1>14. ASSUME NEW h \in Source
       PROVE  succeeded'[h] + failed'[h] + Cardinality(OpenCopies(h)') = Due(h)'
  <2>1. succeeded[h] + failed[h] + Cardinality(OpenCopies(h)) = Due(h)
    BY DEF ForwardInv, Books
  <2>2. /\ IsFiniteSet(OpenCopies(h)) /\ Cardinality(OpenCopies(h)) \in Nat
        /\ IsFiniteSet(DueCopies(h)) /\ Cardinality(DueCopies(h)) \in Nat
        /\ IsFiniteSet(Mine(h)) /\ Cardinality(Mine(h)) \in Nat
        /\ succeeded[h] \in Nat /\ failed[h] \in Nat
    BY BooksAreFinite DEF ForwardInv
  <2>3. failed'[h] = failed[h] /\ forwarder' = forwarder
    BY <1>2
  <2>4. CASE h # src
    <3>1. OpenCopies(h)' = OpenCopies(h) /\ Mine(h)' = Mine(h)
      BY <1>11, <1>12, <2>4
    <3>2. DueCopies(h)' = DueCopies(h)
      BY <1>2, <3>1 DEF DueCopies
    <3>3. succeeded'[h] = succeeded[h]
      BY <1>1, <1>2, <2>4 DEF ForwardInv, InputTypes
    <3>4. Due(h)' = Due(h)
      BY <2>3, <3>1, <3>2 DEF Due
    <3>5. QED
      BY <2>1, <2>3, <3>1, <3>3, <3>4
  <2>5. CASE h = src
    <3>1. Cardinality(OpenCopies(h)') = Cardinality(OpenCopies(h)) + Cardinality(new)
      BY <1>8, <1>12, <1>13, <2>2, <2>5, DisjointUnion
    <3>2. Cardinality(Mine(h)') = Cardinality(Mine(h)) + 1
      BY <1>11, <2>2, <2>5, FS_AddElement
    <3>3. CASE forwarder = "quic"
      <4>1. DueCopies(h)' = DueCopies(h) \cup new /\ DueCopies(h) \cap new = {}
        BY <1>2, <1>9, <1>10, <1>11, <2>5, <3>3 DEF DueCopies
      <4>2. Cardinality(DueCopies(h)') = Cardinality(DueCopies(h)) + Cardinality(new)
        BY <1>8, <2>2, <4>1, DisjointUnion
      <4>3. succeeded'[h] = succeeded[h]
        BY <1>1, <1>2, <3>3 DEF ForwardInv, InputTypes
      <4>4. Due(h)' = Due(h) + Cardinality(new) /\ Due(h) \in Nat
        BY <2>2, <2>3, <3>3, <4>2 DEF Due
      <4>5. QED
        BY <1>8, <2>1, <2>2, <2>3, <3>1, <4>3, <4>4
    <3>4. CASE forwarder # "quic"
      <4>1. Due(h)' = Due(h) + 1 /\ Due(h) \in Nat
        BY <2>2, <2>3, <3>2, <3>4 DEF Due
      <4>2. succeeded'[h] + Cardinality(new) = succeeded[h] + 1 /\ succeeded'[h] \in Nat
        <5>1. CASE forwarder = "rpc"
          <6>1. Cardinality(new) = 1
            BY <1>10, <5>1, FS_Singleton
          <6>2. succeeded'[h] = succeeded[h]
            BY <1>1, <1>2, <5>1 DEF ForwardInv, InputTypes
          <6>3. QED
            BY <2>2, <6>1, <6>2
        <5>2. CASE forwarder = "blackhole"
          <6>1. Cardinality(new) = 0
            BY <1>10, <5>2, FS_EmptySet
          <6>2. succeeded'[h] = succeeded[h] + 1
            BY <1>1, <1>2, <2>5, <5>2 DEF ForwardInv, InputTypes
          <6>3. QED
            BY <2>2, <6>1, <6>2
        <5>3. QED
          BY <3>4, <5>1, <5>2 DEF ForwardInv, InputTypes
      <4>3. QED
        BY <1>8, <2>1, <2>2, <2>3, <3>1, <4>1, <4>2
    <3>5. QED
      BY <3>3, <3>4
  <2>6. QED
    BY <2>4, <2>5
<1>15. QED
  BY <1>5, <1>6, <1>7, <1>14 DEF ForwardInv, Books

LEMMA ForwardInvFrame ==
  ASSUME ForwardInv, UNCHANGED <<forwarder, arrived, taken, copy, succeeded, failed>>
  PROVE  ForwardInv'
<1>1. \A h : Due(h)' = Due(h) /\ OpenCopies(h)' = OpenCopies(h)
  BY DEF Due, DueCopies, Mine, OpenCopies
<1>2. Books'
  BY <1>1 DEF ForwardInv, Books
<1>3. QED
  BY <1>2 DEF ForwardInv, CopyTypes, InputTypes, Fresh

LEMMA ForwardInvStep ==
  ASSUME ForwardInv, Next
  PROVE  ForwardInv'
<1>1. CASE \E s \in Stream : StreamStep(s)
  <2>1. PICK s \in Stream : StreamStep(s)
    BY <1>1
  <2>2. CASE process_transaction(s)
    BY <2>2, ForwardInvArrives
  <2>3. CASE ~ process_transaction(s)
    BY <2>1, <2>3, ForwardInvFrame
    DEF StreamStep, spawn_grpc_client, Connected, ConnectFails, StreamOpened, CallFails,
        ReceiveReport, UpstreamClosed, Abort, inputs, copies, counts
  <2>4. QED
    BY <2>2, <2>3
<1>2. CASE \E f \in Feeder : FeederStep(f)
  BY <1>2, ForwardInvFrame
  DEF FeederStep, FeederHead, FeederSend, FeederReset, FeederWakes, inputs, copies, counts
<1>3. CASE process
  BY <1>3, ForwardInvProcess
<1>4. CASE \E c \in Copy : CopyStep(c)
  BY <1>4, ForwardInvSent, ForwardInvOngoing
<1>5. QED
  BY <1>1, <1>2, <1>3, <1>4 DEF Next

(***************************************************************************)
(* The invariant and the theorems.                                         *)
(***************************************************************************)

LEMMA InitIInv == Init => IInv
<1> SUFFICES ASSUME Init PROVE IInv
  OBVIOUS
<1>1. StreamInv
  BY ClientStreamsAssumption DEF Init, StreamInv, Connecting
<1>2. PermitInv
  <2>1. Sending = {}
    BY DEF Init, Sending
  <2>2. Cardinality(Sending) <= max_permits
    BY <2>1, FS_EmptySet, ClientStreamsAssumption
  <2>3. <<>> \in Seq(0 .. max_permits) /\ Len(<<>>) = 0
    BY EmptySeq
  <2>4. /\ buffer \in [Feeder -> Seq(0 .. max_permits)]
        /\ \A f \in Feeder : Len(buffer[f]) <= 1
    BY <2>3 DEF Init
  <2>5. QED
    BY <2>2, <2>4, ClientStreamsAssumption DEF Init, PermitInv, CopyTypes
<1>3. ForwardInv
  <2>1. CopyTypes /\ Fresh
    BY DEF Init, CopyTypes, Fresh
  <2>2. InputTypes
    BY EmptySeq, ClientStreamsAssumption DEF Init, InputTypes
  <2>3. ASSUME NEW h \in Source PROVE Mine(h) = {} /\ DueCopies(h) = {} /\ OpenCopies(h) = {}
    BY DEF Init, Mine, DueCopies, OpenCopies
  <2>4. Books
    <3> SUFFICES ASSUME NEW h \in Source
                 PROVE  succeeded[h] + failed[h] + Cardinality(OpenCopies(h)) = Due(h)
      BY DEF Books
    <3>1. Cardinality(OpenCopies(h)) = 0 /\ Due(h) = 0
      BY <2>3, FS_EmptySet DEF Due
    <3>2. succeeded[h] = 0 /\ failed[h] = 0
      BY DEF Init
    <3>3. QED
      BY <3>1, <3>2
  <2>5. QED
    BY <2>1, <2>2, <2>4 DEF ForwardInv
<1>4. QED
  BY <1>1, <1>2, <1>3 DEF Init, IInv

\* The invariant holds in every reachable state.
THEOREM Invariant == Spec => []IInv
<1>1. IInv /\ [Next]_vars => IInv'
  <2> SUFFICES ASSUME IInv, [Next]_vars PROVE IInv'
    OBVIOUS
  <2>1. CASE UNCHANGED vars
    <3>1. StreamInv'
      BY <2>1 DEF IInv, StreamInv, Current, vars, streams, feeders
    <3>2. PermitInv'
      BY <2>1 DEF IInv, PermitInv, CopyTypes, Sending, vars, feeders, copies
    <3>3. ForwardInv'
      BY <2>1, ForwardInvFrame DEF IInv, vars, inputs, copies, counts
    <3>4. QED
      BY <2>1, <3>1, <3>2, <3>3 DEF IInv, vars
  <2>2. CASE Next
    <3>1. exited' \in BOOLEAN
      BY <2>2
      DEF IInv, Next, StreamStep, spawn_grpc_client, Connected, ConnectFails, StreamOpened,
          CallFails, ReceiveReport, process_transaction, UpstreamClosed, Abort, FeederStep,
          FeederHead, FeederSend, FeederReset, FeederWakes, process, CopyStep,
          ObserveRead, ObserveSet,
          CopyPanics, AcquirePermit, Sent
    <3>2. QED
      BY <2>2, <3>1, StreamInvStep, PermitInvStep, ForwardInvStep DEF IInv
  <2>3. QED
    BY <2>1, <2>2
<1>2. QED
  BY <1>1, InitIInv, PTL DEF Spec

\* Types of the connection tasks, the feeders and the forwarders; in particular no
\* more tasks send, and no more are ever reported, than there are permits, although
\* reading and setting the gauge are two steps.
THEOREM TypeCorrect == Spec => []TypeOK
<1>1. IInv => TypeOK
  <2> SUFFICES ASSUME IInv PROVE TypeOK
    OBVIOUS
  <2>1. permits_used <= max_permits
    BY DEF IInv, PermitInv, permits_used, Sending
  <2>2. \A f \in Feeder : buffer[f] \in Seq(0 .. max_permits) /\ Len(buffer[f]) <= 1
    BY DEF IInv, PermitInv
  <2>3. task \in [Stream -> {"delay", "connecting", "calling", "streaming", "aborted",
                            "ended"}]
    BY DEF IInv, StreamInv, Connecting
  <2>4. /\ attempt \in [Stream -> 0 .. MaxAttempts]
        /\ feeder \in [Feeder -> {"none", "head", "send", "reset", "sleep", "done"}]
    BY Zenon DEF IInv, StreamInv
  <2>5. /\ report \in [Feeder -> 0 .. max_permits]
        /\ copy \in [Copy -> {"none", "observe", "observed", "wait", "send", "done"}]
        /\ seen \in [Copy -> 0 .. max_permits] /\ permits_max \in 0 .. max_permits
    BY Zenon DEF IInv, PermitInv, CopyTypes
  <2>6. InputTypes /\ exited \in BOOLEAN
    BY DEF IInv, ForwardInv
  <2>7. QED
    BY <2>1, <2>2, <2>3, <2>4, <2>5, <2>6, Zenon DEF InputTypes, TypeOK
<1>2. QED
  BY <1>1, Invariant, PTL

\* No connection task ever leaves its retry loop: the feeder of a stream that lasts
\* has not ended, so the arm of the reports is never the one that breaks.
THEOREM RetriesGoOn == Spec => []RetryNeverEnds
<1>1. IInv => RetryNeverEnds
  BY DEF IInv, StreamInv, Connecting, RetryNeverEnds
<1>2. QED
  BY <1>1, Invariant, PTL

\* Every copy of every transaction that was processed is on its way or counted once,
\* for each of the three forwarders.
THEOREM BooksBalance == Spec => []ForwardBooks
<1>1. IInv => ForwardBooks
  <2> SUFFICES ASSUME IInv, NEW h \in Source
               PROVE  succeeded[h] + failed[h] + Cardinality(OpenCopies(h)) =
                        CASE forwarder = "quic" -> Cardinality(DueCopies(h))
                          [] OTHER -> Cardinality(Mine(h))
    BY DEF ForwardBooks, DueCopies, Mine
  <2>1. succeeded[h] + failed[h] + Cardinality(OpenCopies(h)) = Due(h)
    BY DEF IInv, ForwardInv, Books
  <2>2. QED
    BY <2>1 DEF Due
<1>2. QED
  BY <1>1, Invariant, PTL
==============================================================================
