----------------------------- MODULE Transactions ----------------------------
(***************************************************************************)
(* The life of a transaction around the balancer: who is let in            *)
(* (server/auth.rs), what the RPC handler does with a call                 *)
(* (server/rpc_server.rs), and what the signature watcher does with the    *)
(* record of one that was published (server/solana_service.rs), up to the  *)
(* counters of server/metrics.rs.  publish itself, which module Balancer   *)
(* models, is reduced to its result.                                       *)
(*                                                                         *)
(* Neither the handler up to publish, nor an arm of the watcher's loop,    *)
(* nor a signature_checker awaits anything, so each of them is one step.   *)
(* Time is the age of created_at in seconds, kept up to the age that       *)
(* matters.  The counters by TPU address, which go with those by consumer, *)
(* are left out.                                                           *)
(***************************************************************************)
EXTENDS Integers, Sequences, FiniteSets, Functions, FiniteSetsExt

CONSTANTS
  Requests,        \* how many sendPriorityTransaction and sendTransaction calls
  Partner,         \* who calls, as Auth's to_string shows it
  Unknown,         \* who calls without a header, when no key is configured
  Denied,          \* no partner: authentication failed
  TestPartners,    \* partners half of whose transactions are blackholed
  Consumer,        \* identities of clients
  ConsumerLists,   \* what publish may put into record.consumers
  CheckAfter,      \* signature_check_after (10 seconds in the code)
  MaxBundle        \* max_bundle_size (250 in the code)

Mode == {"FORWARD", "BLACKHOLE"}

\* The calls, by req_id.
Request == 1 .. Requests

ASSUME TransactionsAssumption ==
  /\ Requests \in Nat
  /\ Unknown \in Partner /\ Denied \notin Partner
  /\ TestPartners \subseteq Partner
  /\ ConsumerLists \subseteq Seq(Consumer)
  /\ CheckAfter \in Nat /\ MaxBundle \in Nat \ {0}

VARIABLES
  public_key,       \* is there a key to verify tokens with?
  call,             \* where the call is, or what the caller was told
  partner,          \* record.partner_name
  mode,             \* meta.mode of an accepted call
  consumers,        \* record.consumers
  age,              \* seconds since record.created_at
  inbox,            \* the channel to the watcher
  signature_queue,  \* the watcher's queue of records
  bundles,          \* signature_checker tasks that have not run
  clean,            \* transactions the chain ran without an error (external)
  accepted,         \* SERVER_RPC_TX_ACCEPTED, by partner and mode
  finalized,        \* CHAIN_TX_FINALIZED, by partner
  timed_out,        \* CHAIN_TX_TIMEOUT, by partner
  success,          \* CHAIN_TX_EXECUTION_SUCCESS, by partner
  finalized_by,     \* CHAIN_TX_FINALIZED_BY_CONSUMER
  timed_out_by,     \* CHAIN_TX_TIMEOUT_BY_CONSUMER
  exited            \* the panic hook has ended the process

meta     == <<public_key, partner, mode>>
counters == <<finalized, timed_out, success, finalized_by, timed_out_by>>
watcher  == <<inbox, signature_queue, bundles>>
vars     == <<meta, call, consumers, age, watcher, clean, accepted, counters,
              exited>>

Init ==
  /\ public_key \in BOOLEAN
  /\ call = [r \in Request |-> "none"]
  /\ partner = [r \in Request |-> Unknown]
  /\ mode = [r \in Request |-> "FORWARD"]
  /\ consumers = [r \in Request |-> <<>>]
  /\ age = [r \in Request |-> 0]
  /\ inbox = <<>> /\ signature_queue = <<>> /\ bundles = {}
  /\ clean = [p \in Partner |-> 0]
  /\ accepted = [pm \in Partner \X Mode |-> 0]
  /\ finalized = [p \in Partner |-> 0]
  /\ timed_out = [p \in Partner |-> 0]
  /\ success = [p \in Partner |-> 0]
  /\ finalized_by = [c \in Consumer |-> 0]
  /\ timed_out_by = [c \in Consumer |-> 0]
  /\ exited = FALSE

(***************************************************************************)
(* Authentication.                                                         *)
(***************************************************************************)

\* The Authorization header: is it there, is it text, is its first part Bearer,
\* how many parts does it have, does the second one verify with the key, and
\* whom does it name: in the token's claims, or by its whole text.
Header == [present : BOOLEAN, text : BOOLEAN, bearer : BOOLEAN, parts : 0 .. 3,
           verified : BOOLEAN, name : Partner]

authorization_header_auth(h) ==
  IF h.bearer /\ h.parts = 2 /\ h.verified THEN h.name ELSE Denied

authenticate(h) == IF h.present THEN authorization_header_auth(h) ELSE Denied

\* Without a key whatever the header says is believed.
Allow(h) == IF h.present THEN h.name ELSE Unknown

\* What the metadata extractor may find out about the caller, by whether there is
\* a key.  to_str().unwrap() has to be passed first.
Auths == [key \in BOOLEAN |->
            {IF key THEN authenticate(h) ELSE Allow(h) :
               h \in {g \in Header : g.present => g.text}}]

\* select_mode: half of a test partner's transactions are blackholed.
select_mode(auth) ==
  IF public_key /\ auth \in TestPartners THEN Mode ELSE {"FORWARD"}

(***************************************************************************)
(* The handler.                                                            *)
(***************************************************************************)

\* The process runs, and the extractor's req_id_gen has come to r.
Called(r) == ~ exited /\ call[r] = "none" /\ \A q \in 1 .. r - 1 : call[q] # "none"

Arrives(r, auth) == Called(r) /\ auth \in Auths[public_key]

Tell(r, answer) == call' = [call EXCEPT ![r] = answer]

\* A header that is no text panics in the extractor.
ExtractPanics(r) ==
  /\ Called(r)
  /\ exited' = TRUE
  /\ UNCHANGED <<meta, call, consumers, age, watcher, clean, accepted, counters>>

\* Authentication failed.
Deny(r) ==
  /\ Arrives(r, Denied)
  /\ Tell(r, "denied")
  /\ UNCHANGED <<meta, consumers, age, watcher, clean, accepted, counters, exited>>

\* No config, no skipPreflight in it, or a preflight asked for.
RefuseConfig(r) ==
  /\ \E auth \in Partner : Arrives(r, auth)
  /\ Tell(r, "bad_config")
  /\ UNCHANGED <<meta, consumers, age, watcher, clean, accepted, counters, exited>>

\* The call is counted as accepted before its data is looked at.
Accept(r, auth, m) ==
  /\ auth # Denied /\ Arrives(r, auth)
  /\ m \in select_mode(auth)
  /\ partner' = [partner EXCEPT ![r] = auth] /\ mode' = [mode EXCEPT ![r] = m]
  /\ accepted' = [accepted EXCEPT ![<<auth, m>>] = @ + 1]
  /\ UNCHANGED public_key

\* base64::decode(..).unwrap() panics.
DecodePanics(r, auth, m) ==
  /\ Accept(r, auth, m)
  /\ exited' = TRUE
  /\ UNCHANGED <<call, consumers, age, watcher, clean, counters>>

\* The data is no transaction, or one without a signature.
RefuseData(r, auth, m) ==
  /\ Accept(r, auth, m)
  /\ Tell(r, "bad_data")
  /\ UNCHANGED <<consumers, age, watcher, clean, counters, exited>>

\* A blackholed transaction is answered like a forwarded one.
Blackhole(r, auth) ==
  /\ Accept(r, auth, "BLACKHOLE")
  /\ Tell(r, "blackholed")
  /\ UNCHANGED <<consumers, age, watcher, clean, counters, exited>>

\* The record is created, and publish called.
Forward(r, auth) ==
  /\ Accept(r, auth, "FORWARD")
  /\ Tell(r, "publishing")
  /\ UNCHANGED <<consumers, age, watcher, clean, counters, exited>>

\* publish finds nobody to send to.
PublishErr(r) ==
  /\ ~ exited /\ call[r] = "publishing"
  /\ Tell(r, "failed")
  /\ UNCHANGED <<meta, consumers, age, watcher, clean, accepted, counters, exited>>

\* Plausible slip: the record goes to the watcher before the transaction is sent.
HangUpWatched(r) ==
  /\ ~ exited /\ call[r] = "publishing"
  /\ Tell(r, "cancelled") /\ inbox' = Append(inbox, r)
  /\ UNCHANGED <<meta, consumers, age, signature_queue, bundles, clean, accepted,
                 counters, exited>>

\* The caller hangs up, and the future is dropped inside publish.
HangUp(r) ==
  /\ ~ exited /\ call[r] = "publishing"
  /\ Tell(r, "cancelled")
  /\ UNCHANGED <<meta, consumers, age, watcher, clean, accepted, counters, exited>>

\* publish has been through its picks; the record goes to the watcher.
PublishOk(r) ==
  /\ ~ exited /\ call[r] = "publishing"
  /\ \E list \in ConsumerLists : consumers' = [consumers EXCEPT ![r] = list]
  /\ inbox' = Append(inbox, r)
  /\ Tell(r, "ok")
  /\ UNCHANGED <<meta, age, signature_queue, bundles, clean, accepted, counters,
                 exited>>

(***************************************************************************)
(* The signature watcher.                                                  *)
(***************************************************************************)

\* Plausible slip: the record keeps the time at which the handler created it.
StampKept(r) == UNCHANGED age

\* record.created_at = now
Stamp(r) == age' = [age EXCEPT ![r] = 0]

\* A record is stamped and queued.
Receive ==
  /\ ~ exited /\ inbox # <<>>
  /\ inbox' = Tail(inbox)
  /\ Stamp(Head(inbox))
  /\ signature_queue' = Append(signature_queue, Head(inbox))
  /\ UNCHANGED <<meta, call, consumers, bundles, clean, accepted, counters, exited>>

Old(r) == age[r] > CheckAfter

\* How many records the scan takes: it stops at the first young one.
old_prefix == Max({k \in 0 .. Len(signature_queue) :
                     \A j \in 1 .. k : Old(signature_queue[j])})

\* Plausible slip: a bundle is sent off only when it is full.
DueWhenFull == old_prefix >= MaxBundle

Due == old_prefix > 0

\* Plausible slip: the bundles overlap by one record.
BundlesOverlap(k) ==
  {SubSeq(signature_queue, i * MaxBundle + 1,
          IF (i + 1) * MaxBundle + 1 < k THEN (i + 1) * MaxBundle + 1 ELSE k) :
     i \in 0 .. (k - 1) \div MaxBundle}

\* Plausible slip: no limit on the size of a bundle.
BundlesUnlimited(k) == {SubSeq(signature_queue, 1, k)}

\* The first k records of the queue, in bundles of at most max_bundle_size.
BundlesOf(k) ==
  {SubSeq(signature_queue, i * MaxBundle + 1,
          IF (i + 1) * MaxBundle < k THEN (i + 1) * MaxBundle ELSE k) :
     i \in 0 .. (k - 1) \div MaxBundle}

\* Every second the old records are drained into bundles, each with a task.
Bundle ==
  /\ ~ exited /\ Due
  /\ bundles' = bundles \cup BundlesOf(old_prefix)
  /\ signature_queue' = SubSeq(signature_queue, old_prefix + 1, Len(signature_queue))
  /\ UNCHANGED <<meta, call, consumers, age, inbox, clean, accepted, counters,
                 exited>>

\* A counter by partner goes up once for each of the records.
CountPartners(counter, records) ==
  [p \in Partner |-> counter[p] + Cardinality({r \in records : partner[r] = p})]

\* The places of a consumer in the lists of the records.
Mentions(c, records) ==
  UNION {{r} \X {k \in 1 .. Len(consumers[r]) : consumers[r][k] = c} : r \in records}

\* A counter by consumer goes up for each name in the records' lists.
CountConsumers(counter, records) ==
  [c \in Consumer |-> counter[c] + Cardinality(Mentions(c, records))]

\* A checker ends: it counts some records of its bundle as known, some as late,
\* and for some of them the consumers that were late.
Settle(b, known, late, late_consumers) ==
  /\ ~ exited /\ b \in bundles
  /\ bundles' = bundles \ {b}
  /\ finalized' = CountPartners(finalized, known)
  /\ success' = CountPartners(success, known)
  /\ finalized_by' = CountConsumers(finalized_by, known)
  /\ timed_out' = CountPartners(timed_out, late)
  /\ timed_out_by' = CountConsumers(timed_out_by, late_consumers)
  /\ UNCHANGED <<meta, call, consumers, age, inbox, signature_queue, accepted,
                 exited>>

\* Plausible slip: all consumers of the bundle are counted as late.
CheckStatusesAllLate(b, known) == Settle(b, known, Range(b) \ known, Range(b)) /\ UNCHANGED clean

\* signature_checker gets the statuses the chain has for some of its bundle, some
\* of them without an error.  Both arms of the match on known_status.err count a
\* success.
CheckStatuses(b, known) ==
  /\ Settle(b, known, Range(b) \ known, Range(b) \ known)
  /\ \E ok \in SUBSET known : clean' = CountPartners(clean, ok)

\* Plausible slip: a failed call for the statuses counts nothing.
CheckFailsSilently(b) == Settle(b, {}, {}, {}) /\ UNCHANGED clean

\* The call for the statuses fails: the records are late, their consumers are not
\* counted.
CheckFails(b) == Settle(b, {}, Range(b), {}) /\ UNCHANGED clean

(***************************************************************************)
(* The world.                                                              *)
(***************************************************************************)

Publishing == {r \in Request : call[r] = "publishing"}

\* Records in the hands of the watcher.
Watched == Range(inbox) \cup Range(signature_queue)
           \cup UNION {Range(b) : b \in bundles}

\* A second passes.
Tick ==
  LET ticking == {r \in Publishing \cup Range(inbox) \cup Range(signature_queue) :
                    ~ Old(r)}
  IN  /\ ~ exited /\ ticking # {}
      /\ age' = [r \in Request |-> IF r \in ticking THEN age[r] + 1 ELSE age[r]]
      /\ UNCHANGED <<meta, call, consumers, watcher, clean, accepted, counters,
                     exited>>

Handle(r) ==
  \/ ExtractPanics(r) \/ Deny(r) \/ RefuseConfig(r)
  \/ \E auth \in Partner :
       \/ \E m \in Mode : DecodePanics(r, auth, m) \/ RefuseData(r, auth, m)
       \/ Blackhole(r, auth) \/ Forward(r, auth)

Check(b) == CheckFails(b) \/ \E known \in SUBSET Range(b) : CheckStatuses(b, known)

Next == \/ \E r \in Request : \/ Handle(r) \/ PublishErr(r) \/ HangUp(r)
                              \/ PublishOk(r)
        \/ Receive \/ Bundle \/ Tick
        \/ \E b \in bundles : Check(b)

Spec == Init /\ [][Next]_vars

\* The watcher's loop is polled, select! picks among its ready arms at random,
\* spawned tasks run and time passes.
FairSpec == /\ Spec
            /\ WF_vars(Receive) /\ WF_vars(Bundle) /\ WF_vars(Tick)
            /\ WF_vars(\E b \in bundles : Check(b))

(***************************************************************************)
(* Properties.                                                             *)
(***************************************************************************)

\* Every variable stays in its range, and no bundle is empty or too large.
TypeOK ==
  /\ public_key \in BOOLEAN /\ exited \in BOOLEAN
  /\ call \in [Request -> {"none", "denied", "bad_config", "bad_data", "blackholed",
                           "publishing", "failed", "cancelled", "ok"}]
  /\ partner \in [Request -> Partner] /\ mode \in [Request -> Mode]
  /\ consumers \in [Request -> ConsumerLists \cup {<<>>}]
  /\ age \in [Request -> 0 .. CheckAfter + 1]
  /\ inbox \in Seq(Request) /\ signature_queue \in Seq(Request)
  /\ \A b \in bundles : b \in Seq(Request) /\ Len(b) \in 1 .. MaxBundle
  /\ clean \in [Partner -> Nat]
  /\ accepted \in [Partner \X Mode -> Nat]
  /\ finalized \in [Partner -> Nat] /\ timed_out \in [Partner -> Nat]
  /\ success \in [Partner -> Nat]
  /\ finalized_by \in [Consumer -> Nat] /\ timed_out_by \in [Consumer -> Nat]

\* The books balance: of the transactions of a partner accepted for forwarding,
\* each is on its way, was refused, not forwarded or given up by its caller, or is
\* counted exactly once as finalized or timed out, however the records were
\* bundled and whichever calls to the chain failed.
BooksBalance ==
  ~ exited => \A p \in Partner :
    accepted[<<p, "FORWARD">>] =
      finalized[p] + timed_out[p]
      + Cardinality({r \in Request :
          /\ partner[r] = p /\ mode[r] = "FORWARD"
          /\ \/ r \in Watched
             \/ call[r] \in {"publishing", "bad_data", "failed", "cancelled"}})

\* No consumer is credited, with a success or with a timeout, beyond the copies
\* it took of transactions whose outcome is known: partial failures and the order
\* of the bundles may lose credits, never invent them.
NoUndueCredit ==
  \A c \in Consumer :
    finalized_by[c] + timed_out_by[c] <= Cardinality(Mentions(c, Request \ Watched))

\* A record is in one place at a time: the watcher neither copies nor keeps it.
OnePlace ==
  /\ IsInjective(inbox) /\ IsInjective(signature_queue)
  /\ Range(inbox) \cap Range(signature_queue) = {}
  /\ \A b \in bundles :
       IsInjective(b) /\ Range(b) \cap (Range(inbox) \cup Range(signature_queue)) = {}
  /\ \A b, d \in bundles : b # d => Range(b) \cap Range(d) = {}

\* The records that are due are in front: the scan, which stops at the first young
\* record, misses none, although publish hands records over in any order.
DueInFront ==
  \A i, j \in 1 .. Len(signature_queue) :
    i < j /\ Old(signature_queue[j]) => Old(signature_queue[i])

\* A published transaction is eventually counted, one way or the other.
PublishedIsCounted ==
  \A r \in Request : r \in Watched ~> r \notin Watched \/ exited

\* "How many transactions ended on chain without errors" (metrics.rs:85).
SuccessMeansNoError == \A p \in Partner : success[p] <= clean[p]

(***************************************************************************)
(* What the server promises about a call.                                  *)
(***************************************************************************)

\* A record that is answered and that the watcher does not hold has to be counted.
FateOf(r) ==
  CASE call[r] = "none" -> "new"
    [] call[r] \in {"denied", "bad_config", "bad_data", "blackholed"} -> "dismissed"
    [] call[r] = "cancelled" -> "hungup"
    [] call[r] = "ok" -> IF r \in Watched THEN "watched" ELSE "counted"
    [] OTHER -> call[r]

Fate  == [r \in Request |-> FateOf(r)]
Owner == [r \in Request |-> IF call[r] \in {"publishing", "failed", "cancelled", "ok"}
                            THEN partner[r] ELSE Unknown]
Tally == [p \in Partner |-> finalized[p] + timed_out[p]]

Promise == INSTANCE Delivery WITH
  Lists <- ConsumerLists \cup {<<>>},
  fate <- Fate, owner <- Owner, carriers <- consumers, tally <- Tally

\* The handler and the watcher implement Delivery: every call is dismissed, given
\* up or published, and every one published is counted once, for its partner.
KeepsPromise == Promise!Spec
==============================================================================
