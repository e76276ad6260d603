---------------------------- MODULE DeliveryProofs ---------------------------
(***************************************************************************)
(* Theorems about what becomes of a transaction in module Transactions:    *)
(* the counters of a partner add up, no consumer is credited beyond what   *)
(* it took, and the handler and the watcher together implement Delivery.   *)
(* They rest on the invariant of TransactionsProofs.                       *)
(***************************************************************************)
EXTENDS TransactionsProofs

(***************************************************************************)
(* Counting.                                                               *)
(***************************************************************************)

\* The elements of a set that is split in two.
LEMMA SplitCount ==
  ASSUME NEW S, NEW T, IsFiniteSet(S), IsFiniteSet(T), S \cap T = {}
  PROVE  /\ Cardinality(S) \in Nat /\ Cardinality(T) \in Nat
         /\ Cardinality(S \cup T) = Cardinality(S) + Cardinality(T)
<1>1. /\ Cardinality(S) \in Nat /\ Cardinality(T) \in Nat /\ Cardinality(S \cap T) = 0
      /\ Cardinality(S \cup T) = Cardinality(S) + Cardinality(T) - Cardinality(S \cap T)
  BY FS_CardinalityType, FS_EmptySet, FS_Union
<1>2. QED
  BY <1>1

\* The records of a partner among those of a bundle.
RecordsOf(p, S) == {r \in S : partner[r] = p}

\* A bundle's records are counted once for their partners, whether the chain knows
\* them or not.
LEMMA CheckTally ==
  ASSUME IInv, NEW b \in bundles, Check(b), NEW p \in Partner
  PROVE  /\ Cardinality(RecordsOf(p, Range(b))) \in Nat
         /\ finalized'[p] \in Nat /\ timed_out'[p] \in Nat
         /\ finalized[p] \in Nat /\ timed_out[p] \in Nat
         /\ finalized'[p] + timed_out'[p] =
              finalized[p] + timed_out[p] + Cardinality(RecordsOf(p, Range(b)))
<1>1. PICK known \in SUBSET Range(b) :
             /\ finalized' = CountPartners(finalized, known)
             /\ timed_out' = CountPartners(timed_out, Range(b) \ known)
  BY CheckEffect
<1>2. Range(b) \in SUBSET Request
  BY CheckKeeps
<1> DEFINE all  == RecordsOf(p, Range(b))
           seen == RecordsOf(p, known)
           lost == RecordsOf(p, Range(b) \ known)
<1>3. seen \cup lost = all /\ seen \cap lost = {}
  BY DEF RecordsOf
<1>4. seen \in SUBSET Request /\ lost \in SUBSET Request
  BY <1>2 DEF RecordsOf
<1>5. /\ finalized'[p] = finalized[p] + Cardinality(seen)
      /\ timed_out'[p] = timed_out[p] + Cardinality(lost)
  BY <1>1 DEF CountPartners, RecordsOf
<1>6. finalized[p] \in Nat /\ timed_out[p] \in Nat
  BY DEF IInv, CountTypes
<1> HIDE DEF seen, lost, all
<1>7. /\ Cardinality(seen) \in Nat /\ Cardinality(lost) \in Nat
      /\ Cardinality(all) = Cardinality(seen) + Cardinality(lost)
  BY <1>3, <1>4, CallsFinite, SplitCount
<1>8. QED
  BY <1>5, <1>6, <1>7 DEF all

(***************************************************************************)
(* The books of a partner.                                                 *)
(***************************************************************************)

\* The calls of a partner accepted for forwarding and not counted by the watcher.
Open(p) ==
  {r \in Request : /\ partner[r] = p /\ mode[r] = "FORWARD"
                   /\ \/ r \in Watched
                      \/ call[r] \in {"publishing", "bad_data", "failed", "cancelled"}}

Balanced(p) == accepted[<<p, "FORWARD">>] = finalized[p] + timed_out[p] + Cardinality(Open(p))

\* The books by the set of open calls.
LEMMA BooksByOpen == BooksBalance <=> (~ exited => \A p \in Partner : Balanced(p))
BY DEF BooksBalance, Balanced, Open

\* The open calls can be counted.
LEMMA OpenFinite ==
  ASSUME NEW p
  PROVE  IsFiniteSet(Open(p)) /\ Cardinality(Open(p)) \in Nat
BY CallsFinite DEF Open

\* A step that changes neither a counter nor the set of open calls.
LEMMA SameBooks ==
  ASSUME NEW p \in Partner, Balanced(p), UNCHANGED <<finalized, timed_out>>,
         accepted'[<<p, "FORWARD">>] = accepted[<<p, "FORWARD">>], Open(p)' = Open(p)
  PROVE  Balanced(p)'
BY DEF Balanced

\* A call enters the books as it is accepted for forwarding.
LEMMA BooksHandle ==
  ASSUME IInv, NEW r \in Request, Handle(r), ~ exited', NEW p \in Partner, Balanced(p)
  PROVE  Balanced(p)'
<1>1. /\ call[r] = "none"
      /\ UNCHANGED <<consumers, finalized, timed_out>> /\ Watched' = Watched
  BY HandleEffect, HandleKeeps
<1>2. r \notin Watched /\ r \notin Open(p)
  BY <1>1 DEF IInv, WatchedAreOk, Open
<1>3. CASE /\ UNCHANGED <<partner, mode, accepted>>
           /\ \E a \in {"denied", "bad_config"} : Tell(r, a)
  <2>1. Open(p)' = Open(p)
    BY <1>1, <1>2, <1>3 DEF Open, Tell, IInv, CallTypes
  <2>2. QED
    BY <1>1, <1>3, <2>1, SameBooks
<1>4. ASSUME NEW auth \in Partner, NEW m \in Mode,
             partner' = [partner EXCEPT ![r] = auth], mode' = [mode EXCEPT ![r] = m],
             accepted' = [accepted EXCEPT ![<<auth, m>>] = @ + 1],
             \/ Tell(r, "bad_data")
             \/ m = "BLACKHOLE" /\ Tell(r, "blackholed")
             \/ m = "FORWARD" /\ Tell(r, "publishing")
      PROVE  Balanced(p)'
  <2>1. /\ \A q \in Request \ {r} : /\ partner'[q] = partner[q] /\ mode'[q] = mode[q]
                                    /\ call'[q] = call[q]
        /\ partner'[r] = auth /\ mode'[r] = m
        /\ m = "FORWARD" => call'[r] \in {"bad_data", "publishing"}
    BY <1>4 DEF IInv, CallTypes, Tell
  <2>2. \A q \in Request \ {r} : q \in Open(p)' <=> q \in Open(p)
    BY <1>1, <2>1 DEF Open
  <2>3. r \in Open(p)' <=> auth = p /\ m = "FORWARD"
    BY <1>1, <1>2, <2>1 DEF Open
  <2>4. Open(p) \subseteq Request /\ Open(p)' \subseteq Request
    BY DEF Open
  <2>5. <<p, "FORWARD">> \in Partner \X Mode /\ accepted \in [Partner \X Mode -> Nat]
    BY DEF Mode, IInv, CountTypes
  <2>6. CASE auth = p /\ m = "FORWARD"
    <3>1. Open(p)' = Open(p) \cup {r}
      BY <2>2, <2>3, <2>4, <2>6
    <3>2. Cardinality(Open(p)') = Cardinality(Open(p)) + 1
      BY <1>2, <3>1, OpenFinite, FS_AddElement
    <3>3. accepted'[<<p, "FORWARD">>] = accepted[<<p, "FORWARD">>] + 1
      BY <1>4, <2>5, <2>6
    <3>4. finalized[p] \in Nat /\ timed_out[p] \in Nat /\ Cardinality(Open(p)) \in Nat
      BY OpenFinite DEF IInv, CountTypes
    <3>5. QED
      BY <1>1, <3>2, <3>3, <3>4 DEF Balanced
  <2>7. CASE ~ (auth = p /\ m = "FORWARD")
    <3>1. Open(p)' = Open(p)
      BY <1>2, <2>2, <2>3, <2>4, <2>7
    <3>2. accepted'[<<p, "FORWARD">>] = accepted[<<p, "FORWARD">>]
      BY <1>4, <2>5, <2>7
    <3>3. QED
      BY <1>1, <3>1, <3>2, SameBooks
  <2>8. QED
    BY <2>6, <2>7
<1>5. QED
  <2>1. CASE \E auth \in Partner, m \in Mode :
               /\ partner' = [partner EXCEPT ![r] = auth]
               /\ mode' = [mode EXCEPT ![r] = m]
               /\ accepted' = [accepted EXCEPT ![<<auth, m>>] = @ + 1]
               /\ \/ Tell(r, "bad_data")
                  \/ m = "BLACKHOLE" /\ Tell(r, "blackholed")
                  \/ m = "FORWARD" /\ Tell(r, "publishing")
    BY <1>4, <2>1
  <2>2. QED
    BY <1>3, <2>1, HandleEffect, Zenon

\* A call that is not published after all stays open.
LEMMA BooksAbandon ==
  ASSUME IInv, NEW r \in Request, PublishErr(r) \/ HangUp(r), NEW p \in Partner, Balanced(p)
  PROVE  Balanced(p)'
<1>1. /\ call[r] = "publishing"
      /\ \E a \in {"failed", "cancelled"} : call' = [call EXCEPT ![r] = a]
      /\ UNCHANGED <<partner, mode, accepted, finalized, timed_out>>
      /\ Watched' = Watched
  BY AbandonKeeps DEF PublishErr, HangUp, Tell, meta, counters
<1>2. Open(p)' = Open(p)
  BY <1>1 DEF Open, IInv, CallTypes
<1>3. QED
  BY <1>1, <1>2, SameBooks

\* A call that is published stays open, now with the watcher.
LEMMA BooksPublishOk ==
  ASSUME IInv, NEW r \in Request, PublishOk(r), NEW p \in Partner, Balanced(p)
  PROVE  Balanced(p)'
<1>1. /\ call[r] = "publishing" /\ call' = [call EXCEPT ![r] = "ok"]
      /\ UNCHANGED <<partner, mode, accepted, finalized, timed_out>>
      /\ Watched' = Watched \cup {r}
  BY PublishOkKeeps DEF PublishOk, Tell, meta, counters
<1>2. Open(p)' = Open(p)
  BY <1>1 DEF Open, IInv, CallTypes
<1>3. QED
  BY <1>1, <1>2, SameBooks

\* The watcher moves its records without opening or closing a call.
LEMMA BooksWatcher ==
  ASSUME IInv, Receive \/ Bundle \/ Tick, NEW p \in Partner, Balanced(p)
  PROVE  Balanced(p)'
<1>1. UNCHANGED <<call, partner, mode, accepted, finalized, timed_out>> /\ Watched' = Watched
  BY WatcherKeeps DEF Receive, Bundle, Tick, meta, counters
<1>2. Open(p)' = Open(p)
  BY <1>1 DEF Open
<1>3. QED
  BY <1>1, <1>2, SameBooks

\* A checker closes the calls of its bundle, and counts as many.
LEMMA BooksCheck ==
  ASSUME IInv, NEW b \in bundles, Check(b), NEW p \in Partner, Balanced(p)
  PROVE  Balanced(p)'
<1> DEFINE closed == RecordsOf(p, Range(b))
<1>1. /\ UNCHANGED <<call, partner, mode, accepted>>
      /\ Watched' = Watched \ Range(b) /\ Range(b) \subseteq Watched
      /\ Range(b) \in SUBSET Request
  BY CheckEffect, CheckKeeps
<1>2. \A q \in Range(b) : call[q] = "ok" /\ mode[q] = "FORWARD"
  BY <1>1 DEF IInv, WatchedAreOk
<1>3. Open(p)' = Open(p) \ closed /\ closed \subseteq Open(p)
  BY <1>1, <1>2 DEF Open, RecordsOf
<1>4. /\ Cardinality(closed) \in Nat
      /\ finalized'[p] \in Nat /\ timed_out'[p] \in Nat
      /\ finalized[p] \in Nat /\ timed_out[p] \in Nat
      /\ finalized'[p] + timed_out'[p] = finalized[p] + timed_out[p] + Cardinality(closed)
  BY CheckTally
<1> HIDE DEF closed
<1>5. Cardinality(Open(p)') = Cardinality(Open(p)) - Cardinality(closed)
  <2>1. Open(p) \cap closed = closed
    BY <1>3
  <2>2. QED
    BY <1>3, <2>1, OpenFinite, FS_Difference
<1>6. Cardinality(Open(p)) \in Nat
  BY OpenFinite
<1>7. QED
  BY <1>1, <1>4, <1>5, <1>6 DEF Balanced

\* Every step keeps the books balanced.
LEMMA BooksNext == IInv /\ BooksBalance /\ [Next]_vars => BooksBalance'
<1> SUFFICES ASSUME IInv, BooksBalance, [Next]_vars, ~ exited', NEW p \in Partner
             PROVE  Balanced(p)'
  BY BooksByOpen DEF BooksBalance, Balanced, Open
<1>1. ASSUME Next PROVE ~ exited
  <2>1. CASE \E r \in Request : Handle(r)
    BY <2>1, HandleEffect
  <2>2. CASE \E b \in bundles : Check(b)
    BY <2>2, CheckEffect
  <2>3. CASE \/ \E r \in Request : PublishErr(r) \/ HangUp(r) \/ PublishOk(r)
             \/ Receive \/ Bundle \/ Tick
    BY <2>3 DEF PublishErr, HangUp, PublishOk, Receive, Bundle, Tick
  <2>4. QED
    BY <1>1, <2>1, <2>2, <2>3 DEF Next
<1>2. CASE Next
  <2>1. Balanced(p)
    BY <1>1, <1>2, BooksByOpen
  <2>2. QED
    BY <1>2, <2>1, BooksHandle, BooksAbandon, BooksPublishOk, BooksWatcher, BooksCheck DEF Next
<1>3. CASE UNCHANGED vars
  <2>1. UNCHANGED <<call, partner, mode, accepted, finalized, timed_out, inbox,
                    signature_queue, bundles, exited>>
    BY <1>3 DEF vars, meta, watcher, counters
  <2>2. Open(p)' = Open(p)
    BY <2>1 DEF Open, Watched
  <2>3. Balanced(p)
    BY <2>1, BooksByOpen
  <2>4. QED
    BY <2>1, <2>2, <2>3, SameBooks
<1>4. QED
  BY <1>2, <1>3

\* The books balance in every reachable state.
THEOREM BooksAlwaysBalance == Spec => []BooksBalance
<1>1. ASSUME Init PROVE BooksBalance
  <2>1. \A r \in Request : r \notin Watched
    BY <1>1 DEF Init, Watched, Range
  <2>2. SUFFICES ASSUME NEW p \in Partner PROVE Balanced(p)
    BY BooksByOpen
  <2>3. Open(p) = {}
    BY <1>1, <2>1 DEF Open, Init
  <2>4. <<p, "FORWARD">> \in Partner \X Mode
    BY DEF Mode
  <2>5. QED
    BY <1>1, <2>3, <2>4, FS_EmptySet DEF Balanced, Init
<1>2. QED
  BY <1>1, BooksNext, Invariant, PTL DEF Spec

(***************************************************************************)
(* The credits of a consumer.                                              *)
(***************************************************************************)

\* The copies a consumer took of transactions the watcher does not hold.
Settled(c) == Mentions(c, Request \ Watched)

CreditDue(c) == finalized_by[c] + timed_out_by[c] <= Cardinality(Settled(c))

\* The mentions of a consumer in records that are split in two.
LEMMA SplitMentions ==
  ASSUME CallTypes, NEW S \in SUBSET Request, NEW T \in SUBSET Request, S \cap T = {}, NEW c
  PROVE  /\ Cardinality(Mentions(c, S)) \in Nat /\ Cardinality(Mentions(c, T)) \in Nat
         /\ Cardinality(Mentions(c, S \cup T)) =
              Cardinality(Mentions(c, S)) + Cardinality(Mentions(c, T))
<1>1. Mentions(c, S \cup T) = Mentions(c, S) \cup Mentions(c, T)
  BY DEF Mentions
<1>2. Mentions(c, S) \cap Mentions(c, T) = {}
  <2>1. \A R : \A x \in Mentions(c, R) : x[1] \in R
    BY DEF Mentions
  <2>2. QED
    BY <2>1
<1>3. IsFiniteSet(Mentions(c, S)) /\ IsFiniteSet(Mentions(c, T))
  BY MentionsFinite
<1>4. QED
  BY <1>1, <1>2, <1>3, SplitCount

\* Fewer records mention a consumer less often.
LEMMA FewerMentions ==
  ASSUME CallTypes, NEW T \in SUBSET Request, NEW S \in SUBSET T, NEW c
  PROVE  /\ Cardinality(Mentions(c, S)) \in Nat /\ Cardinality(Mentions(c, T)) \in Nat
         /\ Cardinality(Mentions(c, S)) <= Cardinality(Mentions(c, T))
<1>1. /\ S \in SUBSET Request /\ T \ S \in SUBSET Request
      /\ S \cap (T \ S) = {} /\ S \cup (T \ S) = T
  OBVIOUS
<1> DEFINE R == T \ S
<1> HIDE DEF R
<1>2. /\ Cardinality(Mentions(c, S)) \in Nat /\ Cardinality(Mentions(c, R)) \in Nat
      /\ Cardinality(Mentions(c, S \cup R)) =
           Cardinality(Mentions(c, S)) + Cardinality(Mentions(c, R))
  BY <1>1, SplitMentions DEF R
<1>3. Mentions(c, S \cup R) = Mentions(c, T)
  <2>1. S \cup R = T
    BY <1>1 DEF R
  <2>2. QED
    BY <2>1, Zenon
<1>4. QED
  BY <1>2, <1>3

\* A step that settles nothing.
LEMMA SameCredit ==
  ASSUME NEW c, CreditDue(c), UNCHANGED <<finalized_by, timed_out_by>>, Settled(c)' = Settled(c)
  PROVE  CreditDue(c)'
BY DEF CreditDue

\* A step that leaves the records and their carriers alone.
LEMMA CreditIdle ==
  ASSUME NEW c, CreditDue(c), UNCHANGED <<finalized_by, timed_out_by, consumers>>,
         Watched' = Watched
  PROVE  CreditDue(c)'
<1>1. Settled(c)' = Settled(c)
  BY DEF Settled, Mentions
<1>2. QED
  BY <1>1, SameCredit

\* Carriers become known as the record goes to the watcher, so that nothing is due yet.
LEMMA CreditPublishOk ==
  ASSUME IInv, NEW r \in Request, PublishOk(r), NEW c, CreditDue(c)
  PROVE  CreditDue(c)'
<1>1. /\ Watched' = Watched \cup {r} /\ call[r] = "publishing"
      /\ UNCHANGED <<finalized_by, timed_out_by>>
      /\ \E list \in ConsumerLists : consumers' = [consumers EXCEPT ![r] = list]
  BY PublishOkKeeps DEF PublishOk, counters
<1>2. consumers[r] = <<>>
  BY <1>1 DEF IInv, HandlerInv
<1>3. \A q \in Request \ {r} : consumers'[q] = consumers[q]
  BY <1>1 DEF IInv, CallTypes
<1> DEFINE places(q)  == {q} \X {k \in 1 .. Len(consumers[q]) : consumers[q][k] = c}
           placesn(q) == {q} \X {k \in 1 .. Len(consumers'[q]) : consumers'[q][k] = c}
           rest       == Request \ (Watched \cup {r})
<1>4. places(r) = {}
  BY <1>2
<1>5. \A q \in rest : placesn(q) = places(q)
  BY <1>3
<1>6. Settled(c)' = UNION {placesn(q) : q \in rest}
  BY <1>1 DEF Settled, Mentions
<1>7. Settled(c) = UNION {places(q) : q \in Request \ Watched}
  BY DEF Settled, Mentions
<1>8. \A q \in Request \ Watched : q \in rest \/ q = r
  OBVIOUS
<1>9. \A q \in rest : q \in Request \ Watched
  OBVIOUS
<1> HIDE DEF places, placesn, rest
<1>10. Settled(c)' = Settled(c)
  BY <1>4, <1>5, <1>6, <1>7, <1>8, <1>9
<1>11. QED
  BY <1>1, <1>10, SameCredit

\* A checker credits consumers for its own bundle's records only, for each of them with
\* one outcome at most.
LEMMA CreditCheck ==
  ASSUME IInv, NEW b \in bundles, Check(b), NEW c \in Consumer, CreditDue(c)
  PROVE  CreditDue(c)'
<1>1. /\ UNCHANGED consumers
      /\ Watched' = Watched \ Range(b) /\ Range(b) \subseteq Watched
      /\ Range(b) \in SUBSET Request
  BY CheckEffect, CheckKeeps
<1>2. PICK known \in SUBSET Range(b) : \E blamed \in SUBSET (Range(b) \ known) :
             /\ finalized_by' = CountConsumers(finalized_by, known)
             /\ timed_out_by' = CountConsumers(timed_out_by, blamed)
  BY CheckEffect
<1>3. PICK blamed \in SUBSET (Range(b) \ known) :
             /\ finalized_by' = CountConsumers(finalized_by, known)
             /\ timed_out_by' = CountConsumers(timed_out_by, blamed)
  BY <1>2
<1> DEFINE before  == Request \ Watched
           batch   == Range(b)
           counted == known \cup blamed
           N(S)    == Cardinality(Mentions(c, S))
<1>4. CallTypes
  BY DEF IInv
<1>5. /\ before \in SUBSET Request /\ batch \in SUBSET Request /\ before \cap batch = {}
      /\ known \in SUBSET Request /\ blamed \in SUBSET Request /\ known \cap blamed = {}
      /\ counted \in SUBSET batch /\ Request \ Watched' = before \cup batch
  BY <1>1
<1>6. finalized_by'[c] = finalized_by[c] + N(known) /\ timed_out_by'[c] = timed_out_by[c] + N(blamed)
  BY <1>3 DEF CountConsumers
<1>7. Settled(c)' = Mentions(c, before \cup batch)
  BY <1>1, <1>5 DEF Settled, Mentions
<1>8. finalized_by[c] \in Nat /\ timed_out_by[c] \in Nat
  BY DEF IInv, CountTypes
<1>9. finalized_by[c] + timed_out_by[c] <= N(before)
  BY DEF CreditDue, Settled
<1> HIDE DEF before, batch
<1>10. N(before) \in Nat /\ N(batch) \in Nat /\ N(before \cup batch) = N(before) + N(batch)
  BY <1>4, <1>5, SplitMentions
<1>11. N(known) \in Nat /\ N(blamed) \in Nat /\ N(counted) = N(known) + N(blamed)
  BY <1>4, <1>5, SplitMentions
<1>12. N(counted) <= N(batch)
  <2> HIDE DEF counted
  <2>1. QED
    BY <1>4, <1>5, FewerMentions
<1>13. Cardinality(Settled(c)') = N(before \cup batch)
  BY <1>7
<1> HIDE DEF N, counted
<1>14. finalized_by'[c] + timed_out_by'[c] <= Cardinality(Settled(c)')
  BY <1>6, <1>8, <1>9, <1>10, <1>11, <1>12, <1>13
<1>15. QED
  BY <1>14 DEF CreditDue

\* No step credits a consumer unduly.
LEMMA CreditNext == IInv /\ NoUndueCredit /\ [Next]_vars => NoUndueCredit'
<1> SUFFICES ASSUME IInv, [Next]_vars, NEW c \in Consumer, CreditDue(c)
             PROVE  CreditDue(c)'
  BY DEF NoUndueCredit, CreditDue, Settled
<1>1. CASE \E r \in Request : Handle(r)
  BY <1>1, HandleEffect, HandleKeeps, CreditIdle
<1>2. CASE \E r \in Request : PublishErr(r) \/ HangUp(r)
  <2>1. UNCHANGED <<finalized_by, timed_out_by, consumers>> /\ Watched' = Watched
    BY <1>2, AbandonKeeps DEF PublishErr, HangUp, counters
  <2>2. QED
    BY <2>1, CreditIdle
<1>3. CASE \E r \in Request : PublishOk(r)
  BY <1>3, CreditPublishOk
<1>4. CASE Receive \/ Bundle \/ Tick
  <2>1. UNCHANGED <<finalized_by, timed_out_by, consumers>> /\ Watched' = Watched
    BY <1>4, WatcherKeeps DEF Receive, Bundle, Tick, counters
  <2>2. QED
    BY <2>1, CreditIdle
<1>5. CASE \E b \in bundles : Check(b)
  BY <1>5, CreditCheck
<1>6. CASE UNCHANGED vars
  <2>1. UNCHANGED <<finalized_by, timed_out_by, consumers>> /\ Watched' = Watched
    BY <1>6 DEF vars, watcher, counters, Watched
  <2>2. QED
    BY <2>1, CreditIdle
<1>7. QED
  BY <1>1, <1>2, <1>3, <1>4, <1>5, <1>6 DEF Next

\* No consumer is ever credited beyond the copies it took of settled transactions.
THEOREM CreditIsDue == Spec => []NoUndueCredit
<1>1. ASSUME Init PROVE NoUndueCredit
  <2>1. SUFFICES ASSUME NEW c \in Consumer PROVE CreditDue(c)
    BY DEF NoUndueCredit, CreditDue, Settled
  <2>2. CallTypes
    BY <1>1, InitIInv DEF IInv
  <2>3. Request \ Watched \in SUBSET Request
    OBVIOUS
  <2>4. Cardinality(Settled(c)) \in Nat
    BY <2>2, <2>3, MentionsFinite DEF Settled
  <2>5. finalized_by[c] = 0 /\ timed_out_by[c] = 0
    BY <1>1 DEF Init
  <2>6. QED
    BY <2>4, <2>5 DEF CreditDue
<1>2. QED
  BY <1>1, CreditNext, Invariant, PTL DEF Spec

(***************************************************************************)
(* The promise about a call.                                               *)
(***************************************************************************)

\* The fates by the place of the call.
LEMMA Fates ==
  ASSUME NEW r \in Request
  PROVE  /\ Fate[r] = FateOf(r) /\ Fate = [Fate EXCEPT ![r] = FateOf(r)]
         /\ call[r] = "none" => FateOf(r) = "new"
         /\ call[r] \in {"denied", "bad_config", "bad_data", "blackholed"}
              => FateOf(r) = "dismissed"
         /\ call[r] = "publishing" => FateOf(r) = "publishing"
         /\ call[r] = "failed" => FateOf(r) = "failed"
         /\ call[r] = "cancelled" => FateOf(r) = "hungup"
         /\ call[r] = "ok" /\ r \in Watched => FateOf(r) = "watched"
         /\ call[r] = "ok" /\ r \notin Watched => FateOf(r) = "counted"
<1>1. Fate[r] = FateOf(r) /\ Fate = [Fate EXCEPT ![r] = FateOf(r)]
  BY DEF Fate
<1>2. /\ call[r] = "none" => FateOf(r) = "new"
      /\ call[r] \in {"denied", "bad_config", "bad_data", "blackholed"}
           => FateOf(r) = "dismissed"
      /\ call[r] = "publishing" => FateOf(r) = "publishing"
      /\ call[r] = "failed" => FateOf(r) = "failed"
      /\ call[r] = "cancelled" => FateOf(r) = "hungup"
      /\ call[r] = "ok" /\ r \in Watched => FateOf(r) = "watched"
      /\ call[r] = "ok" /\ r \notin Watched => FateOf(r) = "counted"
  BY DEF FateOf
<1>3. QED
  BY <1>1, <1>2

\* One call moves on while the others stay where they are.
LEMMA OneMoves ==
  ASSUME NEW r \in Request, NEW to, call' = [call EXCEPT ![r] = to], CallTypes,
         \A q \in Request \ {r} : q \in Watched' <=> q \in Watched
  PROVE  Fate' = [Fate EXCEPT ![r] = FateOf(r)'] /\ call'[r] = to
<1>1. call'[r] = to /\ \A q \in Request \ {r} : call'[q] = call[q]
  BY DEF CallTypes
<1>2. \A q \in Request \ {r} : FateOf(q)' = FateOf(q)
  BY <1>1 DEF FateOf
<1>3. QED
  BY <1>1, <1>2 DEF Fate

\* Nobody has called.
LEMMA PromiseInit == Init => Promise!Init
<1> SUFFICES ASSUME Init PROVE Promise!Init
  OBVIOUS
<1>1. Fate = [r \in Request |-> "new"]
  BY Fates DEF Fate, Init
<1>2. Owner \in [Request -> Partner]
  BY TransactionsAssumption DEF Owner, Init
<1>3. consumers \in [Request -> ConsumerLists \cup {<<>>}]
  BY DEF Init
<1>4. Tally = [p \in Partner |-> 0]
  BY DEF Tally, Init
<1>5. QED
  BY <1>1, <1>2, <1>3, <1>4 DEF Promise!Init

\* A call is dismissed or taken; one whose handler panicked stays new.
LEMMA PromiseHandle ==
  ASSUME IInv, NEW r \in Request, Handle(r)
  PROVE  Promise!Dismiss(r) \/ Promise!Take(r) \/ UNCHANGED Promise!vars
<1>1. /\ call[r] = "none" /\ UNCHANGED <<consumers, finalized, timed_out>>
      /\ Watched' = Watched
  BY HandleEffect, HandleKeeps
<1>2. /\ UNCHANGED <<consumers, Tally>>
      /\ Fate[r] = "new" /\ Owner[r] = Unknown
      /\ Owner \in [Request -> Partner]
  BY <1>1, Fates, TransactionsAssumption DEF Tally, Owner, IInv, CallTypes
<1>3. \A q \in Request \ {r} : partner'[q] = partner[q] 
  BY HandleEffect DEF IInv, CallTypes
<1>4. ASSUME UNCHANGED call PROVE UNCHANGED Promise!vars
  <2>1. Fate' = Fate
    BY <1>1, <1>4 DEF Fate, FateOf
  <2>2. Owner' = Owner
    BY <1>1, <1>3, <1>4 DEF Owner
  <2>3. QED
    BY <1>2, <2>1, <2>2 DEF Promise!vars
<1>5. ASSUME NEW a \in {"denied", "bad_config", "bad_data", "blackholed"}, Tell(r, a)
      PROVE  Promise!Dismiss(r)
  <2>1. Fate' = [Fate EXCEPT ![r] = FateOf(r)'] /\ call'[r] = a
    BY <1>1, <1>5, OneMoves DEF Tell, IInv
  <2>2. FateOf(r)' = "dismissed"
    BY <2>1 DEF FateOf
  <2>3. Owner' = Owner
    BY <1>1, <1>3, <1>5 DEF Owner, Tell, IInv, CallTypes
  <2>4. QED
    BY <1>2, <2>1, <2>2, <2>3 DEF Promise!Dismiss, Promise!Moves
<1>6. ASSUME NEW auth \in Partner, partner' = [partner EXCEPT ![r] = auth],
             Tell(r, "publishing")
      PROVE  Promise!Take(r)
  <2>1. Fate' = [Fate EXCEPT ![r] = FateOf(r)'] /\ call'[r] = "publishing"
    BY <1>1, <1>6, OneMoves DEF Tell, IInv
  <2>2. FateOf(r)' = "publishing"
    BY <2>1 DEF FateOf
  <2>3. Owner' = [Owner EXCEPT ![r] = auth]
    BY <1>1, <1>6 DEF Owner, Tell, IInv, CallTypes
  <2>4. Owner'[r] = auth
    BY <1>2, <2>3
  <2>5. QED
    BY <1>2, <2>1, <2>2, <2>3, <2>4 DEF Promise!Take, Promise!Moves
<1>7. \/ UNCHANGED call
      \/ \E a \in {"denied", "bad_config", "bad_data", "blackholed"} : Tell(r, a)
      \/ \E auth \in Partner : partner' = [partner EXCEPT ![r] = auth] /\ Tell(r, "publishing")
  BY HandleEffect
<1>8. QED
  BY <1>4, <1>5, <1>6, <1>7, Zenon

\* A call whose publication fails, or whose caller hangs up, is abandoned.
LEMMA PromiseAbandon ==
  ASSUME IInv, NEW r \in Request, PublishErr(r) \/ HangUp(r)
  PROVE  Promise!Abandon(r)
<1>1. PICK a \in {"failed", "cancelled"} : call' = [call EXCEPT ![r] = a]
  BY DEF PublishErr, HangUp, Tell
<1>2. /\ call[r] = "publishing" /\ Watched' = Watched
      /\ UNCHANGED <<partner, consumers, finalized, timed_out>>
  BY AbandonKeeps DEF PublishErr, HangUp, meta, counters
<1>3. Fate' = [Fate EXCEPT ![r] = FateOf(r)'] /\ call'[r] = a
  BY <1>1, <1>2, OneMoves DEF IInv
<1>4. Fate[r] = "publishing" /\ FateOf(r)' \in {"failed", "hungup"}
  BY <1>2, <1>3, Fates DEF FateOf
<1>5. UNCHANGED <<Owner, consumers, Tally>>
  BY <1>1, <1>2 DEF Owner, Tally, IInv, CallTypes
<1>6. QED
  BY <1>3, <1>4, <1>5 DEF Promise!Abandon, Promise!Moves

\* A call that is published is handed over.
LEMMA PromisePublishOk ==
  ASSUME IInv, NEW r \in Request, PublishOk(r)
  PROVE  Promise!HandOver(r)
<1>1. /\ call[r] = "publishing" /\ call' = [call EXCEPT ![r] = "ok"]
      /\ Watched' = Watched \cup {r}
      /\ UNCHANGED <<partner, finalized, timed_out>>
      /\ \E list \in ConsumerLists : consumers' = [consumers EXCEPT ![r] = list]
  BY PublishOkKeeps DEF PublishOk, Tell, meta, counters
<1>2. Fate' = [Fate EXCEPT ![r] = FateOf(r)'] /\ call'[r] = "ok"
  BY <1>1, OneMoves DEF IInv
<1>3. Fate[r] = "publishing" /\ FateOf(r)' = "watched"
  BY <1>1, <1>2, Fates DEF FateOf
<1>4. UNCHANGED <<Owner, Tally>>
  BY <1>1 DEF Owner, Tally, IInv, CallTypes
<1>5. /\ consumers'[r] \in ConsumerLists \cup {<<>>}
      /\ consumers' = [consumers EXCEPT ![r] = consumers'[r]]
  BY <1>1 DEF IInv, CallTypes
<1>6. QED
  BY <1>2, <1>3, <1>4, <1>5 DEF Promise!HandOver, Promise!Moves

\* The watcher's own steps do not show.
LEMMA PromiseIdle ==
  ASSUME UNCHANGED <<call, partner, consumers, finalized, timed_out>>, Watched' = Watched
  PROVE  UNCHANGED Promise!vars
<1>1. Fate' = Fate
  BY DEF Fate, FateOf
<1>2. UNCHANGED <<Owner, Tally>>
  BY DEF Owner, Tally
<1>3. QED
  BY <1>1, <1>2 DEF Promise!vars

\* A checker counts the calls of its bundle, each for the partner that made it.
LEMMA PromiseCheck ==
  ASSUME IInv, NEW b \in bundles, Check(b)
  PROVE  Promise!Count(Range(b)) /\ Range(b) \in SUBSET Request
<1>1. /\ UNCHANGED <<call, partner, consumers>> /\ Watched' = Watched \ Range(b)
      /\ Range(b) \subseteq Watched /\ Range(b) # {} /\ Range(b) \in SUBSET Request
  BY CheckEffect, CheckKeeps
<1>2. \A r \in Range(b) : r \in Request /\ call[r] = "ok" /\ Owner[r] = partner[r]
  BY <1>1 DEF IInv, WatchedAreOk, Owner
<1>3. \A r \in Range(b) : Fate[r] = "watched"
  BY <1>1, <1>2, Fates
<1>4. Fate' = [r \in Request |-> IF r \in Range(b) THEN "counted" ELSE Fate[r]]
  <2>1. \A r \in Range(b) : FateOf(r)' = "counted"
    BY <1>1, <1>2 DEF FateOf
  <2>2. \A r \in Request \ Range(b) : FateOf(r)' = Fate[r]
    BY <1>1 DEF FateOf, Fate
  <2>3. Fate' = [r \in Request |-> FateOf(r)']
    BY DEF Fate
  <2>4. QED
    BY <2>1, <2>2, <2>3
<1>5. UNCHANGED <<Owner, consumers>>
  BY <1>1 DEF Owner
<1>6. Tally' = [p \in Partner |->
                  Tally[p] + Cardinality({r \in Range(b) : Owner[r] = p})]
  <2>1. ASSUME NEW p \in Partner
        PROVE  finalized'[p] + timed_out'[p] =
                 Tally[p] + Cardinality({r \in Range(b) : Owner[r] = p})
    <3>1. {r \in Range(b) : Owner[r] = p} = RecordsOf(p, Range(b))
      BY <1>2 DEF RecordsOf
    <3>2. Tally[p] = finalized[p] + timed_out[p]
      BY DEF Tally
    <3>3. finalized'[p] + timed_out'[p] =
            finalized[p] + timed_out[p] + Cardinality(RecordsOf(p, Range(b)))
      BY CheckTally
    <3>4. QED
      BY <3>1, <3>2, <3>3, Zenon
  <2>2. Tally' = [p \in Partner |-> finalized'[p] + timed_out'[p]]
    BY DEF Tally
  <2>3. QED
    BY <2>1, <2>2, Zenon
<1>7. Promise!Count(Range(b))
  <2>1. UNCHANGED <<Owner, consumers>>
    BY <1>5
  <2>2. Range(b) # {} /\ \A r \in Range(b) : Fate[r] = "watched"
    BY <1>1, <1>3
  <2>3. \A S : Promise!Cardinality(S) = Cardinality(S)
    BY DEF Promise!Cardinality, Cardinality
  <2>4. Tally' = [p \in Partner |->
                    Tally[p] + Promise!Cardinality({r \in Range(b) : Owner[r] = p})]
    BY <1>6, <2>3, Zenon
  <2>5. QED
    BY <1>4, <2>1, <2>2, <2>4, Zenon DEF Promise!Count
<1>8. QED
  BY <1>1, <1>7

\* Every step of the server is a step of the promise, or does not show.
LEMMA PromiseNext == IInv /\ [Next]_vars => [Promise!Next]_(Promise!vars)
<1> SUFFICES ASSUME IInv, [Next]_vars PROVE Promise!Next \/ UNCHANGED Promise!vars
  OBVIOUS
<1>1. CASE \E r \in Request : Handle(r)
  BY <1>1, PromiseHandle DEF Promise!Next
<1>2. CASE \E r \in Request : PublishErr(r) \/ HangUp(r)
  BY <1>2, PromiseAbandon DEF Promise!Next
<1>3. CASE \E r \in Request : PublishOk(r)
  BY <1>3, PromisePublishOk DEF Promise!Next
<1>4. CASE Receive \/ Bundle \/ Tick
  <2>1. UNCHANGED <<call, partner, consumers, finalized, timed_out>> /\ Watched' = Watched
    BY <1>4, WatcherKeeps DEF Receive, Bundle, Tick, meta, counters
  <2>2. QED
    BY <2>1, PromiseIdle
<1>5. CASE \E b \in bundles : Check(b)
  BY <1>5, PromiseCheck DEF Promise!Next
<1>6. CASE UNCHANGED vars
  <2>1. UNCHANGED <<call, partner, consumers, finalized, timed_out>> /\ Watched' = Watched
    BY <1>6 DEF vars, meta, watcher, counters, Watched
  <2>2. QED
    BY <2>1, PromiseIdle
<1>7. QED
  BY <1>1, <1>2, <1>3, <1>4, <1>5, <1>6 DEF Next

\* The handler and the watcher implement Delivery: every call is dismissed, abandoned
\* or handed over to the watcher, its carriers are then fixed, and it is counted once.
THEOREM ServerKeepsPromise == Spec => KeepsPromise
BY PromiseInit, PromiseNext, Invariant, PTL DEF Spec, KeepsPromise, Promise!Spec
==============================================================================
