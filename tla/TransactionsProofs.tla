-------------------------- MODULE TransactionsProofs -------------------------
(***************************************************************************)
(* Theorems about the signature watcher of module Transactions: its types, *)
(* where its records are, and the order of its queue.  They hold for any   *)
(* number of calls, any size of the bundles and any age of the check.      *)
(***************************************************************************)
EXTENDS Transactions, FiniteSetTheorems, SequenceTheorems, TLAPS

(***************************************************************************)
(* Queues without repetition.                                              *)
(***************************************************************************)

\* What a queue holds once something is put at its end.
LEMMA AppendDistinct ==
  ASSUME NEW S, NEW q \in Seq(S), NEW e \in S
  PROVE  /\ Append(q, e) \in Seq(S)
         /\ Range(Append(q, e)) = Range(q) \cup {e}
         /\ IsInjective(q) /\ e \notin Range(q) => IsInjective(Append(q, e))
<1> DEFINE a == Append(q, e)
<1>1. /\ a \in Seq(S) /\ Len(a) = Len(q) + 1 /\ Len(q) \in Nat
      /\ \A i \in 1 .. Len(q) : a[i] = q[i]
      /\ a[Len(q) + 1] = e
  BY AppendProperties
<1>2. DOMAIN a = 1 .. Len(q) + 1 /\ DOMAIN q = 1 .. Len(q)
  BY <1>1
<1> HIDE DEF a
<1>3. Range(a) = Range(q) \cup {e}
  BY <1>1, <1>2 DEF Range
<1>4. ASSUME IsInjective(q), e \notin Range(q) PROVE IsInjective(a)
  BY <1>1, <1>2, <1>4 DEF IsInjective, Range
<1>5. QED
  BY <1>1, <1>3, <1>4 DEF a

\* What a queue holds once its head is taken.
LEMMA TailDistinct ==
  ASSUME NEW S, NEW q \in Seq(S), q # <<>>, IsInjective(q)
  PROVE  /\ Tail(q) \in Seq(S) /\ IsInjective(Tail(q))
         /\ Head(q) \in S /\ Head(q) \in Range(q)
         /\ Range(Tail(q)) = Range(q) \ {Head(q)}
<1> DEFINE t == Tail(q)
<1>1. Len(q) \in Nat \ {0} /\ DOMAIN q = 1 .. Len(q)
  BY EmptySeq
<1>2. /\ t \in Seq(S) /\ Len(t) = Len(q) - 1 /\ Head(q) \in S /\ Head(q) = q[1]
      /\ \A i \in 1 .. Len(t) : t[i] = q[i + 1]
  BY HeadTailProperties
<1>3. DOMAIN t = 1 .. Len(q) - 1
  BY <1>2
<1> HIDE DEF t
<1>4. IsInjective(t)
  BY <1>1, <1>2, <1>3 DEF IsInjective
<1>5. \A i \in 2 .. Len(q) : i - 1 \in DOMAIN t /\ t[i - 1] = q[i] /\ q[i] # q[1]
  BY <1>1, <1>2, <1>3 DEF IsInjective
<1>6. Range(t) = Range(q) \ {q[1]}
  <2>1. \A x \in Range(t) : x \in Range(q) /\ x # q[1]
    BY <1>1, <1>2, <1>3 DEF Range, IsInjective
  <2>2. \A x \in Range(q) : x # q[1] => x \in Range(t)
    BY <1>1, <1>5 DEF Range
  <2>3. QED
    BY <2>1, <2>2
<1>7. Head(q) \in Range(q)
  BY <1>1, <1>2 DEF Range
<1>8. QED
  BY <1>2, <1>4, <1>6, <1>7 DEF t

\* A part of a queue.
LEMMA PartDistinct ==
  ASSUME NEW S, NEW q \in Seq(S), NEW m \in Nat \ {0}, NEW n \in Nat, n <= Len(q), m <= n + 1
  PROVE  /\ SubSeq(q, m, n) \in Seq(S) /\ Len(SubSeq(q, m, n)) = n - m + 1
         /\ \A i \in 1 .. n - m + 1 : SubSeq(q, m, n)[i] = q[m + i - 1]
         /\ Range(SubSeq(q, m, n)) = {q[i] : i \in m .. n}
         /\ IsInjective(q) => IsInjective(SubSeq(q, m, n))
<1> DEFINE p == SubSeq(q, m, n)
<1>1. Len(q) \in Nat /\ DOMAIN q = 1 .. Len(q) /\ \A i \in 1 .. Len(q) : q[i] \in S
  OBVIOUS
<1>2. \A i \in m .. n : q[i] \in S
  BY <1>1
<1>3. /\ p \in Seq(S) /\ Len(p) = n - m + 1
      /\ \A i \in 1 .. n - m + 1 : p[i] = q[m + i - 1]
  BY <1>2, SubSeqProperties
<1>4. DOMAIN p = 1 .. n - m + 1
  BY <1>3
<1> HIDE DEF p
<1>5. Range(p) = {q[i] : i \in m .. n}
  <2>1. ASSUME NEW i \in m .. n PROVE \E j \in DOMAIN p : p[j] = q[i]
    <3>1. i - m + 1 \in 1 .. n - m + 1 /\ m + (i - m + 1) - 1 = i
      OBVIOUS
    <3>2. p[i - m + 1] = q[i]
      BY <1>3, <3>1
    <3>3. QED
      BY <1>4, <3>1, <3>2
  <2>2. ASSUME NEW j \in DOMAIN p PROVE \E i \in m .. n : p[j] = q[i]
    <3>1. m + j - 1 \in m .. n /\ p[j] = q[m + j - 1]
      BY <1>3, <1>4
    <3>2. QED
      BY <3>1
  <2>3. QED
    BY <2>1, <2>2 DEF Range
<1>6. ASSUME IsInjective(q) PROVE IsInjective(p)
  <2>1. \A i \in DOMAIN p : m + i - 1 \in DOMAIN q /\ i \in Int
    BY <1>1, <1>4
  <2>2. QED
    BY <1>3, <1>4, <1>6, <2>1 DEF IsInjective
<1>7. QED
  BY <1>3, <1>5, <1>6 DEF p

\* Parts of a queue that do not overlap share nothing.
LEMMA PartsDisjoint ==
  ASSUME NEW S, NEW q \in Seq(S), IsInjective(q),
         NEW m \in Nat \ {0}, NEW n \in Nat, NEW o \in Nat \ {0}, NEW p \in Nat,
         n < o, p <= Len(q)
  PROVE  \A i \in m .. n, j \in o .. p : q[i] # q[j]
<1>1. Len(q) \in Nat /\ DOMAIN q = 1 .. Len(q)
  OBVIOUS
<1> SUFFICES ASSUME NEW i \in m .. n, NEW j \in o .. p, q[i] = q[j] PROVE FALSE
  OBVIOUS
<1>2. i \in DOMAIN q /\ j \in DOMAIN q /\ i # j
  BY <1>1
<1>3. QED
  BY <1>2 DEF IsInjective

(***************************************************************************)
(* Bundles.                                                                *)
(***************************************************************************)

First(i) == i * MaxBundle + 1

Final(i, k) == IF (i + 1) * MaxBundle < k THEN (i + 1) * MaxBundle ELSE k

\* The bounds of the i-th of the bundles of k records.
LEMMA BundleBounds ==
  ASSUME NEW k \in Nat \ {0}, NEW i \in 0 .. (k - 1) \div MaxBundle
  PROVE  /\ i \in Nat /\ First(i) \in Nat \ {0} /\ Final(i, k) \in Nat
         /\ First(i) <= Final(i, k) /\ Final(i, k) <= k
         /\ Final(i, k) - First(i) + 1 \in 1 .. MaxBundle
<1> DEFINE top == (k - 1) \div MaxBundle
           im  == i * MaxBundle
<1>1. MaxBundle \in Nat \ {0} /\ k - 1 \in Nat
  BY TransactionsAssumption
<1>2. top \in Nat /\ top * MaxBundle <= k - 1
  BY <1>1
<1>3. i \in Nat /\ i <= top
  BY <1>2
<1> HIDE DEF top
<1>4. im \in Nat /\ im <= top * MaxBundle
  BY <1>1, <1>2, <1>3
<1>5. top * MaxBundle \in Nat
  BY <1>1, <1>2
<1>6. im <= k - 1
  BY <1>1, <1>2, <1>4, <1>5
<1>7. (i + 1) * MaxBundle = im + MaxBundle
  BY <1>1, <1>3
<1>8. First(i) = im + 1 /\ Final(i, k) = IF im + MaxBundle < k THEN im + MaxBundle ELSE k
  BY <1>7 DEF First, Final
<1> HIDE DEF im
<1>9. QED
  BY <1>1, <1>3, <1>4, <1>6, <1>8

\* A bundle ends before the next one begins.
LEMMA BundlesInOrder ==
  ASSUME NEW k \in Nat \ {0}, NEW i \in Nat, NEW j \in Nat, i < j
  PROVE  Final(i, k) < First(j)
<1>1. MaxBundle \in Nat \ {0}
  BY TransactionsAssumption
<1> DEFINE a == (i + 1) * MaxBundle
           b == j * MaxBundle
<1>2. a \in Nat /\ b \in Nat /\ a <= b
  BY <1>1
<1>3. Final(i, k) = (IF a < k THEN a ELSE k) /\ First(j) = b + 1
  BY DEF Final, First
<1> HIDE DEF a, b
<1>4. QED
  BY <1>2, <1>3

\* Every record is in a bundle.
LEMMA BundlesCover ==
  ASSUME NEW k \in Nat \ {0}, NEW x \in 1 .. k
  PROVE  \E i \in 0 .. (k - 1) \div MaxBundle : x \in First(i) .. Final(i, k)
<1> DEFINE i   == (x - 1) \div MaxBundle
           top == (k - 1) \div MaxBundle
           im  == i * MaxBundle
<1>1. MaxBundle \in Nat \ {0} /\ x - 1 \in Nat /\ k - 1 \in Nat /\ x \in Nat
  BY TransactionsAssumption
<1>2. i \in Nat /\ im <= x - 1 /\ x - 1 < im + MaxBundle /\ im \in Nat
  BY <1>1
<1>3. top \in Nat /\ k - 1 < (top + 1) * MaxBundle
  BY <1>1
<1> HIDE DEF i, top
<1>4. i <= top
  <2>1. SUFFICES ASSUME top + 1 <= i PROVE FALSE
    BY <1>2, <1>3
  <2>2. (top + 1) * MaxBundle <= i * MaxBundle
    BY <1>1, <1>2, <1>3, <2>1
  <2>3. (top + 1) * MaxBundle \in Nat
    BY <1>1, <1>3
  <2>4. QED
    BY <1>1, <1>2, <1>3, <2>2, <2>3
<1>5. (i + 1) * MaxBundle = im + MaxBundle
  BY <1>1, <1>2
<1>6. First(i) = im + 1 /\ Final(i, k) = IF im + MaxBundle < k THEN im + MaxBundle ELSE k
  BY <1>5 DEF First, Final
<1> HIDE DEF im
<1>7. x \in First(i) .. Final(i, k)
  BY <1>1, <1>2, <1>6
<1>8. i \in 0 .. top
  BY <1>2, <1>3, <1>4
<1>9. QED
  BY <1>7, <1>8 DEF top

\* Bundling divides the front of the queue: every record of it is in one bundle, none
\* is in two, and no bundle is empty or too large.
LEMMA BundlesPartition ==
  ASSUME signature_queue \in Seq(Request), IsInjective(signature_queue),
         NEW k \in Nat \ {0}, k <= Len(signature_queue)
  PROVE  /\ \A b \in BundlesOf(k) :
              b \in Seq(Request) /\ Len(b) \in 1 .. MaxBundle /\ IsInjective(b)
         /\ \A b, d \in BundlesOf(k) : b # d => Range(b) \cap Range(d) = {}
         /\ UNION {Range(b) : b \in BundlesOf(k)} = {signature_queue[x] : x \in 1 .. k}
<1> DEFINE q       == signature_queue
           I       == 0 .. (k - 1) \div MaxBundle
           part(i) == SubSeq(q, First(i), Final(i, k))
<1>1. BundlesOf(k) = {part(i) : i \in I}
  BY DEF BundlesOf, First, Final
<1>2. q \in Seq(Request) /\ IsInjective(q) /\ Len(q) \in Nat
  OBVIOUS
<1> HIDE DEF q
<1>3. ASSUME NEW i \in I
      PROVE  /\ part(i) \in Seq(Request) /\ Len(part(i)) \in 1 .. MaxBundle
             /\ IsInjective(part(i))
             /\ Range(part(i)) = {q[x] : x \in First(i) .. Final(i, k)}
  <2>1. /\ First(i) \in Nat \ {0} /\ Final(i, k) \in Nat
        /\ First(i) <= Final(i, k) /\ Final(i, k) <= k
        /\ Final(i, k) - First(i) + 1 \in 1 .. MaxBundle
    BY BundleBounds
  <2>2. Final(i, k) <= Len(q) /\ First(i) <= Final(i, k) + 1
    BY <1>2, <2>1 DEF q
  <2> DEFINE m == First(i)
             n == Final(i, k)
  <2> HIDE DEF m, n
  <2>3. /\ SubSeq(q, m, n) \in Seq(Request) /\ Len(SubSeq(q, m, n)) = n - m + 1
        /\ Range(SubSeq(q, m, n)) = {q[x] : x \in m .. n}
        /\ IsInjective(SubSeq(q, m, n))
    <3>1. m \in Nat \ {0} /\ n \in Nat /\ n <= Len(q) /\ m <= n + 1
      BY <2>1, <2>2 DEF m, n
    <3>2. QED
      BY <1>2, <3>1, PartDistinct
  <2>4. QED
    BY <2>1, <2>3 DEF m, n
<1> HIDE DEF part, I
<1>4. \A b \in BundlesOf(k) : b \in Seq(Request) /\ Len(b) \in 1 .. MaxBundle /\ IsInjective(b)
  BY <1>1, <1>3
<1>5. ASSUME NEW i \in I, NEW j \in I, i < j
      PROVE  Range(part(i)) \cap Range(part(j)) = {}
  <2>1. /\ First(i) \in Nat \ {0} /\ Final(i, k) \in Nat /\ i \in Nat
        /\ First(j) \in Nat \ {0} /\ Final(j, k) \in Nat /\ j \in Nat /\ Final(j, k) <= k
    BY BundleBounds DEF I
  <2>2. Final(i, k) < First(j) /\ Final(j, k) <= Len(q)
    BY <1>2, <1>5, <2>1, BundlesInOrder DEF q
  <2> DEFINE m == First(i)
             n == Final(i, k)
             o == First(j)
             p == Final(j, k)
  <2> HIDE DEF m, n, o, p
  <2>3. \A x \in m .. n, y \in o .. p : q[x] # q[y]
    <3>1. /\ m \in Nat \ {0} /\ n \in Nat /\ o \in Nat \ {0} /\ p \in Nat
          /\ n < o /\ p <= Len(q)
      BY <2>1, <2>2 DEF m, n, o, p
    <3>2. QED
      BY <1>2, <3>1, PartsDisjoint
  <2>4. QED
    BY <1>3, <2>3 DEF m, n, o, p
<1>6. ASSUME NEW b \in BundlesOf(k), NEW d \in BundlesOf(k), b # d
      PROVE  Range(b) \cap Range(d) = {}
  <2>1. PICK i \in I, j \in I : b = part(i) /\ d = part(j)
    BY <1>1
  <2>2. i \in Nat /\ j \in Nat /\ i # j
    BY <1>6, <2>1, BundleBounds DEF I
  <2>3. QED
    BY <1>5, <2>1, <2>2
<1>7. UNION {Range(b) : b \in BundlesOf(k)} = {q[x] : x \in 1 .. k}
  <2>1. ASSUME NEW i \in I, NEW x \in First(i) .. Final(i, k) PROVE x \in 1 .. k
    BY BundleBounds DEF I
  <2>2. ASSUME NEW x \in 1 .. k PROVE \E i \in I : x \in First(i) .. Final(i, k)
    BY BundlesCover DEF I
  <2>3. \A y \in UNION {Range(b) : b \in BundlesOf(k)} : \E x \in 1 .. k : y = q[x]
    BY <1>1, <1>3, <2>1
  <2>4. \A x \in 1 .. k : q[x] \in UNION {Range(b) : b \in BundlesOf(k)}
    BY <1>1, <1>3, <2>2
  <2>5. QED
    BY <2>3, <2>4
<1>8. QED
  BY <1>4, <1>6, <1>7 DEF q

\* A set of natural numbers up to n has a greatest element: n minus the least distance.
LEMMA GreatestExists ==
  ASSUME NEW n \in Nat, NEW K \in SUBSET (0 .. n), K # {}
  PROVE  Max(K) \in K /\ \A k \in K : k <= Max(K)
<1> DEFINE T == {n - k : k \in K}
<1>0. \A k \in K : k \in Nat /\ n - k \in Nat
  OBVIOUS
<1>1. T \subseteq Nat /\ T # {}
  <2>1. PICK k \in K : TRUE
    OBVIOUS
  <2>2. n - k \in T
    BY <2>1
  <2>3. QED
    BY <1>0, <2>2
<1>2. PICK t \in T : \A u \in T : ~ (<<u, t>> \in OpToRel(<, Nat))
  BY <1>1, NatLessThanWellFounded, WFMin
<1>3. \A u \in T : ~ (u < t)
  BY <1>1, <1>2 DEF OpToRel
<1>4. PICK g \in K : t = n - g
  BY <1>2
<1>5. \A k \in K : g >= k
  <2> SUFFICES ASSUME NEW k \in K PROVE g >= k
    OBVIOUS
  <2>1. n - k \in T
    OBVIOUS
  <2>2. ~ (n - k < n - g)
    BY <1>3, <1>4, <2>1
  <2>3. QED
    BY <1>0, <2>2
<1>6. Max(K) \in K /\ \A k \in K : Max(K) >= k
  BY <1>5 DEF Max
<1>7. QED
  BY <1>6

\* The scan takes old records, as many as there are in front.
LEMMA PrefixIsOld ==
  ASSUME signature_queue \in Seq(Request)
  PROVE  /\ old_prefix \in 0 .. Len(signature_queue)
         /\ \A j \in 1 .. old_prefix : Old(signature_queue[j])
<1> DEFINE K == {k \in 0 .. Len(signature_queue) : \A j \in 1 .. k : Old(signature_queue[j])}
<1>1. Len(signature_queue) \in Nat
  OBVIOUS
<1>2. 0 \in K
  BY <1>1
<1>3. Max(K) \in K
  BY <1>1, <1>2, GreatestExists
<1>4. QED
  BY <1>3 DEF old_prefix

(***************************************************************************)
(* The inductive invariant of the watcher.                                 *)
(***************************************************************************)

QueueTypes ==
  /\ inbox \in Seq(Request) /\ signature_queue \in Seq(Request)
  /\ \A b \in bundles : b \in Seq(Request) /\ Len(b) \in 1 .. MaxBundle

\* The queue is in the order of the records' ages.
OldestFirst ==
  \A i, j \in 1 .. Len(signature_queue) :
    i < j => age[signature_queue[i]] >= age[signature_queue[j]]

WatcherInv ==
  QueueTypes /\ age \in [Request -> 0 .. CheckAfter + 1] /\ OnePlace /\ OldestFirst

\* Records in the hands of the watcher were published, and their calls answered.
WatchedAreOk == \A r \in Watched : r \in Request /\ call[r] = "ok" /\ mode[r] = "FORWARD"

\* The watcher holds calls only.
LEMMA WatchedType ==
  ASSUME QueueTypes
  PROVE  Watched \in SUBSET Request
<1>1. Range(inbox) \subseteq Request /\ Range(signature_queue) \subseteq Request
  BY RangeOfSeq DEF QueueTypes
<1>2. \A b \in bundles : Range(b) \subseteq Request
  BY RangeOfSeq DEF QueueTypes
<1>3. QED
  BY <1>1, <1>2 DEF Watched

\* The handler puts a record into the channel once.
LEMMA WatcherPublishOk ==
  ASSUME WatcherInv, WatchedAreOk, NEW r \in Request, PublishOk(r)
  PROVE  WatcherInv' /\ Watched' = Watched \cup {r} /\ r \notin Watched
<1>1. inbox' = Append(inbox, r) /\ UNCHANGED <<age, signature_queue, bundles>>
  BY DEF PublishOk
<1>2. r \notin Watched
  BY DEF PublishOk, WatchedAreOk
<1>3. /\ r \notin Range(inbox) /\ r \notin Range(signature_queue)
      /\ \A b \in bundles : r \notin Range(b)
  BY <1>2 DEF Watched
<1>4. /\ inbox' \in Seq(Request) /\ IsInjective(inbox')
      /\ Range(inbox') = Range(inbox) \cup {r}
  BY <1>1, <1>3, AppendDistinct DEF WatcherInv, QueueTypes, OnePlace
<1>5. QueueTypes' /\ OldestFirst' /\ age' \in [Request -> 0 .. CheckAfter + 1]
  BY <1>1, <1>4 DEF WatcherInv, QueueTypes, OldestFirst
<1>6. OnePlace'
  BY <1>1, <1>3, <1>4 DEF WatcherInv, OnePlace
<1>7. Watched' = Watched \cup {r}
  BY <1>1, <1>4 DEF Watched
<1>8. QED
  BY <1>2, <1>5, <1>6, <1>7 DEF WatcherInv

\* A record goes from the channel to the end of the queue, where it is the youngest.
LEMMA WatcherReceive ==
  ASSUME WatcherInv, Receive
  PROVE  WatcherInv' /\ Watched' = Watched
<1> DEFINE r == Head(inbox)
           q == signature_queue
<1>1. /\ inbox \in Seq(Request) /\ inbox # <<>> /\ IsInjective(inbox)
      /\ q \in Seq(Request) /\ IsInjective(q)
      /\ inbox' = Tail(inbox) /\ q' = Append(q, r) /\ bundles' = bundles
      /\ age' = [age EXCEPT ![r] = 0]
  BY DEF WatcherInv, QueueTypes, OnePlace, Receive, Stamp
<1>2. /\ Tail(inbox) \in Seq(Request) /\ IsInjective(Tail(inbox))
      /\ r \in Request /\ r \in Range(inbox) /\ Range(Tail(inbox)) = Range(inbox) \ {r}
  BY <1>1, TailDistinct
<1>3. r \notin Range(q) /\ \A b \in bundles : r \notin Range(b)
  BY <1>2 DEF WatcherInv, OnePlace
<1>4. q' \in Seq(Request) /\ IsInjective(q') /\ Range(q') = Range(q) \cup {r}
  BY <1>1, <1>2, <1>3, AppendDistinct
<1>5. QueueTypes'
  BY <1>1, <1>2, <1>4 DEF WatcherInv, QueueTypes
<1>6. age' \in [Request -> 0 .. CheckAfter + 1]
  BY <1>1, <1>2, TransactionsAssumption DEF WatcherInv
<1>7. OnePlace'
  BY <1>1, <1>2, <1>3, <1>4 DEF WatcherInv, OnePlace
<1>8. Watched' = Watched
  BY <1>1, <1>2, <1>4 DEF Watched
<1>9. OldestFirst'
  <2>1. /\ Len(q) \in Nat /\ Len(q') = Len(q) + 1 /\ q'[Len(q) + 1] = r
        /\ \A i \in 1 .. Len(q) : q'[i] = q[i]
    BY <1>1, <1>2, AppendProperties
  <2>2. ASSUME NEW i \in 1 .. Len(q)
        PROVE  q[i] \in Request /\ age'[q[i]] = age[q[i]] /\ age[q[i]] \in Nat
    <3>1. q[i] \in Request /\ q[i] # r
      BY <1>1, <1>3 DEF Range
    <3>2. QED
      BY <1>1, <3>1, TransactionsAssumption DEF WatcherInv
  <2>3. age'[r] = 0
    BY <1>1, <1>2 DEF WatcherInv
  <2>4. SUFFICES ASSUME NEW i \in 1 .. Len(q'), NEW j \in 1 .. Len(q'), i < j
                 PROVE  age'[q'[i]] >= age'[q'[j]]
    BY DEF OldestFirst
  <2>5. i \in 1 .. Len(q)
    BY <2>1, <2>4
  <2>6. CASE j = Len(q) + 1
    BY <2>1, <2>2, <2>3, <2>5, <2>6
  <2>7. CASE j \in 1 .. Len(q)
    <3>1. age[q[i]] >= age[q[j]]
      BY <2>4, <2>5, <2>7 DEF WatcherInv, OldestFirst
    <3>2. QED
      BY <2>1, <2>2, <2>5, <2>7, <3>1
  <2>8. QED
    BY <2>1, <2>4, <2>6, <2>7
<1>10. QED
  BY <1>5, <1>6, <1>7, <1>8, <1>9 DEF WatcherInv

\* The old records in front of the queue go into bundles, each into one.
LEMMA WatcherBundle ==
  ASSUME WatcherInv, Bundle
  PROVE  WatcherInv' /\ Watched' = Watched
<1> DEFINE q == signature_queue
           k == old_prefix
           n == Len(signature_queue)
<1>1. q \in Seq(Request) /\ IsInjective(q) /\ n \in Nat
  BY DEF WatcherInv, QueueTypes, OnePlace
<1>2. k \in Nat \ {0} /\ k <= n
  BY <1>1, PrefixIsOld DEF Bundle, Due
<1>3. /\ bundles' = bundles \cup BundlesOf(k) /\ q' = SubSeq(q, k + 1, n)
      /\ UNCHANGED <<age, inbox>>
  BY DEF Bundle
<1> HIDE DEF k
<1>4. /\ \A b \in BundlesOf(k) :
           b \in Seq(Request) /\ Len(b) \in 1 .. MaxBundle /\ IsInjective(b)
      /\ \A b, d \in BundlesOf(k) : b # d => Range(b) \cap Range(d) = {}
      /\ UNION {Range(b) : b \in BundlesOf(k)} = {q[x] : x \in 1 .. k}
  BY <1>1, <1>2, BundlesPartition
<1>5. /\ q' \in Seq(Request) /\ Len(q') = n - k /\ IsInjective(q')
      /\ \A i \in 1 .. n - k : q'[i] = q[k + i]
      /\ Range(q') = {q[x] : x \in k + 1 .. n}
  <2> DEFINE m == k + 1
  <2>1. m \in Nat \ {0} /\ n <= Len(q) /\ m <= n + 1 /\ n - m + 1 = n - k
    BY <1>1, <1>2
  <2>2. \A i \in 1 .. n - k : m + i - 1 = k + i
    BY <1>1, <1>2
  <2> HIDE DEF m
  <2>3. /\ SubSeq(q, m, n) \in Seq(Request) /\ Len(SubSeq(q, m, n)) = n - m + 1
        /\ \A i \in 1 .. n - m + 1 : SubSeq(q, m, n)[i] = q[m + i - 1]
        /\ Range(SubSeq(q, m, n)) = {q[i] : i \in m .. n}
        /\ IsInjective(SubSeq(q, m, n))
    BY <1>1, <2>1, PartDistinct
  <2>4. q' = SubSeq(q, m, n)
    BY <1>3 DEF m
  <2>5. \A i \in 1 .. n - k : q'[i] = q[k + i]
    BY <2>1, <2>2, <2>3, <2>4
  <2>6. Range(q') = {q[x] : x \in k + 1 .. n}
    BY <2>3, <2>4 DEF m
  <2>7. QED
    BY <2>1, <2>3, <2>4, <2>5, <2>6
<1>6. Range(q) = {q[x] : x \in 1 .. k} \cup {q[x] : x \in k + 1 .. n}
  <2>1. DOMAIN q = 1 .. n /\ \A x \in 1 .. n : x \in 1 .. k \/ x \in k + 1 .. n
    BY <1>1, <1>2
  <2>2. \A x : x \in 1 .. k \/ x \in k + 1 .. n => x \in 1 .. n
    BY <1>1, <1>2
  <2>3. QED
    BY <2>1, <2>2 DEF Range
<1>7. \A x \in 1 .. k, y \in k + 1 .. n : q[x] # q[y]
  <2>1. 1 \in Nat \ {0} /\ k + 1 \in Nat \ {0} /\ k < k + 1 /\ n <= Len(q)
    BY <1>1, <1>2
  <2>2. QED
    BY <1>1, <1>2, <2>1, PartsDisjoint
<1>8. \A b \in BundlesOf(k) : Range(b) \subseteq Range(q) /\ Range(b) \cap Range(q') = {}
  BY <1>4, <1>5, <1>6, <1>7
<1>9. QueueTypes' /\ age' \in [Request -> 0 .. CheckAfter + 1]
  BY <1>3, <1>4, <1>5 DEF WatcherInv, QueueTypes
<1>10. Range(q') \subseteq Range(q)
  BY <1>5, <1>6
<1>11. OnePlace'
  <2>1. IsInjective(inbox') /\ IsInjective(q') /\ Range(inbox') \cap Range(q') = {}
    BY <1>3, <1>5, <1>10 DEF WatcherInv, OnePlace
  <2>2. ASSUME NEW b \in bundles'
        PROVE  IsInjective(b) /\ Range(b) \cap (Range(inbox') \cup Range(q')) = {}
    BY <1>3, <1>4, <1>8, <1>10 DEF WatcherInv, OnePlace
  <2>3. ASSUME NEW b \in bundles', NEW d \in bundles', b # d
        PROVE  Range(b) \cap Range(d) = {}
    <3>1. \A x \in bundles : Range(x) \cap Range(q) = {}
      BY DEF WatcherInv, OnePlace
    <3>2. QED
      BY <1>3, <1>4, <1>8, <2>3, <3>1 DEF WatcherInv, OnePlace
  <2>4. QED
    BY <2>1, <2>2, <2>3 DEF OnePlace
<1>12. Watched' = Watched
  <2> DEFINE front == {q[x] : x \in 1 .. k}
             new   == BundlesOf(k)
  <2>1. UNION {Range(b) : b \in new} = front
    BY <1>4
  <2>2. Range(q) = front \cup Range(q')
    BY <1>5, <1>6
  <2> HIDE DEF front, new
  <2>3. UNION {Range(b) : b \in bundles'} = (UNION {Range(b) : b \in bundles}) \cup front
    <3>1. bundles' = bundles \cup new
      BY <1>3 DEF new
    <3>2. \A y : y \in front <=> \E b \in new : y \in Range(b)
      BY <2>1
    <3>3. QED
      BY <3>1, <3>2
  <2>4. Watched = Range(inbox) \cup Range(q) \cup UNION {Range(b) : b \in bundles}
    BY DEF Watched
  <2>5. Watched' = Range(inbox') \cup Range(q') \cup UNION {Range(b) : b \in bundles'}
    BY DEF Watched
  <2>6. inbox' = inbox
    BY <1>3
  <2> DEFINE held  == UNION {Range(b) : b \in bundles}
             heldn == UNION {Range(b) : b \in bundles'}
             left  == Range(q')
  <2>7. /\ Range(q) = front \cup left /\ heldn = held \cup front
        /\ Watched = Range(inbox) \cup Range(q) \cup held
        /\ Watched' = Range(inbox) \cup left \cup heldn
    BY <2>2, <2>3, <2>4, <2>5, <2>6
  <2> HIDE DEF held, heldn, left, q
  <2>8. QED
    BY <2>7
<1>13. OldestFirst'
  <2>1. SUFFICES ASSUME NEW i \in 1 .. Len(q'), NEW j \in 1 .. Len(q'), i < j
                 PROVE  age'[q'[i]] >= age'[q'[j]]
    BY DEF OldestFirst
  <2>2. i \in 1 .. n - k /\ j \in 1 .. n - k
    BY <1>5
  <2>3. k + i \in 1 .. n /\ k + j \in 1 .. n /\ k + i < k + j
    BY <1>1, <1>2, <2>1, <2>2
  <2>4. age[q[k + i]] >= age[q[k + j]]
    BY <2>3 DEF WatcherInv, OldestFirst
  <2>5. q'[i] = q[k + i] /\ q'[j] = q[k + j] /\ age' = age
    BY <1>3, <1>5, <2>2
  <2> HIDE DEF q
  <2>6. QED
    BY <2>4, <2>5
<1>14. QED
  BY <1>9, <1>11, <1>12, <1>13 DEF WatcherInv

\* A checker takes its bundle, and with it the bundle's records, out of the watcher.
LEMMA WatcherCheck ==
  ASSUME WatcherInv, NEW b \in bundles, Check(b)
  PROVE  /\ WatcherInv' /\ Watched' = Watched \ Range(b)
         /\ Range(b) \subseteq Watched /\ Range(b) # {}
<1>1. bundles' = bundles \ {b} /\ UNCHANGED <<age, inbox, signature_queue>>
  BY DEF Check, CheckFails, CheckStatuses, Settle
<1>2. /\ Range(b) \cap (Range(inbox) \cup Range(signature_queue)) = {}
      /\ \A d \in bundles : b # d => Range(b) \cap Range(d) = {}
  BY DEF WatcherInv, OnePlace
<1>3. Watched' = Watched \ Range(b) /\ Range(b) \subseteq Watched
  BY <1>1, <1>2 DEF Watched
<1>4. Range(b) # {}
  <2>1. b \in Seq(Request) /\ Len(b) \in 1 .. MaxBundle
    BY DEF WatcherInv, QueueTypes
  <2>2. 1 \in DOMAIN b
    BY <2>1, TransactionsAssumption
  <2>3. QED
    BY <2>2 DEF Range
<1>5. QueueTypes' /\ age' \in [Request -> 0 .. CheckAfter + 1]
  BY <1>1 DEF WatcherInv, QueueTypes
<1>6. OnePlace' /\ OldestFirst'
  BY <1>1 DEF WatcherInv, OnePlace, OldestFirst
<1>7. QED
  BY <1>3, <1>4, <1>5, <1>6 DEF WatcherInv

\* A second passes for all records of the queue alike, up to the age that matters.
LEMMA WatcherTick ==
  ASSUME WatcherInv, Tick
  PROVE  WatcherInv' /\ Watched' = Watched
<1> DEFINE q == signature_queue
           ticking == {r \in Publishing \cup Range(inbox) \cup Range(q) : ~ Old(r)}
<1>1. /\ age' = [r \in Request |-> IF r \in ticking THEN age[r] + 1 ELSE age[r]]
      /\ UNCHANGED <<inbox, q, bundles>>
  BY DEF Tick, watcher
<1>2. \A r \in Request : age[r] \in 0 .. CheckAfter + 1 /\ (~ Old(r) <=> age[r] <= CheckAfter)
  BY TransactionsAssumption DEF WatcherInv, Old
<1>4. age' \in [Request -> 0 .. CheckAfter + 1]
  <2>1. ASSUME NEW r \in Request
        PROVE  (IF r \in ticking THEN age[r] + 1 ELSE age[r]) \in 0 .. CheckAfter + 1
    BY <1>2, TransactionsAssumption
  <2>2. QED
    BY <1>1, <2>1
<1>5. ASSUME NEW r \in Range(q)
      PROVE  r \in Request /\ age'[r] = IF age[r] <= CheckAfter THEN age[r] + 1 ELSE age[r]
  <2>1. r \in Request
    BY RangeOfSeq DEF WatcherInv, QueueTypes
  <2>2. r \in ticking <=> age[r] <= CheckAfter
    BY <1>2, <2>1
  <2> HIDE DEF ticking
  <2>3. QED
    BY <1>1, <2>1, <2>2
<1> HIDE DEF ticking
<1>6. QueueTypes' /\ OnePlace' /\ Watched' = Watched
  BY <1>1 DEF WatcherInv, QueueTypes, OnePlace, Watched
<1>7. OldestFirst'
  <2>1. SUFFICES ASSUME NEW i \in 1 .. Len(q), NEW j \in 1 .. Len(q), i < j
                 PROVE  age'[q[i]] >= age'[q[j]]
    BY <1>1 DEF OldestFirst
  <2>2. q[i] \in Range(q) /\ q[j] \in Range(q)
    BY DEF Range, WatcherInv, QueueTypes
  <2>3. age[q[i]] >= age[q[j]]
    BY <2>1 DEF WatcherInv, OldestFirst
  <2>4. /\ age[q[i]] \in 0 .. CheckAfter + 1 /\ age[q[j]] \in 0 .. CheckAfter + 1
        /\ age'[q[i]] = (IF age[q[i]] <= CheckAfter THEN age[q[i]] + 1 ELSE age[q[i]])
        /\ age'[q[j]] = (IF age[q[j]] <= CheckAfter THEN age[q[j]] + 1 ELSE age[q[j]])
    BY <1>2, <1>5, <2>2
  <2>5. QED
    BY <2>3, <2>4, TransactionsAssumption
<1>8. QED
  BY <1>4, <1>6, <1>7 DEF WatcherInv

(***************************************************************************)
(* Counting.                                                               *)
(***************************************************************************)

\* Calls can be counted.
LEMMA CallsFinite ==
  ASSUME NEW S \in SUBSET Request
  PROVE  IsFiniteSet(S) /\ Cardinality(S) \in Nat
<1>1. IsFiniteSet(Request)
  BY FS_Interval, TransactionsAssumption DEF Request
<1>2. IsFiniteSet(S)
  BY <1>1, FS_Subset
<1>3. QED
  BY <1>2, FS_CardinalityType

CallTypes ==
  /\ call \in [Request -> {"none", "denied", "bad_config", "bad_data", "blackholed",
                           "publishing", "failed", "cancelled", "ok"}]
  /\ partner \in [Request -> Partner] /\ mode \in [Request -> Mode]
  /\ consumers \in [Request -> ConsumerLists \cup {<<>>}]

\* The names in the records' lists can be counted.
LEMMA MentionsFinite ==
  ASSUME CallTypes, NEW S \in SUBSET Request, NEW c
  PROVE  IsFiniteSet(Mentions(c, S)) /\ Cardinality(Mentions(c, S)) \in Nat
<1> DEFINE places(r) == {r} \X {k \in 1 .. Len(consumers[r]) : consumers[r][k] = c}
           f == [r \in S |-> places(r)]
           T == {places(r) : r \in S}
<1>1. IsFiniteSet(S)
  BY CallsFinite
<1>2. f \in Surjection(S, T)
  <2>1. f \in [S -> T] /\ \A t \in T : \E r \in S : f[r] = t
    OBVIOUS
  <2>2. QED
    BY <2>1 DEF Surjection
<1>3. IsFiniteSet(T)
  <2> HIDE DEF f, T
  <2>1. QED
    BY <1>1, <1>2, FS_Surjection
<1>4. ASSUME NEW r \in S PROVE IsFiniteSet(places(r))
  <2> DEFINE all  == 1 .. Len(consumers[r])
             some == {k \in all : consumers[r][k] = c}
  <2>1. consumers[r] \in Seq(Consumer)
    <3>1. ConsumerLists \subseteq Seq(Consumer) /\ <<>> \in Seq(Consumer)
      BY TransactionsAssumption
    <3>2. consumers[r] \in ConsumerLists \cup {<<>>}
      BY DEF CallTypes
    <3>3. QED
      BY <3>1, <3>2
  <2>2. IsFiniteSet(all)
    BY <2>1, FS_Interval
  <2>3. some \in SUBSET all
    OBVIOUS
  <2> HIDE DEF all
  <2>4. IsFiniteSet(some)
    BY <2>2, <2>3, FS_Subset
  <2>5. IsFiniteSet({r})
    BY FS_Singleton
  <2>6. places(r) = {r} \X some
    BY DEF all
  <2> HIDE DEF some, places
  <2>7. QED
    BY <2>4, <2>5, <2>6, FS_Product
<1>5. \A t \in T : IsFiniteSet(t)
  BY <1>4
<1>6. Mentions(c, S) = UNION T
  BY DEF Mentions
<1> HIDE DEF T
<1>7. IsFiniteSet(Mentions(c, S))
  BY <1>3, <1>5, <1>6, FS_UNION
<1>8. QED
  BY <1>7, FS_CardinalityType

(***************************************************************************)
(* What the steps of the handler and of the checkers do.                   *)
(***************************************************************************)

\* A call is dismissed or taken on; if the handler panics it stays where it is.
LEMMA HandleEffect ==
  ASSUME NEW r \in Request, Handle(r)
  PROVE  /\ ~ exited /\ call[r] = "none"
         /\ UNCHANGED <<public_key, consumers, age, inbox, signature_queue, bundles, clean,
                        finalized, timed_out, success, finalized_by, timed_out_by>>
         /\ \/ /\ UNCHANGED <<partner, mode, accepted>>
               /\ \/ exited' = TRUE /\ UNCHANGED call
                  \/ UNCHANGED exited /\ \E a \in {"denied", "bad_config"} : Tell(r, a)
            \/ \E auth \in Partner, m \in Mode :
                 /\ partner' = [partner EXCEPT ![r] = auth]
                 /\ mode' = [mode EXCEPT ![r] = m]
                 /\ accepted' = [accepted EXCEPT ![<<auth, m>>] = @ + 1]
                 /\ \/ exited' = TRUE /\ UNCHANGED call
                    \/ UNCHANGED exited /\ Tell(r, "bad_data")
                    \/ UNCHANGED exited /\ m = "BLACKHOLE" /\ Tell(r, "blackholed")
                    \/ UNCHANGED exited /\ m = "FORWARD" /\ Tell(r, "publishing")
<1> USE DEF meta, watcher, counters, Mode
<1>1. CASE ExtractPanics(r)
  BY <1>1 DEF ExtractPanics, Called
<1>2. CASE Deny(r)
  BY <1>2 DEF Deny, Arrives, Called
<1>3. CASE RefuseConfig(r)
  BY <1>3 DEF RefuseConfig, Arrives, Called
<1>4. CASE \E auth \in Partner, m \in Mode : DecodePanics(r, auth, m)
  BY <1>4 DEF DecodePanics, Accept, Arrives, Called
<1>5. CASE \E auth \in Partner, m \in Mode : RefuseData(r, auth, m)
  BY <1>5 DEF RefuseData, Accept, Arrives, Called
<1>6. CASE \E auth \in Partner : Blackhole(r, auth)
  BY <1>6 DEF Blackhole, Accept, Arrives, Called
<1>7. CASE \E auth \in Partner : Forward(r, auth)
  BY <1>7 DEF Forward, Accept, Arrives, Called
<1>8. QED
  BY <1>1, <1>2, <1>3, <1>4, <1>5, <1>6, <1>7 DEF Handle

\* A checker divides its bundle between the known and the late, and counts the
\* consumers of some of the late ones.
LEMMA CheckEffect ==
  ASSUME NEW b \in bundles, Check(b)
  PROVE  /\ UNCHANGED <<public_key, partner, mode, call, consumers, age, inbox,
                        signature_queue, accepted, exited>>
         /\ ~ exited
         /\ \E known \in SUBSET Range(b) : \E blamed \in SUBSET (Range(b) \ known) :
              /\ finalized' = CountPartners(finalized, known)
              /\ success' = CountPartners(success, known)
              /\ timed_out' = CountPartners(timed_out, Range(b) \ known)
              /\ finalized_by' = CountConsumers(finalized_by, known)
              /\ timed_out_by' = CountConsumers(timed_out_by, blamed)
         /\ \/ UNCHANGED clean
            \/ \E ok \in SUBSET Range(b) : clean' = CountPartners(clean, ok)
<1> USE DEF meta
<1>1. CASE CheckFails(b)
  <2> DEFINE known == {}
             blamed == {}
  <2>1. /\ known \in SUBSET Range(b) /\ blamed \in SUBSET (Range(b) \ known)
        /\ Range(b) \ known = Range(b)
    OBVIOUS
  <2>2. /\ finalized' = CountPartners(finalized, known)
        /\ success' = CountPartners(success, known)
        /\ timed_out' = CountPartners(timed_out, Range(b) \ known)
        /\ finalized_by' = CountConsumers(finalized_by, known)
        /\ timed_out_by' = CountConsumers(timed_out_by, blamed)
    BY <1>1, <2>1 DEF CheckFails, Settle
  <2>3. /\ UNCHANGED <<public_key, partner, mode, call, consumers, age, inbox,
                       signature_queue, accepted, exited, clean>>
        /\ ~ exited
    BY <1>1 DEF CheckFails, Settle
  <2>4. QED
    BY <2>1, <2>2, <2>3
<1>2. CASE \E known \in SUBSET Range(b) : CheckStatuses(b, known)
  <2>1. PICK known \in SUBSET Range(b) : CheckStatuses(b, known)
    BY <1>2
  <2>2. /\ finalized' = CountPartners(finalized, known)
        /\ success' = CountPartners(success, known)
        /\ timed_out' = CountPartners(timed_out, Range(b) \ known)
        /\ finalized_by' = CountConsumers(finalized_by, known)
        /\ timed_out_by' = CountConsumers(timed_out_by, Range(b) \ known)
        /\ \E ok \in SUBSET known : clean' = CountPartners(clean, ok)
    BY <2>1 DEF CheckStatuses, Settle
  <2>3. /\ UNCHANGED <<public_key, partner, mode, call, consumers, age, inbox,
                       signature_queue, accepted, exited>>
        /\ ~ exited
    BY <2>1 DEF CheckStatuses, Settle
  <2>4. Range(b) \ known \in SUBSET (Range(b) \ known)
    OBVIOUS
  <2>5. QED
    BY <2>2, <2>3, <2>4
<1>3. QED
  BY <1>1, <1>2 DEF Check

(***************************************************************************)
(* The inductive invariant.                                                *)
(***************************************************************************)

Flags == public_key \in BOOLEAN /\ exited \in BOOLEAN

CountTypes ==
  /\ clean \in [Partner -> Nat] /\ accepted \in [Partner \X Mode -> Nat]
  /\ finalized \in [Partner -> Nat] /\ timed_out \in [Partner -> Nat]
  /\ success \in [Partner -> Nat]
  /\ finalized_by \in [Consumer -> Nat] /\ timed_out_by \in [Consumer -> Nat]

\* Only calls to be forwarded are published, and carriers are known of those only
\* that have been.
HandlerInv ==
  \A r \in Request :
    /\ call[r] \in {"publishing", "failed", "cancelled", "ok"} => mode[r] = "FORWARD"
    /\ call[r] # "ok" => consumers[r] = <<>>

IInv == Flags /\ CallTypes /\ CountTypes /\ WatcherInv /\ WatchedAreOk /\ HandlerInv

\* The parts of the type invariant.
LEMMA TypeParts == Flags /\ CallTypes /\ CountTypes /\ WatcherInv => TypeOK
<1> SUFFICES ASSUME Flags, CallTypes, CountTypes, WatcherInv PROVE TypeOK
  OBVIOUS
<1>1. /\ inbox \in Seq(Request) /\ signature_queue \in Seq(Request)
      /\ \A b \in bundles : b \in Seq(Request) /\ Len(b) \in 1 .. MaxBundle
      /\ age \in [Request -> 0 .. CheckAfter + 1]
  BY DEF WatcherInv, QueueTypes
<1>2. QED
  BY <1>1, Zenon DEF TypeOK, Flags, CallTypes, CountTypes

\* Nobody has called.
LEMMA InitIInv == Init => IInv
<1> SUFFICES ASSUME Init PROVE IInv
  OBVIOUS
<1>1. Flags
  BY DEF Init, Flags
<1>2. CallTypes
  BY TransactionsAssumption DEF Init, CallTypes, Mode
<1>3. CountTypes
  BY DEF Init, CountTypes
<1>4. Range(inbox) = {} /\ Range(signature_queue) = {} /\ bundles = {}
  BY DEF Init, Range
<1>5. WatcherInv
  <2>1. QueueTypes
    BY DEF Init, QueueTypes
  <2>2. age \in [Request -> 0 .. CheckAfter + 1]
    BY TransactionsAssumption DEF Init
  <2>3. OnePlace
    <3>1. IsInjective(inbox) /\ IsInjective(signature_queue)
      BY DEF Init, IsInjective
    <3>2. QED
      BY <1>4, <3>1 DEF OnePlace
  <2>4. OldestFirst
    BY DEF Init, OldestFirst
  <2>5. QED
    BY <2>1, <2>2, <2>3, <2>4 DEF WatcherInv
<1>6. WatchedAreOk
  BY <1>4 DEF WatchedAreOk, Watched
<1>7. HandlerInv
  BY DEF Init, HandlerInv
<1>8. QED
  BY <1>1, <1>2, <1>3, <1>5, <1>6, <1>7 DEF IInv

\* A step that leaves the records alone leaves the watcher's invariant alone.
LEMMA WatcherIdle ==
  ASSUME UNCHANGED <<age, inbox, signature_queue, bundles>>
  PROVE  (WatcherInv => WatcherInv') /\ Watched' = Watched
BY DEF WatcherInv, QueueTypes, OnePlace, OldestFirst, Watched

\* A counter by partner stays a counter.
LEMMA PartnersType ==
  ASSUME NEW f \in [Partner -> Nat], NEW S \in SUBSET Request
  PROVE  CountPartners(f, S) \in [Partner -> Nat]
<1>1. ASSUME NEW p \in Partner
      PROVE  f[p] + Cardinality({r \in S : partner[r] = p}) \in Nat
  <2> DEFINE T == {r \in S : partner[r] = p}
  <2>1. T \in SUBSET Request
    OBVIOUS
  <2> HIDE DEF T
  <2>2. Cardinality(T) \in Nat
    BY <2>1, CallsFinite
  <2>3. QED
    BY <2>2 DEF T
<1>2. QED
  BY <1>1 DEF CountPartners

\* A counter by consumer stays a counter.
LEMMA ConsumersType ==
  ASSUME CallTypes, NEW f \in [Consumer -> Nat], NEW S \in SUBSET Request
  PROVE  CountConsumers(f, S) \in [Consumer -> Nat]
<1>1. ASSUME NEW c \in Consumer PROVE f[c] + Cardinality(Mentions(c, S)) \in Nat
  BY MentionsFinite
<1>2. QED
  BY <1>1 DEF CountConsumers

\* Steps of the handler before publish.
LEMMA HandleKeeps ==
  ASSUME IInv, NEW r \in Request, Handle(r)
  PROVE  IInv' /\ Watched' = Watched
<1> USE DEF Tell
<1>1. /\ call[r] = "none"
      /\ UNCHANGED <<public_key, consumers, age, inbox, signature_queue, bundles, clean,
                     finalized, timed_out, success, finalized_by, timed_out_by>>
  BY HandleEffect
<1>2. WatcherInv' /\ Watched' = Watched
  BY <1>1, WatcherIdle DEF IInv
<1>3. r \notin Watched
  BY <1>1 DEF IInv, WatchedAreOk
<1>4. Flags'
  BY HandleEffect DEF IInv, Flags
<1>5. CASE UNCHANGED <<partner, mode, accepted, call>>
  BY <1>1, <1>2, <1>4, <1>5 DEF IInv, CallTypes, CountTypes, WatchedAreOk, HandlerInv
<1>6. CASE /\ UNCHANGED <<partner, mode, accepted>>
           /\ \E a \in {"denied", "bad_config"} : Tell(r, a)
  BY <1>1, <1>2, <1>3, <1>4, <1>6 DEF IInv, CallTypes, CountTypes, WatchedAreOk, HandlerInv
<1>7. ASSUME NEW auth \in Partner, NEW m \in Mode,
             partner' = [partner EXCEPT ![r] = auth], mode' = [mode EXCEPT ![r] = m],
             accepted' = [accepted EXCEPT ![<<auth, m>>] = @ + 1],
             \/ UNCHANGED call
             \/ Tell(r, "bad_data")
             \/ m = "BLACKHOLE" /\ Tell(r, "blackholed")
             \/ m = "FORWARD" /\ Tell(r, "publishing")
      PROVE  IInv'
  <2>1. /\ CallTypes' /\ call'[r] # "ok" /\ \A q \in Request \ {r} : call'[q] = call[q]
        /\ call'[r] \in {"publishing", "failed", "cancelled", "ok"} => m = "FORWARD"
    BY <1>1, <1>7 DEF IInv, CallTypes
  <2>2. CountTypes'
    <3>1. accepted' \in [Partner \X Mode -> Nat]
      BY <1>7 DEF IInv, CountTypes
    <3>2. QED
      BY <1>1, <3>1 DEF IInv, CountTypes
  <2>3. mode'[r] = m /\ \A q \in Request \ {r} : mode'[q] = mode[q]
    BY <1>7 DEF IInv, CallTypes
  <2>4. WatchedAreOk'
    BY <1>2, <1>3, <2>1, <2>3 DEF IInv, WatchedAreOk
  <2>5. HandlerInv'
    BY <1>1, <2>1, <2>3 DEF IInv, HandlerInv
  <2>6. QED
    BY <1>2, <1>4, <2>1, <2>2, <2>4, <2>5 DEF IInv
<1>8. IInv'
  <2>1. CASE /\ UNCHANGED <<partner, mode, accepted>>
             /\ \/ UNCHANGED call
                \/ \E a \in {"denied", "bad_config"} : Tell(r, a)
    BY <1>5, <1>6, <2>1
  <2>2. CASE \E auth \in Partner, m \in Mode :
               /\ partner' = [partner EXCEPT ![r] = auth]
               /\ mode' = [mode EXCEPT ![r] = m]
               /\ accepted' = [accepted EXCEPT ![<<auth, m>>] = @ + 1]
               /\ \/ UNCHANGED call
                  \/ Tell(r, "bad_data")
                  \/ m = "BLACKHOLE" /\ Tell(r, "blackholed")
                  \/ m = "FORWARD" /\ Tell(r, "publishing")
    BY <1>7, <2>2, Zenon
  <2> HIDE DEF Tell
  <2>3. \/ /\ UNCHANGED <<partner, mode, accepted>>
           /\ \/ exited' = TRUE /\ UNCHANGED call
              \/ UNCHANGED exited /\ \E a \in {"denied", "bad_config"} : Tell(r, a)
        \/ \E auth \in Partner, m \in Mode :
             /\ partner' = [partner EXCEPT ![r] = auth]
             /\ mode' = [mode EXCEPT ![r] = m]
             /\ accepted' = [accepted EXCEPT ![<<auth, m>>] = @ + 1]
             /\ \/ exited' = TRUE /\ UNCHANGED call
                \/ UNCHANGED exited /\ Tell(r, "bad_data")
                \/ UNCHANGED exited /\ m = "BLACKHOLE" /\ Tell(r, "blackholed")
                \/ UNCHANGED exited /\ m = "FORWARD" /\ Tell(r, "publishing")
    BY HandleEffect
  <2>4. QED
    BY <2>1, <2>2, <2>3, Zenon
<1>9. QED
  BY <1>2, <1>8

\* A call that is not published after all.
LEMMA AbandonKeeps ==
  ASSUME IInv, NEW r \in Request, PublishErr(r) \/ HangUp(r)
  PROVE  IInv' /\ Watched' = Watched
<1>1. /\ call[r] = "publishing"
      /\ \E a \in {"failed", "cancelled"} : call' = [call EXCEPT ![r] = a]
      /\ UNCHANGED <<public_key, partner, mode, consumers, age, inbox, signature_queue,
                     bundles, clean, accepted, finalized, timed_out, success,
                     finalized_by, timed_out_by, exited>>
  BY DEF PublishErr, HangUp, Tell, meta, watcher, counters
<1>2. WatcherInv' /\ Watched' = Watched
  BY <1>1, WatcherIdle DEF IInv
<1>3. r \notin Watched
  BY <1>1 DEF IInv, WatchedAreOk
<1>4. Flags'
  BY <1>1 DEF IInv, Flags
<1>5. CallTypes' /\ CountTypes'
  BY <1>1 DEF IInv, CallTypes, CountTypes
<1>6. WatchedAreOk' /\ HandlerInv'
  BY <1>1, <1>2, <1>3 DEF IInv, CallTypes, WatchedAreOk, HandlerInv
<1>7. QED
  BY <1>2, <1>4, <1>5, <1>6 DEF IInv

\* A call that is published goes to the watcher.
LEMMA PublishOkKeeps ==
  ASSUME IInv, NEW r \in Request, PublishOk(r)
  PROVE  IInv' /\ Watched' = Watched \cup {r} /\ r \notin Watched
<1>1. WatcherInv' /\ Watched' = Watched \cup {r} /\ r \notin Watched
  BY WatcherPublishOk DEF IInv
<1>2. /\ call[r] = "publishing" /\ call' = [call EXCEPT ![r] = "ok"]
      /\ UNCHANGED <<public_key, partner, mode, clean, accepted, finalized, timed_out,
                     success, finalized_by, timed_out_by, exited>>
      /\ \E list \in ConsumerLists : consumers' = [consumers EXCEPT ![r] = list]
  BY DEF PublishOk, Tell, meta, counters
<1>3. Flags'
  BY <1>2 DEF IInv, Flags
<1>4. CallTypes' /\ CountTypes'
  BY <1>2 DEF IInv, CallTypes, CountTypes
<1>5. WatchedAreOk' /\ HandlerInv'
  BY <1>1, <1>2 DEF IInv, CallTypes, WatchedAreOk, HandlerInv
<1>6. QED
  BY <1>1, <1>3, <1>4, <1>5 DEF IInv

\* Records move on, or time passes.
LEMMA WatcherKeeps ==
  ASSUME IInv, Receive \/ Bundle \/ Tick
  PROVE  IInv' /\ Watched' = Watched
<1>1. WatcherInv' /\ Watched' = Watched
  BY WatcherReceive, WatcherBundle, WatcherTick DEF IInv
<1>2. UNCHANGED <<public_key, partner, mode, call, consumers, clean, accepted, finalized,
                  timed_out, success, finalized_by, timed_out_by, exited>>
  BY DEF Receive, Bundle, Tick, meta, counters
<1>3. Flags'
  BY <1>2 DEF IInv, Flags
<1>4. CallTypes' /\ CountTypes' /\ WatchedAreOk' /\ HandlerInv'
  BY <1>1, <1>2 DEF IInv, CallTypes, CountTypes, WatchedAreOk, HandlerInv
<1>5. QED
  BY <1>1, <1>3, <1>4 DEF IInv

\* The records of a bundle are counted.
LEMMA CheckKeeps ==
  ASSUME IInv, NEW b \in bundles, Check(b)
  PROVE  /\ IInv' /\ Watched' = Watched \ Range(b)
         /\ Range(b) \subseteq Watched /\ Range(b) # {} /\ Range(b) \in SUBSET Request
<1>1. /\ WatcherInv' /\ Watched' = Watched \ Range(b)
      /\ Range(b) \subseteq Watched /\ Range(b) # {}
  BY WatcherCheck DEF IInv
<1>2. Range(b) \in SUBSET Request
  BY <1>1, WatchedType DEF IInv, WatcherInv
<1>3. UNCHANGED <<public_key, partner, mode, call, consumers, accepted, exited>>
  BY CheckEffect
<1>4. Flags'
  BY <1>3 DEF IInv, Flags
<1>5. CallTypes' /\ WatchedAreOk' /\ HandlerInv'
  BY <1>1, <1>3 DEF IInv, CallTypes, WatchedAreOk, HandlerInv
<1>6. CountTypes'
  <2>1. PICK known \in SUBSET Range(b) : \E blamed \in SUBSET (Range(b) \ known) :
          /\ finalized' = CountPartners(finalized, known)
          /\ success' = CountPartners(success, known)
          /\ timed_out' = CountPartners(timed_out, Range(b) \ known)
          /\ finalized_by' = CountConsumers(finalized_by, known)
          /\ timed_out_by' = CountConsumers(timed_out_by, blamed)
    BY CheckEffect
  <2>2. PICK blamed \in SUBSET (Range(b) \ known) : timed_out_by' = CountConsumers(timed_out_by, blamed)
    BY <2>1
  <2>3. known \in SUBSET Request /\ blamed \in SUBSET Request /\ Range(b) \ known \in SUBSET Request
    BY <1>2
  <2>4. /\ finalized' \in [Partner -> Nat] /\ success' \in [Partner -> Nat]
        /\ timed_out' \in [Partner -> Nat]
    BY <2>1, <2>3, PartnersType DEF IInv, CountTypes
  <2>5. finalized_by' \in [Consumer -> Nat] /\ timed_out_by' \in [Consumer -> Nat]
    BY <2>1, <2>2, <2>3, ConsumersType DEF IInv, CountTypes
  <2>6. clean' \in [Partner -> Nat]
    BY <1>2, CheckEffect, PartnersType DEF IInv, CountTypes
  <2>7. QED
    BY <1>3, <2>4, <2>5, <2>6 DEF IInv, CountTypes
<1>7. QED
  BY <1>1, <1>2, <1>4, <1>5, <1>6 DEF IInv

\* Every step preserves the invariant.
LEMMA NextIInv == IInv /\ [Next]_vars => IInv'
<1> SUFFICES ASSUME IInv, [Next]_vars PROVE IInv'
  OBVIOUS
<1>1. CASE \E r \in Request : Handle(r)
  BY <1>1, HandleKeeps
<1>2. CASE \E r \in Request : PublishErr(r) \/ HangUp(r)
  BY <1>2, AbandonKeeps
<1>3. CASE \E r \in Request : PublishOk(r)
  BY <1>3, PublishOkKeeps
<1>4. CASE Receive \/ Bundle \/ Tick
  BY <1>4, WatcherKeeps
<1>5. CASE \E b \in bundles : Check(b)
  BY <1>5, CheckKeeps
<1>6. CASE UNCHANGED vars
  <2>1. WatcherInv' /\ Watched' = Watched
    BY <1>6, WatcherIdle DEF IInv, vars, watcher
  <2>2. UNCHANGED <<public_key, partner, mode, call, consumers, clean, accepted, finalized,
                    timed_out, success, finalized_by, timed_out_by, exited>>
    BY <1>6 DEF vars, meta, counters
  <2>3. Flags'
    BY <2>2 DEF IInv, Flags
  <2>4. CallTypes' /\ CountTypes' /\ WatchedAreOk' /\ HandlerInv'
    BY <2>1, <2>2 DEF IInv, CallTypes, CountTypes, WatchedAreOk, HandlerInv
  <2>5. QED
    BY <2>1, <2>3, <2>4 DEF IInv
<1>7. QED
  BY <1>1, <1>2, <1>3, <1>4, <1>5, <1>6 DEF Next

(***************************************************************************)
(* The theorems.                                                           *)
(***************************************************************************)

\* The invariant holds in every reachable state.
THEOREM Invariant == Spec => []IInv
BY InitIInv, NextIInv, PTL DEF Spec

\* Every variable stays in its range, and no bundle that is sent to the chain is
\* empty or exceeds max_bundle_size.
THEOREM TypeCorrect == Spec => []TypeOK
<1>1. IInv => TypeOK
  BY TypeParts DEF IInv
<1>2. QED
  BY <1>1, Invariant, PTL

\* A record is in one place at a time: the channel, the queue, or one bundle, once;
\* splitting the queue into bundles neither drops nor repeats one.
THEOREM RecordsInOnePlace == Spec => []OnePlace
<1>1. IInv => OnePlace
  BY DEF IInv, WatcherInv
<1>2. QED
  BY <1>1, Invariant, PTL

\* The records that are due are in front of the queue, so the scan that stops at the
\* first young record misses none.
THEOREM DueRecordsInFront == Spec => []DueInFront
<1>1. ASSUME IInv PROVE DueInFront
  <2>1. SUFFICES ASSUME NEW i \in 1 .. Len(signature_queue),
                        NEW j \in 1 .. Len(signature_queue),
                        i < j, Old(signature_queue[j])
                 PROVE  Old(signature_queue[i])
    BY DEF DueInFront
  <2>2. age[signature_queue[i]] >= age[signature_queue[j]]
    BY <1>1, <2>1 DEF IInv, WatcherInv, OldestFirst
  <2>3. signature_queue[i] \in Request /\ signature_queue[j] \in Request
    BY <1>1 DEF IInv, WatcherInv, QueueTypes
  <2>4. age[signature_queue[i]] \in Int /\ age[signature_queue[j]] \in Int
    BY <1>1, <2>3, TransactionsAssumption DEF IInv, WatcherInv
  <2>5. QED
    BY <2>1, <2>2, <2>4, TransactionsAssumption DEF Old
<1>2. QED
  BY <1>1, Invariant, PTL
==============================================================================
