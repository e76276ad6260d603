-------------------------- MODULE ClientTasksProofs --------------------------
(***************************************************************************)
(* Theorems about module ClientTasks, for every set of URLs, every set of  *)
(* contents of the file and any number of edits and signals.               *)
(***************************************************************************)
EXTENDS ClientTasks, SequenceTheorems, TLAPS

(***************************************************************************)
(* The inductive invariant.                                                *)
(***************************************************************************)

\* The lists that some version of the file gives.
FileLists == {read_grpc_urls_from_file(c) : c \in Contents \ {Unreadable}}

\* Whatever list the client has in hand was read from some version of the file.
ListsAreRead ==
  /\ urls \in FileLists
  /\ offer # <<>> => offer[1] \in FileLists
  /\ channel # <<>> => channel[1] \in FileLists

\* The list that was read last of those the client has in hand.
Newest == IF offer # <<>> THEN offer[1] ELSE IF channel # <<>> THEN channel[1] ELSE urls

\* A readable file that was signalled, and whose signal was handled, is the newest list.
SignalledIsNewest ==
  ~ exited /\ signalled /\ ~ pending /\ file # Unreadable
    => Newest = read_grpc_urls_from_file(file)

IInv == TypeOK /\ OneTaskPerUrl /\ ListsAreRead /\ SignalledIsNewest

\* The type invariant, in parts.
Flags == signalled \in BOOLEAN /\ pending \in BOOLEAN /\ exited \in BOOLEAN

Data ==
  /\ file \in Contents /\ edits \in 0 .. MaxEdits
  /\ offer \in Seq([Url -> Nat]) /\ Len(offer) <= 1
  /\ channel \in Seq([Url -> Nat]) /\ Len(channel) <= 1
  /\ urls \in [Url -> Nat]
  /\ all_tasks \in SUBSET Url /\ detached \in [Url -> Nat]

LEMMA TypeParts == (TypeOK <=> Flags /\ Data) /\ (TypeOK' <=> Flags' /\ Data')
<1>1. TypeOK <=> Flags /\ Data
  BY Zenon DEF TypeOK, Flags, Data
<1>2. TypeOK' <=> Flags' /\ Data'
  BY Zenon DEF TypeOK, Flags, Data
<1>3. QED
  BY <1>1, <1>2

(***************************************************************************)
(* Lists and queues of one slot.                                           *)
(***************************************************************************)

\* A readable content gives a list of URLs.
LEMMA ReadType ==
  ASSUME NEW c \in Contents \ {Unreadable}
  PROVE  /\ read_grpc_urls_from_file(c) \in [Url -> Nat]
         /\ read_grpc_urls_from_file(c) \in FileLists
<1>1. c \in [Url \cup {NoUrl} -> Nat]
  BY ClientTasksAssumption
<1>2. QED
  BY <1>1 DEF read_grpc_urls_from_file, FileLists

\* A server that no version of the file lists twice is at most once on any list read.
LEMMA ReadOnce ==
  ASSUME NEW list \in FileLists, NEW u \in Url \ ListedTwice
  PROVE  list \in [Url -> Nat] /\ list[u] <= 1
<1>1. PICK c \in Contents \ {Unreadable} : list = read_grpc_urls_from_file(c)
  BY DEF FileLists
<1>2. list \in [Url -> Nat] /\ list[u] = c[u]
  BY <1>1, ReadType DEF read_grpc_urls_from_file
<1>3. ~ (c[u] > 1)
  BY DEF ListedTwice
<1>4. QED
  BY <1>2, <1>3

\* A queue of one slot is empty, or it is its head.
LEMMA OneSlot ==
  ASSUME NEW S, NEW q \in Seq(S), Len(q) <= 1, q # <<>>
  PROVE  /\ Len(q) = 1 /\ q[1] \in S /\ Head(q) = q[1]
         /\ Tail(q) = <<>> /\ <<>> \o q = q
<1>1. Len(q) = 1
  <2>1. Len(q) \in Nat \ {0}
    BY EmptySeq
  <2>2. QED
    BY <2>1
<1>2. q[1] \in S /\ Head(q) = q[1]
  BY <1>1
<1>3. Tail(q) \in Seq(S) /\ Len(Tail(q)) = 0
  BY <1>1, HeadTailProperties
<1>4. Tail(q) = <<>>
  BY <1>3, EmptySeq
<1>5. <<>> \o q = q
  BY ConcatEmptySeq
<1>6. QED
  BY <1>1, <1>2, <1>4, <1>5

(***************************************************************************)
(* The initial states and the steps.                                       *)
(***************************************************************************)

LEMMA InitIInv == Init => IInv
<1> SUFFICES ASSUME Init PROVE IInv
  OBVIOUS
<1>1. urls \in [Url -> Nat] /\ urls \in FileLists
  BY ReadType DEF Init
<1>2. TypeOK
  <2>1. Flags
    BY DEF Init, Flags
  <2>2. detached \in [Url -> Nat]
    BY <1>1 DEF Init, Listed
  <2>3. Data
    BY <1>1, <2>2, EmptySeq, ClientTasksAssumption DEF Init, Data, Listed
  <2>4. QED
    BY <2>1, <2>3, TypeParts
<1>3. \A u \in Url \ ListedTwice : detached[u] = 0
  <2> SUFFICES ASSUME NEW u \in Url \ ListedTwice PROVE detached[u] = 0
    OBVIOUS
  <2>1. urls[u] \in Nat /\ urls[u] <= 1
    BY <1>1, ReadOnce
  <2>2. QED
    BY <2>1 DEF Init, Listed
<1>4. OneTaskPerUrl
  BY <1>3 DEF Init, OneTaskPerUrl
<1>5. ListsAreRead /\ SignalledIsNewest
  BY <1>1 DEF Init, ListsAreRead, SignalledIsNewest
<1>6. QED
  BY <1>2, <1>4, <1>5 DEF IInv

\* The operator edits the file, or sends a signal.
LEMMA OperatorSteps ==
  ASSUME IInv, Edit \/ Sighup
  PROVE  IInv'
<1>1. TypeOK'
  <2>1. Flags /\ Data
    BY TypeParts DEF IInv
  <2>2. Flags'
    BY <2>1 DEF Flags, Edit, Sighup
  <2>3. Data'
    BY <2>1, ClientTasksAssumption DEF Data, Edit, Sighup, tasks
  <2>4. QED
    BY <2>2, <2>3, TypeParts
<1>2. UNCHANGED <<offer, channel, urls, all_tasks, detached, exited>>
  BY DEF Edit, Sighup, tasks
<1>3. OneTaskPerUrl' /\ ListsAreRead'
  BY <1>2 DEF IInv, OneTaskPerUrl, ListsAreRead, Listed
<1>4. SignalledIsNewest'
  BY DEF Edit, Sighup, SignalledIsNewest
<1>5. QED
  BY <1>1, <1>3, <1>4 DEF IInv

\* handle_signals reads the file: the list it offers is the newest.
LEMMA HandleSignalStep ==
  ASSUME IInv, HandleSignal
  PROVE  IInv'
<1>1. /\ pending' = FALSE
      /\ offer' = IF file = Unreadable THEN <<>> ELSE <<read_grpc_urls_from_file(file)>>
      /\ UNCHANGED <<file, edits, signalled, channel, urls, all_tasks, detached, exited>>
  BY DEF HandleSignal, tasks
<1>2. file \in Contents /\ Flags /\ Data
  BY TypeParts DEF IInv, Data
<1>3. CASE file = Unreadable
  <2>1. offer' = <<>> /\ file' = Unreadable
    BY <1>1, <1>3
  <2>2. TypeOK'
    <3>1. Flags'
      BY <1>1, <1>2 DEF Flags
    <3>2. Data'
      BY <1>1, <1>2, <2>1, EmptySeq DEF Data
    <3>3. QED
      BY <3>1, <3>2, TypeParts
  <2>3. OneTaskPerUrl' /\ ListsAreRead'
    BY <1>1, <2>1 DEF IInv, OneTaskPerUrl, ListsAreRead, Listed
  <2>4. SignalledIsNewest'
    BY <2>1 DEF SignalledIsNewest
  <2>5. QED
    BY <2>2, <2>3, <2>4 DEF IInv
<1>4. CASE file # Unreadable
  <2> DEFINE list == read_grpc_urls_from_file(file)
  <2>1. list \in [Url -> Nat] /\ list \in FileLists
    BY <1>2, <1>4, ReadType
  <2>2. offer' = <<list>>
    BY <1>1, <1>4
  <2>3. (read_grpc_urls_from_file(file))' = list
    BY <1>1 DEF read_grpc_urls_from_file
  <2> HIDE DEF list
  <2>4. TypeOK'
    <3>1. Flags'
      BY <1>1, <1>2 DEF Flags
    <3>2. <<list>> \in Seq([Url -> Nat]) /\ Len(<<list>>) = 1
      <4>1. ASSUME NEW S, NEW x \in S PROVE <<x>> \in Seq(S) /\ Len(<<x>>) = 1
        OBVIOUS
      <4>2. QED
        BY <2>1, <4>1
    <3>3. offer' \in Seq([Url -> Nat]) /\ Len(offer') <= 1
      BY <2>2, <3>2
    <3>4. UNCHANGED <<file, edits, channel, urls, all_tasks, detached>>
      BY <1>1
    <3>5. Data'
      BY <1>2, <3>3, <3>4 DEF Data
    <3>6. QED
      BY <3>1, <3>5, TypeParts
  <2>5. OneTaskPerUrl' /\ ListsAreRead'
    BY <1>1, <2>1, <2>2 DEF IInv, OneTaskPerUrl, ListsAreRead, Listed
  <2>6. SignalledIsNewest'
    BY <2>2, <2>3 DEF SignalledIsNewest, Newest
  <2>7. QED
    BY <2>4, <2>5, <2>6 DEF IInv
<1>5. QED
  BY <1>3, <1>4

\* The offered list goes into the channel, which was empty.
LEMMA SendListStep ==
  ASSUME IInv, SendList
  PROVE  IInv'
<1>1. /\ offer \in Seq([Url -> Nat]) /\ Len(offer) <= 1 /\ offer # <<>>
      /\ channel \in Seq([Url -> Nat]) /\ Len(channel) < 1
      /\ channel' = channel \o offer /\ offer' = <<>>
      /\ UNCHANGED <<file, edits, signalled, pending, urls, all_tasks, detached, exited>>
  BY DEF IInv, TypeOK, SendList, HasRoom, tasks
<1>2. channel = <<>>
  BY <1>1, EmptySeq
<1>3. channel' = offer /\ Len(offer) = 1
  BY <1>1, <1>2, OneSlot
<1>4. TypeOK'
  BY <1>1, <1>3, EmptySeq DEF IInv, TypeOK
<1>5. OneTaskPerUrl' /\ ListsAreRead'
  BY <1>1, <1>3 DEF IInv, OneTaskPerUrl, ListsAreRead, Listed
<1>6. Newest' = Newest
  BY <1>1, <1>3 DEF Newest
<1>7. SignalledIsNewest'
  BY <1>1, <1>6 DEF IInv, SignalledIsNewest, read_grpc_urls_from_file
<1>8. QED
  BY <1>4, <1>5, <1>7 DEF IInv

\* The main task takes a list: tasks of URLs that are gone are aborted, and those of
\* new URLs spawned, once each unless the list itself has them twice.
LEMMA ReloadStep ==
  ASSUME IInv, Reload
  PROVE  IInv'
<1> DEFINE new     == channel[1]
           handles == all_tasks \ (Listed(urls) \ Listed(new))
           spawned == urls_to_spawn(new)
<1>1. /\ channel \in Seq([Url -> Nat]) /\ channel # <<>>
      /\ Head(channel) = new /\ channel' = <<>>
      /\ new \in [Url -> Nat] /\ new \in FileLists
  <2>1. channel \in Seq([Url -> Nat]) /\ Len(channel) <= 1 /\ channel # <<>>
    BY DEF IInv, TypeOK, Reload
  <2>2. QED
    BY <2>1, OneSlot DEF IInv, ListsAreRead, Reload
<1>2. /\ ~ exited /\ urls' = new
      /\ build_tasks(spawned, handles, detached)
      /\ UNCHANGED <<file, edits, signalled, pending, offer>>
  BY <1>1 DEF Reload, next_urls
<1>3. /\ urls \in [Url -> Nat] /\ all_tasks = Listed(urls) /\ detached \in [Url -> Nat]
      /\ \A u \in Url \ ListedTwice : detached[u] = 0
  BY <1>2 DEF IInv, TypeOK, OneTaskPerUrl
<1>4. /\ spawned \in [Url -> Nat]
      /\ Listed(spawned) = Listed(new) \ Listed(urls)
      /\ \A u \in Listed(spawned) : spawned[u] = new[u]
  BY <1>1, <1>3 DEF urls_to_spawn, Listed
<1>5. handles = Listed(urls) \cap Listed(new)
  BY <1>3
<1> HIDE DEF new, handles, spawned
<1>6. \A u \in Url : u \in Listed(spawned) => u \notin handles /\ spawned[u] \in Nat \ {0}
  BY <1>4, <1>5 DEF Listed
<1>7. /\ all_tasks' \in SUBSET Url /\ detached' \in [Url -> Nat] /\ exited' \in BOOLEAN
      /\ OneTaskPerUrl'
  <2>1. CASE Listed(spawned) \cap Malformed # {}
    <3>1. exited' = TRUE /\ all_tasks' = handles /\ detached' = detached
      BY <1>2, <2>1 DEF build_tasks
    <3>2. QED
      BY <1>3, <1>5, <3>1 DEF OneTaskPerUrl, Listed
  <2>2. CASE Listed(spawned) \cap Malformed = {}
    <3>1. /\ all_tasks' = handles \cup Listed(spawned) /\ exited' = exited
          /\ detached' = [u \in Url |->
               LET n == spawned[u] + (IF u \in handles THEN 1 ELSE 0)
               IN  detached[u] + (IF u \in Listed(spawned) THEN n - 1 ELSE 0)]
      BY <1>2, <2>2 DEF build_tasks
    <3>2. detached' = [u \in Url |->
            detached[u] + (IF u \in Listed(spawned) THEN spawned[u] - 1 ELSE 0)]
      BY <1>3, <1>6, <3>1
    <3>3. detached' \in [Url -> Nat]
      BY <1>3, <1>6, <3>2
    <3>4. all_tasks' = Listed(urls')
      BY <1>2, <1>4, <1>5, <3>1
    <3>5. ASSUME NEW u \in Url \ ListedTwice PROVE detached'[u] = 0
      <4>1. new[u] \in Nat /\ new[u] <= 1
        BY <1>1, ReadOnce
      <4>2. u \in Listed(spawned) => spawned[u] = 1
        BY <1>4, <1>6, <4>1
      <4>3. QED
        BY <1>3, <3>2, <4>2
    <3>6. (Listed(urls))' = Listed(urls') /\ ListedTwice' = ListedTwice
      BY DEF Listed, ListedTwice
    <3>7. OneTaskPerUrl'
      BY <3>4, <3>5, <3>6 DEF OneTaskPerUrl
    <3>8. all_tasks' \in SUBSET Url
      BY <3>4 DEF Listed
    <3>9. exited' \in BOOLEAN
      BY <3>1 DEF IInv, TypeOK
    <3>10. QED
      BY <3>3, <3>7, <3>8, <3>9
  <2>3. QED
    BY <2>1, <2>2
<1>8. TypeOK'
  BY <1>1, <1>2, <1>7, EmptySeq DEF IInv, TypeOK
<1>9. ListsAreRead'
  BY <1>1, <1>2 DEF IInv, ListsAreRead
<1>10. SignalledIsNewest'
  <2>1. Newest' = Newest
    BY <1>1, <1>2 DEF Newest, new
  <2>2. QED
    BY <1>2, <2>1 DEF IInv, SignalledIsNewest, read_grpc_urls_from_file
<1>11. QED
  BY <1>7, <1>8, <1>9, <1>10 DEF IInv

\* The invariant holds in every reachable state.
THEOREM Invariant == Spec => []IInv
<1>1. IInv /\ [Next]_vars => IInv'
  <2> SUFFICES ASSUME IInv, [Next]_vars PROVE IInv'
    OBVIOUS
  <2>1. CASE UNCHANGED vars
    BY <2>1 DEF vars, tasks, IInv, TypeOK, OneTaskPerUrl, ListsAreRead, SignalledIsNewest,
                Newest, Listed, read_grpc_urls_from_file
  <2>2. QED
    BY <2>1, OperatorSteps, HandleSignalStep, SendListStep, ReloadStep DEF Next
<1>2. QED
  BY <1>1, InitIInv, PTL DEF Spec

(***************************************************************************)
(* The theorems.                                                           *)
(***************************************************************************)

\* Types of the reload: in particular the channel never holds more than one list.
THEOREM TypeCorrect == Spec => []TypeOK
<1>1. IInv => TypeOK
  BY DEF IInv
<1>2. QED
  BY <1>1, Invariant, PTL

\* Through any edits, signals and reloads, exactly the listed servers have a task the
\* client can abort, and servers listed once have no other.
THEOREM TasksMatchUrls == Spec => []OneTaskPerUrl
<1>1. IInv => OneTaskPerUrl
  BY DEF IInv
<1>2. QED
  BY <1>1, Invariant, PTL

\* A signalled file is in use once nothing is on its way, although signals merge and
\* lists wait for one another.
THEOREM ReloadsArrive == Spec => []NoReloadLost
<1>1. IInv => NoReloadLost
  BY DEF IInv, SignalledIsNewest, Newest, NoReloadLost
<1>2. QED
  BY <1>1, Invariant, PTL
==============================================================================
