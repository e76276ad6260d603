----------------------------- MODULE ClientTasks -----------------------------
(***************************************************************************)
(* How the client keeps one connection task per configured server          *)
(* (client/main.rs): the file of URLs is read at the start and again at    *)
(* every SIGHUP, the list goes through a channel of one slot to the main   *)
(* task, and that one aborts and spawns connection tasks.                  *)
(*                                                                         *)
(* A connection task is known by its handle in all_tasks, or, when another *)
(* one for the same URL was inserted over it, by none: it then runs on,    *)
(* detached.  What such a task does is the subject of ClientStreams; it    *)
(* never ends by itself.  The lock around all_tasks has one user, so the   *)
(* main task handles a list without ever waiting, in one step.             *)
(*                                                                         *)
(* Nothing depends on the order of a list: a list is the number of times   *)
(* it has each of its entries.                                             *)
(***************************************************************************)
EXTENDS Naturals, Sequences

CONSTANTS
  Url,        \* the URLs a file may list
  Malformed,  \* those that do not parse as a Uri
  NoUrl,      \* an entry of the list that is empty or no string
  Unreadable, \* the file is missing, no YAML, or without mtransaction_servers
  Contents,   \* what the file may hold: a list of entries, or Unreadable
  MaxEdits    \* bound on the edits of the file

ASSUME ClientTasksAssumption ==
  /\ Malformed \subseteq Url /\ NoUrl \notin Url
  /\ Contents \subseteq [Url \cup {NoUrl} -> Nat] \cup {Unreadable}
  /\ MaxEdits \in Nat

VARIABLES
  file,       \* the file's content
  edits,      \* how often it was edited
  signalled,  \* has a SIGHUP come since the last edit? (history)
  pending,    \* a SIGHUP was raised and not yet handled
  offer,      \* what handle_signals is waiting to send: at most one list
  channel,    \* the channel of lists
  urls,       \* grpc_urls_from_file
  all_tasks,  \* the URLs with a handle in all_tasks
  detached,   \* URL -> tasks whose handle was overwritten
  exited      \* the panic hook has ended the process

tasks == <<urls, all_tasks, detached>>
vars  == <<file, edits, signalled, pending, offer, channel, tasks, exited>>

\* The URLs of a readable content: entries that are no strings are left out.
read_grpc_urls_from_file(content) == [u \in Url |-> content[u]]

Listed(list) == {u \in Url : list[u] > 0}

\* A task is spawned for every entry of the list, and its handle inserted over the
\* one of an earlier task for the same URL; a URL that does not parse panics.
build_tasks(list, handles, lost) ==
  IF Listed(list) \cap Malformed # {}
  THEN exited' = TRUE /\ all_tasks' = handles /\ detached' = lost
  ELSE /\ all_tasks' = handles \cup Listed(list)
       /\ detached' = [u \in Url |->
            LET n == list[u] + (IF u \in handles THEN 1 ELSE 0)
            IN  lost[u] + (IF u \in Listed(list) THEN n - 1 ELSE 0)]
       /\ UNCHANGED exited

\* The process has read its file, which it cannot do without, and has built its
\* first tasks.
Init ==
  /\ file \in Contents \ {Unreadable}
  /\ urls = read_grpc_urls_from_file(file) /\ Listed(urls) \cap Malformed = {}
  /\ all_tasks = Listed(urls)
  /\ detached = [u \in Url |-> IF u \in Listed(urls) THEN urls[u] - 1 ELSE 0]
  /\ edits = 0 /\ signalled = FALSE /\ pending = FALSE
  /\ offer = <<>> /\ channel = <<>>
  /\ exited = FALSE

(***************************************************************************)
(* The operator.                                                           *)
(***************************************************************************)

Edit ==
  /\ ~ exited /\ edits < MaxEdits
  /\ file' \in Contents \ {file}
  /\ edits' = edits + 1 /\ signalled' = FALSE
  /\ UNCHANGED <<pending, offer, channel, tasks, exited>>

\* A signal raised before the last one was handled is not seen as a second one.
Sighup ==
  /\ ~ exited
  /\ pending' = TRUE /\ signalled' = TRUE
  /\ UNCHANGED <<file, edits, offer, channel, tasks, exited>>

(***************************************************************************)
(* The client.                                                             *)
(***************************************************************************)

\* handle_signals takes the signal and reads the file.  A file it cannot read is
\* passed over.
HandleSignal ==
  /\ ~ exited /\ pending /\ offer = <<>>
  /\ pending' = FALSE
  /\ offer' = IF file = Unreadable THEN <<>>
              ELSE <<read_grpc_urls_from_file(file)>>
  /\ UNCHANGED <<file, edits, signalled, channel, tasks, exited>>

\* Plausible slip: the list is pushed whether or not there is room.
HasRoomAlways == TRUE

HasRoom == Len(channel) < 1

\* Plausible slip: try_send, which loses the list when there is no room.
SendListTry ==
  /\ ~ exited /\ offer # <<>>
  /\ channel' = IF HasRoom THEN channel \o offer ELSE channel
  /\ offer' = <<>>
  /\ UNCHANGED <<file, edits, signalled, pending, tasks, exited>>

\* sender.send(new_grpc_urls).await
SendList ==
  /\ ~ exited /\ offer # <<>> /\ HasRoom
  /\ channel' = channel \o offer
  /\ offer' = <<>>
  /\ UNCHANGED <<file, edits, signalled, pending, tasks, exited>>

\* Plausible slip: every URL of the new list gets a task.
urls_to_spawn_all(new) == new

\* The URLs of the new list that are not in the old one.
urls_to_spawn(new) == [u \in Url |-> IF u \in Listed(urls) THEN 0 ELSE new[u]]

\* Plausible slip: with nothing to spawn the old list is kept.
next_urls_kept(new) == IF Listed(urls_to_spawn(new)) = {} THEN urls ELSE new

\* grpc_urls_from_file.clear(), then extend(new_grpc_urls)
next_urls(new) == new

\* The main task takes a list: it aborts the tasks of URLs that are gone, keeps
\* the list, and spawns tasks for new URLs if there are any.
Reload ==
  LET new     == Head(channel)
      handles == all_tasks \ (Listed(urls) \ Listed(new))
  IN  /\ ~ exited /\ channel # <<>>
      /\ channel' = Tail(channel)
      /\ urls' = next_urls(new)
      /\ build_tasks(urls_to_spawn(new), handles, detached)
      /\ UNCHANGED <<file, edits, signalled, pending, offer>>

Next == Edit \/ Sighup \/ HandleSignal \/ SendList \/ Reload

Spec == Init /\ [][Next]_vars

\* The runtime polls both tasks; nothing makes the operator do anything.
FairSpec == Spec /\ WF_vars(HandleSignal) /\ WF_vars(SendList) /\ WF_vars(Reload)

(***************************************************************************)
(* Properties.                                                             *)
(***************************************************************************)

\* Every variable stays in its range, and the channel holds one list at most.
TypeOK ==
  /\ file \in Contents /\ edits \in 0 .. MaxEdits
  /\ signalled \in BOOLEAN /\ pending \in BOOLEAN /\ exited \in BOOLEAN
  /\ offer \in Seq([Url -> Nat]) /\ Len(offer) <= 1
  /\ channel \in Seq([Url -> Nat]) /\ Len(channel) <= 1
  /\ urls \in [Url -> Nat]
  /\ all_tasks \in SUBSET Url /\ detached \in [Url -> Nat]

\* URLs that some version of the file lists more than once.
ListedTwice == {u \in Url : \E c \in Contents \ {Unreadable} : c[u] > 1}

\* Through any sequence of reloads exactly the listed servers have a task the
\* client can still abort, and a server no file lists twice has no other: none is
\* left without a connection, none is connected to twice, none is kept after it
\* was taken off the list.
OneTaskPerUrl ==
  ~ exited => /\ all_tasks = Listed(urls)
              /\ \A u \in Url \ ListedTwice : detached[u] = 0

\* When no signal, offer or list is on its way, a file that was signalled is the
\* one in use, although signals are merged and lists wait for one another.
NoReloadLost ==
  /\ ~ exited /\ signalled /\ ~ pending /\ offer = <<>> /\ channel = <<>>
  /\ file # Unreadable
  => urls = read_grpc_urls_from_file(file)

\* A readable file that was signalled comes into use, unless it is edited again.
ReloadApplied ==
  \A c \in Contents \ {Unreadable} :
    file = c /\ signalled ~>
      urls = read_grpc_urls_from_file(c) \/ ~ signalled \/ exited
==============================================================================
