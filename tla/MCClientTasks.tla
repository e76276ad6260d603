---------------------------- MODULE MCClientTasks ----------------------------
(***************************************************************************)
(* An instance of ClientTasks for TLC.                                     *)
(***************************************************************************)
EXTENDS ClientTasks, FiniteSets

CONSTANTS a, b, bad

\* How often a list has each entry.
Entries(list) ==
  [e \in Url \cup {NoUrl} |-> Cardinality({k \in DOMAIN list : list[k] = e})]

\* One server, another one and a blank entry, both, the second one twice, none,
\* a URL that does not parse, and a file that cannot be read.
SomeContents ==
  {Entries(list) : list \in {<<a>>, <<NoUrl, b>>, <<a, b>>, <<b, b>>, <<>>, <<a, bad>>}}
    \cup {Unreadable}
==============================================================================
