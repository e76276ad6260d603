--------------------------- MODULE MCPickConsumers ---------------------------
(***************************************************************************)
(* Calls of pick_consumers for TLC.  The names in the iteration order are  *)
(* fixed, because the stakes and the leader lists range over all the ways  *)
(* to give them.                                                           *)
(***************************************************************************)
EXTENDS PickConsumers

CONSTANTS c1, c2, c3, c4,           \* validators that run a client
          x1, x2, x3, x4,           \* leaders that do not
          MaxStake, MaxTotal

Orders == {<<>>, <<c1>>, <<c1, c2>>, <<c1, c2, c3>>}

\* No leader, fewer than N_CONSUMERS, as many, and the window of N_LEADERS = 7.
LeaderLists == {<<>>, <<c2>>, <<x1, x2>>, <<x1, c2, x2>>,
                <<c3, x1, c1, x2, x3>>, <<x1, c2, x2, x3, c1, c3, x4>>}

SmallCalls ==
  UNION {{[order |-> o, stake |-> s, total |-> t, leader_tpus |-> l] :
            s \in [Range(o) -> 0 .. MaxStake], t \in 0 .. MaxTotal,
            l \in LeaderLists} : o \in Orders}

\* More connected leaders than N_CONSUMERS.
LeadersOnly ==
  {[order |-> <<c1, c2, c3, c4>>, stake |-> [c \in {c1, c2, c3, c4} |-> 1],
    total |-> 4, leader_tpus |-> l] :
     l \in {<<c1, c2, c3, c4>>, <<x1, c4, x2, c3, c2, c1, x3>>}}

Calls == SmallCalls \cup LeadersOnly
==============================================================================
