--------------------------- MODULE MCClusterFeeds ----------------------------
(***************************************************************************)
(* An instance of ClusterFeeds for TLC: epochs of two slots with a leader  *)
(* each, the server started in the last slot of the cluster's first epoch. *)
(***************************************************************************)
EXTENDS ClusterFeeds

CONSTANTS A, B, C

ThreeEpochs ==
  [e \in 0 .. 2 |-> [k \in 0 .. 1 |-> CASE e = 0 -> IF k = 0 THEN C ELSE B
                                        [] e = 1 -> IF k = 0 THEN A ELSE B
                                        [] e = 2 -> IF k = 0 THEN C ELSE A]]
==============================================================================
