--------------------------- MODULE MCClientStreams ---------------------------
(***************************************************************************)
(* Instances of ClientStreams for TLC.                                     *)
(***************************************************************************)
EXTENDS ClientStreams

CONSTANTS s1, h1

OneHost == [s \in Stream |-> h1]
==============================================================================
