--------------------------- MODULE MCTransactions ----------------------------
(***************************************************************************)
(* Instances of Transactions for TLC.                                      *)
(***************************************************************************)
EXTENDS Transactions

CONSTANTS P, T, C, D

\* Every send failed; two clients took copies, one of them two.
SomeLists == {<<>>, <<C, D, C>>}

OneList == {<<C, D>>}
==============================================================================
