------------------------- MODULE MCTaskTransaction -------------------------
(***************************************************************************)
(* TLC instance of TaskTransaction.                                        *)
(***************************************************************************)
EXTENDS TaskTransaction, TLC

Symmetry == Permutations(Content) \cup Permutations(Tx) \cup Permutations(Proc)
=============================================================================
