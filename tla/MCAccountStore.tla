---------------------------- MODULE MCAccountStore ----------------------------
(* AccountStore for TLC: the identifiers are model values that the          *)
(* operations never tell apart, so every one of their sets is symmetric.    *)
EXTENDS AccountStore, TLC

Symmetry ==
  Permutations(Users) \cup Permutations(Codes) \cup Permutations(RequestIds)
    \cup Permutations(Orders) \cup Permutations(Events)
    \cup Permutations(Transactions) \cup Permutations(Calls)
===============================================================================
