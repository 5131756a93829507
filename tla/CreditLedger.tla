---------------------------- MODULE CreditLedger ----------------------------
(***************************************************************************)
(* What the server promises about AI credits, without entitlements, codes, *)
(* orders or clocks: a user has a balance, a request identifier is spent   *)
(* at most once and costs exactly one credit that was there, and credits   *)
(* come only from a grant on top of the balance or from a renewal that     *)
(* replaces it.                                                            *)
(***************************************************************************)
EXTENDS Naturals

CONSTANTS
  Users,
  RequestIds,
  Amounts        \* the numbers of credits that are ever handed out at once

VARIABLES balance, spent

vars == <<balance, spent>>

Init ==
  /\ balance = [u \in Users |-> 0]
  /\ spent = [u \in Users |-> {}]

\* A request is paid for with a credit of the user; a repetition is not a step.
Spend(u, r) ==
  /\ balance[u] > 0
  /\ r \notin spent[u]
  /\ balance' = [balance EXCEPT ![u] = @ - 1]
  /\ spent' = [spent EXCEPT ![u] = @ \cup {r}]

\* More credits, on top of what is left or in place of it.
Credit(u, n) ==
  /\ \/ balance' = [balance EXCEPT ![u] = @ + n]
     \/ balance' = [balance EXCEPT ![u] = n]
  /\ UNCHANGED spent

Next ==
  \E u \in Users :
    \/ \E r \in RequestIds : Spend(u, r)
    \/ \E n \in Amounts : Credit(u, n)

Spec == Init /\ [][Next]_vars
=============================================================================
