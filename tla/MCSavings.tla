------------------------------ MODULE MCSavings ------------------------------
(***************************************************************************)
(* Instances of Savings for TLC.  Keys, accounts and sessions are          *)
(* interchangeable: no action and no property tells two of them apart.     *)
(***************************************************************************)
EXTENDS Savings, TLC

Symmetry ==
    Permutations(Key) \cup Permutations(Account) \cup Permutations(Session)
=============================================================================
