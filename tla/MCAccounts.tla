------------------------------ MODULE MCAccounts -----------------------------
(* Small instances of Accounts for TLC. *)
EXTENDS Accounts, TLC

Symmetry == Permutations(Requests) \union Permutations(Trials)
==============================================================================
