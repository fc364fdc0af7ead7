----------------------------- MODULE MCLlmSpend ------------------------------
(* Small instances of LlmSpend for TLC. *)
EXTENDS LlmSpend, TLC

\* Two devices that show the same fingerprint.
OneFamily == [v \in Visitors |-> "shared"]

Symmetry == Permutations(Requests) \cup Permutations(Visitors)
==============================================================================
