------------------------------- MODULE MCQuota -------------------------------
(* Small instances of Quota for TLC. *)
EXTENDS Quota, TLC

\* The source's limits are 3, 50, 250, ...: one slot and two are enough to tell
\* a full bucket from a free one and an upgrade from a downgrade.
MCLimits == ("free" :> 1) @@ ("starter" :> 2)
OneOld == [o \in Orgs |-> 1]

Symmetry == Permutations(Requests)
==============================================================================
