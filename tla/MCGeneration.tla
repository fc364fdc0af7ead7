----------------------------- MODULE MCGeneration ----------------------------
(* Small instances of Generation for TLC. *)
EXTENDS Generation, TLC

\* One plan is enough here: MCQuota moves organisations between plans.  The limit
\* is scaled down from 3 so that one or two requests fill the bucket.
TwoSlots == "free" :> 2
OneSlot == "free" :> 1
NoneOld == [o \in Orgs |-> 0]
==============================================================================
