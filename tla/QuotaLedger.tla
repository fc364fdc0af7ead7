----------------------------- MODULE QuotaLedger -----------------------------
(***************************************************************************)
(* What the quota promises, with no counter in it.  A ledger entry is one  *)
(* request's claim on one bucket: a request is quoted a capacity for a     *)
(* bucket, is then charged to that bucket only while the bucket holds      *)
(* fewer charges than the quote, and a charge is refunded at most once and *)
(* never after the work it pays for has been recorded.                     *)
(* Quota implements this with a single integer per bucket.                 *)
(***************************************************************************)
EXTENDS Integers, FiniteSets

CONSTANTS
  Requests,   \* HTTP requests to a quota-gated route
  Buckets,    \* (organisation, period start) pairs
  Capacities, \* the capacities a plan may grant
  NoBucket    \* "not quoted yet"

VARIABLES
  entry,      \* [Requests -> state of the request's ledger entry]
  bucket,     \* [Requests -> the bucket the request was quoted for]
  quote       \* [Requests -> the capacity it was quoted]

vars == <<entry, bucket, quote>>

States == {"none", "quoted", "charged", "settled", "refunded", "refused"}

ChargedTo(b) ==
  {r \in Requests : bucket[r] = b /\ entry[r] \in {"charged", "settled"}}

TypeOK ==
  /\ entry \in [Requests -> States]
  /\ bucket \in [Requests -> Buckets \union {NoBucket}]
  /\ quote \in [Requests -> Capacities \union {0}]

Init ==
  /\ entry = [r \in Requests |-> "none"]
  /\ bucket = [r \in Requests |-> NoBucket]
  /\ quote = [r \in Requests |-> 0]

Quote(r, b, c) ==
  /\ entry[r] = "none"
  /\ c > 0
  /\ entry' = [entry EXCEPT ![r] = "quoted"]
  /\ bucket' = [bucket EXCEPT ![r] = b]
  /\ quote' = [quote EXCEPT ![r] = c]

Charge(r) ==
  /\ entry[r] = "quoted"
  /\ Cardinality(ChargedTo(bucket[r])) < quote[r]
  /\ entry' = [entry EXCEPT ![r] = "charged"]
  /\ UNCHANGED <<bucket, quote>>

Settle(r) ==
  /\ entry[r] = "charged"
  /\ entry' = [entry EXCEPT ![r] = "settled"]
  /\ UNCHANGED <<bucket, quote>>

Refund(r) ==
  /\ entry[r] = "charged"
  /\ entry' = [entry EXCEPT ![r] = "refunded"]
  /\ UNCHANGED <<bucket, quote>>

\* Requests may be turned away together: a crash turns away every one a
\* process was still guarding, and leaves the charges of the others standing.
Refuse(S) ==
  /\ \A r \in S : entry[r] \in {"none", "quoted"}
  /\ entry' = [r \in Requests |-> IF r \in S THEN "refused" ELSE entry[r]]
  /\ UNCHANGED <<bucket, quote>>

Next ==
  \/ \E r \in Requests, b \in Buckets, c \in Capacities : Quote(r, b, c)
  \/ \E r \in Requests : Charge(r) \/ Settle(r) \/ Refund(r)
  \/ \E S \in SUBSET Requests : Refuse(S)

Spec == Init /\ [][Next]_vars
==============================================================================
