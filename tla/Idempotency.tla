----------------------------- MODULE Idempotency -----------------------------
(***************************************************************************)
(* IdempotencyInterceptor: the table of (orgId, key) rows, and what every  *)
(* request that carries an Idempotency-Key does with its row before and    *)
(* after its handler.  Requests without the header go straight to their    *)
(* handler and are modelled too, as the row of a request is chosen when it *)
(* arrives (NoRow: no header).                                             *)
(*                                                                         *)
(* One action per database statement.  A statement that fails has had no   *)
(* effect.                                                                 *)
(***************************************************************************)
EXTENDS FiniteSets

CONSTANTS
  Requests,     \* HTTP requests, each served once; a retry is another request
  Orgs, Keys,   \* rows are unique per (orgId, key)
  NoRow,        \* the request carries no key
  NoResponse

Rows == Orgs \X Keys

ASSUME IdempotencyAssumption ==
  /\ NoRow \notin Rows
  /\ NoResponse \notin Requests

VARIABLES
  entry,     \* [Rows -> the row's status and stored response]
  target,    \* [Requests -> the row its key names]
  stage,     \* [Requests -> where the request is in intercept()]
  answer     \* [Requests -> the request whose response the client received]

vars == <<entry, target, stage, answer>>

\* "lookup":   the claim hit the unique index, the row is to be read
\* "running":  next.handle() is in progress
\* "returned": the handler has returned, the row is to be completed
\* "undoing":  catchError, the row is to be deleted
\* "ok", "replayed", "conflict", "error": answered;  "dead": its process died
Stages == {"new", "lookup", "running", "returned", "undoing",
           "ok", "replayed", "conflict", "error", "dead"}
Finished == {"ok", "replayed", "conflict", "error", "dead"}

\* A response is named by the request whose handler produced it.
Absent       == [status |-> "absent", response |-> NoResponse]
Pending      == [status |-> "pending", response |-> NoResponse]
Completed(r) == [status |-> "completed", response |-> r]

Init ==
  /\ entry = [w \in Rows |-> Absent]
  /\ target = [r \in Requests |-> NoRow]
  /\ stage = [r \in Requests |-> "new"]
  /\ answer = [r \in Requests |-> NoResponse]

MoveTo(r, s) == stage' = [stage EXCEPT ![r] = s]

\* No header (or no organisation, or a read): the interceptor is transparent.
PassThrough(r) ==
  /\ stage[r] = "new"
  /\ MoveTo(r, "running")
  /\ UNCHANGED <<entry, target, answer>>

\* create() against the unique index on (orgId, key).
Claim(r, w) ==
  /\ stage[r] = "new"
  /\ target' = [target EXCEPT ![r] = w]
  /\ IF entry[w].status = "absent"
       THEN entry' = [entry EXCEPT ![w] = Pending] /\ MoveTo(r, "running")
       ELSE UNCHANGED entry /\ MoveTo(r, "lookup")
  /\ UNCHANGED answer

ClaimFails(r) ==
  /\ stage[r] = "new"
  /\ MoveTo(r, "error")
  /\ UNCHANGED <<entry, target, answer>>

\* Defect: the status of the row found is not looked at.
ReplayWhatever(r) ==
  /\ stage[r] = "lookup"
  /\ answer' = [answer EXCEPT ![r] = entry[target[r]].response]
  /\ MoveTo(r, "replayed")
  /\ UNCHANGED <<entry, target>>

\* findUnique() a moment later: the row may have been completed or deleted.
Replay(r) ==
  /\ stage[r] = "lookup"
  /\ entry[target[r]].status = "completed"
  /\ answer' = [answer EXCEPT ![r] = entry[target[r]].response]
  /\ MoveTo(r, "replayed")
  /\ UNCHANGED <<entry, target>>

\* Defect: a row that is not completed counts as free.
ProceedOnConflict(r) ==
  /\ stage[r] = "lookup"
  /\ entry[target[r]].status # "completed"
  /\ MoveTo(r, "running")
  /\ UNCHANGED <<entry, target, answer>>

Conflict(r) ==
  /\ stage[r] = "lookup"
  /\ entry[target[r]].status # "completed"
  /\ MoveTo(r, "conflict")
  /\ UNCHANGED <<entry, target, answer>>

\* Defect: catchError also covers the lookup, and deletes a row of another request.
LookupFailsUnclaims(r) ==
  /\ stage[r] = "lookup"
  /\ MoveTo(r, "undoing")
  /\ UNCHANGED <<entry, target, answer>>

LookupFails(r) ==
  /\ stage[r] = "lookup"
  /\ MoveTo(r, "error")
  /\ UNCHANGED <<entry, target, answer>>

HandlerReturns(r) ==
  /\ stage[r] = "running"
  /\ IF target[r] = NoRow
       THEN MoveTo(r, "ok") /\ answer' = [answer EXCEPT ![r] = r]
       ELSE MoveTo(r, "returned") /\ UNCHANGED answer
  /\ UNCHANGED <<entry, target>>

\* Defect: catchError is installed for requests without a key as well.
HandlerThrowsUnclaims(r) ==
  /\ stage[r] = "running"
  /\ MoveTo(r, "undoing")
  /\ UNCHANGED <<entry, target, answer>>

\* A pipe or the handler throws.
HandlerThrows(r) ==
  /\ stage[r] = "running"
  /\ MoveTo(r, IF target[r] = NoRow THEN "error" ELSE "undoing")
  /\ UNCHANGED <<entry, target, answer>>

Complete(r) ==
  /\ stage[r] = "returned"
  /\ entry' = [entry EXCEPT ![target[r]] = Completed(r)]
  /\ answer' = [answer EXCEPT ![r] = r]
  /\ MoveTo(r, "ok")
  /\ UNCHANGED target

\* The completing update is inside the same pipe as the handler, so its
\* failure reaches catchError like a failure of the handler.
CompleteFails(r) ==
  /\ stage[r] = "returned"
  /\ MoveTo(r, "undoing")
  /\ UNCHANGED <<entry, target, answer>>

\* delete() by (orgId, key): whoever the row belongs to.
Unclaim(r) ==
  /\ stage[r] = "undoing"
  /\ entry' = [entry EXCEPT ![target[r]] = Absent]
  /\ MoveTo(r, "error")
  /\ UNCHANGED <<target, answer>>

\* .catch(() => undefined): the row stays as it is.
UnclaimFails(r) ==
  /\ stage[r] = "undoing"
  /\ MoveTo(r, "error")
  /\ UNCHANGED <<entry, target, answer>>

\* The process serving the requests S dies.
Crash(S) ==
  /\ stage' = [r \in Requests |->
       IF r \in S /\ stage[r] \notin Finished THEN "dead" ELSE stage[r]]
  /\ UNCHANGED <<entry, target, answer>>

Next ==
  \/ \E r \in Requests, w \in Rows : Claim(r, w)
  \/ \E r \in Requests :
       \/ PassThrough(r) \/ ClaimFails(r)
       \/ Replay(r) \/ Conflict(r) \/ LookupFails(r)
       \/ HandlerReturns(r) \/ HandlerThrows(r)
       \/ Complete(r) \/ CompleteFails(r)
       \/ Unclaim(r) \/ UnclaimFails(r)
  \/ \E S \in SUBSET Requests : Crash(S)

Spec == Init /\ [][Next]_vars

------------------------------------------------------------------------------
(***************************************************************************)
(* Properties.                                                             *)
(***************************************************************************)
Entries ==
  [status : {"absent", "pending", "completed"}, response : Requests \union {NoResponse}]

\* Every variable keeps its type, and a request that is looking a row up or
\* settling one has a row, which it had not before its claim.
TypeOK ==
  /\ entry \in [Rows -> Entries]
  /\ target \in [Requests -> Rows \union {NoRow}]
  /\ stage \in [Requests -> Stages]
  /\ answer \in [Requests -> Requests \union {NoResponse}]
  /\ \A r \in Requests : stage[r] \in {"lookup", "returned", "undoing"} => target[r] # NoRow
  /\ \A r \in Requests : stage[r] = "new" => target[r] = NoRow

\* The claim: r created the row and has not let go of it.
Owns(r, w) == target[r] = w /\ stage[r] \in {"running", "returned", "undoing"}

\* One owner at a time, and the row is pending for as long as it has one:
\* deletion names the key and not the claim, so this is what keeps a failing
\* request from deleting a claim that another request holds.
ClaimExclusive ==
  \A w \in Rows : \A r, q \in Requests :
    /\ Owns(r, w) => entry[w] = Pending
    /\ Owns(r, w) /\ Owns(q, w) => r = q

\* A replay hands out the response of a request that carried the same key in the
\* same organisation and that succeeded, also when the row changed hands
\* between the failed claim and the lookup.
ReplayFaithful ==
  \A r \in Requests : stage[r] = "replayed" =>
    /\ answer[r] \in Requests \ {r}
    /\ stage[answer[r]] = "ok"
    /\ target[answer[r]] = target[r]

\* A stored response is final: no failing, crashing or racing request ever
\* deletes or overwrites it.
CompletedIsFinal ==
  [][\A w \in Rows : entry[w].status = "completed" => entry'[w] = entry[w]]_vars

\* For each key at most one request is ever answered with its own execution.
OneOriginalPerKey ==
  \A r, q \in Requests :
    /\ stage[r] = "ok" /\ stage[q] = "ok"
    /\ target[r] = target[q] /\ target[r] # NoRow
    => r = q

\* A key belongs to one request at a time, and answers for one execution in all.
OneOwnerPerKey == ClaimExclusive /\ OneOriginalPerKey
==============================================================================
