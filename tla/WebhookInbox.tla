---------------------------- MODULE WebhookInbox -----------------------------
(***************************************************************************)
(* The durable Stripe inbox: BillingService.ingestEvent queues a verified  *)
(* event and acknowledges it; any number of drainPending calls (the fast   *)
(* path after an ingest, WebhookProcessor's startup and interval ticks,    *)
(* those of other server processes) claim rows, apply them and mark them.  *)
(*                                                                         *)
(* One action per database statement.  Time appears only where the code    *)
(* compares it: a claim becomes "aged" when STUCK_AFTER_MS have passed     *)
(* since claimedAt, and a drain regards as stuck the rows that were aged   *)
(* when it computed its cutoff and have not been claimed again since.      *)
(***************************************************************************)
EXTENDS Integers, FiniteSets

CONSTANTS
  Events,          \* Stripe event ids
  Subscriptions,   \* those whose type is customer.subscription.*
  WithMetadata,    \* those whose metadata names the organisation
  Drains,          \* drainPending calls that may run side by side
  Ticker,          \* the one WebhookProcessor's interval keeps starting
  Deliveries,      \* webhook requests that may be served side by side
  MAX_ATTEMPTS,
  DRAIN_BATCH,
  NoEvent,
  MaxDeliveries,   \* bound: deliveries by Stripe
  MaxFaults,       \* bound: statements the database fails
  MaxCrashes       \* bound: crashes of a server process

ASSUME InboxAssumption ==
  /\ IsFiniteSet(Events)
  /\ Subscriptions \subseteq Events
  /\ WithMetadata \subseteq Events
  /\ IsFiniteSet(Drains)
  /\ Ticker \in Drains
  /\ MAX_ATTEMPTS \in Nat \ {0}
  /\ DRAIN_BATCH \in Nat \ {0}
  /\ NoEvent \notin Events
  /\ MaxDeliveries \in Nat /\ MaxFaults \in Nat /\ MaxCrashes \in Nat

VARIABLES
  status,      \* [Events -> WebhookEvent.status, "absent" while there is no row]
  attempts,    \* [Events -> WebhookEvent.attempts]
  arrival,     \* [Events -> place in the order of createdAt, 0 without a row]
  aged,        \* events whose claimedAt is older than STUCK_AFTER_MS
  processed,   \* ids in ProcessedEvent
  applied,     \* events whose subscription was written to Subscription and Org.plan
  orgCustomer, \* Org.stripeCustomerId: "none", "theirs" (the events' customer), another
               \* one "before" it, or another one "after" it
  ingest,      \* [Deliveries -> the event being ingested, past the first check]
  acked,       \* events answered with 202
  pc,          \* [Drains -> next statement of the drain]
  batch,       \* [Drains -> rows of `due` not visited yet]
  stuck,       \* [Drains -> events with claimedAt < stuckCutoff]
  cur,         \* [Drains -> the row being worked on]
  bound,       \* [Drains -> processEvent found an organisation]
  known,       \* history: events the organisation is to carry (see Promised)
  effects,     \* history: [Events -> completed runs of processEvent]
  timeouts,    \* history: [Events -> claims taken over from a stuck row]
  faulted,     \* history: [Events -> statements failed with the row in hand]
  deliveries, faults, crashes

rowVars    == <<status, attempts, arrival, aged>>
effectVars == <<processed, applied, effects>>
drainVars  == <<pc, batch, stuck, cur, bound>>
boundVars  == <<deliveries, faults, crashes>>
inboxVars == <<status, attempts, arrival, aged, processed, applied, orgCustomer, ingest, acked, known,
              pc, batch, stuck, cur, bound, effects, timeouts, faulted, deliveries, faults, crashes>>

Queued == {e \in Events : status[e] # "absent"}

InboxInit ==
  /\ status = [e \in Events |-> "absent"]
  /\ attempts = [e \in Events |-> 0]
  /\ arrival = [e \in Events |-> 0]
  /\ aged = {}
  /\ processed = {}
  /\ applied = {}
  /\ orgCustomer = "none"
  /\ ingest = [d \in Deliveries |-> NoEvent]
  /\ acked = {}
  /\ known = {}
  /\ pc = [w \in Drains |-> "idle"]
  /\ batch = [w \in Drains |-> {}]
  /\ stuck = [w \in Drains |-> {}]
  /\ cur = [w \in Drains |-> NoEvent]
  /\ bound = [w \in Drains |-> FALSE]
  /\ effects = [e \in Events |-> 0]
  /\ timeouts = [e \in Events |-> 0]
  /\ faulted = [e \in Events |-> 0]
  /\ deliveries = 0 /\ faults = 0 /\ crashes = 0

Fault ==
  /\ faults < MaxFaults
  /\ faults' = faults + 1
  /\ UNCHANGED <<deliveries, crashes>>

WorkFault(e) == Fault /\ faulted' = [faulted EXCEPT ![e] = @ + 1]

NoFault == UNCHANGED <<boundVars, faulted>>

(***************************************************************************)
(* ingestEvent: look for the marker, insert the row, acknowledge.          *)
(***************************************************************************)
\* An event of the organisation's customer; or, while the organisation has none, an
\* event whose metadata names it.
Promised(e) == orgCustomer = "theirs" \/ (orgCustomer = "none" /\ e \in WithMetadata)

\* Stripe delivers an event, possibly again and possibly twice at once.
Arrives(d, e) ==
  /\ ingest[d] = NoEvent
  /\ deliveries < MaxDeliveries
  /\ known' = IF Promised(e) /\ status[e] = "absent" THEN known \union {e} ELSE known
  /\ deliveries' = deliveries + 1
  /\ UNCHANGED <<rowVars, effectVars, drainVars, orgCustomer, timeouts, faulted, crashes>>

Deliver(d, e) ==
  /\ Arrives(d, e)
  /\ \/ /\ e \in processed
        /\ acked' = acked \union {e}
        /\ UNCHANGED ingest
     \/ /\ e \notin processed
        /\ ingest' = [ingest EXCEPT ![d] = e]
        /\ UNCHANGED acked
  /\ UNCHANGED faults

\* A failing findUnique is taken for "not processed".
LookupFails(d, e) ==
  /\ Arrives(d, e)
  /\ faults < MaxFaults
  /\ faults' = faults + 1
  /\ ingest' = [ingest EXCEPT ![d] = e]
  /\ UNCHANGED acked

Acknowledge(d) ==
  /\ acked' = acked \union {ingest[d]}
  /\ ingest' = [ingest EXCEPT ![d] = NoEvent]
  /\ UNCHANGED known

Enqueue(d) ==
  LET e == ingest[d]
  IN  /\ e # NoEvent
      /\ status[e] = "absent"
      /\ status' = [status EXCEPT ![e] = "pending"]
      /\ arrival' = [arrival EXCEPT ![e] = Cardinality(Queued) + 1]
      /\ Acknowledge(d)
      /\ NoFault
      /\ UNCHANGED <<attempts, aged, effectVars, drainVars, orgCustomer, timeouts>>

AlreadyQueued(d) ==
  /\ ingest[d] # NoEvent
  /\ status[ingest[d]] # "absent"
  /\ Acknowledge(d)
  /\ NoFault
  /\ UNCHANGED <<rowVars, effectVars, drainVars, orgCustomer, timeouts>>

\* The catch around the insert does not look at the error: whatever it is, the
\* delivery is acknowledged.
EnqueueFails(d) ==
  /\ ingest[d] # NoEvent
  /\ Fault
  /\ Acknowledge(d)
  /\ UNCHANGED <<rowVars, effectVars, drainVars, orgCustomer, timeouts, faulted>>

(***************************************************************************)
(* drainPending.                                                           *)
(***************************************************************************)
\* Defect: rows left in `processing` are never picked up again.
DueIfIdle(e) ==
  \/ status[e] = "pending"
  \/ status[e] = "failed" /\ attempts[e] < MAX_ATTEMPTS

Due(e) ==
  \/ status[e] = "pending"
  \/ status[e] = "failed" /\ attempts[e] < MAX_ATTEMPTS
  \/ status[e] = "processing" /\ attempts[e] < MAX_ATTEMPTS /\ e \in aged

\* findMany: the DRAIN_BATCH oldest rows that are due.
OldestDue ==
  LET due == {e \in Events : Due(e)}
  IN  {e \in due : Cardinality({f \in due : arrival[f] < arrival[e]}) < DRAIN_BATCH}

StartDrain(w) ==
  /\ pc[w] = "idle"
  /\ pc' = [pc EXCEPT ![w] = "loop"]
  /\ stuck' = [stuck EXCEPT ![w] = aged]
  /\ batch' = [batch EXCEPT ![w] = OldestDue]
  /\ NoFault
  /\ UNCHANGED <<rowVars, effectVars, cur, bound, orgCustomer, ingest, acked, known, timeouts>>

IsNext(w, e) ==
  e \in batch[w] /\ \A f \in batch[w] : arrival[e] <= arrival[f]

\* Defect: the claim checks the cap alone, so a stale list re-opens a row.
ClaimableUnderCap(w, e) == e \in Queued /\ attempts[e] < MAX_ATTEMPTS

Claimable(w, e) ==
  /\ attempts[e] < MAX_ATTEMPTS
  /\ \/ status[e] \in {"pending", "failed"}
     \/ status[e] = "processing" /\ e \in stuck[w]

\* The claim, with what it makes of the row's status and attempts.
ClaimAs(w, e, s, n) ==
  /\ pc[w] = "loop"
  /\ IsNext(w, e)
  /\ Claimable(w, e)
  /\ status' = [status EXCEPT ![e] = s]
  /\ attempts' = [attempts EXCEPT ![e] = n]
  /\ aged' = aged \ {e}
  /\ stuck' = [v \in Drains |-> stuck[v] \ {e}]
  /\ timeouts' = [timeouts EXCEPT ![e] = IF status[e] = "processing" THEN @ + 1 ELSE @]
  /\ batch' = [batch EXCEPT ![w] = @ \ {e}]
  /\ cur' = [cur EXCEPT ![w] = e]
  /\ pc' = [pc EXCEPT ![w] = "bind"]
  /\ NoFault
  /\ UNCHANGED <<arrival, effectVars, bound, orgCustomer, ingest, acked, known>>

\* updateMany with the claim's conditions; claimedAt becomes the present for
\* every drain that compares it.
Claim(w, e) == ClaimAs(w, e, "processing", attempts[e] + 1)

\* claim.count === 0
SkipRow(w, e) ==
  /\ pc[w] = "loop"
  /\ IsNext(w, e)
  /\ ~ Claimable(w, e)
  /\ batch' = [batch EXCEPT ![w] = @ \ {e}]
  /\ NoFault
  /\ UNCHANGED <<rowVars, effectVars, pc, stuck, cur, bound, orgCustomer, ingest, acked, known, timeouts>>

EndDrain(w) ==
  /\ pc[w] = "loop"
  /\ batch[w] = {}
  /\ pc' = [pc EXCEPT ![w] = "idle"]
  /\ NoFault
  /\ UNCHANGED <<rowVars, effectVars, batch, stuck, cur, bound, orgCustomer, ingest, acked, known, timeouts>>

\* Defect: only the metadata is looked at.
BindIgnoringCustomer(w) ==
  /\ pc[w] = "bind"
  /\ bound' = [bound EXCEPT ![w] = FALSE]
  /\ pc' = [pc EXCEPT ![w] = IF cur[w] \in Subscriptions \intersect WithMetadata
                            THEN "metadata" ELSE "apply"]
  /\ NoFault
  /\ UNCHANGED <<rowVars, effectVars, batch, stuck, cur, orgCustomer, ingest, acked, known, timeouts>>

\* processEvent reads the organisation by customer ...
BindByCustomer(w) ==
  /\ pc[w] = "bind"
  /\ bound' = [bound EXCEPT ![w] = cur[w] \in Subscriptions /\ orgCustomer = "theirs"]
  /\ pc' = [pc EXCEPT ![w] = IF /\ cur[w] \in Subscriptions \intersect WithMetadata
                               /\ orgCustomer # "theirs"
                            THEN "metadata" ELSE "apply"]
  /\ NoFault
  /\ UNCHANGED <<rowVars, effectVars, batch, stuck, cur, orgCustomer, ingest, acked, known, timeouts>>

\* ... then by the metadata, in a second statement and only while the organisation
\* has no customer ...
BindByMetadata(w) ==
  /\ pc[w] = "metadata"
  /\ bound' = [bound EXCEPT ![w] = orgCustomer = "none"]
  /\ pc' = [pc EXCEPT ![w] = "apply"]
  /\ NoFault
  /\ UNCHANGED <<rowVars, effectVars, batch, stuck, cur, orgCustomer, ingest, acked, known, timeouts>>

\* Defect: the branch that writes the subscription returns before the marker.
ApplyUnmarked(w) ==
  /\ pc[w] = "apply"
  /\ processed' = IF bound[w] THEN processed ELSE processed \union {cur[w]}
  /\ applied' = IF bound[w] THEN applied \union {cur[w]} ELSE applied
  /\ effects' = [effects EXCEPT ![cur[w]] = @ + 1]
  /\ pc' = [pc EXCEPT ![w] = "done"]
  /\ NoFault
  /\ UNCHANGED <<rowVars, batch, stuck, cur, bound, orgCustomer, ingest, acked, known, timeouts>>

\* ... and writes the subscription, the plan and the marker in one transaction,
\* or the marker alone.
Apply(w) ==
  /\ pc[w] = "apply"
  /\ processed' = processed \union {cur[w]}
  /\ applied' = IF bound[w] THEN applied \union {cur[w]} ELSE applied
  /\ effects' = [effects EXCEPT ![cur[w]] = @ + 1]
  /\ pc' = [pc EXCEPT ![w] = "done"]
  /\ NoFault
  /\ UNCHANGED <<rowVars, batch, stuck, cur, bound, orgCustomer, ingest, acked, known, timeouts>>

BackToLoop(w) ==
  /\ pc' = [pc EXCEPT ![w] = "loop"]
  /\ cur' = [cur EXCEPT ![w] = NoEvent]

\* update by id alone: whatever has become of the row meanwhile.
MarkDone(w) ==
  /\ pc[w] = "done"
  /\ status' = [status EXCEPT ![cur[w]] = "done"]
  /\ BackToLoop(w)
  /\ NoFault
  /\ UNCHANGED <<attempts, arrival, aged, effectVars, batch, stuck, bound, orgCustomer, ingest, acked, known, timeouts>>

\* A statement of the try block fails; the marking itself is one of them.
WorkFails(w) ==
  /\ pc[w] \in {"bind", "metadata", "apply", "done"}
  /\ WorkFault(cur[w])
  /\ pc' = [pc EXCEPT ![w] = "failed"]
  /\ UNCHANGED <<rowVars, effectVars, batch, stuck, cur, bound, orgCustomer, ingest, acked, known, timeouts>>

\* Defect: the catch block logs the error and marks the row all the same.
MarkDoneAnyway(w) ==
  /\ pc[w] = "failed"
  /\ status' = [status EXCEPT ![cur[w]] = "done"]
  /\ BackToLoop(w)
  /\ NoFault
  /\ UNCHANGED <<attempts, arrival, aged, effectVars, batch, stuck, bound, orgCustomer, ingest, acked, known, timeouts>>

MarkFailed(w) ==
  /\ pc[w] = "failed"
  /\ status' = [status EXCEPT ![cur[w]] = "failed"]
  /\ BackToLoop(w)
  /\ NoFault
  /\ UNCHANGED <<attempts, arrival, aged, effectVars, batch, stuck, bound, orgCustomer, ingest, acked, known, timeouts>>

\* The catch block's own update fails: the error leaves drainPending, and the
\* rest of the batch with it.
MarkFailedFails(w) ==
  /\ pc[w] = "failed"
  /\ WorkFault(cur[w])
  /\ pc' = [pc EXCEPT ![w] = "idle"]
  /\ cur' = [cur EXCEPT ![w] = NoEvent]
  /\ batch' = [batch EXCEPT ![w] = {}]
  /\ UNCHANGED <<rowVars, effectVars, stuck, bound, orgCustomer, ingest, acked, known, timeouts>>

(***************************************************************************)
(* The environment.                                                        *)
(***************************************************************************)
\* STUCK_AFTER_MS pass since the row's claim.
Age(e) ==
  /\ status[e] = "processing"
  /\ e \notin aged
  /\ aged' = aged \union {e}
  /\ NoFault
  /\ UNCHANGED <<status, attempts, arrival, effectVars, drainVars, orgCustomer, ingest, acked, known, timeouts>>

\* An event with no promise left: its row is looked up between the two statements of
\* processEvent while the customer is stored, so that neither finds the organisation.
Missed == {cur[w] : w \in {v \in Drains : pc[v] = "metadata"}}

\* ensureCustomer and the trial's claim write stripeCustomerId unconditionally, each a
\* customer of its own: the one these events belong to is written once ...
StoreTheirs ==
  /\ orgCustomer \in {"none", "before"}
  /\ orgCustomer' = "theirs"
  /\ known' = known \ (Missed \ processed)
  /\ NoFault
  /\ UNCHANGED <<rowVars, effectVars, drainVars, ingest, acked, timeouts>>

\* ... and another may come before it, or over it: what the organisation carries of
\* these events is then what was processed until now.
StoreOther ==
  /\ orgCustomer' = IF orgCustomer \in {"none", "before"} THEN "before" ELSE "after"
  /\ known' = known \intersect processed
  /\ NoFault
  /\ UNCHANGED <<rowVars, effectVars, drainVars, ingest, acked, timeouts>>

\* A server process dies with its drains W and its webhook requests D.
Crash(W, D) ==
  /\ crashes < MaxCrashes
  /\ crashes' = crashes + 1
  /\ pc' = [w \in Drains |-> IF w \in W THEN "idle" ELSE pc[w]]
  /\ batch' = [w \in Drains |-> IF w \in W THEN {} ELSE batch[w]]
  /\ cur' = [w \in Drains |-> IF w \in W THEN NoEvent ELSE cur[w]]
  /\ ingest' = [d \in Deliveries |-> IF d \in D THEN NoEvent ELSE ingest[d]]
  /\ UNCHANGED <<rowVars, effectVars, stuck, bound, orgCustomer, acked, known, timeouts, faulted, deliveries, faults>>

\* The statements of one drain, in the order the code runs them.
DrainStep(w) ==
  \/ \E e \in Events : Claim(w, e) \/ SkipRow(w, e)
  \/ EndDrain(w) \/ BindByCustomer(w) \/ BindByMetadata(w) \/ Apply(w) \/ MarkDone(w) \/ MarkFailed(w)

InboxNext ==
  \/ \E d \in Deliveries, e \in Events : Deliver(d, e) \/ LookupFails(d, e)
  \/ \E d \in Deliveries : Enqueue(d) \/ AlreadyQueued(d) \/ EnqueueFails(d)
  \/ \E w \in Drains : StartDrain(w) \/ DrainStep(w) \/ WorkFails(w) \/ MarkFailedFails(w)
  \/ \E e \in Events : Age(e)
  \/ StoreTheirs \/ StoreOther
  \/ \E W \in SUBSET Drains, D \in SUBSET Deliveries : Crash(W, D)

InboxSpec == InboxInit /\ [][InboxNext]_inboxVars

\* Node runs on with the drains and requests it has started, time passes, and the
\* interval timer starts a drain again whenever its last one has ended.
Fairness ==
  /\ \A w \in Drains : WF_inboxVars(DrainStep(w))
  /\ WF_inboxVars(StartDrain(Ticker))
  /\ \A d \in Deliveries : WF_inboxVars(Enqueue(d) \/ AlreadyQueued(d))
  /\ \A e \in Events : WF_inboxVars(Age(e))

FairSpec == InboxSpec /\ Fairness

------------------------------------------------------------------------------
(***************************************************************************)
(* Properties.                                                             *)
(***************************************************************************)
Statuses == {"absent", "pending", "processing", "done", "failed"}
Working(w) == pc[w] \in {"bind", "metadata", "apply", "done", "failed"}

\* Every variable keeps its type; a drain has a row in hand exactly while it is
\* between its claim and its mark, and only queued rows are ever in hand.
InboxTypeOK ==
  /\ status \in [Events -> Statuses]
  /\ attempts \in [Events -> Nat]
  /\ arrival \in [Events -> Nat]
  /\ aged \subseteq Events
  /\ processed \subseteq Events
  /\ applied \subseteq processed
  /\ orgCustomer \in {"none", "before", "theirs", "after"}
  /\ ingest \in [Deliveries -> Events \union {NoEvent}]
  /\ acked \subseteq Events
  /\ known \subseteq Events
  /\ pc \in [Drains -> {"idle", "loop", "bind", "metadata", "apply", "done", "failed"}]
  /\ batch \in [Drains -> SUBSET Events]
  /\ stuck \in [Drains -> SUBSET Events]
  /\ cur \in [Drains -> Events \union {NoEvent}]
  /\ bound \in [Drains -> BOOLEAN]
  /\ effects \in [Events -> Nat]
  /\ timeouts \in [Events -> Nat]
  /\ faulted \in [Events -> Nat]
  /\ deliveries \in 0..MaxDeliveries
  /\ faults \in 0..MaxFaults
  /\ crashes \in 0..MaxCrashes
  /\ \A w \in Drains : Working(w) <=> cur[w] # NoEvent

\* Drains that hold e and have yet to apply it.
Applying(e) == {w \in Drains : cur[w] = e /\ pc[w] \in {"bind", "metadata", "apply"}}

\* Each run of processEvent is paid for by a claim of its own, and claims stop at
\* the cap, also across crashes and failed marks: an event that keeps failing,
\* or keeps crashing its worker, is worked on MAX_ATTEMPTS times and no more.
AttemptsCoverWork ==
  \A e \in Events :
    /\ effects[e] + Cardinality(Applying(e)) <= attempts[e]
    /\ attempts[e] <= MAX_ATTEMPTS

\* A row that says "done" was applied, whoever marked it and however late.
DoneWasApplied ==
  \A e \in Events : status[e] = "done" => e \in processed /\ effects[e] > 0

\* An event takes effect more than once only as often as a claim timed out or a
\* statement failed while its row was worked on.
RepeatsAreAccounted ==
  \A e \in Events : effects[e] <= 1 + timeouts[e] + faulted[e]

\* No drain works on a row without a claim on it: a row is handed to a second
\* drain only through a timeout or a failure.
NoConcurrentWork ==
  \A e \in Events : timeouts[e] = 0 =>
    Cardinality({w \in Drains : cur[w] = e}) <= 1

\* Every run of an event has a claim behind it, and every run after the first a
\* timeout or a failure.
WorkIsAccounted == AttemptsCoverWork /\ RepeatsAreAccounted /\ NoConcurrentWork

\* A subscription change is not swallowed: first delivered while its customer is the
\* organisation's (or, before there is a customer, with the organisation in its
\* metadata), it is carried by the organisation once any drain has marked it processed,
\* after whatever failures.  Only two events may go by: one caught between the two
\* lookups by the write of its customer, and one unprocessed when another customer is
\* written over its own.
LinkedEventsAreApplied ==
  known \intersect Subscriptions \intersect processed \subseteq applied

\* A queued event's row comes to rest: done (and so applied), or out of attempts.
\* No crash, failed statement, lost drain or late mark leaves it behind, and no
\* drain reopens it for ever.
QueuedSettles ==
  \A e \in Events :
    (status[e] # "absent") ~> [](status[e] = "done" \/ attempts[e] = MAX_ATTEMPTS)

==============================================================================
