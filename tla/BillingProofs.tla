---------------------------- MODULE BillingProofs -----------------------------
(***************************************************************************)
(* Billing, for any number of requests, events, drains, deliveries, faults *)
(* and crashes.  WebhookInbox: what becomes of a row of the queue.         *)
(* Accounts: which verification links are alive together, who may write    *)
(* over a Stripe customer, and which plan the organisation has, in         *)
(* whatever order its events are drained.                                  *)
(***************************************************************************)
EXTENDS WebhookInbox, Accounts, FiniteSetTheorems, WellFoundedInduction, TLAPS

------------------------------------------------------------------------------
(***************************************************************************)
(* The queue: WebhookInbox.                                                *)
(***************************************************************************)
\* What a drain has in hand, or has yet to visit, is queued, and so is whatever
\* was processed: no row is ever deleted.
OnlyQueuedRows ==
  /\ \A w \in Drains : batch[w] \subseteq Queued
  /\ \A w \in Drains : Working(w) => cur[w] \in Queued
  /\ processed \subseteq Queued

\* A drain about to mark its row done has applied it.
MarksWhatItApplied ==
  \A w \in Drains : pc[w] = "done" => cur[w] \in processed /\ effects[cur[w]] > 0

\* While a promised event is not processed, its promise still stands; and a drain that
\* has bound it found the organisation, one about to read its metadata will.
BindsKnownEvents ==
  /\ \A e \in known \ processed : Promised(e)
  /\ \A w \in Drains : cur[w] \in (known \intersect Subscriptions) \ processed =>
       /\ pc[w] = "metadata" => orgCustomer = "none"
       /\ pc[w] = "apply" => bound[w]

InboxInv ==
  /\ InboxTypeOK /\ OnlyQueuedRows /\ MarksWhatItApplied /\ BindsKnownEvents
  /\ DoneWasApplied /\ LinkedEventsAreApplied /\ AttemptsCoverWork

LEMMA InitInbox == InboxInit => InboxInv
<1> SUFFICES ASSUME InboxInit PROVE InboxInv
  OBVIOUS
<1>1. InboxTypeOK
  <2>1. /\ status \in [Events -> Statuses]
        /\ attempts \in [Events -> Nat] /\ arrival \in [Events -> Nat]
        /\ effects \in [Events -> Nat] /\ timeouts \in [Events -> Nat] /\ faulted \in [Events -> Nat]
    BY DEF InboxInit, Statuses
  <2>2. /\ aged = {} /\ processed = {} /\ applied = {} /\ acked = {} /\ known = {}
        /\ orgCustomer \in {"none", "before", "theirs", "after"}
    BY DEF InboxInit
  <2>3. /\ ingest \in [Deliveries -> Events \union {NoEvent}]
        /\ pc \in [Drains -> {"idle", "loop", "bind", "metadata", "apply", "done", "failed"}]
        /\ cur \in [Drains -> Events \union {NoEvent}] /\ bound \in [Drains -> BOOLEAN]
    BY DEF InboxInit
  <2>4. batch \in [Drains -> SUBSET Events] /\ stuck \in [Drains -> SUBSET Events]
    BY DEF InboxInit
  <2>5. deliveries \in 0..MaxDeliveries /\ faults \in 0..MaxFaults /\ crashes \in 0..MaxCrashes
    BY InboxAssumption DEF InboxInit
  <2>6. \A w \in Drains : Working(w) <=> cur[w] # NoEvent
    BY DEF InboxInit, Working
  <2> QED
    BY <2>1, <2>2, <2>3, <2>4, <2>5, <2>6 DEF InboxTypeOK
<1>2. OnlyQueuedRows /\ MarksWhatItApplied /\ BindsKnownEvents
  BY DEF InboxInit, OnlyQueuedRows, MarksWhatItApplied, BindsKnownEvents, Queued, Working
<1>3. DoneWasApplied /\ LinkedEventsAreApplied
  BY DEF InboxInit, DoneWasApplied, LinkedEventsAreApplied
<1>4. AttemptsCoverWork
  <2>1. \A e \in Events : Applying(e) = {}
    BY DEF InboxInit, Applying
  <2>2. \A e \in Events : Cardinality(Applying(e)) = 0
    BY <2>1, FS_EmptySet
  <2> QED
    BY <2>2, InboxAssumption DEF InboxInit, AttemptsCoverWork
<1> QED
  BY <1>1, <1>2, <1>3, <1>4 DEF InboxInv

LEMMA QueuedCount == IsFiniteSet(Queued) /\ Cardinality(Queued) \in Nat
<1>1. Queued \in SUBSET Events
  BY DEF Queued
<1> QED
  BY <1>1, FS_Subset, FS_CardinalityType, InboxAssumption

LEMMA TypeStep == InboxTypeOK /\ [InboxNext]_inboxVars => InboxTypeOK'
<1> SUFFICES ASSUME InboxTypeOK, [InboxNext]_inboxVars PROVE InboxTypeOK'
  OBVIOUS
<1> USE InboxAssumption DEF InboxTypeOK, Statuses, Working, NoFault, Fault, WorkFault, rowVars, effectVars,
                            drainVars, boundVars
<1>1. ASSUME NEW d \in Deliveries, NEW e \in Events, Deliver(d, e) \/ LookupFails(d, e)
      PROVE  InboxTypeOK'
  BY <1>1 DEF Deliver, LookupFails, Arrives
<1>2. ASSUME NEW d \in Deliveries, Enqueue(d)
      PROVE  InboxTypeOK'
  <2>1. Cardinality(Queued) + 1 \in Nat
    BY QueuedCount
  <2> QED
    BY <1>2, <2>1 DEF Enqueue, Acknowledge
<1>3. ASSUME NEW d \in Deliveries, AlreadyQueued(d) \/ EnqueueFails(d)
      PROVE  InboxTypeOK'
  BY <1>3 DEF AlreadyQueued, EnqueueFails, Acknowledge
<1>4. ASSUME NEW w \in Drains, StartDrain(w)
      PROVE  InboxTypeOK'
  <2>1. OldestDue \subseteq Events
    BY DEF OldestDue
  <2> QED
    BY <1>4, <2>1 DEF StartDrain
<1>5. ASSUME NEW w \in Drains, NEW e \in Events, Claim(w, e)
      PROVE  InboxTypeOK'
  BY <1>5 DEF Claim, ClaimAs
<1>6. ASSUME NEW w \in Drains, NEW e \in Events, SkipRow(w, e)
      PROVE  InboxTypeOK'
  BY <1>6 DEF SkipRow
<1>7. ASSUME NEW w \in Drains, EndDrain(w) \/ BindByCustomer(w) \/ BindByMetadata(w)
      PROVE  InboxTypeOK'
  BY <1>7 DEF EndDrain, BindByCustomer, BindByMetadata
<1>8. ASSUME NEW w \in Drains, Apply(w)
      PROVE  InboxTypeOK'
  BY <1>8 DEF Apply
<1>9. ASSUME NEW w \in Drains, MarkDone(w) \/ MarkFailed(w)
      PROVE  InboxTypeOK'
  BY <1>9 DEF MarkDone, MarkFailed, BackToLoop
<1>10. ASSUME NEW w \in Drains, WorkFails(w) \/ MarkFailedFails(w)
       PROVE  InboxTypeOK'
  BY <1>10 DEF WorkFails, MarkFailedFails
<1>11. ASSUME NEW e \in Events, Age(e)
       PROVE  InboxTypeOK'
  BY <1>11 DEF Age
<1>12. CASE StoreTheirs \/ StoreOther
  BY <1>12 DEF StoreTheirs, StoreOther
<1>13. ASSUME NEW W \in SUBSET Drains, NEW D \in SUBSET Deliveries, Crash(W, D)
       PROVE  InboxTypeOK'
  BY <1>13 DEF Crash
<1>14. CASE UNCHANGED inboxVars
  BY <1>14 DEF inboxVars
<1> QED
  BY <1>1, <1>2, <1>3, <1>4, <1>5, <1>6, <1>7, <1>8, <1>9, <1>10, <1>11, <1>12, <1>13, <1>14
     DEF InboxNext, DrainStep

\* Rows are never deleted, and a drain takes its rows from the list of those
\* that were due.
LEMMA QueuedStep == InboxTypeOK /\ OnlyQueuedRows /\ [InboxNext]_inboxVars => OnlyQueuedRows'
<1> SUFFICES ASSUME InboxTypeOK, OnlyQueuedRows, [InboxNext]_inboxVars PROVE OnlyQueuedRows'
  OBVIOUS
<1> USE InboxAssumption DEF InboxTypeOK, OnlyQueuedRows, Queued, Working, rowVars, effectVars, drainVars
<1>1. ASSUME NEW d \in Deliveries, NEW e \in Events, Deliver(d, e) \/ LookupFails(d, e)
      PROVE  OnlyQueuedRows'
  BY <1>1 DEF Deliver, LookupFails, Arrives
<1>2. ASSUME NEW d \in Deliveries, Enqueue(d) \/ AlreadyQueued(d) \/ EnqueueFails(d)
      PROVE  OnlyQueuedRows'
  BY <1>2 DEF Enqueue, AlreadyQueued, EnqueueFails
<1>3. ASSUME NEW w \in Drains, StartDrain(w)
      PROVE  OnlyQueuedRows'
  BY <1>3 DEF StartDrain, OldestDue, Due
<1>4. ASSUME NEW w \in Drains, NEW e \in Events, Claim(w, e) \/ SkipRow(w, e)
      PROVE  OnlyQueuedRows'
  <2>1. e \in Queued /\ processed' = processed /\ batch' = [batch EXCEPT ![w] = @ \ {e}]
    BY <1>4 DEF Claim, ClaimAs, SkipRow, IsNext
  <2>2. Queued' = Queued
    BY <1>4, <2>1 DEF Claim, ClaimAs, SkipRow
  <2>3. \A v \in Drains : Working(v)' => (Working(v) /\ cur'[v] = cur[v]) \/ cur'[v] = e
    BY <1>4 DEF Claim, ClaimAs, SkipRow
  <2> HIDE DEF Queued, Working
  <2> QED
    BY <2>1, <2>2, <2>3
<1>5. ASSUME NEW w \in Drains, EndDrain(w) \/ BindByCustomer(w) \/ BindByMetadata(w)
      PROVE  OnlyQueuedRows'
  BY <1>5 DEF EndDrain, BindByCustomer, BindByMetadata
<1>6. ASSUME NEW w \in Drains, Apply(w)
      PROVE  OnlyQueuedRows'
  BY <1>6 DEF Apply
<1>7. ASSUME NEW w \in Drains, MarkDone(w) \/ MarkFailed(w)
      PROVE  OnlyQueuedRows'
  BY <1>7 DEF MarkDone, MarkFailed, BackToLoop
<1>8. ASSUME NEW w \in Drains, WorkFails(w) \/ MarkFailedFails(w)
      PROVE  OnlyQueuedRows'
  BY <1>8 DEF WorkFails, MarkFailedFails
<1>9. ASSUME NEW e \in Events, Age(e)
      PROVE  OnlyQueuedRows'
  BY <1>9 DEF Age
<1>10. CASE StoreTheirs \/ StoreOther
  BY <1>10 DEF StoreTheirs, StoreOther
<1>11. ASSUME NEW W \in SUBSET Drains, NEW D \in SUBSET Deliveries, Crash(W, D)
       PROVE  OnlyQueuedRows'
  BY <1>11 DEF Crash
<1>12. CASE UNCHANGED inboxVars
  BY <1>12 DEF inboxVars
<1> QED
  BY <1>1, <1>2, <1>3, <1>4, <1>5, <1>6, <1>7, <1>8, <1>9, <1>10, <1>11, <1>12 DEF InboxNext, DrainStep

\* A drain marks a row done only after applying it, however late it gets there,
\* and what was applied stays applied.
LEMMA DoneStep ==
  InboxTypeOK /\ MarksWhatItApplied /\ DoneWasApplied /\ [InboxNext]_inboxVars
  => MarksWhatItApplied' /\ DoneWasApplied'
<1> SUFFICES ASSUME InboxTypeOK, MarksWhatItApplied, DoneWasApplied, [InboxNext]_inboxVars
             PROVE  MarksWhatItApplied' /\ DoneWasApplied'
  OBVIOUS
<1> USE InboxAssumption DEF InboxTypeOK, MarksWhatItApplied, DoneWasApplied, Working,
                            rowVars, effectVars, drainVars
<1>1. ASSUME NEW d \in Deliveries, NEW e \in Events, Deliver(d, e) \/ LookupFails(d, e)
      PROVE  MarksWhatItApplied' /\ DoneWasApplied'
  BY <1>1 DEF Deliver, LookupFails, Arrives
<1>2. ASSUME NEW d \in Deliveries, Enqueue(d) \/ AlreadyQueued(d) \/ EnqueueFails(d)
      PROVE  MarksWhatItApplied' /\ DoneWasApplied'
  BY <1>2 DEF Enqueue, AlreadyQueued, EnqueueFails
<1>3. ASSUME NEW w \in Drains, StartDrain(w)
      PROVE  MarksWhatItApplied' /\ DoneWasApplied'
  BY <1>3 DEF StartDrain
<1>4. ASSUME NEW w \in Drains, NEW e \in Events, Claim(w, e) \/ SkipRow(w, e)
      PROVE  MarksWhatItApplied' /\ DoneWasApplied'
  BY <1>4 DEF Claim, ClaimAs, SkipRow
<1>5. ASSUME NEW w \in Drains, EndDrain(w) \/ BindByCustomer(w) \/ BindByMetadata(w)
      PROVE  MarksWhatItApplied' /\ DoneWasApplied'
  BY <1>5 DEF EndDrain, BindByCustomer, BindByMetadata
<1>6. ASSUME NEW w \in Drains, Apply(w)
      PROVE  MarksWhatItApplied' /\ DoneWasApplied'
  <2>1. cur[w] \in Events /\ processed' = processed \union {cur[w]}
        /\ pc' = [pc EXCEPT ![w] = "done"] /\ UNCHANGED <<status, cur>>
    BY <1>6 DEF Apply
  <2>2. \A e \in Events : effects'[e] >= effects[e]
    BY <1>6, <2>1 DEF Apply
  <2>3. effects'[cur[w]] > 0
    BY <1>6, <2>1 DEF Apply
  <2>4. effects' \in [Events -> Nat]
    BY <1>6, <2>1 DEF Apply
  <2> QED
    BY <2>1, <2>2, <2>3, <2>4
<1>7. ASSUME NEW w \in Drains, MarkDone(w) \/ MarkFailed(w)
      PROVE  MarksWhatItApplied' /\ DoneWasApplied'
  BY <1>7 DEF MarkDone, MarkFailed, BackToLoop
<1>8. ASSUME NEW w \in Drains, WorkFails(w) \/ MarkFailedFails(w)
      PROVE  MarksWhatItApplied' /\ DoneWasApplied'
  BY <1>8 DEF WorkFails, MarkFailedFails
<1>9. ASSUME NEW e \in Events, Age(e)
      PROVE  MarksWhatItApplied' /\ DoneWasApplied'
  BY <1>9 DEF Age
<1>10. CASE StoreTheirs \/ StoreOther
  BY <1>10 DEF StoreTheirs, StoreOther
<1>11. ASSUME NEW W \in SUBSET Drains, NEW D \in SUBSET Deliveries, Crash(W, D)
       PROVE  MarksWhatItApplied' /\ DoneWasApplied'
  BY <1>11 DEF Crash
<1>12. CASE UNCHANGED inboxVars
  BY <1>12 DEF inboxVars
<1> QED
  BY <1>1, <1>2, <1>3, <1>4, <1>5, <1>6, <1>7, <1>8, <1>9, <1>10, <1>11, <1>12 DEF InboxNext, DrainStep

\* Only an event without a row is promised anything, so no drain holds it yet; and the
\* writes of the customer leave no promise standing that they break.
LEMMA BindStep ==
  InboxTypeOK /\ OnlyQueuedRows /\ BindsKnownEvents /\ LinkedEventsAreApplied /\ [InboxNext]_inboxVars
  => BindsKnownEvents' /\ LinkedEventsAreApplied'
<1> SUFFICES ASSUME InboxTypeOK, OnlyQueuedRows, BindsKnownEvents, LinkedEventsAreApplied, [InboxNext]_inboxVars
             PROVE  BindsKnownEvents' /\ LinkedEventsAreApplied'
  OBVIOUS
<1> USE InboxAssumption DEF InboxTypeOK, BindsKnownEvents, LinkedEventsAreApplied, Working, Promised,
                            rowVars, effectVars, drainVars
<1>1. ASSUME NEW d \in Deliveries, NEW e \in Events, Deliver(d, e) \/ LookupFails(d, e)
      PROVE  BindsKnownEvents' /\ LinkedEventsAreApplied'
  <2>1. /\ known' = IF Promised(e) /\ status[e] = "absent" THEN known \union {e} ELSE known
        /\ UNCHANGED <<orgCustomer, pc, cur, bound, processed, applied>>
    BY <1>1 DEF Deliver, LookupFails, Arrives
  <2>2. status[e] = "absent" => e \notin processed /\ \A w \in Drains : Working(w) => cur[w] # e
    BY DEF OnlyQueuedRows, Queued
  <2> QED
    BY <2>1, <2>2
<1>2. ASSUME NEW d \in Deliveries, Enqueue(d) \/ AlreadyQueued(d) \/ EnqueueFails(d)
      PROVE  BindsKnownEvents' /\ LinkedEventsAreApplied'
  BY <1>2 DEF Enqueue, AlreadyQueued, EnqueueFails, Acknowledge
<1>3. ASSUME NEW w \in Drains, StartDrain(w)
      PROVE  BindsKnownEvents' /\ LinkedEventsAreApplied'
  BY <1>3 DEF StartDrain
<1>4. ASSUME NEW w \in Drains, NEW e \in Events, Claim(w, e) \/ SkipRow(w, e)
      PROVE  BindsKnownEvents' /\ LinkedEventsAreApplied'
  BY <1>4 DEF Claim, ClaimAs, SkipRow
<1>5. ASSUME NEW w \in Drains, EndDrain(w) \/ BindByMetadata(w)
      PROVE  BindsKnownEvents' /\ LinkedEventsAreApplied'
  BY <1>5 DEF EndDrain, BindByMetadata
<1>6. ASSUME NEW w \in Drains, BindByCustomer(w)
      PROVE  BindsKnownEvents' /\ LinkedEventsAreApplied'
  BY <1>6 DEF BindByCustomer
<1>7. ASSUME NEW w \in Drains, Apply(w)
      PROVE  BindsKnownEvents' /\ LinkedEventsAreApplied'
  BY <1>7 DEF Apply
<1>8. ASSUME NEW w \in Drains, MarkDone(w) \/ MarkFailed(w)
      PROVE  BindsKnownEvents' /\ LinkedEventsAreApplied'
  BY <1>8 DEF MarkDone, MarkFailed, BackToLoop
<1>9. ASSUME NEW w \in Drains, WorkFails(w) \/ MarkFailedFails(w)
      PROVE  BindsKnownEvents' /\ LinkedEventsAreApplied'
  BY <1>9 DEF WorkFails, MarkFailedFails
<1>10. ASSUME NEW e \in Events, Age(e)
       PROVE  BindsKnownEvents' /\ LinkedEventsAreApplied'
  BY <1>10 DEF Age
<1>11. CASE StoreTheirs \/ StoreOther
  BY <1>11 DEF StoreTheirs, StoreOther, Missed
<1>12. ASSUME NEW W \in SUBSET Drains, NEW D \in SUBSET Deliveries, Crash(W, D)
       PROVE  BindsKnownEvents' /\ LinkedEventsAreApplied'
  BY <1>12 DEF Crash
<1>13. CASE UNCHANGED inboxVars
  BY <1>13 DEF inboxVars
<1> QED
  BY <1>1, <1>2, <1>3, <1>4, <1>5, <1>6, <1>7, <1>8, <1>9, <1>10, <1>11, <1>12, <1>13
     DEF InboxNext, DrainStep

------------------------------------------------------------------------------
(***************************************************************************)
(* Every run of processEvent is paid for by an attempt.                    *)
(***************************************************************************)
LEMMA ApplyingFinite ==
  ASSUME NEW e
  PROVE  IsFiniteSet(Applying(e)) /\ Cardinality(Applying(e)) \in Nat
<1>1. Applying(e) \in SUBSET Drains
  BY DEF Applying
<1> QED
  BY <1>1, FS_Subset, FS_CardinalityType, InboxAssumption

\* A step that completes no work and claims nothing leaves the attempts enough.
LEMMA NoMoreWork ==
  ASSUME InboxTypeOK, AttemptsCoverWork, UNCHANGED <<effects, attempts>>,
         \A e \in Events : Applying(e)' \subseteq Applying(e)
  PROVE  AttemptsCoverWork'
<1> SUFFICES ASSUME NEW e \in Events
             PROVE  effects[e] + Cardinality(Applying(e)') <= attempts[e] /\ attempts[e] <= MAX_ATTEMPTS
  BY DEF AttemptsCoverWork
<1>1. IsFiniteSet(Applying(e)) /\ Cardinality(Applying(e)) \in Nat
  BY ApplyingFinite
<1>2. Applying(e)' \in SUBSET Applying(e)
  OBVIOUS
<1>3. Cardinality(Applying(e)') <= Cardinality(Applying(e)) /\ Cardinality(Applying(e)') \in Nat
  BY <1>1, <1>2, FS_Subset, FS_CardinalityType
<1>4. effects[e] + Cardinality(Applying(e)) <= attempts[e] /\ attempts[e] <= MAX_ATTEMPTS
  BY DEF AttemptsCoverWork
<1>5. effects[e] \in Nat /\ attempts[e] \in Nat
  BY DEF InboxTypeOK
<1> QED
  BY <1>1, <1>3, <1>4, <1>5

LEMMA ClaimPays ==
  ASSUME InboxTypeOK, AttemptsCoverWork, NEW w \in Drains, NEW e \in Events, Claim(w, e)
  PROVE  AttemptsCoverWork'
<1> SUFFICES ASSUME NEW f \in Events
             PROVE  effects'[f] + Cardinality(Applying(f)') <= attempts'[f] /\ attempts'[f] <= MAX_ATTEMPTS
  BY DEF AttemptsCoverWork
<1>1. /\ effects' = effects /\ attempts' = [attempts EXCEPT ![e] = attempts[e] + 1]
      /\ pc[w] = "loop" /\ attempts[e] < MAX_ATTEMPTS
      /\ pc' = [pc EXCEPT ![w] = "bind"] /\ cur' = [cur EXCEPT ![w] = e]
  BY DEF Claim, ClaimAs, Claimable, effectVars
<1>2. /\ effects[f] \in Nat /\ attempts[f] \in Nat /\ attempts[e] \in Nat /\ MAX_ATTEMPTS \in Nat
      /\ pc \in [Drains -> {"idle", "loop", "bind", "metadata", "apply", "done", "failed"}]
      /\ cur \in [Drains -> Events \union {NoEvent}] /\ attempts \in [Events -> Nat]
  BY InboxAssumption DEF InboxTypeOK
<1>3. effects[f] + Cardinality(Applying(f)) <= attempts[f] /\ attempts[f] <= MAX_ATTEMPTS
  BY DEF AttemptsCoverWork
<1>4. IsFiniteSet(Applying(f)) /\ Cardinality(Applying(f)) \in Nat /\ w \notin Applying(f)
  BY <1>1, ApplyingFinite DEF Applying
<1>5. CASE f = e
  <2>1. Applying(f)' = Applying(f) \union {w}
    BY <1>1, <1>2, <1>5 DEF Applying
  <2>2. Cardinality(Applying(f)') = Cardinality(Applying(f)) + 1
    BY <1>4, <2>1, FS_AddElement
  <2> QED
    BY <1>1, <1>2, <1>3, <1>4, <1>5, <2>2
<1>6. CASE f # e
  <2>1. Applying(f)' = Applying(f)
    BY <1>1, <1>2, <1>6 DEF Applying
  <2> QED
    BY <1>1, <1>2, <1>3, <1>6, <2>1
<1> QED
  BY <1>5, <1>6

LEMMA ApplySpends ==
  ASSUME InboxTypeOK, AttemptsCoverWork, NEW w \in Drains, Apply(w)
  PROVE  AttemptsCoverWork'
<1> SUFFICES ASSUME NEW f \in Events
             PROVE  effects'[f] + Cardinality(Applying(f)') <= attempts'[f] /\ attempts'[f] <= MAX_ATTEMPTS
  BY DEF AttemptsCoverWork
<1>1. /\ effects' = [effects EXCEPT ![cur[w]] = effects[cur[w]] + 1] /\ attempts' = attempts
      /\ pc[w] = "apply" /\ pc' = [pc EXCEPT ![w] = "done"] /\ cur' = cur
  BY DEF Apply, rowVars
<1>2. /\ effects \in [Events -> Nat] /\ attempts[f] \in Nat
      /\ pc \in [Drains -> {"idle", "loop", "bind", "metadata", "apply", "done", "failed"}]
  BY DEF InboxTypeOK
<1>3. effects[f] + Cardinality(Applying(f)) <= attempts[f] /\ attempts[f] <= MAX_ATTEMPTS
  BY DEF AttemptsCoverWork
<1>4. IsFiniteSet(Applying(f)) /\ Cardinality(Applying(f)) \in Nat
  BY ApplyingFinite
<1>5. CASE f = cur[w]
  <2>1. w \in Applying(f) /\ Applying(f)' = Applying(f) \ {w}
    BY <1>1, <1>2, <1>5 DEF Applying
  <2>2. Cardinality(Applying(f)') = Cardinality(Applying(f)) - 1
    BY <1>4, <2>1, FS_RemoveElement
  <2>3. effects'[f] = effects[f] + 1
    BY <1>1, <1>2, <1>5
  <2> QED
    BY <1>1, <1>2, <1>3, <1>4, <2>2, <2>3
<1>6. CASE f # cur[w]
  <2>1. Applying(f)' = Applying(f)
    BY <1>1, <1>2, <1>6 DEF Applying
  <2>2. effects'[f] = effects[f]
    BY <1>1, <1>2, <1>6
  <2> QED
    BY <1>1, <1>2, <1>3, <2>1, <2>2
<1> QED
  BY <1>5, <1>6

LEMMA WorkStep == InboxTypeOK /\ AttemptsCoverWork /\ [InboxNext]_inboxVars => AttemptsCoverWork'
<1> SUFFICES ASSUME InboxTypeOK, AttemptsCoverWork, [InboxNext]_inboxVars PROVE AttemptsCoverWork'
  OBVIOUS
<1>1. ASSUME NEW w \in Drains, NEW e \in Events, Claim(w, e)
      PROVE  AttemptsCoverWork'
  BY <1>1, ClaimPays
<1>2. ASSUME NEW w \in Drains, Apply(w)
      PROVE  AttemptsCoverWork'
  BY <1>2, ApplySpends
<1>3. ASSUME ~ \E w \in Drains : Apply(w) \/ \E e \in Events : Claim(w, e)
      PROVE  AttemptsCoverWork'
  <2>1. UNCHANGED <<effects, attempts>>
    BY <1>3 DEF InboxNext, inboxVars, DrainStep, Deliver, LookupFails, Arrives, Enqueue, AlreadyQueued, EnqueueFails,
       StartDrain, SkipRow, EndDrain, BindByCustomer, BindByMetadata, MarkDone, MarkFailed, WorkFails,
       MarkFailedFails, Age, StoreTheirs, StoreOther, Crash, rowVars, effectVars
  <2>2. \A w \in Drains : pc'[w] \in {"bind", "metadata", "apply"} =>
          pc[w] \in {"bind", "metadata", "apply"} /\ cur'[w] = cur[w]
    BY <1>3 DEF InboxTypeOK, InboxNext, inboxVars, DrainStep, Deliver, LookupFails, Arrives, Enqueue, AlreadyQueued,
       EnqueueFails, StartDrain, SkipRow, EndDrain, BindByCustomer, BindByMetadata, MarkDone, MarkFailed,
       WorkFails, MarkFailedFails, Age, StoreTheirs, StoreOther, Crash, BackToLoop, drainVars
  <2>3. \A e \in Events : Applying(e)' \subseteq Applying(e)
    BY <2>2 DEF Applying
  <2> QED
    BY <2>1, <2>3, NoMoreWork
<1> QED
  BY <1>1, <1>2, <1>3

LEMMA InboxStep == InboxInv /\ [InboxNext]_inboxVars => InboxInv'
BY TypeStep, QueuedStep, DoneStep, BindStep, WorkStep DEF InboxInv

THEOREM InboxSafe == InboxSpec => []InboxInv
<1>1. InboxInit => InboxInv
  BY InitInbox
<1> QED
  BY <1>1, InboxStep, PTL DEF InboxSpec

\* Every reachable state of the inbox is well typed, and a drain has a row in
\* hand exactly while it is between its claim and its mark.
THEOREM InboxTypeCorrect == InboxSpec => []InboxTypeOK
<1>1. InboxInv => InboxTypeOK
  BY DEF InboxInv
<1> QED
  BY <1>1, InboxSafe, PTL

\* A row marked done was applied, however many drains overlap, time out or die.
THEOREM DoneMeansApplied == InboxSpec => []DoneWasApplied
<1>1. InboxInv => DoneWasApplied
  BY DEF InboxInv
<1> QED
  BY <1>1, InboxSafe, PTL

\* No promised subscription change is swallowed, though customers are written over.
THEOREM NothingSwallowed == InboxSpec => []LinkedEventsAreApplied
<1>1. InboxInv => LinkedEventsAreApplied
  BY DEF InboxInv
<1> QED
  BY <1>1, InboxSafe, PTL

\* processEvent runs at most MAX_ATTEMPTS times for an event, crashes, timeouts
\* and drains running side by side included: each run has a claim of its own.
THEOREM WorkIsBounded == InboxSpec => []AttemptsCoverWork
<1>1. InboxInv => AttemptsCoverWork
  BY DEF InboxInv
<1> QED
  BY <1>1, InboxSafe, PTL
------------------------------------------------------------------------------
(***************************************************************************)
(* Every claim after the first is paid for by a timeout or a failure.      *)
(***************************************************************************)

\* Drains that have failed on e and have yet to say so.
Failing(e) == {w \in Drains : cur[w] = e /\ pc[w] = "failed"}

\* A row marked failed is open to one more claim.
Reopened(e) == IF status[e] = "failed" THEN 1 ELSE 0

\* A row waits for its first claim untouched; every later claim, and the one that a
\* failed row is open to, has a timeout or a failure to itself, and so has every
\* drain that is about to mark a failure.
ClaimsArePaid ==
  \A e \in Events :
    IF status[e] \in {"absent", "pending"}
    THEN attempts[e] = 0 /\ \A w \in Drains : cur[w] # e
    ELSE attempts[e] + Reopened(e) + Cardinality(Failing(e)) <= 1 + timeouts[e] + faulted[e]

\* Without a timeout, whoever works on a row is alone, and the row says so.
SoleHolder ==
  \A e \in Events : timeouts[e] = 0 =>
    \A w \in Drains : cur[w] = e =>
      status[e] = "processing" /\ \A v \in Drains : cur[v] = e => v = w

LEMMA FailingFinite ==
  ASSUME NEW e
  PROVE  IsFiniteSet(Failing(e)) /\ Cardinality(Failing(e)) \in Nat
<1>1. Failing(e) \in SUBSET Drains
  BY DEF Failing
<1> QED
  BY <1>1, FS_Subset, FS_CardinalityType, InboxAssumption

\* A step on the row in hand of one drain, or on none: the others see nothing of it.
LEMMA OthersUntouched ==
  ASSUME InboxTypeOK, ClaimsArePaid, NEW f \in Events,
         status'[f] = status[f], attempts'[f] = attempts[f], timeouts'[f] = timeouts[f],
         faulted'[f] = faulted[f],
         \A w \in Drains : cur'[w] = f => cur[w] = f /\ (pc'[w] = "failed" => pc[w] = "failed")
  PROVE  IF status'[f] \in {"absent", "pending"}
         THEN attempts'[f] = 0 /\ \A w \in Drains : cur'[w] # f
         ELSE attempts'[f] + Reopened(f)' + Cardinality(Failing(f)') <= 1 + timeouts'[f] + faulted'[f]
<1>1. CASE status[f] \in {"absent", "pending"}
  BY <1>1 DEF ClaimsArePaid
<1>2. CASE status[f] \notin {"absent", "pending"}
  <2>1. Failing(f)' \in SUBSET Failing(f) /\ Reopened(f)' = Reopened(f) /\ Reopened(f) \in 0..1
    BY DEF Failing, Reopened
  <2>2. /\ Cardinality(Failing(f)') <= Cardinality(Failing(f))
        /\ Cardinality(Failing(f)') \in Nat /\ Cardinality(Failing(f)) \in Nat
    BY <2>1, FailingFinite, FS_Subset, FS_CardinalityType
  <2>3. /\ attempts[f] + Reopened(f) + Cardinality(Failing(f)) <= 1 + timeouts[f] + faulted[f]
        /\ attempts[f] \in Nat /\ timeouts[f] \in Nat /\ faulted[f] \in Nat
    BY <1>2 DEF ClaimsArePaid, InboxTypeOK
  <2>4. attempts[f] + Reopened(f) + Cardinality(Failing(f)') <= 1 + timeouts[f] + faulted[f]
    BY <2>1, <2>2, <2>3
  <2> QED
    BY <1>2, <2>1, <2>4
<1> QED
  BY <1>1, <1>2

\* A claim is the row's first, or the one its failure opened, or takes a stuck row over.
LEMMA ClaimIsPaid ==
  ASSUME InboxTypeOK, OnlyQueuedRows, ClaimsArePaid, NEW w \in Drains, NEW e \in Events, Claim(w, e)
  PROVE  ClaimsArePaid'
<1> SUFFICES ASSUME NEW f \in Events
             PROVE  IF status'[f] \in {"absent", "pending"}
                    THEN attempts'[f] = 0 /\ \A v \in Drains : cur'[v] # f
                    ELSE attempts'[f] + Reopened(f)' + Cardinality(Failing(f)')
                           <= 1 + timeouts'[f] + faulted'[f]
  BY DEF ClaimsArePaid
<1>1. /\ status' = [status EXCEPT ![e] = "processing"]
      /\ attempts' = [attempts EXCEPT ![e] = attempts[e] + 1]
      /\ timeouts' = [timeouts EXCEPT ![e] = IF status[e] = "processing" THEN @ + 1 ELSE @]
      /\ faulted' = faulted
      /\ pc[w] = "loop" /\ pc' = [pc EXCEPT ![w] = "bind"] /\ cur' = [cur EXCEPT ![w] = e]
      /\ status[e] \in {"pending", "failed", "processing"}
  BY DEF Claim, ClaimAs, Claimable, NoFault
<1>2. /\ status \in [Events -> Statuses] /\ attempts \in [Events -> Nat]
      /\ timeouts \in [Events -> Nat] /\ faulted \in [Events -> Nat]
      /\ pc \in [Drains -> {"idle", "loop", "bind", "metadata", "apply", "done", "failed"}]
      /\ cur \in [Drains -> Events \union {NoEvent}]
  BY DEF InboxTypeOK
<1>3. CASE f # e
  <2>1. /\ status'[f] = status[f] /\ attempts'[f] = attempts[f] /\ timeouts'[f] = timeouts[f]
        /\ faulted'[f] = faulted[f]
        /\ \A v \in Drains : cur'[v] = f => cur[v] = f /\ (pc'[v] = "failed" => pc[v] = "failed")
    BY <1>1, <1>2, <1>3
  <2> QED
    BY <2>1, OthersUntouched
<1>4. CASE f = e
  <2>1. /\ status'[e] = "processing" /\ Reopened(e)' = 0 /\ attempts'[e] = attempts[e] + 1
        /\ timeouts'[e] = IF status[e] = "processing" THEN timeouts[e] + 1 ELSE timeouts[e]
        /\ attempts[e] \in Nat /\ timeouts[e] \in Nat /\ faulted[e] \in Nat
    BY <1>1, <1>2 DEF Reopened
  <2>2. Failing(e)' = Failing(e)
    BY <1>1, <1>2, InboxAssumption DEF InboxTypeOK, Working, Failing
  <2>3. Cardinality(Failing(e)) \in Nat
    BY FailingFinite
  <2>4. CASE status[e] = "pending"
    <3>1. attempts[e] = 0 /\ Failing(e) = {}
      BY <2>4 DEF ClaimsArePaid, Failing
    <3>2. Cardinality(Failing(e)) = 0
      BY <3>1, FS_EmptySet
    <3> QED
      BY <1>1, <1>4, <2>1, <2>2, <2>4, <3>1, <3>2
  <2>5. CASE status[e] \in {"failed", "processing"}
    <3>1. /\ attempts[e] + Reopened(e) + Cardinality(Failing(e)) <= 1 + timeouts[e] + faulted[e]
          /\ status[e] = "failed" => Reopened(e) = 1
          /\ status[e] = "processing" => Reopened(e) = 0
      BY <2>5 DEF ClaimsArePaid, Reopened
    <3> QED
      BY <1>1, <1>4, <2>1, <2>2, <2>3, <2>5, <3>1
  <2> QED
    BY <1>1, <2>4, <2>5
<1> QED
  BY <1>3, <1>4

\* A drain that fails on its row, or ends with it, done or failed.
LEMMA MarkIsPaid ==
  ASSUME InboxTypeOK, ClaimsArePaid, NEW w \in Drains,
         WorkFails(w) \/ MarkDone(w) \/ MarkFailed(w) \/ MarkFailedFails(w)
  PROVE  ClaimsArePaid'
<1> SUFFICES ASSUME NEW f \in Events
             PROVE  IF status'[f] \in {"absent", "pending"}
                    THEN attempts'[f] = 0 /\ \A v \in Drains : cur'[v] # f
                    ELSE attempts'[f] + Reopened(f)' + Cardinality(Failing(f)')
                           <= 1 + timeouts'[f] + faulted'[f]
  BY DEF ClaimsArePaid
<1>0. PICK e \in Events : e = cur[w]
  BY DEF InboxTypeOK, Working, WorkFails, MarkDone, MarkFailed, MarkFailedFails
<1>1. e = cur[w] /\ attempts' = attempts /\ timeouts' = timeouts
  BY <1>0 DEF WorkFails, MarkDone, MarkFailed, MarkFailedFails, rowVars
<1>2. /\ status \in [Events -> Statuses] /\ attempts \in [Events -> Nat]
      /\ timeouts \in [Events -> Nat] /\ faulted \in [Events -> Nat]
      /\ pc \in [Drains -> {"idle", "loop", "bind", "metadata", "apply", "done", "failed"}]
      /\ cur \in [Drains -> Events \union {NoEvent}]
  BY DEF InboxTypeOK
<1>3. CASE f # e
  <2>1. /\ status'[f] = status[f] /\ faulted'[f] = faulted[f]
        /\ \A v \in Drains : cur'[v] = f => cur[v] = f /\ (pc'[v] = "failed" => pc[v] = "failed")
    BY <1>1, <1>2, <1>3, InboxAssumption
       DEF WorkFails, MarkDone, MarkFailed, MarkFailedFails, BackToLoop, WorkFault, NoFault, rowVars
  <2> QED
    BY <1>1, <2>1, OthersUntouched
<1>4. CASE f = e
  <2>1. /\ status[e] \notin {"absent", "pending"}
        /\ attempts[e] + Reopened(e) + Cardinality(Failing(e)) <= 1 + timeouts[e] + faulted[e]
    BY <1>1 DEF ClaimsArePaid
  <2>2. /\ IsFiniteSet(Failing(e)) /\ Cardinality(Failing(e)) \in Nat /\ Reopened(e) \in 0..1
        /\ attempts[e] \in Nat /\ timeouts[e] \in Nat /\ faulted[e] \in Nat
    BY <1>1, <1>2, FailingFinite DEF Reopened
  <2>3. CASE WorkFails(w)
    <3>1. /\ status' = status /\ cur' = cur /\ pc' = [pc EXCEPT ![w] = "failed"]
          /\ pc[w] # "failed" /\ faulted' = [faulted EXCEPT ![e] = faulted[e] + 1]
      BY <1>1, <2>3 DEF WorkFails, WorkFault, rowVars
    <3>2. Failing(e)' = Failing(e) \union {w} /\ w \notin Failing(e) /\ Reopened(e)' = Reopened(e)
      BY <1>1, <1>2, <3>1 DEF Failing, Reopened
    <3>3. Cardinality(Failing(e)') = Cardinality(Failing(e)) + 1
      BY <2>2, <3>2, FS_AddElement
    <3>4. faulted'[e] = faulted[e] + 1
      BY <1>1, <1>2, <3>1
    <3> QED
      BY <1>1, <1>4, <2>1, <2>2, <3>1, <3>2, <3>3, <3>4
  <2>4. CASE MarkDone(w)
    <3>1. /\ status' = [status EXCEPT ![e] = "done"] /\ faulted' = faulted /\ pc[w] = "done"
          /\ pc' = [pc EXCEPT ![w] = "loop"] /\ cur' = [cur EXCEPT ![w] = NoEvent]
      BY <1>1, <2>4 DEF MarkDone, BackToLoop, NoFault
    <3>2. Failing(e)' = Failing(e) /\ Reopened(e)' = 0 /\ status'[e] = "done"
      BY <1>1, <1>2, <3>1 DEF Failing, Reopened
    <3> QED
      BY <1>1, <1>4, <2>1, <2>2, <3>1, <3>2
  <2>5. CASE MarkFailed(w) \/ MarkFailedFails(w)
    <3>1. /\ w \in Failing(e) /\ cur' = [cur EXCEPT ![w] = NoEvent]
          /\ \A v \in Drains \ {w} : pc'[v] = pc[v]
      BY <1>1, <1>2, <2>5 DEF MarkFailed, MarkFailedFails, BackToLoop, Failing
    <3>2. Failing(e)' = Failing(e) \ {w}
      BY <1>1, <1>2, <3>1, InboxAssumption DEF Failing
    <3>3. Cardinality(Failing(e)') = Cardinality(Failing(e)) - 1
      BY <2>2, <3>1, <3>2, FS_RemoveElement
    <3>4. \/ status'[e] = status[e] /\ faulted'[e] = faulted[e] + 1
          \/ status'[e] = "failed" /\ faulted'[e] = faulted[e]
      BY <1>1, <1>2, <2>5 DEF MarkFailed, MarkFailedFails, WorkFault, NoFault, rowVars
    <3>5. /\ Reopened(e)' \in 0..1
          /\ status'[e] = status[e] => Reopened(e)' = Reopened(e)
      BY DEF Reopened
    <3> QED
      BY <1>1, <1>4, <2>1, <2>2, <3>3, <3>4, <3>5
  <2> QED
    BY <2>3, <2>4, <2>5
<1> QED
  BY <1>3, <1>4

LEMMA PaidStep ==
  InboxTypeOK /\ OnlyQueuedRows /\ ClaimsArePaid /\ [InboxNext]_inboxVars => ClaimsArePaid'
<1> SUFFICES ASSUME InboxTypeOK, OnlyQueuedRows, ClaimsArePaid, [InboxNext]_inboxVars PROVE ClaimsArePaid'
  OBVIOUS
<1>1. ASSUME NEW w \in Drains, NEW e \in Events, Claim(w, e)
      PROVE  ClaimsArePaid'
  BY <1>1, ClaimIsPaid
<1>2. ASSUME NEW w \in Drains, WorkFails(w) \/ MarkDone(w) \/ MarkFailed(w) \/ MarkFailedFails(w)
      PROVE  ClaimsArePaid'
  BY <1>2, MarkIsPaid
<1>3. ASSUME NEW d \in Deliveries, Enqueue(d)
      PROVE  ClaimsArePaid'
  <2>1. /\ ingest[d] \in Events /\ status[ingest[d]] = "absent"
        /\ status' = [status EXCEPT ![ingest[d]] = "pending"]
        /\ UNCHANGED <<attempts, timeouts, faulted, cur, pc>>
    BY <1>3 DEF Enqueue, InboxTypeOK, NoFault, drainVars
  <2>2. ASSUME NEW f \in Events
        PROVE  IF status'[f] \in {"absent", "pending"}
               THEN attempts'[f] = 0 /\ \A w \in Drains : cur'[w] # f
               ELSE attempts'[f] + Reopened(f)' + Cardinality(Failing(f)')
                      <= 1 + timeouts'[f] + faulted'[f]
    <3>1. CASE f = ingest[d]
      BY <2>1, <3>1 DEF ClaimsArePaid, InboxTypeOK
    <3>2. CASE f # ingest[d]
      <4>1. status'[f] = status[f]
        BY <2>1, <3>2 DEF InboxTypeOK
      <4> QED
        BY <2>1, <4>1, OthersUntouched
    <3> QED
      BY <3>1, <3>2
  <2> QED
    BY <2>2 DEF ClaimsArePaid
<1>4. ASSUME ~ \E d \in Deliveries : Enqueue(d),
             ~ \E w \in Drains : \/ WorkFails(w) \/ MarkDone(w) \/ MarkFailed(w)
                                 \/ MarkFailedFails(w) \/ \E e \in Events : Claim(w, e)
      PROVE  ClaimsArePaid'
  <2>1. UNCHANGED <<status, attempts, timeouts, faulted>>
    BY <1>4 DEF InboxNext, inboxVars, DrainStep, Deliver, LookupFails, Arrives, AlreadyQueued, EnqueueFails,
       StartDrain, SkipRow, EndDrain, BindByCustomer, BindByMetadata, Apply, Age, StoreTheirs, StoreOther,
       Crash, NoFault, rowVars, effectVars
  <2>2. \A w \in Drains : cur'[w] \in Events =>
          cur'[w] = cur[w] /\ (pc'[w] = "failed" => pc[w] = "failed")
    BY <1>4, InboxAssumption
       DEF InboxTypeOK, InboxNext, inboxVars, DrainStep, Deliver, LookupFails, Arrives, AlreadyQueued,
       EnqueueFails, StartDrain, SkipRow, EndDrain, BindByCustomer, BindByMetadata, Apply, Age,
       StoreTheirs, StoreOther, Crash, drainVars
  <2> QED
    BY <2>1, <2>2, OthersUntouched DEF ClaimsArePaid
<1> QED
  BY <1>1, <1>2, <1>3, <1>4

LEMMA SoleStep ==
  InboxTypeOK /\ ClaimsArePaid /\ SoleHolder /\ [InboxNext]_inboxVars => SoleHolder'
<1> SUFFICES ASSUME InboxTypeOK, ClaimsArePaid, SoleHolder, [InboxNext]_inboxVars PROVE SoleHolder'
  OBVIOUS
<1>1. ASSUME NEW w \in Drains, NEW e \in Events, Claim(w, e)
      PROVE  SoleHolder'
  <2>1. /\ status' = [status EXCEPT ![e] = "processing"] /\ cur' = [cur EXCEPT ![w] = e]
        /\ timeouts' = [timeouts EXCEPT ![e] = IF status[e] = "processing" THEN @ + 1 ELSE @]
        /\ status[e] \in {"pending", "failed", "processing"}
    BY <1>1 DEF Claim, ClaimAs, Claimable
  <2>2. timeouts'[e] = 0 => \A v \in Drains : cur[v] # e
    BY <2>1 DEF SoleHolder, ClaimsArePaid, InboxTypeOK
  <2> QED
    BY <2>1, <2>2 DEF SoleHolder, InboxTypeOK
<1>2. ASSUME NEW w \in Drains, MarkDone(w) \/ MarkFailed(w)
      PROVE  SoleHolder'
  BY <1>2, InboxAssumption DEF MarkDone, MarkFailed, BackToLoop, SoleHolder, InboxTypeOK
<1>3. ASSUME NEW d \in Deliveries, Enqueue(d)
      PROVE  SoleHolder'
  <2>1. /\ ingest[d] \in Events /\ status[ingest[d]] = "absent"
        /\ status' = [status EXCEPT ![ingest[d]] = "pending"] /\ UNCHANGED <<timeouts, cur>>
    BY <1>3 DEF Enqueue, InboxTypeOK, drainVars
  <2> QED
    BY <2>1 DEF SoleHolder, ClaimsArePaid, InboxTypeOK
<1>4. ASSUME ~ \E d \in Deliveries : Enqueue(d),
             ~ \E w \in Drains : MarkDone(w) \/ MarkFailed(w) \/ \E e \in Events : Claim(w, e)
      PROVE  SoleHolder'
  <2>1. UNCHANGED <<status, timeouts>>
    BY <1>4 DEF InboxNext, inboxVars, DrainStep, Deliver, LookupFails, Arrives, AlreadyQueued, EnqueueFails,
       StartDrain, SkipRow, EndDrain, BindByCustomer, BindByMetadata, Apply, Age, StoreTheirs, StoreOther,
       Crash, WorkFails, MarkFailedFails, rowVars, effectVars
  <2>2. \A w \in Drains : cur'[w] \in Events => cur'[w] = cur[w]
    BY <1>4, InboxAssumption
       DEF InboxTypeOK, InboxNext, inboxVars, DrainStep, Deliver, LookupFails, Arrives, AlreadyQueued,
       EnqueueFails, StartDrain, SkipRow, EndDrain, BindByCustomer, BindByMetadata, Apply, Age,
       StoreTheirs, StoreOther, Crash, WorkFails, MarkFailedFails, drainVars
  <2> QED
    BY <2>1, <2>2 DEF SoleHolder
<1> QED
  BY <1>1, <1>2, <1>3, <1>4

LEMMA InitClaims == InboxInit => ClaimsArePaid /\ SoleHolder
BY InboxAssumption DEF InboxInit, ClaimsArePaid, SoleHolder

\* Every run of an event has a claim behind it, every run after the first a timeout or
\* a failure, and no two drains work on one row unless a claim on it has timed out.
THEOREM WorkAccounted == InboxSpec => []WorkIsAccounted
<1>1. InboxInv /\ ClaimsArePaid /\ SoleHolder /\ [InboxNext]_inboxVars => ClaimsArePaid' /\ SoleHolder'
  BY PaidStep, SoleStep DEF InboxInv
<1>2. InboxInv /\ ClaimsArePaid => RepeatsAreAccounted
  <2> SUFFICES ASSUME InboxInv, ClaimsArePaid, NEW e \in Events
               PROVE  effects[e] <= 1 + timeouts[e] + faulted[e]
    BY DEF RepeatsAreAccounted
  <2>1. /\ effects[e] + Cardinality(Applying(e)) <= attempts[e]
        /\ Cardinality(Applying(e)) \in Nat /\ Cardinality(Failing(e)) \in Nat
        /\ effects[e] \in Nat /\ attempts[e] \in Nat /\ timeouts[e] \in Nat /\ faulted[e] \in Nat
    BY ApplyingFinite, FailingFinite DEF InboxInv, AttemptsCoverWork, InboxTypeOK
  <2>2. CASE attempts[e] = 0
    BY <2>1, <2>2
  <2>3. CASE attempts[e] + Reopened(e) + Cardinality(Failing(e)) <= 1 + timeouts[e] + faulted[e]
    <3>1. Reopened(e) \in 0..1
      BY DEF Reopened
    <3> QED
      BY <2>1, <2>3, <3>1
  <2> QED
    BY <2>2, <2>3 DEF ClaimsArePaid
<1>3. SoleHolder => NoConcurrentWork
  <2> SUFFICES ASSUME SoleHolder, NEW e \in Events, timeouts[e] = 0
               PROVE  Cardinality({w \in Drains : cur[w] = e}) <= 1
    BY DEF NoConcurrentWork
  <2>1. CASE {w \in Drains : cur[w] = e} = {}
    BY <2>1, FS_EmptySet
  <2>2. ASSUME NEW w \in Drains, cur[w] = e
        PROVE  Cardinality({v \in Drains : cur[v] = e}) <= 1
    <3>1. {v \in Drains : cur[v] = e} = {w}
      BY <2>2 DEF SoleHolder
    <3> QED
      BY <3>1, FS_Singleton
  <2> QED
    BY <2>1, <2>2
<1>4. AttemptsCoverWork /\ RepeatsAreAccounted /\ NoConcurrentWork => WorkIsAccounted
  BY DEF WorkIsAccounted
<1>5. InboxInv => AttemptsCoverWork
  BY DEF InboxInv
<1> QED
  BY <1>1, <1>2, <1>3, <1>4, <1>5, InitClaims, InboxSafe, PTL DEF InboxSpec

------------------------------------------------------------------------------
(***************************************************************************)
(* The account, its customers and its plan: Accounts.                      *)
(***************************************************************************)
(* The invariant *)

AccountTypes ==
  /\ account \in {"absent", "signup"} \cup Requests
  /\ verified \in BOOLEAN
  /\ customer \in Customers \cup {Nobody}
  /\ plan \in {"free", "starter", "professional"}
  /\ event \in [SubEvents -> {"unsent", "queued", "bound", "done", "dropped"}]
  /\ link \in [Requests -> {"none", "live", "consumed", "expired"}]
  /\ kind \in [Requests -> {"none", "signup", "claim", "resend", "verify", "checkout"}]
  /\ step \in [Requests -> Final \cup {"idle", "provision", "issue", "commit", "consume",
                                       "link", "customer"}]
  /\ live \in [Requests -> SUBSET Requests] /\ earlier \in [Requests -> SUBSET Requests]
  /\ trial \in [Requests -> Trials \cup {Nobody}]
  /\ bought \in [Requests -> Customers \cup {Nobody}]
  /\ overwritten \subseteq Customers /\ raced \subseteq Customers
  /\ sent \in Seq(SubEvents)
  /\ slow \subseteq SubEvents /\ calm \subseteq SubEvents

\* What a request is doing says what it is.
Placed(r) ==
  /\ step[r] = "idle" <=> kind[r] = "none"
  /\ step[r] = "provision" => kind[r] \in {"signup", "claim"}
  /\ step[r] \in {"issue", "commit"} => kind[r] \in {"signup", "resend"}
  /\ step[r] = "consume" => kind[r] = "verify"
  /\ step[r] = "link" => kind[r] = "claim" /\ account = r
  /\ kind[r] = "claim" => trial[r] \in Trials
  /\ step[r] = "customer" => kind[r] = "checkout"

\* A link is there once its request has answered, and whoever is about to issue one knows
\* every link that was there when it looked and is alive still.
LinksKnown ==
  \A r \in Requests :
    /\ link[r] # "none" => step[r] \in Final
    /\ \A q \in live[r] \cup earlier[r] : link[q] # "none"
    /\ step[r] = "commit" => \A q \in earlier[r] : link[q] = "live" => q \in live[r]

\* Customers the organisation has, or has had.
Linked == overwritten \cup ({customer} \ {Nobody})

\* The account that a claim provisioned is the claim's until it ends, and then has had
\* the customer of its session, and of no other; answers are given for an account.
Provisioned ==
  /\ account \in Requests => kind[account] = "claim" /\ step[account] \in {"link", "failed", "ok"}
  /\ \A t \in Trials :
       t \in Linked <=> account \in Requests /\ step[account] = "ok" /\ trial[account] = t
  /\ \A r \in Requests :
       (kind[r] = "claim" /\ step[r] = "ok") \/ kind[r] = "checkout" => account # "absent"

\* A customer is linked once, by the checkout that created it; what is sold is sold
\* to a customer that was linked by then.
CustomersAreFresh ==
  /\ customer \notin overwritten
  /\ \A r \in Requests :
       /\ r \in Linked => kind[r] = "checkout" /\ step[r] = "ok"
       /\ kind[r] = "checkout" /\ step[r] = "ok" => bought[r] \in Linked

\* Once a customer is stored with nobody else about to store one, nobody ever is again:
\* the account is there for claims to find, and the customer for checkouts.
NoRacers ==
  /\ customer # Nobody => account # "absent"
  /\ customer \notin raced \cup {Nobody} =>
       \A q \in Requests : step[q] \notin {"link", "customer"}

\* Stripe sends an event once, after what it is about; a drain binds and applies it
\* for a customer that has been linked.
EventsInOrder ==
  /\ \A e \in SubEvents : event[e] # "unsent" <=> \E i \in 1..Len(sent) : sent[i] = e
  /\ \A i, j \in 1..Len(sent) : sent[i] = sent[j] => i = j
  /\ \A r \in Requests : event[r] # "unsent" => kind[r] = "checkout" /\ step[r] = "ok"
  /\ \A e \in SubEvents : event[e] \in {"bound", "done"} \/ e \in slow => CustomerOf(e) \in Linked
  /\ \A e \in slow : event[e] # "unsent"
  /\ \A e \in calm : event[e] = "done"

\* After an event that was applied with no other on its way, whatever is on its way
\* was sent later and, while its customer is linked, is bound to that customer.
CalmIsPassed ==
  \A i \in 1..Len(sent) : sent[i] \in calm =>
    /\ \A j \in 1..Len(sent) : sent[j] \in Pending => i < j
    /\ CustomerOf(sent[i]) = customer =>
         \A e \in SubEvents : event[e] = "bound" \/ e \in slow => CustomerOf(e) = customer

Mine(i) == i \in 1..Len(sent) /\ CustomerOf(sent[i]) = customer
PlanFits ==
  \A i \in 1..Len(sent) :
    Mine(i) /\ (\A j \in 1..Len(sent) : Mine(j) => j <= i) /\ sent[i] \in calm
      => plan = PlanOf(sent[i])

AccountsInv ==
  /\ AccountTypes /\ \A r \in Requests : Placed(r)
  /\ LinksKnown /\ LiveLinksOverlapped
  /\ Provisioned /\ CustomersAreFresh /\ NoRacers /\ CustomersStay
  /\ EventsInOrder /\ CalmIsPassed /\ PlanFits

-----------------------------------------------------------------------------
(* Steps *)

\* What a request does next, and what happens to an event.
Serves(r) ==
  \/ Signup(r) \/ provisionAccount(r) \/ Resend(r) \/ IssueReads(r) \/ IssueCommits(r)
  \/ IssueFails(r) \/ VerifyCommits(r)
  \/ LinkTrial(r) \/ Checkout(r) \/ StoreCustomer(r) \/ Abandon(r)
  \/ \E t \in Trials : ClaimTrial(r, t)
  \/ \E q \in Requests : VerifyReads(r, q)
Handles(e) ==
  \/ StripeSends(e) \/ Bind(e) \/ ApplyEvent(e) \/ ApplyAgain(e) \/ ApplyFails(e)
  \/ TakeOver(e) \/ ApplyLate(e)

LEMMA NextSteps ==
  ASSUME [Next]_vars
  PROVE  \/ \E r \in Requests : Serves(r) \/ LinkExpires(r)
         \/ \E e \in SubEvents : Handles(e)
         \/ UNCHANGED vars
BY DEF Next, Serves, Handles

\* A request that is not through moves, alone; and Stripe is not concerned.
LEMMA ServedAlone ==
  ASSUME AccountTypes, \A q \in Requests : Placed(q), NEW r \in Requests, Serves(r)
  PROVE  /\ step[r] \notin Final /\ step'[r] # "idle"
         /\ \A q \in Requests : q # r => /\ step'[q] = step[q] /\ kind'[q] = kind[q]
                                         /\ bought'[q] = bought[q] /\ trial'[q] = trial[q]
         /\ step[r] # "idle" => kind'[r] = kind[r] /\ trial'[r] = trial[r]
         /\ step' \in [Requests -> Final \cup {"idle", "provision", "issue", "commit", "consume",
                                               "link", "customer"}]
         /\ kind' \in [Requests -> {"none", "signup", "claim", "resend", "verify", "checkout"}]
         /\ Placed(r)'
         /\ UNCHANGED <<event, slow, sent, calm>>
<1> USE DEF AccountTypes, Placed, Final, Goto, Start, accountVars, orgVars, linkVars, stripeVars,
            buyVars
<1>1. CASE Signup(r)
  BY <1>1 DEF Signup
<1>2. CASE provisionAccount(r)
  BY <1>2 DEF provisionAccount
<1>3. CASE Resend(r)
  BY <1>3 DEF Resend
<1>4. CASE IssueReads(r)
  BY <1>4 DEF IssueReads
<1>5. CASE IssueCommits(r)
  BY <1>5 DEF IssueCommits
<1>6. CASE IssueFails(r)
  BY <1>6 DEF IssueFails
<1>7. CASE VerifyCommits(r)
  BY <1>7 DEF VerifyCommits
<1>8. CASE \E t \in Trials : ClaimTrial(r, t)
  BY <1>8 DEF ClaimTrial
<1>9. CASE LinkTrial(r)
  BY <1>9 DEF LinkTrial, Store
<1>10. CASE Checkout(r)
  BY <1>10 DEF Checkout
<1>11. CASE StoreCustomer(r)
  BY <1>11 DEF StoreCustomer, Store
<1>12. CASE Abandon(r)
  BY <1>12 DEF Abandon
<1>13. CASE \E q \in Requests : VerifyReads(r, q)
  BY <1>13 DEF VerifyReads
<1> QED
  BY <1>1, <1>2, <1>3, <1>4, <1>5, <1>6, <1>7, <1>8, <1>9, <1>10, <1>11, <1>12, <1>13 DEF Serves

\* The account is provisioned once.
LEMMA ServedAccount ==
  ASSUME AccountTypes, \A q \in Requests : Placed(q), NEW r \in Requests, Serves(r)
  PROVE  \/ account' = account
         \/ /\ account = "absent" /\ step[r] = "provision"
            /\ \/ kind[r] = "signup" /\ account' = "signup" /\ step'[r] = "issue"
               \/ kind[r] = "claim" /\ account' = r /\ step'[r] = "link"
BY DEF Serves, AccountTypes, Placed, Goto, Start, accountVars, Signup, provisionAccount, Resend,
   IssueReads, IssueCommits, IssueFails, VerifyCommits, ClaimTrial, LinkTrial, Checkout,
   StoreCustomer, Store, Abandon, VerifyReads

LEMMA ServedInPlace ==
  ASSUME AccountTypes, \A q \in Requests : Placed(q), NEW r \in Requests, Serves(r)
  PROVE  \A q \in Requests : Placed(q)'
<1>1. ASSUME NEW q \in Requests, q # r
      PROVE  Placed(q)'
  <2>1. step'[q] = step[q] /\ kind'[q] = kind[q] /\ trial'[q] = trial[q]
    BY <1>1, ServedAlone
  <2>2. account' = account \/ account = "absent"
    BY ServedAccount
  <2>3. account = "absent" => step[q] # "link"
    BY AccountsAssumption DEF Placed
  <2> QED
    BY <2>1, <2>2, <2>3 DEF Placed
<1>2. Placed(r)'
  BY ServedAlone
<1> QED
  BY <1>1, <1>2

\* What a request writes besides.
LEMMA ServedTypes ==
  ASSUME AccountTypes, \A q \in Requests : Placed(q), NEW r \in Requests, Serves(r)
  PROVE  AccountTypes'
<1>1. /\ step' \in [Requests -> Final \cup {"idle", "provision", "issue", "commit", "consume",
                                            "link", "customer"}]
      /\ kind' \in [Requests -> {"none", "signup", "claim", "resend", "verify", "checkout"}]
      /\ UNCHANGED <<event, slow, sent, calm>>
  BY ServedAlone
<1>2. account' \in {"absent", "signup"} \cup Requests
  BY ServedAccount DEF AccountTypes
<1>3. /\ verified' \in BOOLEAN /\ customer' \in Customers \cup {Nobody}
      /\ plan' \in {"free", "starter", "professional"} /\ overwritten' \subseteq Customers
      /\ bought' \in [Requests -> Customers \cup {Nobody}]
      /\ trial' \in [Requests -> Trials \cup {Nobody}] /\ raced' \subseteq Customers
  <2> USE DEF AccountTypes, Customers, accountVars, orgVars, buyVars
  <2>1. CASE Signup(r) \/ provisionAccount(r) \/ Resend(r) \/ IssueReads(r) \/ IssueCommits(r)
             \/ IssueFails(r) \/ Abandon(r) \/ (\E q \in Requests : VerifyReads(r, q))
    BY <2>1 DEF Signup, provisionAccount, Resend, IssueReads, IssueCommits, IssueFails, Abandon,
       VerifyReads
  <2>2. CASE VerifyCommits(r)
    BY <2>2 DEF VerifyCommits
  <2>3. CASE \E t \in Trials : ClaimTrial(r, t)
    BY <2>3 DEF ClaimTrial
  <2>4. CASE LinkTrial(r)
    <3>1. step[r] = "link" /\ trial[r] \in Trials
      BY <2>4 DEF LinkTrial, Placed
    <3> QED
      BY <2>4, <3>1 DEF LinkTrial, Store
  <2>5. CASE Checkout(r)
    BY <2>5 DEF Checkout
  <2>6. CASE StoreCustomer(r)
    BY <2>6 DEF StoreCustomer, Store
  <2> QED
    BY <2>1, <2>2, <2>3, <2>4, <2>5, <2>6 DEF Serves
<1>4. /\ link' \in [Requests -> {"none", "live", "consumed", "expired"}]
      /\ live' \in [Requests -> SUBSET Requests] /\ earlier' \in [Requests -> SUBSET Requests]
  BY DEF Serves, AccountTypes, linkVars, Signup, provisionAccount,
     Resend, IssueReads, IssueCommits, IssueFails, VerifyCommits, ClaimTrial, LinkTrial, Checkout,
     StoreCustomer, Store, Abandon, VerifyReads
<1> QED
  BY <1>1, <1>2, <1>3, <1>4 DEF AccountTypes

-----------------------------------------------------------------------------
(* Verification links *)

\* What a request does to the links: it issues one, invalidates one, looks at them, or nothing.
LEMMA ServedLinks ==
  ASSUME AccountTypes, \A q \in Requests : Placed(q), NEW r \in Requests, Serves(r)
  PROVE  \/ UNCHANGED <<link, live, earlier>> /\ step'[r] # "commit"
         \/ /\ step'[r] = "commit" /\ link' = link
            /\ live' = [live EXCEPT ![r] = {q \in Requests : link[q] = "live"}]
            /\ earlier' = [earlier EXCEPT ![r] = {q \in Requests : link[q] # "none"}]
         \/ /\ step[r] = "commit" /\ step'[r] \in Final /\ UNCHANGED <<live, earlier>>
            /\ link' = [q \in Requests |-> IF q = r THEN "live"
                                           ELSE IF q \in live[r] THEN "consumed" ELSE link[q]]
         \/ /\ step'[r] # "commit" /\ link' = link /\ earlier' = earlier
            /\ \E q \in Requests : link[q] # "none" /\ live' = [live EXCEPT ![r] = {q}]
         \/ /\ step'[r] = "ok" /\ UNCHANGED <<live, earlier>>
            /\ link' = [q \in Requests |-> IF q \in live[r] THEN "consumed" ELSE link[q]]
<1> USE DEF AccountTypes, Goto, Start, Final, linkVars
<1>1. CASE Signup(r) \/ provisionAccount(r) \/ Resend(r) \/ IssueFails(r)
           \/ (\E t \in Trials : ClaimTrial(r, t)) \/ LinkTrial(r) \/ Checkout(r) \/ StoreCustomer(r) \/ Abandon(r)
  BY <1>1 DEF Signup, provisionAccount, Resend, IssueFails, ClaimTrial, LinkTrial, Checkout,
     StoreCustomer, Abandon
<1>2. CASE IssueReads(r)
  BY <1>2 DEF IssueReads
<1>3. CASE IssueCommits(r)
  <2>1. step'[r] \in {"ok", "failed"}
    BY <1>3 DEF IssueCommits
  <2>2. /\ step[r] = "commit" /\ UNCHANGED <<live, earlier>>
        /\ link' = [q \in Requests |-> IF q = r THEN "live"
                                       ELSE IF q \in live[r] THEN "consumed" ELSE link[q]]
    BY <1>3 DEF IssueCommits
  <2> QED
    BY <2>1, <2>2
<1>4. CASE VerifyCommits(r)
  BY <1>4 DEF VerifyCommits
<1>5. CASE \E q \in Requests : VerifyReads(r, q)
  <2>1. PICK q \in Requests : VerifyReads(r, q)
    BY <1>5
  <2>2. step'[r] \in {"consume", "refused"}
    BY <2>1 DEF VerifyReads
  <2>3. link[q] # "none" /\ link' = link /\ earlier' = earlier /\ live' = [live EXCEPT ![r] = {q}]
    BY <2>1 DEF VerifyReads
  <2> QED
    BY <2>2, <2>3
<1> QED
  BY <1>1, <1>2, <1>3, <1>4, <1>5 DEF Serves

LEMMA LinksServed ==
  ASSUME AccountTypes, \A q \in Requests : Placed(q), LinksKnown, LiveLinksOverlapped,
         NEW r \in Requests, Serves(r)
  PROVE  LinksKnown' /\ LiveLinksOverlapped'
<1>1. /\ step[r] \notin Final /\ link[r] = "none"
      /\ \A q \in Requests : q # r => step'[q] = step[q]
  BY ServedAlone DEF LinksKnown, Final, AccountTypes
<1> USE DEF AccountTypes, LinksKnown, LiveLinksOverlapped, Final
<1>2. CASE UNCHANGED <<link, live, earlier>> /\ step'[r] # "commit"
  BY <1>1, <1>2
<1>3. CASE /\ step'[r] = "commit" /\ link' = link
           /\ live' = [live EXCEPT ![r] = {q \in Requests : link[q] = "live"}]
           /\ earlier' = [earlier EXCEPT ![r] = {q \in Requests : link[q] # "none"}]
  BY <1>1, <1>3
<1>4. CASE /\ step[r] = "commit" /\ step'[r] \in Final /\ UNCHANGED <<live, earlier>>
           /\ link' = [q \in Requests |-> IF q = r THEN "live"
                                          ELSE IF q \in live[r] THEN "consumed" ELSE link[q]]
  <2>1. \A q \in Requests : /\ link'[q] # "none" => link[q] # "none" \/ q = r
                            /\ link[q] # "none" => link'[q] # "none"
                            /\ link'[q] = "live" => q = r \/ (link[q] = "live" /\ q \notin live[r])
    BY <1>4
  <2>2. \A q \in Requests : r \notin earlier[q]
    BY <1>1
  <2> QED
    BY <1>1, <1>4, <2>1, <2>2
<1>5. CASE /\ step'[r] # "commit" /\ link' = link /\ earlier' = earlier
           /\ \E q \in Requests : link[q] # "none" /\ live' = [live EXCEPT ![r] = {q}]
  BY <1>1, <1>5
<1>6. CASE /\ step'[r] = "ok" /\ UNCHANGED <<live, earlier>>
           /\ link' = [q \in Requests |-> IF q \in live[r] THEN "consumed" ELSE link[q]]
  <2>1. \A q \in Requests : /\ link'[q] # "none" => link[q] # "none"
                            /\ link[q] # "none" => link'[q] # "none"
                            /\ link'[q] = "live" => link[q] = "live"
    BY <1>6
  <2> QED
    BY <1>1, <1>6, <2>1
<1> QED
  BY <1>2, <1>3, <1>4, <1>5, <1>6, ServedLinks

LEMMA LinksExpire ==
  ASSUME AccountsInv, NEW r \in Requests, LinkExpires(r)
  PROVE  AccountsInv'
<1>1. /\ UNCHANGED <<account, verified, customer, plan, event, kind, step, live, earlier, trial,
                     bought, slow, sent, overwritten, raced, calm>>
      /\ link' = [link EXCEPT ![r] = "expired"] /\ link[r] = "live"
  BY DEF LinkExpires, accountVars, orgVars, stripeVars, buyVars
<1>2. AccountTypes' /\ \A q \in Requests : Placed(q)'
  BY <1>1 DEF AccountsInv, AccountTypes, Placed
<1>3. \A q \in Requests : /\ link'[q] # "none" <=> link[q] # "none"
                          /\ link'[q] = "live" => link[q] = "live"
  BY <1>1 DEF AccountsInv, AccountTypes
<1>4. LinksKnown' /\ LiveLinksOverlapped'
  BY <1>1, <1>3 DEF AccountsInv, AccountTypes, LinksKnown, LiveLinksOverlapped
<1>5. /\ Provisioned' /\ CustomersAreFresh' /\ EventsInOrder'
      /\ NoRacers' /\ CustomersStay'
  BY <1>1 DEF AccountsInv, Provisioned, CustomersAreFresh, EventsInOrder, Linked, CustomerOf,
     NoRacers, CustomersStay
<1>6. CalmIsPassed' /\ PlanFits'
  BY <1>1 DEF AccountsInv, CalmIsPassed, PlanFits, Mine, Pending, CustomerOf, PlanOf
<1> QED
  BY <1>2, <1>4, <1>5, <1>6 DEF AccountsInv

-----------------------------------------------------------------------------
(* Customers *)

\* Whom the organisation is linked to is changed by the claim that made the account, and
\* by a checkout that has found nobody.
LEMMA ServedCustomer ==
  ASSUME AccountTypes, \A q \in Requests : Placed(q), NEW r \in Requests, Serves(r)
  PROVE  \/ /\ UNCHANGED <<customer, overwritten, raced, plan>>
            /\ step[r] = "link" => step'[r] = "failed"
            /\ step'[r] = "customer" => customer = Nobody
            /\ step'[r] = "link" => account = "absent"
            /\ kind'[r] = "claim" /\ step'[r] = "ok" => account # "absent"
            /\ kind'[r] = "checkout" => kind[r] = "checkout" \/ LoggedIn
            /\ kind'[r] = "checkout" /\ step'[r] = "ok" => customer # Nobody /\ bought'[r] = customer
         \/ /\ step[r] = "link" /\ step'[r] = "ok" /\ plan' = "starter"
            /\ Store(r, trial[r]) /\ bought' = bought /\ account' = account
         \/ /\ step[r] = "customer" /\ step'[r] = "ok" /\ bought'[r] = r
            /\ Store(r, r) /\ plan' = plan /\ account' = account
<1> USE DEF AccountTypes, Placed, Goto, Start, Final, orgVars, accountVars, buyVars
<1>1. CASE Signup(r)
  BY <1>1 DEF Signup
<1>2. CASE provisionAccount(r)
  BY <1>2 DEF provisionAccount
<1>3. CASE Resend(r)
  BY <1>3 DEF Resend
<1>4. CASE IssueReads(r) \/ IssueCommits(r) \/ IssueFails(r) \/ VerifyCommits(r)
  BY <1>4 DEF IssueReads, IssueCommits, IssueFails, VerifyCommits
<1>5. CASE \E t \in Trials : ClaimTrial(r, t)
  BY <1>5 DEF ClaimTrial
<1>6. CASE LinkTrial(r)
  BY <1>6 DEF LinkTrial
<1>7. CASE Checkout(r)
  BY <1>7 DEF Checkout
<1>8. CASE StoreCustomer(r)
  BY <1>8 DEF StoreCustomer
<1>9. CASE Abandon(r)
  BY <1>9 DEF Abandon
<1>10. CASE \E q \in Requests : VerifyReads(r, q)
  BY <1>10 DEF VerifyReads
<1> QED
  BY <1>1, <1>2, <1>3, <1>4, <1>5, <1>6, <1>7, <1>8, <1>9, <1>10 DEF Serves

\* A step that stores no customer, one that links a trial's, one that links a checkout's.
StoresNothing(r) ==
  /\ UNCHANGED <<customer, overwritten, raced, plan>> /\ Linked' = Linked
  /\ step[r] = "link" => step'[r] = "failed"
  /\ step'[r] = "customer" => customer = Nobody
  /\ step'[r] = "link" => account = "absent"
  /\ kind'[r] = "claim" /\ step'[r] = "ok" => account # "absent"
  /\ kind'[r] = "checkout" => account # "absent"
  /\ kind'[r] = "checkout" /\ step'[r] = "ok" => bought'[r] \in Linked
LinksNew(r, c) ==
  /\ step'[r] = "ok" /\ account' = account /\ Store(r, c)
  /\ c \notin Linked /\ Linked' = Linked \cup {c} /\ c \notin overwritten'
StoresTrial(r) ==
  step[r] = "link" /\ trial[r] \in Trials /\ bought' = bought /\ LinksNew(r, trial[r])
StoresOwn(r) ==
  step[r] = "customer" /\ bought'[r] = r /\ plan' = plan /\ LinksNew(r, r)

\* Nobody whom the organisation was ever linked to is linked again.
LEMMA ServedLinked ==
  ASSUME AccountTypes, \A q \in Requests : Placed(q), Provisioned, CustomersAreFresh,
         NEW r \in Requests, Serves(r)
  PROVE  StoresNothing(r) \/ StoresTrial(r) \/ StoresOwn(r)
<1>1. Trials \cap Requests = {} /\ Nobody \notin Trials \cup Requests /\ Nobody \notin overwritten
  BY AccountsAssumption DEF AccountTypes, Customers
<1>2. r \notin Linked /\ (step[r] = "link" => trial[r] \in Trials /\ trial[r] \notin Linked)
  BY ServedAlone DEF CustomersAreFresh, Provisioned, Final, Placed
<1>3. LoggedIn => account # "absent"
  BY DEF LoggedIn, Provisioned
<1>4. kind[r] = "checkout" => account # "absent"
  BY DEF Provisioned
<1> QED
  BY <1>1, <1>2, <1>3, <1>4, ServedCustomer
     DEF Linked, Store, StoresNothing, StoresTrial, StoresOwn, LinksNew

LEMMA CustomersServed ==
  ASSUME AccountTypes, \A q \in Requests : Placed(q), Provisioned, CustomersAreFresh,
         NEW r \in Requests, Serves(r)
  PROVE  Provisioned' /\ CustomersAreFresh'
<1>1. /\ step[r] \notin {"ok", "refused", "failed"}
      /\ \A q \in Requests : q # r => /\ step'[q] = step[q] /\ kind'[q] = kind[q]
                                      /\ bought'[q] = bought[q] /\ trial'[q] = trial[q]
      /\ step[r] # "idle" => kind'[r] = kind[r] /\ trial'[r] = trial[r]
  BY ServedAlone DEF Final
<1>2. /\ Trials \cap Requests = {} /\ {"absent", "signup"} \cap Requests = {}
      /\ customer \notin overwritten /\ r \notin Linked
  BY <1>1, AccountsAssumption DEF CustomersAreFresh
<1>3. CASE StoresNothing(r)
  <2>1. CustomersAreFresh'
    BY <1>1, <1>2, <1>3 DEF CustomersAreFresh, StoresNothing
  <2>2. CASE account' = account
    <3>1. account = r => step[r] # "idle" /\ step'[r] # "ok"
      BY <1>1, <1>3, <2>2 DEF Provisioned, Placed, StoresNothing
    <3>2. account' \in Requests => /\ kind'[account'] = "claim"
                                   /\ step'[account'] \in {"link", "failed", "ok"}
      <4>1. CASE account = r
        <5>1. step[r] = "link" /\ kind[r] = "claim"
          BY <1>1, <4>1 DEF Provisioned
        <5> QED
          BY <1>1, <1>3, <2>2, <4>1, <5>1 DEF StoresNothing
      <4>2. CASE account # r
        BY <1>1, <2>2, <4>2 DEF Provisioned
      <4> QED
        BY <4>1, <4>2
    <3>3. ASSUME NEW t \in Trials
          PROVE  t \in Linked' <=> account' \in Requests /\ step'[account'] = "ok" /\ trial'[account'] = t
      <4>1. t \in Linked <=> account \in Requests /\ step[account] = "ok" /\ trial[account] = t
        BY <3>3 DEF Provisioned
      <4>2. account \in Requests => \/ step'[account] # "ok" /\ step[account] # "ok"
                                    \/ step'[account] = step[account] /\ trial'[account] = trial[account]
        BY <1>1, <2>2, <3>1
      <4> QED
        BY <1>3, <2>2, <4>1, <4>2 DEF StoresNothing
    <3>4. ASSUME NEW q \in Requests, (kind'[q] = "claim" /\ step'[q] = "ok") \/ kind'[q] = "checkout"
          PROVE  account' # "absent"
      <4>1. CASE q = r
        BY <1>3, <2>2, <3>4, <4>1 DEF StoresNothing
      <4>2. CASE q # r
        BY <1>1, <2>2, <3>4, <4>2 DEF Provisioned
      <4> QED
        BY <4>1, <4>2
    <3> QED
      BY <2>1, <3>2, <3>3, <3>4 DEF Provisioned
  <2>3. CASE account = "absent" /\ account' \in {"signup", r} /\ (account' = r =>
               kind[r] = "claim" /\ step[r] = "provision" /\ step'[r] = "link")
    <3>1. \A t \in Trials : t \notin Linked
      BY <1>2, <2>3 DEF Provisioned
    <3>2. account' # "absent"
      BY <1>2, <2>3
    <3>3. account' \in Requests =>
            account' = r /\ kind'[r] = "claim" /\ step'[r] = "link"
      BY <1>1, <1>2, <2>3
    <3>4. Linked' = Linked
      BY <1>3 DEF StoresNothing
    <3>5. \A t \in Trials :
            ~ (account' \in Requests /\ step'[account'] = "ok" /\ trial'[account'] = t)
      BY <3>3
    <3> QED
      BY <2>1, <2>3, <3>1, <3>2, <3>3, <3>4, <3>5 DEF Provisioned
  <2> QED
    BY <1>2, <2>1, <2>2, <2>3, ServedAccount
<1>4. CASE StoresTrial(r)
  <2>1. account = r /\ kind[r] = "claim" /\ kind'[r] = "claim" /\ account' = r
    BY <1>1, <1>4 DEF Placed, StoresTrial, LinksNew
  <2>2. Provisioned'
    BY <1>1, <1>2, <1>4, <2>1 DEF Provisioned, StoresTrial, LinksNew
  <2>3. CustomersAreFresh'
    BY <1>1, <1>2, <1>4, <2>1 DEF CustomersAreFresh, StoresTrial, LinksNew, Store
  <2> QED
    BY <2>2, <2>3
<1>5. CASE StoresOwn(r)
  <2>1. kind[r] = "checkout" /\ kind'[r] = "checkout" /\ account # r
    BY <1>1, <1>5 DEF Placed, Provisioned, StoresOwn
  <2>2. Provisioned'
    BY <1>1, <1>2, <1>5, <2>1 DEF Provisioned, StoresOwn, LinksNew
  <2>3. CustomersAreFresh'
    BY <1>1, <1>2, <1>5, <2>1 DEF CustomersAreFresh, StoresOwn, LinksNew, Store
  <2> QED
    BY <2>2, <2>3
<1> QED
  BY <1>3, <1>4, <1>5, ServedLinked

\* Who stores a customer over another was under way when that one was stored.
LEMMA RacersServed ==
  ASSUME AccountTypes, \A q \in Requests : Placed(q), Provisioned, CustomersAreFresh,
         NoRacers, CustomersStay, NEW r \in Requests, Serves(r)
  PROVE  NoRacers' /\ CustomersStay'
<1>1. /\ \A q \in Requests : q # r => step'[q] = step[q]
      /\ Nobody \notin Trials \cup Requests /\ "absent" \notin Requests
  BY ServedAlone, AccountsAssumption DEF Customers
<1>2. account = "absent" => customer = Nobody
  BY DEF NoRacers
<1>3. CASE StoresNothing(r)
  <2>1. step'[r] = "link" => customer = Nobody
    BY <1>2, <1>3 DEF StoresNothing
  <2>2. account' # "absent" \/ account = "absent"
    BY <1>1, ServedAccount
  <2> QED
    BY <1>1, <1>2, <1>3, <2>1, <2>2 DEF NoRacers, CustomersStay, StoresNothing
<1>4. ASSUME NEW c \in Customers, Store(r, c), step[r] \in {"link", "customer"}, step'[r] = "ok",
             account' = account, account # "absent"
      PROVE  NoRacers' /\ CustomersStay'
  <2>1. customer # Nobody => customer \in raced
    BY <1>4 DEF NoRacers
  <2>2. CASE \E q \in Requests \ {r} : step[q] \in {"link", "customer"}
    BY <1>1, <1>4, <2>1, <2>2 DEF NoRacers, CustomersStay, Store
  <2>3. CASE ~ \E q \in Requests \ {r} : step[q] \in {"link", "customer"}
    BY <1>1, <1>4, <2>1, <2>3 DEF NoRacers, CustomersStay, Store
  <2> QED
    BY <2>2, <2>3
<1>5. CASE StoresTrial(r)
  <2>1. account # "absent"
    BY <1>1, <1>5 DEF Placed, StoresTrial
  <2> QED
    BY <1>4, <1>5, <2>1 DEF StoresTrial, LinksNew, Customers
<1>6. CASE StoresOwn(r)
  <2>1. account # "absent"
    BY <1>6 DEF Placed, Provisioned, StoresOwn
  <2> QED
    BY <1>4, <1>6, <2>1 DEF StoresOwn, LinksNew, Customers
<1> QED
  BY <1>3, <1>5, <1>6, ServedLinked

-----------------------------------------------------------------------------
(* Events, while requests are served *)

\* What Stripe has sent an event for does not change any more.
LEMMA ServedSales ==
  ASSUME AccountTypes, \A q \in Requests : Placed(q), EventsInOrder, NEW r \in Requests, Serves(r)
  PROVE  /\ event[r] = "unsent"
         /\ \A e \in SubEvents : event[e] # "unsent" => CustomerOf(e)' = CustomerOf(e)
<1>1. event[r] = "unsent"
  BY ServedAlone DEF EventsInOrder, Final
<1>2. \A e \in SubEvents : event[e] # "unsent" => e # r
  BY <1>1
<1> QED
  BY <1>1, <1>2, ServedAlone DEF CustomerOf

LEMMA EventsServed ==
  ASSUME AccountTypes, \A q \in Requests : Placed(q), Provisioned, CustomersAreFresh,
         EventsInOrder, CalmIsPassed, PlanFits, NEW r \in Requests, Serves(r)
  PROVE  EventsInOrder' /\ CalmIsPassed' /\ PlanFits'
<1>1. /\ UNCHANGED <<event, slow, sent, calm>>
      /\ step[r] # "ok"
      /\ \A q \in Requests : q # r => step'[q] = step[q] /\ kind'[q] = kind[q]
  BY ServedAlone DEF Final
<1>2. /\ event[r] = "unsent"
      /\ \A e \in SubEvents : event[e] # "unsent" => CustomerOf(e)' = CustomerOf(e)
  BY ServedSales
<1>3. \A i \in 1..Len(sent) :
        sent[i] \in SubEvents /\ event[sent[i]] # "unsent" /\ CustomerOf(sent[i])' = CustomerOf(sent[i])
  <2>1. \A i \in 1..Len(sent) : sent[i] \in SubEvents
    BY DEF AccountTypes
  <2>2. \A i \in 1..Len(sent) : event[sent[i]] # "unsent"
    BY <2>1 DEF EventsInOrder
  <2> QED
    BY <1>1, <1>2, <2>1, <2>2 DEF CustomerOf
<1>4. /\ Linked \subseteq Linked'
      /\ (customer' = customer /\ plan' = plan) \/ customer' \notin Linked
  BY ServedLinked DEF StoresNothing, StoresTrial, StoresOwn, LinksNew, Store
<1>5. EventsInOrder'
  BY <1>1, <1>2, <1>4 DEF EventsInOrder, AccountTypes
<1>6. \A e \in calm : event[e] = "done" /\ CustomerOf(e) \in Linked
  BY DEF EventsInOrder, AccountTypes
<1>7. CASE customer' = customer /\ plan' = plan
  <2>1. CalmIsPassed'
    BY <1>1, <1>2, <1>3, <1>7 DEF CalmIsPassed, EventsInOrder, Pending, AccountTypes
  <2>2. PlanFits'
    BY <1>1, <1>3, <1>7 DEF PlanFits, Mine, PlanOf
  <2> QED
    BY <1>5, <2>1, <2>2
<1>8. CASE customer' \notin Linked
  <2>1. \A i \in 1..Len(sent) : sent[i] \in calm => CustomerOf(sent[i])' # customer'
    BY <1>3, <1>6, <1>8
  <2>2. CalmIsPassed'
    BY <1>1, <2>1 DEF CalmIsPassed, Pending
  <2>3. PlanFits'
    BY <1>1, <2>1 DEF PlanFits, Mine
  <2> QED
    BY <1>5, <2>2, <2>3
<1> QED
  BY <1>4, <1>7, <1>8

LEMMA ServedKeeps ==
  ASSUME AccountsInv, NEW r \in Requests, Serves(r)
  PROVE  AccountsInv'
<1>1. /\ AccountTypes /\ \A q \in Requests : Placed(q)
      /\ LinksKnown /\ LiveLinksOverlapped
      /\ Provisioned /\ CustomersAreFresh /\ NoRacers /\ CustomersStay
      /\ EventsInOrder /\ CalmIsPassed /\ PlanFits
  BY DEF AccountsInv
<1> QED
  BY <1>1, ServedTypes, ServedInPlace, LinksServed, CustomersServed, RacersServed,
     EventsServed DEF AccountsInv

-----------------------------------------------------------------------------
(* Events, while they are sent and drained *)

\* What Stripe and the drains leave alone.
Requesters == <<account, verified, customer, kind, step, trial, bought, overwritten, raced, link,
                live, earlier>>

LEMMA DrainedAlone ==
  ASSUME NEW e \in SubEvents, Handles(e)
  PROVE  UNCHANGED Requesters
BY DEF Handles, Requesters, StripeSends, Bind, ApplyEvent, ApplyAgain, ApplyFails, TakeOver, ApplyLate, accountVars,
   orgVars, linkVars, buyVars

LEMMA DrainedTypes ==
  ASSUME AccountTypes, NEW e \in SubEvents, Handles(e)
  PROVE  AccountTypes'
<1>1. UNCHANGED Requesters
  BY DrainedAlone
<1>2. event' \in [SubEvents -> {"unsent", "queued", "bound", "done", "dropped"}]
  <2>1. event' = event \/ \E v \in {"unsent", "queued", "bound", "done", "dropped"} :
                            event' = [event EXCEPT ![e] = v]
    BY DEF Handles, StripeSends, Bind, ApplyEvent, ApplyAgain, ApplyFails, TakeOver, ApplyLate
  <2> QED
    BY <2>1 DEF AccountTypes
<1>3. plan' \in {"free", "starter", "professional"}
  <2>1. plan' = plan \/ plan' = PlanOf(e)
    BY DEF Handles, StripeSends, Bind, ApplyEvent, ApplyAgain, ApplyFails, TakeOver, ApplyLate, orgVars
  <2>2. PlanOf(e) \in {"free", "starter", "professional"}
    BY DEF PlanOf
  <2> QED
    BY <2>1, <2>2 DEF AccountTypes
<1>4. slow' \subseteq SubEvents /\ calm' \subseteq SubEvents
  <2>1. (slow' = slow \/ slow' = slow \cup {e} \/ slow' = slow \ {e})
        /\ (calm' = calm \/ calm' = calm \cup {e})
    BY DEF Handles, StripeSends, Bind, ApplyEvent, ApplyAgain, ApplyFails, TakeOver, ApplyLate
  <2> QED
    BY <2>1 DEF AccountTypes
<1>5. sent' \in Seq(SubEvents)
  <2>1. sent' = sent \/ sent' = Append(sent, e)
    BY DEF Handles, StripeSends, Bind, ApplyEvent, ApplyAgain, ApplyFails, TakeOver, ApplyLate
  <2>2. sent \in Seq(SubEvents)
    BY DEF AccountTypes
  <2>3. Append(sent, e) \in Seq(SubEvents)
    BY <2>2
  <2> QED
    BY <2>1, <2>2, <2>3
<1> QED
  BY <1>1, <1>2, <1>3, <1>4, <1>5 DEF AccountTypes, Requesters

LEMMA SentEvents ==
  ASSUME AccountTypes, EventsInOrder
  PROVE  /\ Len(sent) \in Nat
         /\ \A i \in 1..Len(sent) : sent[i] \in SubEvents /\ event[sent[i]] # "unsent"
<1>1. Len(sent) \in Nat /\ \A i \in 1..Len(sent) : sent[i] \in SubEvents
  BY DEF AccountTypes
<1> QED
  BY <1>1 DEF EventsInOrder

LEMMA SendKeeps ==
  ASSUME AccountTypes, EventsInOrder, CalmIsPassed, PlanFits, NEW e \in SubEvents, StripeSends(e)
  PROVE  EventsInOrder' /\ CalmIsPassed' /\ PlanFits'
<1>1. /\ event[e] = "unsent" /\ event' = [event EXCEPT ![e] = "queued"] /\ sent' = Append(sent, e)
      /\ UNCHANGED <<slow, calm, plan>> /\ UNCHANGED Requesters
      /\ e \in Requests => kind[e] = "checkout" /\ step[e] = "ok"
  BY AccountsAssumption, DrainedAlone DEF StripeSends, Customers, Ended, orgVars, Handles
<1>2. /\ \A d \in SubEvents : CustomerOf(d)' = CustomerOf(d)
      /\ Linked' = Linked /\ customer' = customer
  BY <1>1 DEF CustomerOf, Linked, Requesters
<1>3. /\ Len(sent) \in Nat /\ Len(sent') = Len(sent) + 1
      /\ \A i \in 1..Len(sent) : /\ sent'[i] = sent[i] /\ sent[i] \in SubEvents /\ sent[i] # e
                                 /\ event[sent[i]] # "unsent"
      /\ sent'[Len(sent) + 1] = e
  BY <1>1, SentEvents DEF AccountTypes
<1>4. /\ \A d \in SubEvents : d # e => event'[d] = event[d]
      /\ event'[e] = "queued" /\ e \notin slow /\ e \notin calm
  BY <1>1 DEF AccountTypes, EventsInOrder
<1>5. EventsInOrder'
  <2>1. \A d \in SubEvents : event'[d] # "unsent" <=> \E i \in 1..Len(sent') : sent'[i] = d
    BY <1>3, <1>4 DEF EventsInOrder
  <2>2. \A i, j \in 1..Len(sent') : sent'[i] = sent'[j] => i = j
    BY <1>3 DEF EventsInOrder
  <2>3. \A r \in Requests : event'[r] # "unsent" => kind[r] = "checkout" /\ step[r] = "ok"
    BY <1>1, <1>4 DEF EventsInOrder, SubEvents, Customers
  <2>4. \A d \in SubEvents : event'[d] \in {"bound", "done"} \/ d \in slow => CustomerOf(d) \in Linked
    BY <1>4 DEF EventsInOrder
  <2>5. /\ \A d \in slow : event'[d] # "unsent"
        /\ \A d \in calm : event'[d] = "done"
    BY <1>4 DEF EventsInOrder, AccountTypes
  <2> QED
    BY <1>1, <1>2, <2>1, <2>2, <2>3, <2>4, <2>5 DEF EventsInOrder, Requesters
<1>6. CalmIsPassed'
  <2> SUFFICES ASSUME NEW i \in 1..Len(sent'), sent'[i] \in calm
               PROVE  /\ \A j \in 1..Len(sent') : sent'[j] \in Pending' => i < j
                      /\ CustomerOf(sent[i])' = customer =>
                           \A d \in SubEvents : event'[d] = "bound" \/ d \in slow =>
                             CustomerOf(d)' = customer
    BY <1>1, <1>2 DEF CalmIsPassed
  <2>1. i \in 1..Len(sent) /\ sent'[i] = sent[i]
    BY <1>3, <1>4
  <2>2. \A d \in SubEvents : d # e => (d \in Pending' <=> d \in Pending)
    BY <1>1, <1>4 DEF Pending
  <2>3. \A j \in 1..Len(sent') : sent'[j] \in Pending' => i < j
    BY <1>3, <2>1, <2>2 DEF CalmIsPassed
  <2> QED
    BY <1>2, <1>3, <1>4, <2>1, <2>3 DEF CalmIsPassed
<1>7. PlanFits'
  <2> SUFFICES ASSUME NEW i \in 1..Len(sent'), Mine(i)',
                      \A j \in 1..Len(sent') : Mine(j)' => j <= i, sent'[i] \in calm
               PROVE  plan = PlanOf(sent'[i])
    BY <1>1 DEF PlanFits, PlanOf
  <2>1. i \in 1..Len(sent) /\ sent'[i] = sent[i]
    BY <1>3, <1>4
  <2>2. \A j \in 1..Len(sent) : j \in 1..Len(sent') /\ (Mine(j) <=> Mine(j)')
    BY <1>2, <1>3 DEF Mine
  <2> QED
    BY <2>1, <2>2 DEF PlanFits
<1> QED
  BY <1>5, <1>6, <1>7

\* The drains: what a step of one does to its event.
LEMMA DrainFrame ==
  ASSUME AccountTypes, NEW e \in SubEvents, Handles(e), sent' = sent
  PROVE  /\ UNCHANGED Requesters
         /\ \A d \in SubEvents : CustomerOf(d)' = CustomerOf(d)
         /\ \A i \in 1..Len(sent) : sent[i] \in SubEvents /\ CustomerOf(sent[i])' = CustomerOf(sent[i])
         /\ Linked' = Linked /\ customer' = customer
<1>1. UNCHANGED Requesters
  BY DrainedAlone
<1>2. \A i \in 1..Len(sent) : sent[i] \in SubEvents
  BY DEF AccountTypes
<1> QED
  BY <1>1, <1>2 DEF CustomerOf, Linked, Requesters

\* A step that applies nothing, and binds an event only to the customer linked now.
LEMMA BindKeeps ==
  ASSUME AccountTypes, CustomersAreFresh, EventsInOrder, CalmIsPassed, PlanFits,
         NEW e \in SubEvents, Bind(e) \/ ApplyFails(e) \/ TakeOver(e)
  PROVE  EventsInOrder' /\ CalmIsPassed' /\ PlanFits'
<1>1. /\ event[e] \in {"queued", "bound"} /\ UNCHANGED <<sent, calm, plan>>
      /\ \A d \in SubEvents : d # e => event'[d] = event[d]
      /\ event'[e] \in {"queued", "bound", "dropped"}
      /\ event'[e] = "bound" => CustomerOf(e) = customer
      /\ slow \subseteq slow' /\ (\A d \in slow' : d \in slow \/ (d = e /\ event[e] = "bound"))
  BY DEF Bind, ApplyFails, TakeOver, AccountTypes, orgVars
<1>2. /\ UNCHANGED Requesters
      /\ \A d \in SubEvents : CustomerOf(d)' = CustomerOf(d)
      /\ \A i \in 1..Len(sent) : sent[i] \in SubEvents /\ CustomerOf(sent[i])' = CustomerOf(sent[i])
      /\ Linked' = Linked /\ customer' = customer
  BY <1>1, DrainFrame DEF Handles
<1>3. CustomerOf(e) = customer => customer \in Linked
  <2>1. CASE e \in Requests
    BY <1>1, <2>1 DEF CustomerOf, EventsInOrder, CustomersAreFresh
  <2>2. CASE e \notin Requests
    <3>1. CustomerOf(e) \in Trials
      BY <2>2 DEF CustomerOf, SubEvents, Customers, Ended
    <3> QED
      BY <3>1, AccountsAssumption DEF Linked, Customers
  <2> QED
    BY <2>1, <2>2
<1>4. EventsInOrder'
  <2>1. \A d \in SubEvents : event'[d] # "unsent" <=> event[d] # "unsent"
    BY <1>1
  <2>2. \A d \in SubEvents : event'[d] \in {"bound", "done"} \/ d \in slow' => CustomerOf(d) \in Linked
    BY <1>1, <1>3 DEF EventsInOrder
  <2>3. slow' \subseteq SubEvents /\ calm \subseteq SubEvents /\ e \notin calm
    BY <1>1 DEF AccountTypes, EventsInOrder
  <2>4. \A r \in Requests : event'[r] # "unsent" => event[r] # "unsent"
    BY <2>1 DEF SubEvents, Customers
  <2> QED
    BY <1>1, <1>2, <2>1, <2>2, <2>3, <2>4 DEF EventsInOrder, Requesters
<1>5. \A d \in SubEvents : d \in Pending' => d \in Pending
  BY <1>1 DEF Pending
<1>6. CalmIsPassed'
  <2> SUFFICES ASSUME NEW i \in 1..Len(sent), sent[i] \in calm
               PROVE  /\ \A j \in 1..Len(sent) : sent[j] \in Pending' => i < j
                      /\ CustomerOf(sent[i]) = customer =>
                           \A d \in SubEvents : event'[d] = "bound" \/ d \in slow' =>
                             CustomerOf(d) = customer
    BY <1>1, <1>2 DEF CalmIsPassed
  <2>1. \A j \in 1..Len(sent) : sent[j] \in Pending' => i < j
    BY <1>2, <1>5 DEF CalmIsPassed
  <2> QED
    BY <1>1, <2>1 DEF CalmIsPassed
<1>7. PlanFits'
  <2>1. \A i : Mine(i)' <=> Mine(i)
    BY <1>1, <1>2 DEF Mine
  <2> QED
    BY <1>1, <2>1 DEF PlanFits, PlanOf
<1> QED
  BY <1>4, <1>6, <1>7

\* An event that is applied, at last or late.
LEMMA ApplyKeeps ==
  ASSUME AccountTypes, CustomersAreFresh, EventsInOrder, CalmIsPassed, PlanFits,
         NEW e \in SubEvents, ApplyEvent(e) \/ ApplyAgain(e) \/ ApplyLate(e)
  PROVE  EventsInOrder' /\ CalmIsPassed' /\ PlanFits'
<1>1. /\ e \in slow \/ event[e] = "bound"
      /\ \A d \in SubEvents : \/ event'[d] = event[d]
                              \/ d = e /\ event[d] = "bound" /\ event'[d] \in {"queued", "done"}
      /\ event'[e] = "bound" => e \in slow
      /\ sent' = sent /\ plan' = PlanOf(e) /\ slow' \subseteq slow
      /\ \/ calm' = calm
         \/ Pending = {e} /\ slow = {} /\ event'[e] = "done" /\ calm' = calm \cup {e}
  BY DEF ApplyEvent, ApplyAgain, ApplyLate, AccountTypes
<1>2. /\ UNCHANGED Requesters
      /\ \A d \in SubEvents : CustomerOf(d)' = CustomerOf(d)
      /\ \A i \in 1..Len(sent) : sent[i] \in SubEvents /\ CustomerOf(sent[i])' = CustomerOf(sent[i])
      /\ Linked' = Linked /\ customer' = customer
  BY <1>1, DrainFrame DEF Handles
<1>3. /\ e \in Pending /\ CustomerOf(e) \in Linked /\ event[e] # "unsent"
      /\ \A d \in SubEvents : d \in Pending' => d \in Pending /\ (d = e => d \in slow \/ event'[e] = "queued")
  BY <1>1 DEF Pending, EventsInOrder
<1>4. EventsInOrder'
  <2>1. \A d \in SubEvents : event'[d] # "unsent" <=> event[d] # "unsent"
    BY <1>1
  <2>2. \A d \in SubEvents : event'[d] \in {"bound", "done"} \/ d \in slow' => CustomerOf(d) \in Linked
    BY <1>1 DEF EventsInOrder
  <2>3. slow' \subseteq SubEvents /\ calm \subseteq SubEvents
    BY <1>1 DEF AccountTypes
  <2>4. \A r \in Requests : event'[r] # "unsent" => event[r] # "unsent"
    BY <2>1 DEF SubEvents, Customers
  <2>5. \A d \in calm' : event'[d] = "done"
    BY <1>1, <2>3 DEF EventsInOrder
  <2> QED
    BY <1>1, <1>2, <2>1, <2>2, <2>3, <2>4, <2>5 DEF EventsInOrder, Requesters
<1>5. CalmIsPassed'
  <2> SUFFICES ASSUME NEW i \in 1..Len(sent), sent[i] \in calm'
               PROVE  /\ \A j \in 1..Len(sent) : sent[j] \in Pending' => i < j
                      /\ CustomerOf(sent[i]) = customer =>
                           \A d \in SubEvents : event'[d] = "bound" \/ d \in slow' =>
                             CustomerOf(d) = customer
    BY <1>1, <1>2 DEF CalmIsPassed
  <2>1. CASE sent[i] \in calm
    <3>1. \A j \in 1..Len(sent) : sent[j] \in Pending' => i < j
      BY <1>2, <1>3, <2>1 DEF CalmIsPassed
    <3> QED
      BY <1>1, <2>1, <3>1 DEF CalmIsPassed
  <2>2. CASE Pending = {e} /\ slow = {} /\ event'[e] = "done"
    <3>1. \A d \in SubEvents : d \notin Pending'
      BY <1>3, <2>2
    <3>2. \A d \in SubEvents : event'[d] # "bound" /\ d \notin slow'
      BY <3>1 DEF Pending
    <3> QED
      BY <1>2, <3>1, <3>2
  <2> QED
    BY <1>1, <2>1, <2>2
<1>6. PlanFits'
  <2> SUFFICES ASSUME NEW i \in 1..Len(sent), Mine(i),
                      \A j \in 1..Len(sent) : Mine(j) => j <= i, sent[i] \in calm'
               PROVE  PlanOf(e) = PlanOf(sent[i])
    <3>1. \A j : Mine(j)' <=> Mine(j)
      BY <1>1, <1>2 DEF Mine
    <3> QED
      BY <1>1, <3>1 DEF PlanFits, PlanOf
  <2>1. CASE sent[i] \in calm
    <3>1. PICK j \in 1..Len(sent) : sent[j] = e
      BY <1>3 DEF EventsInOrder
    <3>2. i < j
      BY <1>3, <2>1, <3>1 DEF CalmIsPassed
    <3>3. Mine(j)
      BY <1>1, <2>1, <3>1 DEF CalmIsPassed, Mine
    <3> QED
      BY <3>1, <3>2, <3>3
  <2>2. CASE sent[i] = e
    BY <2>2
  <2> QED
    BY <1>1, <2>1, <2>2
<1> QED
  BY <1>4, <1>5, <1>6

LEMMA DrainedKeeps ==
  ASSUME AccountsInv, NEW e \in SubEvents, Handles(e)
  PROVE  AccountsInv'
<1>1. /\ AccountTypes /\ \A q \in Requests : Placed(q)
      /\ LinksKnown /\ LiveLinksOverlapped
      /\ Provisioned /\ CustomersAreFresh /\ NoRacers /\ CustomersStay
      /\ EventsInOrder /\ CalmIsPassed /\ PlanFits
  BY DEF AccountsInv
<1>2. UNCHANGED Requesters
  BY DrainedAlone
<1>3. /\ \A q \in Requests : Placed(q)'
      /\ LinksKnown' /\ LiveLinksOverlapped' /\ Provisioned' /\ CustomersAreFresh'
      /\ NoRacers' /\ CustomersStay'
  BY <1>1, <1>2 DEF Requesters, Placed, LinksKnown, LiveLinksOverlapped, Provisioned,
     CustomersAreFresh, Linked, NoRacers, CustomersStay
<1> QED
  BY <1>1, <1>3, DrainedTypes, SendKeeps, BindKeeps, ApplyKeeps DEF AccountsInv, Handles

-----------------------------------------------------------------------------
(* The theorems *)

LEMMA AccountsStart == Init => AccountsInv
<1> SUFFICES ASSUME Init PROVE AccountsInv
  OBVIOUS
<1> USE AccountsAssumption DEF Init, Customers
<1>1. sent = <<>> /\ sent \in Seq(SubEvents) /\ Len(sent) = 0
  OBVIOUS
<1>2. AccountTypes
  BY <1>1 DEF AccountTypes, Final
<1>3. \A r \in Requests : Placed(r)
  BY DEF Placed
<1>4. LinksKnown /\ LiveLinksOverlapped
  BY DEF LinksKnown, LiveLinksOverlapped
<1>5. Linked = {}
  BY DEF Linked
<1>6. Provisioned /\ CustomersAreFresh /\ NoRacers /\ CustomersStay
  BY <1>5 DEF Provisioned, CustomersAreFresh, NoRacers, CustomersStay
<1>7. EventsInOrder /\ CalmIsPassed /\ PlanFits
  <2>1. \A e \in SubEvents : event[e] = "unsent"
    OBVIOUS
  <2>2. slow = {} /\ calm = {} /\ \A r \in Requests : kind[r] = "none"
    OBVIOUS
  <2>3. 1..Len(sent) = {}
    BY <1>1
  <2>4. EventsInOrder
    <3> HIDE DEF Init
    <3> QED
      BY <2>1, <2>2, <2>3 DEF EventsInOrder, SubEvents
  <2> HIDE DEF Init
  <2> QED
    BY <2>3, <2>4 DEF CalmIsPassed, PlanFits
<1> QED
  BY <1>2, <1>3, <1>4, <1>6, <1>7 DEF AccountsInv

LEMMA AccountsKept == AccountsInv /\ [Next]_vars => AccountsInv'
<1> SUFFICES ASSUME AccountsInv, [Next]_vars PROVE AccountsInv'
  OBVIOUS
<1>1. CASE UNCHANGED vars
  <2>1. UNCHANGED Requesters /\ UNCHANGED <<plan, event, slow, sent, calm>>
    BY <1>1 DEF vars, Requesters
  <2>2. AccountTypes' /\ \A q \in Requests : Placed(q)'
    BY <2>1 DEF AccountsInv, AccountTypes, Placed, Requesters
  <2>3. /\ LinksKnown' /\ LiveLinksOverlapped' /\ Provisioned' /\ CustomersAreFresh'
        /\ NoRacers' /\ CustomersStay'
    BY <2>1 DEF AccountsInv, Requesters, LinksKnown, LiveLinksOverlapped, Provisioned,
       CustomersAreFresh, Linked, NoRacers, CustomersStay
  <2>4. EventsInOrder' /\ CalmIsPassed' /\ PlanFits'
    BY <2>1 DEF AccountsInv, Requesters, EventsInOrder, CalmIsPassed, PlanFits, Mine, Pending,
       CustomerOf, PlanOf, Linked
  <2> QED
    BY <2>2, <2>3, <2>4 DEF AccountsInv
<1> QED
  BY <1>1, NextSteps, ServedKeeps, LinksExpire, DrainedKeeps

(* The account of an address, its links, its customers and its plan fit        *)
(* together, whatever EmailVerificationService, TrialCheckoutService and       *)
(* BillingService do side by side.                                             *)
THEOREM AccountsHold == Spec => []AccountsInv
<1> QED
  BY AccountsStart, AccountsKept, PTL DEF Spec

(* Every variable keeps its type, and a claim about to link its customer has   *)
(* provisioned the account: emailHash lets one transaction create it.          *)
THEOREM AccountsTypeCorrect == Spec => []TypeOK
<1>1. AccountsInv => TypeOK
  BY DEF AccountsInv, AccountTypes, Placed, TypeOK
<1> QED
  BY <1>1, AccountsHold, PTL

(* issueForUser: two verification links are alive together only if neither     *)
(* existed when the other's transaction looked for the links to invalidate.    *)
THEOREM LinksOverlap == Spec => []LiveLinksOverlapped
<1>1. AccountsInv => LiveLinksOverlapped
  BY DEF AccountsInv
<1> QED
  BY <1>1, AccountsHold, PTL

(* ensureCustomer and claimTrial: a stored customer is written over only by a  *)
(* request that was already about to store its own when that one was stored.   *)
THEOREM CustomersStand == Spec => []CustomersStay
<1>1. AccountsInv => CustomersStay
  BY DEF AccountsInv
<1> QED
  BY <1>1, AccountsHold, PTL

\* Positions in a sequence have a last one.
LEMMA LastPosition ==
  ASSUME NEW n \in Nat, NEW S \in SUBSET (1..n), S # {}
  PROVE  \E i \in S : \A j \in S : j <= i
<1> DEFINE T == {n - i : i \in S}
<1>1. T \subseteq Nat /\ T # {}
  <2>1. \A i \in S : i \in Int /\ n - i \in Nat
    OBVIOUS
  <2>2. PICK i \in S : TRUE
    OBVIOUS
  <2>3. n - i \in T
    BY <2>2
  <2> QED
    BY <2>1, <2>3
<1> DEFINE Less == {ss \in Nat \X Nat : ss[1] < ss[2]}
<1>2. IsWellFoundedOn(Less, Nat)
  BY NatLessThanWellFounded, Zenon DEF OpToRel
<1>3. PICK x \in T : \A y \in T : ~ (y < x)
  <2>1. \E x \in T : \A y \in T : ~ (<<y, x>> \in Less)
    <3> HIDE DEF T, Less
    <3> QED
      BY <1>1, <1>2, WFMin
  <2> QED
    BY <1>1, <2>1
<1>4. PICK i \in S : x = n - i
  BY <1>3
<1>5. \A j \in S : n - j \in T
  OBVIOUS
<1>6. \A j \in S : ~ (n - j < n - i)
  BY <1>3, <1>4, <1>5
<1>7. \A j \in S : j \in Int
  OBVIOUS
<1> HIDE DEF T
<1>8. \A j \in S : j <= i
  BY <1>6, <1>7
<1> QED
  BY <1>8

(* The plan follows the newest event of the linked customer, once that was     *)
(* applied with no other on its way, whatever was drained before it, dropped,  *)
(* overwritten or linked since.                                                *)
THEOREM PlanIsNewest == Spec => []PlanFollowsNewest
<1>1. AccountsInv => PlanFollowsNewest
  <2> SUFFICES ASSUME AccountsInv PROVE PlanFollowsNewest
    OBVIOUS
  <2> DEFINE mine == {i \in DOMAIN sent : CustomerOf(sent[i]) = customer}
             newest == CHOOSE i \in mine : \A j \in mine : j <= i
  <2> SUFFICES ASSUME mine # {}, sent[newest] \in calm PROVE plan = PlanOf(sent[newest])
    BY DEF PlanFollowsNewest
  <2>1. Len(sent) \in Nat /\ DOMAIN sent = 1..Len(sent)
    BY DEF AccountsInv, AccountTypes
  <2>2. mine \in SUBSET (1..Len(sent)) /\ \A i \in 1..Len(sent) : i \in mine <=> Mine(i)
    BY <2>1 DEF Mine
  <2>3. \E i \in mine : \A j \in mine : j <= i
    BY <2>1, <2>2, LastPosition
  <2>4. newest \in mine /\ \A j \in mine : j <= newest
    BY <2>3
  <2> HIDE DEF mine, newest
  <2>5. newest \in 1..Len(sent) /\ Mine(newest) /\ \A j \in 1..Len(sent) : Mine(j) => j <= newest
    BY <2>2, <2>4
  <2> QED
    BY <2>5 DEF AccountsInv, PlanFits
<1> QED
  BY <1>1, AccountsHold, PTL
==============================================================================
