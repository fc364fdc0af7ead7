-------------------------------- MODULE Quota --------------------------------
(***************************************************************************)
(* The per-period generation quota: QuotaGuard's reservation (quota.guard  *)
(* and quota.util), the release in DocumentsService / JobsService, the     *)
(* GenerationLog row that a successful generation leaves, the webhook's    *)
(* changes of plan and billing period, the passing of time, and the        *)
(* backfill script that seeds the counters from history.                   *)
(*                                                                         *)
(* One action per database statement, so that requests, webhooks, the      *)
(* clock and the backfill interleave between any two of them.  A statement *)
(* that reports an error has had no effect.                                *)
(***************************************************************************)
EXTENDS Integers, FiniteSets

CONSTANTS
  Requests,      \* HTTP requests to a quota-gated route, each served once
  Orgs,          \* organisations (tenants)
  Plans, free,   \* enum Plan, and the plan an organisation signs up with
  PLAN_LIMITS,   \* [Plans -> generations per period]
  PERIOD,        \* 30 days, in clock ticks
  History,       \* [Orgs -> GenerationLog rows older than the counter, at time 0]
  MaxTime,       \* bound: last tick of the clock
  MaxSyncs,      \* bound: billing changes
  MaxBackfills,  \* bound: runs of the backfill script
  NoBucket, NoEnd, NoTime

Times   == 0..MaxTime
Starts  == 0..MaxTime
Ends    == PERIOD..(MaxTime + PERIOD)
Buckets == Orgs \X Starts

ASSUME QuotaAssumption ==
  /\ IsFiniteSet(Requests)
  /\ free \in Plans
  /\ PLAN_LIMITS \in [Plans -> Nat]
  /\ PERIOD \in Nat \ {0}
  /\ History \in [Orgs -> Nat]
  /\ MaxTime \in Nat
  /\ MaxSyncs \in Nat
  /\ MaxBackfills \in Nat
  /\ NoBucket \notin Buckets
  /\ NoEnd \notin Ends
  /\ NoTime \notin Times

VARIABLES
  now,       \* the clock
  org,       \* [Orgs -> plan, subscription status and period end]
  syncs,     \* billing changes so far (bounded by MaxSyncs)
  used,      \* [Buckets -> QuotaPeriod.used]; no row and 0 are the same to the code
  phase,     \* [Requests -> where the request is in the quota protocol]
  bucket,    \* [Requests -> req.quotaReservation, once computed]
  limit,     \* [Requests -> the limit its guard read]
  logAt,     \* [Requests -> createdAt of its GenerationLog row]
  backfill,  \* [Orgs -> the backfill script's locals for the organisation]
  runs,      \* backfill runs so far (bounded by MaxBackfills)
  seeded     \* history variable: what the backfill added to each bucket

orgVars  == <<now, org, syncs>>
fillVars == <<backfill, runs, seeded>>
reqVars  == <<phase, bucket, limit, logAt>>
vars     == <<now, org, syncs, used, phase, bucket, limit, logAt, backfill, runs, seeded>>

Phases == {"new", "checked", "held", "logged", "released", "stranded", "refused"}

\* "held": the slot is reserved and nothing is logged yet; "logged": the
\* GenerationLog row exists; "stranded": the request is over, nothing was
\* logged, and the slot was never given back.
Charged(r) == phase[r] \in {"held", "logged", "stranded"}
ChargedTo(b) == {r \in Requests : bucket[r] = b /\ Charged(r)}

computePeriodStart(createdAt, end, t) ==
  IF end # NoEnd
    THEN end - PERIOD
    ELSE createdAt + ((t - createdAt) \div PERIOD) * PERIOD

CreatedAt == 0   \* every organisation of the model signed up at time 0
PeriodOf(o, end) == <<o, computePeriodStart(CreatedAt, end, now)>>

Greatest(m, n) == IF m >= n THEN m ELSE n

Init ==
  /\ now = 0
  /\ org = [o \in Orgs |-> [plan |-> free, status |-> "none", periodEnd |-> NoEnd]]
  /\ syncs = 0
  /\ used = [b \in Buckets |-> 0]
  /\ phase = [r \in Requests |-> "new"]
  /\ bucket = [r \in Requests |-> NoBucket]
  /\ limit = [r \in Requests |-> 0]
  /\ logAt = [r \in Requests |-> NoTime]
  /\ backfill = [o \in Orgs |-> [phase |-> "off", periodEnd |-> NoEnd, start |-> 0, count |-> 0]]
  /\ runs = 0
  /\ seeded = [b \in Buckets |-> 0]

(***************************************************************************)
(* QuotaGuard.canActivate: read the organisation, then upsert the counter. *)
(***************************************************************************)
Blocked(o) ==
  \/ org[o].status = "inactive"
  \/ PLAN_LIMITS[org[o].plan] <= 0

GuardPasses(r, o) ==
  /\ phase[r] = "new"
  /\ ~ Blocked(o)
  /\ phase' = [phase EXCEPT ![r] = "checked"]
  /\ bucket' = [bucket EXCEPT ![r] = PeriodOf(o, org[o].periodEnd)]
  /\ limit' = [limit EXCEPT ![r] = PLAN_LIMITS[org[o].plan]]
  /\ UNCHANGED <<orgVars, used, logAt, fillVars>>

GuardRefuses(r, o) ==
  /\ phase[r] = "new"
  /\ Blocked(o)
  /\ phase' = [phase EXCEPT ![r] = "refused"]
  /\ UNCHANGED <<orgVars, used, bucket, limit, logAt, fillVars>>

\* Defect: the last slot is given away twice.
AtMostLimit(r) == used[bucket[r]] <= limit[r]

BelowLimit(r) == used[bucket[r]] < limit[r]

Reserve(r) ==
  /\ phase[r] = "checked"
  /\ BelowLimit(r)
  /\ used' = [used EXCEPT ![bucket[r]] = @ + 1]
  /\ phase' = [phase EXCEPT ![r] = "held"]
  /\ UNCHANGED <<orgVars, bucket, limit, logAt, fillVars>>

ReserveRejects(r) ==
  /\ phase[r] = "checked"
  /\ ~ BelowLimit(r)
  /\ phase' = [phase EXCEPT ![r] = "refused"]
  /\ UNCHANGED <<orgVars, used, bucket, limit, logAt, fillVars>>

\* Either statement of the guard reports an error: nothing was reserved.
GuardErrors(r) ==
  /\ phase[r] \in {"new", "checked"}
  /\ phase' = [phase EXCEPT ![r] = "refused"]
  /\ UNCHANGED <<orgVars, used, bucket, limit, logAt, fillVars>>

(***************************************************************************)
(* What the services do with a reservation.                                *)
(***************************************************************************)

\* The transaction (or single insert) that writes the GenerationLog row.
LogGeneration(r) ==
  /\ phase[r] = "held"
  /\ phase' = [phase EXCEPT ![r] = "logged"]
  /\ logAt' = [logAt EXCEPT ![r] = now]
  /\ UNCHANGED <<orgVars, used, bucket, limit, fillVars>>

\* Defect: the period is computed again at release time, and the row found then
\* is decremented without looking at it.
releaseFromCurrentPeriod(r) ==
  /\ bucket[r] # NoBucket
  /\ LET o == bucket[r][1]
     IN  used' = [used EXCEPT ![PeriodOf(o, org[o].periodEnd)] = @ - 1]
  /\ phase' = [phase EXCEPT ![r] = "released"]
  /\ UNCHANGED <<orgVars, bucket, limit, logAt, fillVars>>

\* The statement itself; who may run it, and when, is its callers' business.
releaseQuota(r) ==
  /\ bucket[r] # NoBucket
  /\ used' = [used EXCEPT ![bucket[r]] = IF @ > 0 THEN @ - 1 ELSE @]
  /\ phase' = [phase EXCEPT ![r] = "released"]
  /\ UNCHANGED <<orgVars, bucket, limit, logAt, fillVars>>

\* Defect: an error raised after the log row was written releases the slot too.
ReleaseAfterLog(r) ==
  /\ phase[r] \in {"held", "logged"}
  /\ releaseQuota(r)

Release(r) ==
  /\ phase[r] = "held"
  /\ releaseQuota(r)

\* The request ends, on a path that runs no release.
Strand(r) ==
  /\ phase[r] = "held"
  /\ phase' = [phase EXCEPT ![r] = "stranded"]
  /\ UNCHANGED <<orgVars, used, bucket, limit, logAt, fillVars>>

\* A process serving the requests S dies: none of them takes another step.
AfterCrash(p) ==
  CASE p = "checked" -> "refused"
    [] p = "held"    -> "stranded"
    [] OTHER         -> p

Crash(S) ==
  /\ phase' = [r \in Requests |-> IF r \in S THEN AfterCrash(phase[r]) ELSE phase[r]]
  /\ UNCHANGED <<orgVars, used, bucket, limit, logAt, fillVars>>

(***************************************************************************)
(* The backfill script: list the organisations, then for each one count    *)
(* its logs since the period start and raise its counter to the count.     *)
(***************************************************************************)
RecentLogs(o, s) ==
  {r \in Requests : logAt[r] # NoTime /\ bucket[r][1] = o /\ logAt[r] >= s}
OldLogs(o, s) == IF s <= 0 THEN History[o] ELSE 0
LogsSince(o, s) == Cardinality(RecentLogs(o, s)) + OldLogs(o, s)

BackfillList ==
  /\ runs < MaxBackfills
  /\ \A o \in Orgs : backfill[o].phase \in {"off", "done"}
  /\ backfill' = [o \in Orgs |-> [phase |-> "listed", periodEnd |-> org[o].periodEnd,
                                  start |-> 0, count |-> 0]]
  /\ runs' = runs + 1
  /\ UNCHANGED <<orgVars, used, reqVars, seeded>>

BackfillCount(o) ==
  LET s == PeriodOf(o, backfill[o].periodEnd)[2]
  IN  /\ backfill[o].phase = "listed"
      /\ \A p \in Orgs : backfill[p].phase # "counted"
      /\ backfill' = [backfill EXCEPT
           ![o].phase = IF LogsSince(o, s) = 0 THEN "done" ELSE "counted",
           ![o].start = s,
           ![o].count = LogsSince(o, s)]
      /\ UNCHANGED <<orgVars, used, reqVars, runs, seeded>>

\* Defect: the counter is increased by the count, not raised to it.
Increased(o) == used[<<o, backfill[o].start>>] + backfill[o].count

Raised(o) == Greatest(used[<<o, backfill[o].start>>], backfill[o].count)

BackfillRaise(o) ==
  LET b == <<o, backfill[o].start>>
  IN  /\ backfill[o].phase = "counted"
      /\ used' = [used EXCEPT ![b] = Raised(o)]
      /\ seeded' = [seeded EXCEPT ![b] = @ + (Raised(o) - used[b])]
      /\ backfill' = [backfill EXCEPT ![o].phase = "done"]
      /\ UNCHANGED <<orgVars, reqVars, runs>>

(***************************************************************************)
(* The environment: the clock, and the webhook worker's transaction that   *)
(* writes the subscription row and the plan together.                      *)
(***************************************************************************)
Tick ==
  /\ now < MaxTime
  /\ now' = now + 1
  /\ UNCHANGED <<org, syncs, used, reqVars, fillVars>>

BillingSync(o, plan, status, end) ==
  /\ syncs < MaxSyncs
  /\ org' = [org EXCEPT ![o] = [plan |-> plan, status |-> status, periodEnd |-> end]]
  /\ syncs' = syncs + 1
  /\ UNCHANGED <<now, used, reqVars, fillVars>>

Next ==
  \/ \E r \in Requests, o \in Orgs : GuardPasses(r, o) \/ GuardRefuses(r, o)
  \/ \E r \in Requests : Reserve(r) \/ ReserveRejects(r) \/ GuardErrors(r)
  \/ \E r \in Requests : LogGeneration(r) \/ Release(r) \/ Strand(r)
  \/ \E S \in SUBSET Requests : Crash(S)
  \/ BackfillList
  \/ \E o \in Orgs : BackfillCount(o) \/ BackfillRaise(o)
  \/ Tick
  \/ \E o \in Orgs, p \in Plans, st \in {"active", "inactive"}, e \in Ends :
       BillingSync(o, p, st, e)

Spec == Init /\ [][Next]_vars

------------------------------------------------------------------------------
(***************************************************************************)
(* Properties.                                                             *)
(***************************************************************************)
OrgRows == [plan : Plans, status : {"none", "active", "inactive"}, periodEnd : Ends \union {NoEnd}]
BackfillLocals ==
  [phase : {"off", "listed", "counted", "done"}, periodEnd : Ends \union {NoEnd},
   start : Starts, count : Nat]

\* Every variable keeps its type: counters stay natural numbers, and a request
\* that got past the check carries a bucket of the model.
TypeOK ==
  /\ now \in Times
  /\ org \in [Orgs -> OrgRows]
  /\ syncs \in 0..MaxSyncs
  /\ used \in [Buckets -> Nat]
  /\ phase \in [Requests -> Phases]
  /\ bucket \in [Requests -> Buckets \union {NoBucket}]
  /\ limit \in [Requests -> Nat]
  /\ logAt \in [Requests -> Times \union {NoTime}]
  /\ backfill \in [Orgs -> BackfillLocals]
  /\ runs \in 0..MaxBackfills
  /\ seeded \in [Buckets -> Nat]
  /\ \A r \in Requests : phase[r] \notin {"new", "refused"} => bucket[r] # NoBucket
  /\ \A r \in Requests : phase[r] = "new" => bucket[r] = NoBucket

\* The counter is exact: a bucket's `used` is the number of requests charged to
\* it plus what the backfill added, so no slot is released twice, released into
\* another period's bucket (the period may roll over, or the webhook may move
\* it, while the LLM is answering), or lost by two upserts racing.
LedgerExact ==
  \A b \in Buckets : used[b] = Cardinality(ChargedTo(b)) + seeded[b]

\* However many requests race and however the plan changes meanwhile, a bucket
\* never holds more charges than the largest limit some guard read for it
\* (quota.guard.ts: "Two concurrent requests therefore can't both pass").
NoOverdraft ==
  \A b \in Buckets : ChargedTo(b) # {} =>
    \E r \in Requests : bucket[r] = b /\ limit[r] >= Cardinality(ChargedTo(b))

\* GenerationLog rows in the period of bucket b that were not charged to b:
\* older than the counter, or charged to a bucket the organisation has left.
ForeignLogs(b) ==
  Cardinality({r \in RecentLogs(b[1], b[2]) : bucket[r] # b}) + OldLogs(b[1], b[2])

\* The backfill may run next to live traffic and run again: what it adds to a
\* bucket never exceeds the generations of the period that the bucket did not
\* count already, so no generation is counted twice (quota.backfill.ts:
\* "Idempotent and safe to re-run").
BackfillNeverOvercounts ==
  \A b \in Buckets : seeded[b] <= ForeignLogs(b)

\* The counter implements the ledger of entries it stands for.
LedgerEntry(p) ==
  CASE p = "new"      -> "none"
    [] p = "checked"  -> "quoted"
    [] p = "held"     -> "charged"
    [] p = "stranded" -> "charged"
    [] p = "logged"   -> "settled"
    [] p = "released" -> "refunded"
    [] p = "refused"  -> "refused"

Ledger == INSTANCE QuotaLedger WITH
  entry <- [r \in Requests |-> LedgerEntry(phase[r])],
  quote <- limit,
  Capacities <- {PLAN_LIMITS[p] : p \in Plans}

LedgerSpec == Ledger!Spec
==============================================================================
