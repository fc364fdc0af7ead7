# A TLA+ model of winprop-api

winprop-api is a NestJS service over one Postgres database (through Prisma). Its
interesting behaviour is not in its algorithms but in what happens between two
`await`s: every request, webhook delivery, timer tick and script runs a sequence
of single SQL statements, several server processes may run side by side, and any
statement may fail or be the last one its process runs. The modules here have one
action per statement, so that TLC interleaves everything the database allows.

## 1. Inventory

| Component | State | Operations | Interacts with | What makes it correct |
|---|---|---|---|---|
| Generation quota (`documents/quota.*`) | `QuotaPeriod.used` per (org, period start) | reserve (guard), release (services), backfill (script) | `Org.plan`, `Subscription` (webhook), `GenerationLog` | the counter is the number of charges; a bucket never holds more than a plan grants; a release hits the bucket that was charged |
| Idempotency interceptor (`common/idempotency`) | `IdempotencyKey` rows, `pending` or `completed` | claim, replay, conflict, complete, unclaim | every mutating handler | one owner per key; replays are faithful; a stored response is final |
| Gated routes (`documents`, `jobs`) | the request's progress, `Document`, `Job`, `GenerationLog` | generate, regenerate, adjust tone and price, analyze, assess | guard, interceptor, LLM, memory | success is charged, failure is free, every request is answered |
| Stripe inbox (`billing`) | `WebhookEvent`, `ProcessedEvent`, `Subscription`, `Org.plan` | ingest, drain, process, tick | Stripe, checkout, quota | queued events are applied, by one drain at a time and a bounded number of times |
| Checkout and trial claim (`billing`, `auth/trial-checkout`) | `Org.stripeCustomerId`, accounts | checkout, portal, claim | Stripe, inbox, auth | a stored customer is replaced only by a race; a claim that is retried has linked the customer who pays; the plan follows the newest event |
| Sessions (`auth`) | `RefreshToken`, lockout columns | login, refresh, logout, logout-all | accounts | a token is exchanged once; logout-all leaves no session but those already being exchanged |
| Email verification (`auth`) | `EmailVerificationToken` | issue, verify, resend | mail | two links are alive only if their requests overlapped |
| Trial budget (`trial`, `public`) | `TrialUsage`, the in-process anonymous spend | evaluate, record | LLM | caps on verdicts, proposals and money |
| Documents (`documents`) | `Document`, `DocumentVersion`, share token | update, duplicate, share, unshare, adjust | LLM, public page | an edit is lost only to a race; the history is numbered in order; a link lives until it is revoked |
| Jobs (`jobs`) | `Job` | create, assess, update, outcome | memory, documents | titles are unique per organisation |
| Memory (`memory`) | `UserMemory`, `MemoryAuditLog` | record, create, update, remove, import | LLM prompts | surer facts survive inferred ones; values are encoded for their mark, and sensitive ones stay out of prompts |
| Admin, MFA, global LLM config (`admin`) | `SuperAdmin`, `LlmConfig` | login, enroll, confirm, set | | one global row; MFA is enabled for the confirmed secret |
| Tenant scoping (`common/tenant`) | none | rewrite of query arguments | every query | no query of a tenant model escapes its organisation in enforce mode |
| Analytics | none: reads job rows | summary, bySkill | jobs | the figures fit each other |
| Profile, users, public pages, export, mail, crypto, throttling, i18n, config, health, scripts, deployment | single rows or none | | | not concurrency: reads, formatting, I/O |

The hard behaviours: a request holds a reservation across an LLM call of many
seconds, while the period may roll over and the webhook may move plan and period;
guards, interceptors and pipes run in an order that no service sees; catch
blocks, best-effort updates and swallowed errors leave work half done; drains
overlap, time out and die; caps are checked before a call and charged after it. `PROJECT.json` lists each hazard at its line with the
property that would catch it going wrong.

## 2. Modules

| Module | Models |
|---|---|
| `QuotaLedger` | what the quota promises, without a counter: a request is quoted, charged, settled or refunded at most once |
| `Quota` | the counter protocol: guard, release, log row, plan changes, clock, backfill; implements `QuotaLedger` |
| `Idempotency` | the table of keys and each request's way through the interceptor |
| `Generation` | composes the two: a gated request end to end, with the handlers' try/catch paths, the `Job` row of assess, faults and crashes |
| `WebhookInbox` | ingest, drain and process, with deliveries, timeouts, faults and crashes |
| `Sessions` | login with lockout, refresh with rotation and reuse detection, logout, logout everywhere |
| `Accounts` | one e-mail address from signup or trial claim over verification and checkout to its plan, with Stripe's events |
| `DocumentVersions` | one document under editor saves, adjustments, renames, duplicates, shares and unshares |
| `LlmSpend` | the platform's and the anonymous daily caps, the trial budget of a device, the global LLM configuration |
| `TenantScope` | the rewriting of a query by the Prisma extension, as operators |
| `Memory` | the facts about an organisation's freelancer |
| `Jobs` | jobs of several organisations; composes `Memory` (what a decided deal teaches) and `TenantScope` (its queries) |
| `Analytics` | the dashboard's figures as functions of the job rows |
| `QuotaProofs`, `IdempotencyProofs`, `GenerationProofs`, `BillingProofs`, `SessionsProofs`, `DocumentVersionsProofs`, `LlmSpendProofs`, `JobsProofs` | theorems, checked by TLAPS |
| `MC*` | values of the constants for TLC, and symmetry where no liveness is checked |

### Quota

`used` is the table; a missing row and 0 are the same to the code. A request's
`phase` follows the guard (`new` -> `checked` -> `held` or `refused`) and then
what the services do with the slot: `logged` (the `GenerationLog` row is
written), `released`, or `stranded` (the request is over and nobody released it).
`bucket[r]` is `req.quotaReservation`, `limit[r]` the limit the guard read.
`GuardPasses` is the first statement (the read of the organisation) with the
arithmetic that follows it, `Reserve`/`ReserveRejects` the upsert. `Release`
decrements `bucket[r]`, which is what both services do. The backfill is one
action per statement: the list of all organisations, and for each a count and an
upsert. `BillingSync` is the webhook worker's transaction. `Tick` moves the clock;
`computePeriodStart` is the code's function over ticks, with every organisation
created at time 0.

### Idempotency

`entry[<<org, key>>]` is the row, with the stored response named by the request
that produced it. `stage[r]` is the statement the interceptor will run next.
The delete in `catchError` names the key, not the claim, and so does `Unclaim`.

### Generation

A request is reserved by `Quota`, then goes through `Idempotency`, then the
validation pipe, then a handler: Nest's order, which is why a replay is charged.
`kind` is the handler. `generate` stands for the handlers whose only write also
writes the log row (`generateProposal`, `generateRegistryDoc`,
`regenerateSection`, `analyze`); `assess` inserts its `Job` row first; `adjust`
writes the log and then, in a second transaction whose promise is not awaited in
the `try`, the document. `failed[r]` records the step that threw; it is a
history variable for the properties. Faults and crashes are bounded by
`MaxFaults` and `MaxCrashes`.

### WebhookInbox

A delivery is `Deliver` (the look at the marker) and `Enqueue`,
`AlreadyQueued` or `EnqueueFails` (the insert). A drain is `StartDrain` (cutoff and
`findMany`), then for each row `Claim` or `SkipRow`, `BindByCustomer`,
`BindByMetadata`, `Apply`, `MarkDone`, or `WorkFails`, `MarkFailed` and
`MarkFailedFails`. Time is abstract: `aged` holds the rows whose `claimedAt` is
more than `STUCK_AFTER_MS` ago, `stuck[w]` those that were aged at the drain's
cutoff and not claimed since. `Age` may happen to a row whose worker lives: the code
cannot tell a slow worker from a dead one. `orgCustomer` is the organisation's
customer: the one the events are of (`StoreTheirs`), or another that a checkout or a trial
claim stores before or after it (`StoreOther`), for the column is written over. An event is
`known` when it is delivered first for a customer the organisation has, or with the
organisation in its metadata while it has none; it must not be swallowed while that
stays so. The runs have one event: a batch of several rows, and the order in which they are
taken, is in the module and not in a run.

### Sessions

One user, whose tokens are named after the request that issues them. `row[t]` is
the `RefreshToken` row; the three ways of revoking set the same column, and are kept apart
as history. A login is a read of the user, a bcrypt comparison and the write that
follows: `AfterFailure` writes the count it computes from the one it read. A refresh is
the find, the conditional claim (`Claim`), the insert of the successor and the link to it;
a request that loses the claim sweeps every token (`revokeAllForUser`). The passage
of time is the expiry of a token or of the lockout. A request may be
abandoned between any two statements.

### Accounts

One e-mail address, because every race here is between requests for the same
address. Any number of trial sessions may be paid for with it (`Trials`), each with its
own customer, and each may be claimed any number of times. `account` tells who provisioned it, `customer` and `plan` are the columns of
`Org`, `event[e]` is where a subscription event is between Stripe and the plan.
The inbox is not repeated: a queued event is bound and applied at any later time,
in any order, again after an application that could not be marked (`ApplyAgain`),
and late by a drain whose claim timed out, which is what
`WebhookInbox` shows a drain can do. `Store` is the write of `stripeCustomerId`, whatever
the column holds by then; `overwritten` and `raced` remember what it replaced and who else
was about to write. `live[r]` and `earlier[r]` hold what
`issueForUser` saw and what existed; `LiveLinksOverlapped` compares them.

### DocumentVersions

Every operation is a read of the row and one transaction that writes what it
makes of the reading; between them an LLM may answer. The content is two fields,
each holding the name of the request that last set it, so that an overwritten edit is visible.
`version` is incremented in the database (`Bump`), the history row gets the
version that was read (`Snapshot`).

### LlmSpend

Money is counted in calls. A request is one of six kinds: a free verdict, a free proposal, a
preview, a tenant's generation, a memory extraction, a change of the global
configuration. Each goes through the checks its kind has in the code, in their
order, then the configuration, the call, the reading of the answer and what is
recorded. Not every call is logged, as in the code: an extraction and an answer that cannot
be read are paid and in no sum; the anonymous endpoints are in the process's own sum and not in the
breaker's; a restart forgets that sum. `bill[r]` records what was paid.
Two global configuration rows exist when two administrators inserted side by side.

### Memory and Jobs

A text is named after the request that wrote it; `sealed[r]` is set when it was
taken for sensitive, `saw[r]` and `replaced[r]` are the rows it decided on and wrote over. A fact is written by hand, by an import, by an update that
may change the flag and the text independently, or by `recordFact` from the reason of a decided
deal. `Jobs` reads rows through `prisma.db`, which is `TenantScope`'s `Scoped` in
the mode `enforce`, and writes them by id. Titles are normalised names.

### Analytics and TenantScope

These are functions, without state. `MCJobs` compares `Analytics` with the loop
of the code over all pairs of job rows it enumerates (`FiguresAgree`).

Operators headed "Defect:" are faulty variants of the definition below them. No
specification uses them; each one is put in that definition's place to see that
the property named for it in `PROJECT.json` ("mutants") notices.

## 3. Runs

| Run | Asks | Bounds, and why they suffice |
|---|---|---|
| `quota` | does the counter implement the ledger, under races, rollover, plan changes and two backfills? | 3 requests (two race for the last slot while a third releases), limits 1 and 2, period of 2 ticks, time to 2 (one rollover), one billing change, two backfills |
| `idempotency` | ownership, replay, finality | 4 requests (owner, loser, a third that claims after a delete, a replay), 2 keys; any statement may fail and any request die |
| `generation` | who pays for what, over all paths; is every request answered? | 2 requests (one that owns the key and one that meets its row; the limit refuses the second until the first releases, the period ends or the webhook moves it), one key, limit 1, one rollover, 2 failed statements (a write and the release of its slot), 1 crash, 1 billing change |
| `generation_replay` | does a retry with the same key cost a second slot? | 2 requests with one key, no faults |
| `inbox` | who works on a row, how often, what its status means; does it come to rest? | 1 event, delivered twice, 2 drains, 2 attempts instead of 5 (a first one, and a takeover or a retry that exhausts the cap), 2 failed statements (one of the work and one of the mark), 1 crash; another customer stored before or after the events' own |
| `sessions` | is a token exchanged once; what does logout-all leave; what does a lockout rest on? | 4 requests (two refreshes of one token, a refresh of the successor, a sweep; or three wrong passwords and a right one), lockout after 3 wrong passwords instead of 10 |
| `accounts` | which links are alive together; who replaces a stored customer; which plan does the organisation get? | 3 requests of any kinds (two that race and one after them), two trial sessions with two events each and one event per checkout, 3 events in all (`MaxSent`), each drained late or again |
| `documents` | what can races lose, and what not? | 4 requests of any kinds (two that race, one before and one after) |
| `spend` | how far can a cap be overshot; which configuration does a call use? | 3 requests, two devices of one family, caps of one call, a cap of one free proposal and two verdicts, two days, one restart |
| `jobs` | does a write stay in its organisation; is a rejected title taken; does a sure fact survive; is a value encoded for its mark; does a prompt spare sensitive values? | 3 requests, two organisations, one key of memory, two confidences, two titles, both modes of the extension |

Caps and thresholds are scaled down so that two or three requests reach them; no
comparison in the code depends on their size. `sessions`, `accounts`, `documents`,
`spend` and `jobs` have requests with one operation each: a client that makes
several is several requests.

Three runs are expected to fail. They check a statement of a comment or of the schema
against the code:

| Run | The code's own claim | What TLC shows |
|---|---|---|
| `generation_replay` | a retry with the same key costs no second slot | the guard has reserved before the interceptor replays, and nothing releases |
| `generation_adjust` | adjustments release on failure | the un-awaited promise escapes the catch block |
| `memory_at_rest` | the value is re-encrypted when the effective flag is set | a patch of the flag alone leaves the value as it was |

The models show more behaviour of this kind, which the passing properties account for
rather than exclude:

- The guard reserves before the interceptor and the validation pipe run: not only a replay
  but a 409 and a refused body keep their slot (`Unserved` in `Generation`).
- A claim of a second paid session, or one for an address that has signed up, is answered
  from the existing-user branch and links nothing: its customer's events are dropped for good.
  So is the retry of a claim that failed after `provisionAccount`, which the comment on
  `claimTrial` calls idempotent (`trial-checkout.service.ts:50-52`).
- An event whose customer is written over before the event is bound is marked processed
  without effect.
- A process that dies between claim and completion leaves a key pending for ever.
- A failed assess leaves its `Job` row, which rejects the retry of the same posting.
- A drain that is slow and not dead, and the drain that takes its row over, both
  apply the event (`WorkIsAccounted` counts these).
- `ingestEvent` acknowledges an event whose insert failed for any reason.
- A crash in the last attempt leaves a row in `processing`, outside the dead-letter queue.
- The winner of two refreshes with one token may insert its session after the loser has
  revoked all (`SweepSparesOnlyRaces` says for whom).
- A plain value that is marked by a patch of the flag stays plain, and reaches prompts again
  when the mark is taken off (`TurnedTheFlag` in `EncodedAsFlagged`).
- An older subscription event drained after a newer one sets the plan back
  (`PlanFollowsNewest` holds when nothing else was on its way).
- Two shares of one document may hand out a link that the other has replaced;
  two editors overwrite each other; their history rows may bear one number.
- Spend that is not logged is not capped: extractions, unreadable answers, the
  anonymous endpoints in the platform's breaker, and the anonymous sum after a restart.

`CHECK_DEADLOCK FALSE` is set for every run but the inbox's: requests are finite, and a
behaviour stops when all are answered. The inbox never stops, and its run checks
for deadlock.

### Fairness

`Generation!FairSpec` has weak fairness of `Serve(r)`, the steps of a request the
server has begun: Node runs the continuations it has queued, and Postgres and the
LLM client answer each call with a result or an error. Faults and crashes are not
fair. `WebhookInbox!FairSpec` has weak fairness of each drain's steps and of the
insert, of the interval timer starting the next drain (`WebhookProcessor.tick`),
and of time passing for a claimed row.

## 4. Proofs

TLAPS checks the theorems for every value of the constants that satisfies the
modules' assumptions. Each proof module has one inductive invariant for a component
(or one per concern), a lemma per action that the invariant survives, and theorems
that read off what it implies; TLC checked the invariants on the runs' instances first.

- `QuotaProofs`: `TypeCorrect`; `CounterExact` (`LedgerExact` is inductive given
  the types: every action changes `used[b]` by as much as the cardinality of
  `ChargedTo(b)` or `seeded[b]`); `NeverOverdrawn`, which needs `CounterExact`
  because the guard compares the limit with the counter and not with the charges;
  `BackfillSafe`, whose inductive invariant adds that a logged request is charged, that a
  request's log is not older than its bucket's period when it was charged to it, and that what
  a running backfill counted stays a lower bound of the logs; and
  `ImplementsLedger`, the refinement of `QuotaLedger`, step by step.
- `IdempotencyProofs`: one inductive invariant, `TableInv`, ties a row's status
  to the stage of its owner; `TypeCorrect`, `KeysAreOwnedOnce`, `ReplaysAreFaithful` and
  the action property `ResponsesAreFinal` follow from it.
- `GenerationProofs`: the composition. `HandlersInPlace` shows `HandlerInv`, the types and
  `Placed`: which combinations of a handler's step, its key's stage and its slot's phase
  occur. From it, `UsesTheQuota` and `UsesTheKeys` show that every step of the real
  handlers, catch blocks, faults and crashes is a step of `Quota` and of
  `Idempotency` (or none), so that what those modules promise carries over without
  proving it again (`QuotaHolds`, `KeysHold`). Three more invariants say who pays: a
  failed request is on its way to its release or has been there (`FreedInv`, for
  `FailuresAreFree`); a request's key and slot are of its own organisation (`OwnRows`, for
  `SuccessesAreCharged`, also when the answer is replayed); and there are
  no more wounded requests than faults (`WoundsAreFaults`, for `LossesAreAccounted`).
  `ClientsPayForWhatTheyGet` joins the last two. It excepts the requests that nobody serves, and no
  others: replays, conflicts and refused bodies, which keep their slot without any fault.
- `BillingProofs`, on `WebhookInbox`: the inductive invariant `InboxInv` adds to the properties
  that rows are never deleted and only queued rows are ever in hand
  (`OnlyQueuedRows`), that a drain about to mark a row has applied it
  (`MarksWhatItApplied`, which survives any takeover because the marker is never
  removed), and that a known event which is not
  yet processed is still promised: its customer is stored, or no customer is and its metadata
  names the organisation, so that a drain which looks it up binds it (`BindsKnownEvents`). `DoneMeansApplied`, `NothingSwallowed`, `WorkIsBounded` and
  `InboxTypeCorrect` follow. `WorkAccounted` needs two more: every claim but a row's first is
  paid for by a failed attempt or a timeout (`ClaimsArePaid`), and a row without
  a timeout has one holder (`SoleHolder`).
- `BillingProofs`, on `Accounts`: every property of the `accounts` run, from `AccountsInv`. `LinksOverlap`
  needs that whoever is about to issue a link has every link in hand that it saw and that
  lives (`LinksKnown`). `CustomersStand` needs that once a customer is stored with nobody else
  about to store one, nobody ever is again (`NoRacers`): any later claim, of whatever session,
  finds the account, and any later checkout finds the customer. `PlanIsNewest` is
  the deep one: events are sent in order and drained in any. After an event that was applied with
  no other on its way, whatever is on its way was sent later and is bound to the customer that
  is linked, if that event's is (`CalmIsPassed`); a customer is linked once, by the claim that
  provisioned the account or by the checkout that created it, and never again once it has been
  replaced (`Provisioned`, `CustomersAreFresh`).
- `SessionsProofs`: every property of the `sessions` run, from the invariant `SessionInv`.
  `TokensAreExchangedOnce` needs to know when in its life a request has issued its token
  (`IssuedLate`); `SweepsReachAllButRaces`, that a token once swept stays revoked and that
  whoever is about to issue a successor to it had claimed it by then (`SweptForGood`);
  `LocksAreEarned`, that a count some login has read was backed by failures (`CountsBacked`).
  `SessionsTypeCorrect` shows that the stored count never reaches the threshold.
- `DocumentVersionsProofs`: every property of the `documents` run, from `DocInv`. The
  history holds the writes in their order, and there is one more version than rows (`WritesInOrder`,
  `VersionsCount`: the increment is the database's, so two writers that read the same
  version still leave two). `LinksLive` needs that no token is handed out twice
  (`LinksInOrder`, `AnswerFits`). `EditsLost` needs that, without races, what the document holds and what
  every writer read is what was meant (`Holds`, `BuildsOnMeant`).
- `LlmSpendProofs`: every property of the `spend` run, from `SpendInv`. A device's counters
  are the number of its recorded answers (`Counts`, for `BudgetsHold`); all live
  configuration rows agree until two inserts have overlapped (`OneRow`, for
  `ConfigsAreCurrent`); the anonymous account holds what this process paid on the day it is
  for, so that it never misses a payment at a turn of the day or a restart (`AccountExact`); and what is on an
  account together with what is on its way to it stays below the cap and the crowd (`CrowdsCover`).
  The last is the step a bound on the account alone does not survive: a call is admitted against the
  account and charged much later. `CapsBoundTheSpend` follows.
- `JobsProofs`: `Memory`, `Jobs`, and the pure modules they use. `MemoryInv` follows a text from the
  request that wrote it to the row and the prompts; `SureFactsStand` and `PromptsHold`
  are read off. `MarksAreHeeded` needs what a step
  leaves in a row (`RowsRewritten`) and that a request that is through keeps what it saw and
  replaced; `SecretsHold` is both. `JobsInv` says that
  a request about to write a row has read it within its organisation, and keeps who has held
  a title since; `TypeCorrect`, `OwnOrgHolds` and `RefusalsAreReal` follow. Any step of `Jobs`
  is one of `Memory` or leaves it alone (`MemorySteps`).
  For `TenantScope`, in any context and for any model, operation and filter: with enforcement on, no filtered
  query reaches another organisation's row (`EnforcedStaysInOrg`); a query that was scoped already is
  left alone (`ScopedQueriesUnchanged`); no rows are ever added (`OnlyNarrows`). Operations
  outside `WHERE_OPS` are not in the first theorem, as they are not rewritten in the code.
  For `Analytics`, over any finite set of jobs: the funnel narrows (`FunnelNarrows`),
  nothing is on both sides of a split (`HeededOrApplied`, `SkillSplits`), and the
  rounded rate is a percentage (`WinRateIsPercentage`).

The attempt to prove `ClashesAreReal` showed an earlier form of it to be false with
four requests, one more than the run has: a title may be taken by one request and given up
again while a third still holds what it read. `taken` in `Jobs` now records who has held a
title, and the property speaks of that.

The assumptions are finite sets of requests, events, drains and devices, distinct "no value"
constants and natural-number bounds (`QuotaAssumption`, `IdempotencyAssumption`,
`GenerationAssumption`, `InboxAssumption`, `SessionsAssumption`, `DocumentAssumption`,
`AccountsAssumption`, `LlmSpendAssumption`, `JobsAssumption`, `MemoryAssumption`); the lockout threshold is
positive. The bounds on time, faults and crashes are
arbitrary, so the theorems hold for every number of them.

Only model-checked: the liveness properties of `Generation` and `WebhookInbox` (liveness under
fairness is out of this prover's reach), that `Analytics` agrees with the loops of the code (`FiguresAgree`: it computes over
data), and the three runs that end in a violation.

## 5. Not modelled

- Prompts, prices, formatting and validation texts, throttling, encryption itself, mail,
  PDF export, i18n, health and observability: data, libraries and I/O.
- Super-admin login and MFA: read-then-write of one row by one person. An enrollment that
  overtakes a confirmation would replace the secret that was checked; this is listed as
  a hazard without a property.
- Profile and users: updates of one row by one statement.
- The audit logs of memory and administration, which no decision reads.
- Two facts of two organisations at once: `Memory` has one organisation, so that whose facts a
  request reaches is not in the model.
- `backfill-pii`, seeds, i18n checks and deployment scripts, which run alone.
- Statement failures have no effect in the model: a commit whose acknowledgement is
  lost is not distinguished from a crash. A request is served once, and a retry is
  another request.

## 6. Plan

1. Inbox with two events: the order within a batch, for `WebhookInbox`; its proofs are for any number of them already.
