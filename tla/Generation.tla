----------------------------- MODULE Generation ------------------------------
(***************************************************************************)
(* A request to a quota-gated route, end to end: QuotaGuard, then the      *)
(* idempotency interceptor, then the validation pipe, then the service     *)
(* (DocumentsService or JobsService) with its LLM call, its writes and its *)
(* catch block, and back out through the interceptor.                      *)
(*                                                                         *)
(* Quota and Idempotency are the components; this module says in which     *)
(* order one request runs their steps and what each path leaves undone.    *)
(* The order is Nest's: guards, then interceptors, then pipes.             *)
(***************************************************************************)
EXTENDS Integers, FiniteSets

CONSTANTS
  Requests, Orgs, Plans, free, PLAN_LIMITS, PERIOD, History,
  MaxTime, MaxSyncs, MaxBackfills, NoBucket, NoEnd, NoTime,   \* Quota
  Keys, NoRow, NoResponse,                                    \* Idempotency
  Titles,       \* normalised titles of pasted job postings
  NoJob, NoTitle,
  MaxFaults,    \* bound: statements the database fails
  MaxCrashes    \* bound: crashes of a server process

VARIABLES
  now, org, syncs, used, phase, bucket, limit, logAt, backfill, runs, seeded,
  entry, target, stage, answer,
  kind,      \* [Requests -> the route's handler]
  step,      \* [Requests -> the handler's next statement]
  failed,    \* [Requests -> the step that threw, for a request that failed]
  posting,   \* [Requests -> the title an assess request derives]
  jobs,      \* [Orgs \X Titles -> the request that inserted the Job row]
  faults, crashes

quotaVars   == <<now, org, syncs, used, phase, bucket, limit, logAt, backfill, runs, seeded>>
keyVars     == <<entry, target, stage, answer>>
handlerVars == <<kind, step, failed, posting, jobs>>
vars        == <<quotaVars, keyVars, handlerVars, faults, crashes>>

Q == INSTANCE Quota
I == INSTANCE Idempotency

ASSUME GenerationAssumption ==
  /\ Q!QuotaAssumption
  /\ I!IdempotencyAssumption
  /\ MaxFaults \in Nat /\ MaxCrashes \in Nat

\* "generate" stands for the handlers whose log row is written by their only
\* write: generateProposal, generateRegistryDoc, regenerateSection and analyze.
Kinds == {"generate", "assess", "adjust"}
Steps == {"none", "pipe", "create", "work", "persist", "apply", "release"}
Failures == {"none", "pipe", "clash", "create", "work", "persist", "apply", "release"}

OrgOf(r) == bucket[r][1]
To(r, s) == step' = [step EXCEPT ![r] = s]
FailsAt(r, f) == failed' = [failed EXCEPT ![r] = f]
Fault == faults < MaxFaults /\ faults' = faults + 1

Init ==
  /\ Q!Init
  /\ I!Init
  /\ kind = [r \in Requests |-> "none"]
  /\ step = [r \in Requests |-> "none"]
  /\ failed = [r \in Requests |-> "none"]
  /\ posting = [r \in Requests |-> NoTitle]
  /\ jobs = [j \in Orgs \X Titles |-> NoJob]
  /\ faults = 0
  /\ crashes = 0

(***************************************************************************)
(* The guard.                                                              *)
(***************************************************************************)
Arrive(r, o) ==
  /\ Q!GuardPasses(r, o) \/ Q!GuardRefuses(r, o)
  /\ UNCHANGED <<keyVars, handlerVars, faults, crashes>>

Reserve(r) ==
  /\ Q!Reserve(r) \/ Q!ReserveRejects(r)
  /\ UNCHANGED <<keyVars, handlerVars, faults, crashes>>

\* Defect: the guard fails open, and the request goes on without a reservation.
GuardFailsOpen(r) ==
  /\ Fault
  /\ phase[r] = "new"
  /\ phase' = [phase EXCEPT ![r] = "held"]
  /\ UNCHANGED <<now, org, syncs, used, bucket, limit, logAt, backfill, runs, seeded,
                 keyVars, handlerVars, crashes>>

GuardErrors(r) ==
  /\ Fault
  /\ Q!GuardErrors(r)
  /\ UNCHANGED <<keyVars, handlerVars, crashes>>

(***************************************************************************)
(* The interceptor on the way in.  The slot is reserved by now, and none   *)
(* of these answers runs a service, so none of them gives it back.         *)
(***************************************************************************)
WithoutKey(r) ==
  /\ phase[r] = "held"
  /\ I!PassThrough(r)
  /\ To(r, "pipe")
  /\ UNCHANGED <<quotaVars, kind, failed, posting, jobs, faults, crashes>>

ClaimKey(r, k) ==
  /\ phase[r] = "held"
  /\ I!Claim(r, <<OrgOf(r), k>>)
  /\ To(r, IF stage'[r] = "running" THEN "pipe" ELSE "none")
  /\ UNCHANGED <<quotaVars, kind, failed, posting, jobs, faults, crashes>>

ClaimFails(r) ==
  /\ phase[r] = "held"
  /\ Fault
  /\ I!ClaimFails(r)
  /\ Q!Strand(r)
  /\ UNCHANGED <<handlerVars, crashes>>

Replay(r) ==
  /\ I!Replay(r)
  /\ Q!Strand(r)
  /\ UNCHANGED <<handlerVars, faults, crashes>>

\* Defect: the row read back is taken to be completed or pending, never gone.
ConflictIfPending(r) ==
  /\ I!Conflict(r)
  /\ entry[target[r]].status = "pending"
  /\ Q!Strand(r)
  /\ UNCHANGED <<handlerVars, faults, crashes>>

Conflict(r) ==
  /\ I!Conflict(r)
  /\ Q!Strand(r)
  /\ UNCHANGED <<handlerVars, faults, crashes>>

LookupFails(r) ==
  /\ Fault
  /\ I!LookupFails(r)
  /\ Q!Strand(r)
  /\ UNCHANGED <<handlerVars, crashes>>

(***************************************************************************)
(* The validation pipe and the service.                                    *)
(***************************************************************************)
RejectDto(r) ==
  /\ step[r] = "pipe"
  /\ To(r, "none")
  /\ FailsAt(r, "pipe")
  /\ I!HandlerThrows(r)
  /\ Q!Strand(r)
  /\ UNCHANGED <<kind, posting, jobs, faults, crashes>>

Dispatch(r, k) ==
  /\ step[r] = "pipe"
  /\ kind' = [kind EXCEPT ![r] = k]
  /\ To(r, IF k = "assess" THEN "create" ELSE "work")
  /\ UNCHANGED <<quotaVars, keyVars, failed, posting, jobs, faults, crashes>>

\* assess(): the Job row is inserted by a statement of its own, and stays.
CreateJob(r, t) ==
  /\ step[r] = "create"
  /\ jobs[<<OrgOf(r), t>>] = NoJob
  /\ jobs' = [jobs EXCEPT ![<<OrgOf(r), t>>] = r]
  /\ posting' = [posting EXCEPT ![r] = t]
  /\ To(r, "work")
  /\ UNCHANGED <<quotaVars, keyVars, kind, failed, faults, crashes>>

\* The unique index on (orgId, normalised title) rejects the insert.
CreateJobClashes(r, t) ==
  /\ step[r] = "create"
  /\ jobs[<<OrgOf(r), t>>] # NoJob
  /\ posting' = [posting EXCEPT ![r] = t]
  /\ FailsAt(r, "clash")
  /\ To(r, "release")
  /\ UNCHANGED <<quotaVars, keyVars, kind, jobs, faults, crashes>>

CreateJobFails(r) ==
  /\ step[r] = "create"
  /\ Fault
  /\ FailsAt(r, "create")
  /\ To(r, "release")
  /\ UNCHANGED <<quotaVars, keyVars, kind, posting, jobs, crashes>>

\* The reads, the LLM call and the checks on its answer.
Work(r) ==
  /\ step[r] = "work"
  /\ To(r, "persist")
  /\ UNCHANGED <<quotaVars, keyVars, kind, failed, posting, jobs, faults, crashes>>

\* Defect: the work is done before the try block.
WorkFailsOutsideTry(r) ==
  /\ step[r] = "work"
  /\ FailsAt(r, "work")
  /\ To(r, "none")
  /\ I!HandlerThrows(r)
  /\ Q!Strand(r)
  /\ UNCHANGED <<kind, posting, jobs, faults, crashes>>

WorkFails(r) ==
  /\ step[r] = "work"
  /\ FailsAt(r, "work")
  /\ To(r, "release")
  /\ UNCHANGED <<quotaVars, keyVars, kind, posting, jobs, faults, crashes>>

\* The transaction, or the single insert, that writes the GenerationLog row.
\* The adjust handlers go on to applyAdjustment; the others return.
Persist(r) ==
  /\ step[r] = "persist"
  /\ Q!LogGeneration(r)
  /\ IF kind[r] = "adjust"
       THEN To(r, "apply") /\ UNCHANGED keyVars
       ELSE To(r, "none") /\ I!HandlerReturns(r)
  /\ UNCHANGED <<kind, failed, posting, jobs, faults, crashes>>

\* Defect: the failure to log is swallowed like that of the release.
PersistFailsSilently(r) ==
  /\ step[r] = "persist"
  /\ Fault
  /\ Q!Strand(r)
  /\ To(r, "none")
  /\ I!HandlerReturns(r)
  /\ UNCHANGED <<kind, failed, posting, jobs, crashes>>

PersistFails(r) ==
  /\ step[r] = "persist"
  /\ Fault
  /\ FailsAt(r, "persist")
  /\ To(r, "release")
  /\ UNCHANGED <<quotaVars, keyVars, kind, posting, jobs, crashes>>

\* `return this.applyAdjustment(...)` inside the try, not awaited there.
Apply(r) ==
  /\ step[r] = "apply"
  /\ To(r, "none")
  /\ I!HandlerReturns(r)
  /\ UNCHANGED <<quotaVars, kind, failed, posting, jobs, faults, crashes>>

\* Defect: the promise is awaited in the try, so the catch block releases the slot
\* of a generation that has been logged.
ApplyFailsIntoCatch(r) ==
  /\ step[r] = "apply"
  /\ Fault
  /\ FailsAt(r, "apply")
  /\ To(r, "release")
  /\ UNCHANGED <<quotaVars, keyVars, kind, posting, jobs, crashes>>

\* Its rejection settles the promise the handler already returned: the catch
\* block does not see it and nothing is released.
ApplyFails(r) ==
  /\ step[r] = "apply"
  /\ Fault
  /\ FailsAt(r, "apply")
  /\ To(r, "none")
  /\ I!HandlerThrows(r)
  /\ UNCHANGED <<quotaVars, kind, posting, jobs, crashes>>

\* The catch block: release, then rethrow.
Release(r) ==
  /\ step[r] = "release"
  /\ Q!releaseQuota(r)
  /\ To(r, "none")
  /\ I!HandlerThrows(r)
  /\ UNCHANGED <<kind, failed, posting, jobs, faults, crashes>>

\* The release is best-effort: its error is swallowed, the handler's rethrown.
ReleaseFails(r) ==
  /\ step[r] = "release"
  /\ Fault
  /\ Q!Strand(r)
  /\ FailsAt(r, "release")
  /\ To(r, "none")
  /\ I!HandlerThrows(r)
  /\ UNCHANGED <<kind, posting, jobs, crashes>>

(***************************************************************************)
(* The interceptor on the way out.                                         *)
(***************************************************************************)
SettleKey(r) ==
  /\ \/ (I!Complete(r) \/ I!Unclaim(r)) /\ UNCHANGED faults
     \/ (I!CompleteFails(r) \/ I!UnclaimFails(r)) /\ Fault
  /\ UNCHANGED <<quotaVars, handlerVars, crashes>>

(***************************************************************************)
(* The environment.                                                        *)
(***************************************************************************)
Answered(r) == phase[r] = "refused" \/ stage[r] \in I!Finished
InFlight == {r \in Requests : phase[r] # "new" /\ ~ Answered(r)}

Crash(S) ==
  /\ crashes < MaxCrashes
  /\ crashes' = crashes + 1
  /\ Q!Crash(S)
  /\ I!Crash(S)
  /\ step' = [r \in Requests |-> IF r \in S THEN "none" ELSE step[r]]
  /\ UNCHANGED <<kind, failed, posting, jobs, faults>>

Background ==
  /\ \/ Q!Tick
     \/ Q!BackfillList
     \/ \E o \in Orgs : Q!BackfillCount(o) \/ Q!BackfillRaise(o)
     \/ \E o \in Orgs, p \in Plans, st \in {"active", "inactive"}, e \in Q!Ends :
          Q!BillingSync(o, p, st, e)
  /\ UNCHANGED <<keyVars, handlerVars, faults, crashes>>

\* What the server does for a request it has begun to serve.
Serve(r) ==
  \/ Reserve(r) \/ WithoutKey(r) \/ (\E k \in Keys : ClaimKey(r, k))
  \/ Replay(r) \/ Conflict(r)
  \/ RejectDto(r) \/ (\E k \in Kinds : Dispatch(r, k))
  \/ (\E t \in Titles : CreateJob(r, t) \/ CreateJobClashes(r, t))
  \/ Work(r) \/ WorkFails(r) \/ Persist(r) \/ Apply(r) \/ Release(r)
  \/ SettleKey(r)

\* What the database may do to it instead.
Faulty(r) ==
  \/ GuardErrors(r) \/ ClaimFails(r) \/ LookupFails(r) \/ CreateJobFails(r)
  \/ PersistFails(r) \/ ApplyFails(r) \/ ReleaseFails(r)

Next ==
  \/ \E r \in Requests, o \in Orgs : Arrive(r, o)
  \/ \E r \in Requests : Serve(r) \/ Faulty(r)
  \/ \E S \in SUBSET InFlight \ {{}} : Crash(S)
  \/ Background

Spec == Init /\ [][Next]_vars

\* Node keeps running the handlers it has started, and Postgres and the LLM
\* answer every statement or call with a result or an error.
FairSpec == Spec /\ \A r \in Requests : WF_vars(Serve(r))

------------------------------------------------------------------------------
(***************************************************************************)
(* Properties.                                                             *)
(***************************************************************************)

\* Every variable of the handlers keeps its type, with the components' types, and
\* a handler is between two statements only with a slot and inside the interceptor.
TypeOK ==
  /\ Q!TypeOK
  /\ I!TypeOK
  /\ kind \in [Requests -> Kinds \union {"none"}]
  /\ step \in [Requests -> Steps]
  /\ failed \in [Requests -> Failures]
  /\ posting \in [Requests -> Titles \union {NoTitle}]
  /\ jobs \in [Orgs \X Titles -> Requests \union {NoJob}]
  /\ faults \in 0..MaxFaults
  /\ crashes \in 0..MaxCrashes
  /\ \A r \in Requests : step[r] # "none" =>
       stage[r] = "running" /\ phase[r] \in {"held", "logged"}

\* The services use their reservations as Quota allows: each one is logged or
\* released at most once, and never released after it was logged.
ReservationProtocol == Q!Spec

\* A client is told of success only for a generation that was logged and is
\* still charged, and so is the execution behind every replayed answer, in the
\* client's own organisation.
SuccessIsCharged ==
  \A r \in Requests : stage[r] \in {"ok", "replayed"} =>
    /\ phase[answer[r]] = "logged"
    /\ OrgOf(answer[r]) = OrgOf(r)

\* The guarantee stated over generate() and analyze(): a generation that fails
\* in its handler, for whatever reason and at whatever statement, has given its
\* slot back by the time the client hears of it, unless the release itself failed.
FailedGenerationIsFree ==
  \A r \in Requests :
    /\ kind[r] \in {"generate", "assess"}
    /\ failed[r] \notin {"none", "release"}
    /\ stage[r] \in {"undoing", "error"}
    => phase[r] = "released"

\* The requests whose answer runs no service: a replay, a 409, a body the validation
\* pipe refuses.  The guard has reserved a slot for each of them and nobody gives it
\* back (see ReplayIsNotCharged), without any fault.
Unserved == {r \in Requests : stage[r] \in {"replayed", "conflict"} \/ failed[r] = "pipe"}

\* Any other request that is charged and has no success to show for it lost its slot
\* to a failed statement or to a crash of its process, one of them for each lost slot:
\* no order of claims, failures, releases and crashes loses two slots to one fault.
LostSlotsAreAccounted ==
  LET lost == {r \in Requests : Answered(r) /\ Q!Charged(r) /\ stage[r] # "ok"}
      dead == {r \in Requests : stage[r] = "dead"}
  IN  Cardinality(lost \ Unserved) <= faults + Cardinality(dead)

\* What clients are told and what they pay for: no success without a charge, and a
\* charge without a success only to a client whom no service served (Unserved) or by
\* a fault or crash of its own.
ChargesMatchAnswers == SuccessIsCharged /\ LostSlotsAreAccounted

\* What the interceptor, the schema and its test promise of a retry with the same key:
\* the replayed answer costs no second slot.
ReplayIsNotCharged ==
  \A r \in Requests : stage[r] = "replayed" => ~ Q!Charged(r)

\* Every request the guard has seen is answered in the end, or dies with its process.
EveryRequestAnswered ==
  \A r \in Requests : (phase[r] # "new") ~> Answered(r)

\* A tone or pricing adjustment that fails has given its slot back.
AdjustReleasesOnFailure ==
  \A r \in Requests :
    /\ kind[r] = "adjust"
    /\ failed[r] \notin {"none", "release"}
    /\ stage[r] \in {"undoing", "error"}
    => phase[r] = "released"

==============================================================================
