--------------------------- MODULE GenerationProofs ----------------------------
(***************************************************************************)
(* A request from its guard to its answer, for any number of requests,     *)
(* organisations, keys, faults and crashes.  The handlers are shown to use *)
(* Quota and Idempotency as those modules allow; what is proved of each    *)
(* alone then holds of the whole, and what clients pay for and are told    *)
(* rests on both.                                                          *)
(***************************************************************************)
EXTENDS Generation, FiniteSetTheorems, TLAPS

QP == INSTANCE QuotaProofs
IP == INSTANCE IdempotencyProofs

\* Where a request is in its handler says where it is in the interceptor and what
\* has become of its slot.
Placed ==
  \A r \in Requests :
    /\ phase[r] \in {"new", "checked"} => stage[r] = "new"
    /\ phase[r] = "refused" => stage[r] \in {"new", "dead"}
    /\ stage[r] = "new" => phase[r] \in {"new", "checked", "held", "refused"}
    /\ stage[r] = "lookup" => phase[r] = "held"
    /\ stage[r] = "running" <=> step[r] # "none"
    /\ step[r] \in {"pipe", "create", "work", "persist", "release"} => phase[r] = "held"
    /\ step[r] = "apply" => phase[r] = "logged" /\ kind[r] = "adjust"
    /\ stage[r] \in {"new", "lookup"} \/ step[r] = "pipe" => kind[r] = "none"
    /\ stage[r] \in {"returned", "ok"} => phase[r] = "logged"

\* The row that a request's key names is its own organisation's, and an answer is
\* the request's own or a replay of its row.
OwnRows ==
  \A r \in Requests :
    /\ target[r] # NoRow => target[r][1] = OrgOf(r)
    /\ stage[r] = "ok" => answer[r] = r
    /\ stage[r] = "replayed" => target[r] # NoRow

\* Requests that failed, past or before the pipe but not in it, on a slot they still hold.
Wounded ==
  {r \in Requests : stage[r] \in {"undoing", "error"} /\ failed[r] # "pipe" /\ Q!Charged(r)}

WoundsAreFaults == Cardinality(Wounded) <= faults

HandlerInv == TypeOK /\ Placed

------------------------------------------------------------------------------
LEMMA QuotaAssumed == QP!QuotaAssumption
<1>1. Q!QuotaAssumption
  BY GenerationAssumption
<1>2. QP!Buckets = Q!Buckets /\ QP!Ends = Q!Ends /\ QP!Times = Q!Times
  BY DEF QP!Buckets, QP!Starts, QP!Ends, QP!Times, Q!Buckets, Q!Starts, Q!Ends, Q!Times
<1>3. Q!IsFiniteSet(Requests) => QP!IsFiniteSet(Requests)
  BY DEF Q!IsFiniteSet, QP!IsFiniteSet
<1> QED
  BY <1>1, <1>2, <1>3 DEF QP!QuotaAssumption, Q!QuotaAssumption

LEMMA KeysAssumed == IP!IdempotencyAssumption
BY GenerationAssumption DEF IP!IdempotencyAssumption, I!IdempotencyAssumption, IP!Rows, I!Rows

\* Where the requests are after a step.
LEMMA PlacedStep == TypeOK /\ Placed /\ [Next]_vars => Placed'
<1> SUFFICES ASSUME TypeOK, Placed, [Next]_vars PROVE Placed'
  OBVIOUS
<1> USE DEF TypeOK, Placed, Q!TypeOK, I!TypeOK, Steps, Failures, To, FailsAt, Fault,
           I!MoveTo, quotaVars, keyVars, handlerVars
<1>1. ASSUME NEW r \in Requests, NEW o \in Orgs, Arrive(r, o)
      PROVE  Placed'
  BY <1>1 DEF Arrive, Q!GuardPasses, Q!GuardRefuses, Q!orgVars, Q!fillVars
<1>2. ASSUME NEW r \in Requests, Reserve(r) \/ GuardErrors(r)
      PROVE  Placed'
  BY <1>2 DEF Reserve, Q!Reserve, Q!ReserveRejects, GuardErrors, Q!GuardErrors, Q!orgVars,
     Q!fillVars
<1>3. ASSUME NEW r \in Requests, WithoutKey(r)
      PROVE  Placed'
  BY <1>3 DEF WithoutKey, I!PassThrough
<1>4. ASSUME NEW r \in Requests, NEW k \in Keys, ClaimKey(r, k)
      PROVE  Placed'
  BY <1>4 DEF ClaimKey, I!Claim
<1>5. ASSUME NEW r \in Requests, ClaimFails(r) \/ Conflict(r) \/ LookupFails(r)
      PROVE  Placed'
  BY <1>5 DEF ClaimFails, Conflict, LookupFails, I!ClaimFails, I!Conflict, I!LookupFails,
     Q!Strand, Q!orgVars, Q!fillVars
<1>6. ASSUME NEW r \in Requests, Replay(r)
      PROVE  Placed'
  BY <1>6 DEF Replay, I!Replay, Q!Strand, Q!orgVars, Q!fillVars
<1>7. ASSUME NEW r \in Requests, RejectDto(r)
      PROVE  Placed'
  BY <1>7 DEF RejectDto, I!HandlerThrows, Q!Strand, Q!orgVars, Q!fillVars
<1>8. ASSUME NEW r \in Requests, NEW k \in Kinds, Dispatch(r, k)
      PROVE  Placed'
  BY <1>8 DEF Dispatch, Kinds
<1>9. ASSUME NEW r \in Requests, NEW t \in Titles, CreateJob(r, t) \/ CreateJobClashes(r, t)
      PROVE  Placed'
  BY <1>9 DEF CreateJob, CreateJobClashes
<1>10. ASSUME NEW r \in Requests,
             Work(r) \/ WorkFails(r) \/ CreateJobFails(r) \/ PersistFails(r)
       PROVE  Placed'
  BY <1>10 DEF Work, WorkFails, CreateJobFails, PersistFails
<1>11. ASSUME NEW r \in Requests, Persist(r)
       PROVE  Placed'
  BY <1>11 DEF Persist, Q!LogGeneration, I!HandlerReturns, Q!orgVars, Q!fillVars
<1>12. ASSUME NEW r \in Requests, Apply(r)
       PROVE  Placed'
  BY <1>12 DEF Apply, I!HandlerReturns
<1>13. ASSUME NEW r \in Requests, ApplyFails(r)
       PROVE  Placed'
  BY <1>13 DEF ApplyFails, I!HandlerThrows
<1>14. ASSUME NEW r \in Requests, Release(r)
       PROVE  Placed'
  BY <1>14 DEF Release, Q!releaseQuota, I!HandlerThrows, Q!orgVars, Q!fillVars
<1>15. ASSUME NEW r \in Requests, ReleaseFails(r)
       PROVE  Placed'
  BY <1>15 DEF ReleaseFails, Q!Strand, I!HandlerThrows, Q!orgVars, Q!fillVars
<1>16. ASSUME NEW r \in Requests, SettleKey(r)
       PROVE  Placed'
  BY <1>16 DEF SettleKey, I!Complete, I!Unclaim, I!CompleteFails, I!UnclaimFails
<1>17. ASSUME NEW S \in SUBSET InFlight, Crash(S)
       PROVE  Placed'
  BY <1>17 DEF Crash, Q!Crash, Q!AfterCrash, I!Crash, I!Finished, InFlight, Answered,
     Q!orgVars, Q!fillVars
<1>18. CASE Background
  <2>1. UNCHANGED <<phase, bucket, stage, step, kind, target, answer, failed>>
    BY <1>18 DEF Background, Q!Tick, Q!BackfillList, Q!BackfillCount, Q!BackfillRaise,
       Q!BillingSync, Q!reqVars
  <2> QED
    BY <2>1
<1>19. CASE UNCHANGED vars
  BY <1>19 DEF vars, quotaVars, keyVars, handlerVars
<1> QED
  BY <1>1, <1>2, <1>3, <1>4, <1>5, <1>6, <1>7, <1>8, <1>9, <1>10, <1>11, <1>12, <1>13, <1>14,
     <1>15, <1>16, <1>17, <1>18, <1>19
     DEF Next, Serve, Faulty

------------------------------------------------------------------------------
(***************************************************************************)
(* The composition: every step of a request is one that Quota and          *)
(* Idempotency allow, or leaves them alone.                                *)
(***************************************************************************)

\* A release in a catch block finds its slot reserved and nothing logged.
LEMMA StepsAreQuota == TypeOK /\ Placed /\ [Next]_vars => [Q!Next]_(Q!vars)
<1> SUFFICES ASSUME TypeOK, Placed, [Next]_vars PROVE [Q!Next]_(Q!vars)
  OBVIOUS
<1>1. ASSUME NEW r \in Requests, NEW o \in Orgs, Arrive(r, o)
      PROVE  [Q!Next]_(Q!vars)
  BY <1>1 DEF Arrive, Q!Next
<1>2. ASSUME NEW r \in Requests, Reserve(r) \/ GuardErrors(r)
      PROVE  [Q!Next]_(Q!vars)
  BY <1>2 DEF Reserve, GuardErrors, Q!Next
<1>3. ASSUME NEW r \in Requests, WithoutKey(r)
      PROVE  [Q!Next]_(Q!vars)
  BY <1>3 DEF WithoutKey, quotaVars, Q!vars
<1>4. ASSUME NEW r \in Requests, NEW k \in Keys, ClaimKey(r, k)
      PROVE  [Q!Next]_(Q!vars)
  BY <1>4 DEF ClaimKey, quotaVars, Q!vars
<1>5. ASSUME NEW r \in Requests, ClaimFails(r) \/ Conflict(r) \/ LookupFails(r)
      PROVE  [Q!Next]_(Q!vars)
  BY <1>5 DEF ClaimFails, Conflict, LookupFails, Q!Next
<1>6. ASSUME NEW r \in Requests, Replay(r)
      PROVE  [Q!Next]_(Q!vars)
  BY <1>6 DEF Replay, Q!Next
<1>7. ASSUME NEW r \in Requests, RejectDto(r)
      PROVE  [Q!Next]_(Q!vars)
  BY <1>7 DEF RejectDto, Q!Next
<1>8. ASSUME NEW r \in Requests, NEW k \in Kinds, Dispatch(r, k)
      PROVE  [Q!Next]_(Q!vars)
  BY <1>8 DEF Dispatch, quotaVars, Q!vars
<1>9. ASSUME NEW r \in Requests, NEW t \in Titles, CreateJob(r, t) \/ CreateJobClashes(r, t)
      PROVE  [Q!Next]_(Q!vars)
  BY <1>9 DEF CreateJob, CreateJobClashes, quotaVars, Q!vars
<1>10. ASSUME NEW r \in Requests,
             Work(r) \/ WorkFails(r) \/ CreateJobFails(r) \/ PersistFails(r)
       PROVE  [Q!Next]_(Q!vars)
  BY <1>10 DEF Work, WorkFails, CreateJobFails, PersistFails, quotaVars, Q!vars
<1>11. ASSUME NEW r \in Requests, Persist(r)
       PROVE  [Q!Next]_(Q!vars)
  BY <1>11 DEF Persist, Q!Next
<1>12. ASSUME NEW r \in Requests, Apply(r)
       PROVE  [Q!Next]_(Q!vars)
  BY <1>12 DEF Apply, quotaVars, Q!vars
<1>13. ASSUME NEW r \in Requests, ApplyFails(r)
       PROVE  [Q!Next]_(Q!vars)
  BY <1>13 DEF ApplyFails, quotaVars, Q!vars
<1>14. ASSUME NEW r \in Requests, Release(r)
       PROVE  [Q!Next]_(Q!vars)
  <2>1. phase[r] = "held" /\ Q!releaseQuota(r)
    BY <1>14 DEF Release, Placed
  <2> QED
    BY <2>1 DEF Q!Release, Q!Next
<1>15. ASSUME NEW r \in Requests, ReleaseFails(r)
       PROVE  [Q!Next]_(Q!vars)
  BY <1>15 DEF ReleaseFails, Q!Next
<1>16. ASSUME NEW r \in Requests, SettleKey(r)
       PROVE  [Q!Next]_(Q!vars)
  BY <1>16 DEF SettleKey, quotaVars, Q!vars
<1>17. ASSUME NEW S \in SUBSET InFlight, Crash(S)
       PROVE  [Q!Next]_(Q!vars)
  <2>1. Q!Crash(S) /\ S \in SUBSET Requests
    BY <1>17 DEF Crash, InFlight
  <2> QED
    BY <2>1 DEF Q!Next
<1>18. CASE Background
  BY <1>18 DEF Background, Q!Next
<1>19. CASE UNCHANGED vars
  BY <1>19 DEF vars, quotaVars, Q!vars
<1> QED
  BY <1>1, <1>2, <1>3, <1>4, <1>5, <1>6, <1>7, <1>8, <1>9, <1>10, <1>11, <1>12, <1>13, <1>14,
     <1>15, <1>16, <1>17, <1>18, <1>19
     DEF Next, Serve, Faulty

\* A key names a row of the organisation whose slot the request holds.
LEMMA StepsAreKeys == TypeOK /\ Placed /\ [Next]_vars => [I!Next]_(I!vars)
<1> SUFFICES ASSUME TypeOK, Placed, [Next]_vars PROVE [I!Next]_(I!vars)
  OBVIOUS
<1>1. ASSUME NEW r \in Requests, NEW o \in Orgs, Arrive(r, o)
      PROVE  [I!Next]_(I!vars)
  BY <1>1 DEF Arrive, keyVars, I!vars
<1>2. ASSUME NEW r \in Requests, Reserve(r) \/ GuardErrors(r)
      PROVE  [I!Next]_(I!vars)
  BY <1>2 DEF Reserve, GuardErrors, keyVars, I!vars
<1>3. ASSUME NEW r \in Requests, WithoutKey(r)
      PROVE  [I!Next]_(I!vars)
  BY <1>3 DEF WithoutKey, I!Next
<1>4. ASSUME NEW r \in Requests, NEW k \in Keys, ClaimKey(r, k)
      PROVE  [I!Next]_(I!vars)
  <2>1. phase[r] = "held" /\ I!Claim(r, <<OrgOf(r), k>>)
    BY <1>4 DEF ClaimKey
  <2>2. bucket[r] \in Q!Buckets
    BY <2>1 DEF TypeOK, Q!TypeOK
  <2>3. <<OrgOf(r), k>> \in I!Rows
    BY <2>2 DEF OrgOf, Q!Buckets, I!Rows
  <2> QED
    BY <2>1, <2>3 DEF I!Next
<1>5. ASSUME NEW r \in Requests, ClaimFails(r) \/ Conflict(r) \/ LookupFails(r)
      PROVE  [I!Next]_(I!vars)
  BY <1>5 DEF ClaimFails, Conflict, LookupFails, I!Next
<1>6. ASSUME NEW r \in Requests, Replay(r)
      PROVE  [I!Next]_(I!vars)
  BY <1>6 DEF Replay, I!Next
<1>7. ASSUME NEW r \in Requests, RejectDto(r)
      PROVE  [I!Next]_(I!vars)
  BY <1>7 DEF RejectDto, I!Next
<1>8. ASSUME NEW r \in Requests, NEW k \in Kinds, Dispatch(r, k)
      PROVE  [I!Next]_(I!vars)
  BY <1>8 DEF Dispatch, keyVars, I!vars
<1>9. ASSUME NEW r \in Requests, NEW t \in Titles, CreateJob(r, t) \/ CreateJobClashes(r, t)
      PROVE  [I!Next]_(I!vars)
  BY <1>9 DEF CreateJob, CreateJobClashes, keyVars, I!vars
<1>10. ASSUME NEW r \in Requests,
             Work(r) \/ WorkFails(r) \/ CreateJobFails(r) \/ PersistFails(r)
       PROVE  [I!Next]_(I!vars)
  BY <1>10 DEF Work, WorkFails, CreateJobFails, PersistFails, keyVars, I!vars
<1>11. ASSUME NEW r \in Requests, Persist(r)
       PROVE  [I!Next]_(I!vars)
  BY <1>11 DEF Persist, keyVars, I!vars, I!Next
<1>12. ASSUME NEW r \in Requests, Apply(r)
       PROVE  [I!Next]_(I!vars)
  BY <1>12 DEF Apply, I!Next
<1>13. ASSUME NEW r \in Requests, ApplyFails(r)
       PROVE  [I!Next]_(I!vars)
  BY <1>13 DEF ApplyFails, I!Next
<1>14. ASSUME NEW r \in Requests, Release(r)
       PROVE  [I!Next]_(I!vars)
  BY <1>14 DEF Release, I!Next
<1>15. ASSUME NEW r \in Requests, ReleaseFails(r)
       PROVE  [I!Next]_(I!vars)
  BY <1>15 DEF ReleaseFails, I!Next
<1>16. ASSUME NEW r \in Requests, SettleKey(r)
       PROVE  [I!Next]_(I!vars)
  BY <1>16 DEF SettleKey, I!Next
<1>17. ASSUME NEW S \in SUBSET InFlight, Crash(S)
       PROVE  [I!Next]_(I!vars)
  <2>1. I!Crash(S) /\ S \in SUBSET Requests
    BY <1>17 DEF Crash, InFlight
  <2> QED
    BY <2>1 DEF I!Next
<1>18. CASE Background
  BY <1>18 DEF Background, keyVars, I!vars
<1>19. CASE UNCHANGED vars
  BY <1>19 DEF vars, keyVars, I!vars
<1> QED
  BY <1>1, <1>2, <1>3, <1>4, <1>5, <1>6, <1>7, <1>8, <1>9, <1>10, <1>11, <1>12, <1>13, <1>14,
     <1>15, <1>16, <1>17, <1>18, <1>19
     DEF Next, Serve, Faulty

------------------------------------------------------------------------------
(***************************************************************************)
(* Q and I are the components as Generation composes them, QP and IP the   *)
(* same with what is proved about them: their definitions say the same.    *)
(***************************************************************************)
LEMMA SameCardinality ==
  ASSUME NEW S
  PROVE  Q!Cardinality(S) = Cardinality(S) /\ QP!Cardinality(S) = Cardinality(S)
BY DEF Q!Cardinality, QP!Cardinality, Cardinality

LEMMA SameQuotaTypes ==
  /\ Q!Buckets = QP!Buckets /\ Q!Ends = QP!Ends /\ Q!Times = QP!Times /\ Q!Starts = QP!Starts
  /\ Q!Phases = QP!Phases /\ Q!OrgRows = QP!OrgRows /\ Q!BackfillLocals = QP!BackfillLocals
BY DEF Q!Buckets, Q!Ends, Q!Times, Q!Starts, Q!Phases, Q!OrgRows, Q!BackfillLocals,
   QP!Buckets, QP!Ends, QP!Times, QP!Starts, QP!Phases, QP!OrgRows, QP!BackfillLocals

LEMMA SameQuotaType == Q!TypeOK <=> QP!TypeOK
BY SameQuotaTypes DEF Q!TypeOK, QP!TypeOK

LEMMA SameLogs ==
  /\ \A o, s : Q!LogsSince(o, s) = QP!LogsSince(o, s) /\ Q!OldLogs(o, s) = QP!OldLogs(o, s)
  /\ \A o, s : Q!RecentLogs(o, s) = QP!RecentLogs(o, s)
<1>1. \A o, s : Q!RecentLogs(o, s) = QP!RecentLogs(o, s)
  BY DEF Q!RecentLogs, QP!RecentLogs
<1>2. \A o, s : Q!OldLogs(o, s) = QP!OldLogs(o, s)
  BY DEF Q!OldLogs, QP!OldLogs
<1> QED
  BY <1>1, <1>2, SameCardinality DEF Q!LogsSince, QP!LogsSince

LEMMA SameQuotaSteps == Q!vars = QP!vars /\ (Q!Init <=> QP!Init) /\ (Q!Next <=> QP!Next)
<1>1. Q!vars = QP!vars /\ (Q!Init <=> QP!Init)
  BY SameQuotaTypes DEF Q!vars, QP!vars, Q!Init, QP!Init
<1> USE DEF Q!orgVars, Q!fillVars, Q!reqVars, QP!orgVars, QP!fillVars, QP!reqVars
<1>2. \A o, e : Q!PeriodOf(o, e) = QP!PeriodOf(o, e)
  BY DEF Q!PeriodOf, QP!PeriodOf, Q!computePeriodStart, QP!computePeriodStart,
     Q!CreatedAt, QP!CreatedAt
<1>3. \A r, o : (Q!GuardPasses(r, o) <=> QP!GuardPasses(r, o))
                /\ (Q!GuardRefuses(r, o) <=> QP!GuardRefuses(r, o))
  BY <1>2 DEF Q!GuardPasses, QP!GuardPasses, Q!GuardRefuses, QP!GuardRefuses,
     Q!Blocked, QP!Blocked
<1>4. \A r : /\ Q!Reserve(r) <=> QP!Reserve(r)
             /\ Q!ReserveRejects(r) <=> QP!ReserveRejects(r)
             /\ Q!GuardErrors(r) <=> QP!GuardErrors(r)
  BY DEF Q!Reserve, QP!Reserve, Q!ReserveRejects, QP!ReserveRejects, Q!GuardErrors,
     QP!GuardErrors, Q!BelowLimit, QP!BelowLimit
<1>5. \A r : /\ Q!LogGeneration(r) <=> QP!LogGeneration(r)
             /\ Q!Release(r) <=> QP!Release(r)
             /\ Q!Strand(r) <=> QP!Strand(r)
  BY DEF Q!LogGeneration, QP!LogGeneration, Q!Release, QP!Release, Q!releaseQuota,
     QP!releaseQuota, Q!Strand, QP!Strand
<1>6. \A S : Q!Crash(S) <=> QP!Crash(S)
  BY DEF Q!Crash, QP!Crash, Q!AfterCrash, QP!AfterCrash
<1>7. Q!BackfillList <=> QP!BackfillList
  BY DEF Q!BackfillList, QP!BackfillList
<1>8. \A o : Q!BackfillCount(o) <=> QP!BackfillCount(o)
  BY <1>2, SameLogs DEF Q!BackfillCount, QP!BackfillCount
<1>9. \A o : Q!BackfillRaise(o) <=> QP!BackfillRaise(o)
  BY DEF Q!BackfillRaise, QP!BackfillRaise, Q!Raised, QP!Raised, Q!Greatest, QP!Greatest
<1>10. /\ Q!Tick <=> QP!Tick
       /\ \A o, p, st, e : Q!BillingSync(o, p, st, e) <=> QP!BillingSync(o, p, st, e)
  BY DEF Q!Tick, QP!Tick, Q!BillingSync, QP!BillingSync
<1> QED
  BY <1>1, <1>3, <1>4, <1>5, <1>6, <1>7, <1>8, <1>9, <1>10, SameQuotaTypes DEF Q!Next, QP!Next

LEMMA SameKeysType == I!TypeOK <=> IP!TypeOK
BY DEF I!TypeOK, I!Rows, I!Entries, I!Stages, IP!TypeOK, IP!Rows, IP!Entries, IP!Stages

LEMMA SameKeysSteps == I!vars = IP!vars /\ (I!Init <=> IP!Init) /\ (I!Next <=> IP!Next)
BY DEF I!vars, I!Init, I!Next, I!Claim, I!PassThrough, I!ClaimFails, I!Replay, I!Conflict,
   I!LookupFails, I!HandlerReturns, I!HandlerThrows, I!Complete, I!CompleteFails, I!Unclaim,
   I!UnclaimFails, I!Crash, I!Rows, I!Pending, I!Absent, I!Completed, I!MoveTo, I!Finished,
   IP!vars, IP!Init, IP!Next, IP!Claim, IP!PassThrough, IP!ClaimFails, IP!Replay, IP!Conflict,
   IP!LookupFails, IP!HandlerReturns, IP!HandlerThrows, IP!Complete, IP!CompleteFails,
   IP!Unclaim, IP!UnclaimFails, IP!Crash, IP!Rows, IP!Pending, IP!Absent, IP!Completed,
   IP!MoveTo, IP!Finished

------------------------------------------------------------------------------
(***************************************************************************)
(* Type correctness, and where requests are.                               *)
(***************************************************************************)
LEMMA ComponentTypes == TypeOK /\ Placed /\ [Next]_vars => Q!TypeOK' /\ I!TypeOK'
<1> SUFFICES ASSUME TypeOK, Placed, [Next]_vars PROVE Q!TypeOK' /\ I!TypeOK'
  OBVIOUS
<1>1. [QP!Next]_(QP!vars) /\ [IP!Next]_(IP!vars)
  <2>1. [Q!Next]_(Q!vars) /\ [I!Next]_(I!vars)
    BY StepsAreQuota, StepsAreKeys
  <2>2. (UNCHANGED Q!vars => UNCHANGED QP!vars) /\ (UNCHANGED I!vars => UNCHANGED IP!vars)
    BY DEF Q!vars, QP!vars, I!vars, IP!vars
  <2> QED
    BY <2>1, <2>2, SameQuotaSteps, SameKeysSteps
<1>2. QP!TypeOK /\ IP!TypeOK
  BY SameQuotaType, SameKeysType DEF TypeOK
<1>3. QP!TypeOK' /\ IP!TypeOK'
  BY <1>1, <1>2, QP!NextType, IP!TypeStep, QuotaAssumed, KeysAssumed
<1>4. (Q!TypeOK <=> QP!TypeOK)' /\ (I!TypeOK <=> IP!TypeOK)'
  BY SameQuotaTypes, SameKeysType DEF Q!TypeOK, QP!TypeOK, I!TypeOK, I!Rows, I!Entries,
     I!Stages, IP!TypeOK, IP!Rows, IP!Entries, IP!Stages
<1> QED
  BY <1>3, <1>4

HandlerTypes ==
  /\ kind \in [Requests -> Kinds \union {"none"}]
  /\ step \in [Requests -> Steps]
  /\ failed \in [Requests -> Failures]
  /\ posting \in [Requests -> Titles \union {NoTitle}]
  /\ jobs \in [Orgs \X Titles -> Requests \union {NoJob}]
  /\ faults \in 0..MaxFaults
  /\ crashes \in 0..MaxCrashes

\* What the handlers keep stays in its type.
LEMMA HandlerTypeStep == TypeOK /\ Placed /\ [Next]_vars => HandlerTypes'
<1> SUFFICES ASSUME TypeOK, Placed, [Next]_vars PROVE HandlerTypes'
  OBVIOUS
<1> USE DEF HandlerTypes, TypeOK, Kinds, Steps, Failures, To, FailsAt, Fault, handlerVars
<1> USE GenerationAssumption
<1>1. ASSUME NEW r \in Requests, NEW o \in Orgs, Arrive(r, o)
      PROVE  HandlerTypes'
  BY <1>1 DEF Arrive
<1>2. ASSUME NEW r \in Requests, Reserve(r) \/ GuardErrors(r)
      PROVE  HandlerTypes'
  BY <1>2 DEF Reserve, GuardErrors
<1>3. ASSUME NEW r \in Requests, WithoutKey(r)
      PROVE  HandlerTypes'
  BY <1>3 DEF WithoutKey
<1>4. ASSUME NEW r \in Requests, NEW k \in Keys, ClaimKey(r, k)
      PROVE  HandlerTypes'
  BY <1>4 DEF ClaimKey
<1>5. ASSUME NEW r \in Requests, ClaimFails(r) \/ Conflict(r) \/ LookupFails(r)
      PROVE  HandlerTypes'
  BY <1>5 DEF ClaimFails, Conflict, LookupFails
<1>6. ASSUME NEW r \in Requests, Replay(r)
      PROVE  HandlerTypes'
  BY <1>6 DEF Replay
<1>7. ASSUME NEW r \in Requests, RejectDto(r)
      PROVE  HandlerTypes'
  BY <1>7 DEF RejectDto
<1>8. ASSUME NEW r \in Requests, NEW k \in Kinds, Dispatch(r, k)
      PROVE  HandlerTypes'
  BY <1>8 DEF Dispatch
<1>9. ASSUME NEW r \in Requests, NEW t \in Titles, CreateJob(r, t) \/ CreateJobClashes(r, t)
      PROVE  HandlerTypes'
  <2>1. OrgOf(r) \in Orgs \/ UNCHANGED jobs
    <3>1. CASE step[r] = "create"
      <4>1. bucket[r] \in Q!Buckets
        BY <3>1 DEF Placed, Q!TypeOK
      <4> QED
        BY <4>1 DEF OrgOf, Q!Buckets
    <3> QED
      BY <1>9, <3>1 DEF CreateJob, CreateJobClashes
  <2>2. jobs' \in [Orgs \X Titles -> Requests \union {NoJob}]
    BY <1>9, <2>1 DEF CreateJob, CreateJobClashes
  <2>3. posting' \in [Requests -> Titles \union {NoTitle}]
    BY <1>9 DEF CreateJob, CreateJobClashes
  <2> QED
    BY <1>9, <2>2, <2>3 DEF CreateJob, CreateJobClashes
<1>10. ASSUME NEW r \in Requests,
             Work(r) \/ WorkFails(r) \/ CreateJobFails(r) \/ PersistFails(r)
       PROVE  HandlerTypes'
  BY <1>10 DEF Work, WorkFails, CreateJobFails, PersistFails
<1>11. ASSUME NEW r \in Requests, Persist(r)
       PROVE  HandlerTypes'
  BY <1>11 DEF Persist
<1>12. ASSUME NEW r \in Requests, Apply(r)
       PROVE  HandlerTypes'
  BY <1>12 DEF Apply
<1>13. ASSUME NEW r \in Requests, ApplyFails(r)
       PROVE  HandlerTypes'
  BY <1>13 DEF ApplyFails
<1>14. ASSUME NEW r \in Requests, Release(r)
       PROVE  HandlerTypes'
  BY <1>14 DEF Release
<1>15. ASSUME NEW r \in Requests, ReleaseFails(r)
       PROVE  HandlerTypes'
  BY <1>15 DEF ReleaseFails
<1>16. ASSUME NEW r \in Requests, SettleKey(r)
       PROVE  HandlerTypes'
  BY <1>16 DEF SettleKey
<1>17. ASSUME NEW S \in SUBSET InFlight, Crash(S)
       PROVE  HandlerTypes'
  BY <1>17 DEF Crash
<1>18. CASE Background
  BY <1>18 DEF Background
<1>19. CASE UNCHANGED vars
  BY <1>19 DEF vars, handlerVars
<1> QED
  BY <1>1, <1>2, <1>3, <1>4, <1>5, <1>6, <1>7, <1>8, <1>9, <1>10, <1>11, <1>12, <1>13, <1>14,
     <1>15, <1>16, <1>17, <1>18, <1>19
     DEF Next, Serve, Faulty

LEMMA HandlerStep == HandlerInv /\ [Next]_vars => HandlerInv'
<1> SUFFICES ASSUME TypeOK, Placed, [Next]_vars PROVE TypeOK' /\ Placed'
  BY DEF HandlerInv
<1>1. Q!TypeOK' /\ I!TypeOK' /\ HandlerTypes' /\ Placed'
  BY ComponentTypes, HandlerTypeStep, PlacedStep
<1>2. \A r \in Requests : step'[r] # "none" =>
        stage'[r] = "running" /\ phase'[r] \in {"held", "logged"}
  BY <1>1 DEF HandlerTypes, Steps, Placed
<1> QED
  BY <1>1, <1>2 DEF TypeOK, HandlerTypes

LEMMA HandlerInit == Init => HandlerInv
<1> SUFFICES ASSUME Init PROVE TypeOK /\ Placed
  BY DEF HandlerInv
<1>1. Q!TypeOK
  <2>1. QP!Init
    BY SameQuotaSteps DEF Init
  <2> QED
    BY <2>1, QP!InitType, QuotaAssumed, SameQuotaType
<1>2. I!TypeOK
  <2>1. IP!Init
    BY SameKeysSteps DEF Init
  <2> QED
    BY <2>1, IP!InitTable, KeysAssumed, SameKeysType DEF IP!TableInv
<1>3. HandlerTypes
  BY GenerationAssumption DEF Init, HandlerTypes, Kinds, Steps, Failures
<1>4. \A r \in Requests :
        step[r] = "none" /\ kind[r] = "none" /\ phase[r] = "new" /\ stage[r] = "new"
  BY DEF Init, Q!Init, I!Init
<1> QED
  BY <1>1, <1>2, <1>3, <1>4 DEF TypeOK, Placed, HandlerTypes

\* Types of the whole composition; and a handler runs only between a claim and its
\* answer, on a slot that is reserved, or logged when it still has an adjustment to apply.
THEOREM HandlersInPlace == Spec => []HandlerInv
<1> QED
  BY HandlerInit, HandlerStep, PTL DEF Spec

\* Every variable of the composed system keeps its type.
THEOREM TypeCorrect == Spec => []TypeOK
<1>1. HandlerInv => TypeOK
  BY DEF HandlerInv
<1> QED
  BY <1>1, HandlersInPlace, PTL

\* The services use their reservations as the quota allows: whatever their handlers,
\* catch blocks and interceptors do, each slot is logged or released at most once,
\* and none is released after its generation was logged.
THEOREM UsesTheQuota == Spec => ReservationProtocol
<1>1. Init => Q!Init
  BY DEF Init
<1>2. HandlerInv /\ [Next]_vars => [Q!Next]_(Q!vars)
  BY StepsAreQuota DEF HandlerInv
<1> QED
  BY <1>1, <1>2, HandlersInPlace, PTL DEF Spec, ReservationProtocol, Q!Spec

\* The handlers settle their keys as the interceptor's protocol allows.
KeyProtocol == I!Spec

THEOREM UsesTheKeys == Spec => KeyProtocol
<1>1. Init => I!Init
  BY DEF Init
<1>2. HandlerInv /\ [Next]_vars => [I!Next]_(I!vars)
  BY StepsAreKeys DEF HandlerInv
<1> QED
  BY <1>1, <1>2, HandlersInPlace, PTL DEF Spec, KeyProtocol, I!Spec

------------------------------------------------------------------------------
(***************************************************************************)
(* What the components promise holds of the composition.                   *)
(***************************************************************************)
LEMMA SameQuotaPromises ==
  /\ Q!LedgerExact <=> QP!LedgerExact
  /\ Q!NoOverdraft <=> QP!NoOverdraft
  /\ Q!BackfillNeverOvercounts <=> QP!BackfillNeverOvercounts
<1>1. \A b : Q!ChargedTo(b) = QP!ChargedTo(b)
  BY DEF Q!ChargedTo, QP!ChargedTo, Q!Charged, QP!Charged
<1>2. \A b : Q!Cardinality(Q!ChargedTo(b)) = QP!Cardinality(QP!ChargedTo(b))
  BY <1>1, SameCardinality
<1>3. \A b : Q!ForeignLogs(b) = QP!ForeignLogs(b)
  <2>1. \A b : {r \in Q!RecentLogs(b[1], b[2]) : bucket[r] # b}
               = {r \in QP!RecentLogs(b[1], b[2]) : bucket[r] # b}
    BY SameLogs
  <2> QED
    BY <2>1, SameLogs, SameCardinality DEF Q!ForeignLogs, QP!ForeignLogs
<1>4. Q!LedgerExact <=> QP!LedgerExact
  BY <1>2, SameQuotaTypes DEF Q!LedgerExact, QP!LedgerExact
<1>5. Q!NoOverdraft <=> QP!NoOverdraft
  BY <1>1, <1>2, SameQuotaTypes DEF Q!NoOverdraft, QP!NoOverdraft
<1>6. Q!BackfillNeverOvercounts <=> QP!BackfillNeverOvercounts
  BY <1>3, SameQuotaTypes DEF Q!BackfillNeverOvercounts, QP!BackfillNeverOvercounts
<1> QED
  BY <1>4, <1>5, <1>6

LEMMA ReservationsAreQuota == ReservationProtocol => QP!Spec
<1>1. (UNCHANGED Q!vars => UNCHANGED QP!vars)
  BY DEF Q!vars, QP!vars
<1>2. [Q!Next]_(Q!vars) => [QP!Next]_(QP!vars)
  BY <1>1, SameQuotaSteps
<1>3. Q!Init => QP!Init
  BY SameQuotaSteps
<1> QED
  BY <1>2, <1>3, PTL DEF ReservationProtocol, Q!Spec, QP!Spec

LEMMA KeysAreTable == KeyProtocol => IP!Spec
<1>1. (UNCHANGED I!vars => UNCHANGED IP!vars)
  BY DEF I!vars, IP!vars
<1>2. [I!Next]_(I!vars) => [IP!Next]_(IP!vars)
  BY <1>1, SameKeysSteps
<1>3. I!Init => IP!Init
  BY SameKeysSteps
<1> QED
  BY <1>2, <1>3, PTL DEF KeyProtocol, I!Spec, IP!Spec

\* Under the real handlers, with their catch blocks, failures and crashes, the
\* counters are exact, no bucket is overdrawn and the backfill counts nothing twice.
THEOREM QuotaHolds ==
  Spec => [](Q!LedgerExact /\ Q!NoOverdraft /\ Q!BackfillNeverOvercounts)
<1>1. QP!Spec => []QP!LedgerExact /\ []QP!NoOverdraft /\ []QP!BackfillNeverOvercounts
  BY QP!CounterExact, QP!NeverOverdrawn, QP!BackfillSafe, QuotaAssumed
<1> QED
  BY <1>1, UsesTheQuota, ReservationsAreQuota, SameQuotaPromises, PTL

KeyPromises == I!OneOwnerPerKey /\ I!ReplayFaithful

LEMMA SameKeyPromises == IP!OneOwnerPerKey /\ IP!ReplayFaithful <=> KeyPromises
BY DEF KeyPromises, I!OneOwnerPerKey, I!ClaimExclusive, I!Owns, I!OneOriginalPerKey, I!Rows,
   I!Pending, I!ReplayFaithful, IP!OneOwnerPerKey, IP!ClaimExclusive, IP!Owns,
   IP!OneOriginalPerKey, IP!Rows, IP!Pending, IP!ReplayFaithful

\* Under the real handlers a key has one owner at a time and one executed answer in
\* all, and a replay is the answer of a request that succeeded with the same key.
THEOREM KeysHold == Spec => []KeyPromises
<1>1. IP!Spec => []IP!OneOwnerPerKey /\ []IP!ReplayFaithful
  BY IP!KeysAreOwnedOnce, IP!ReplaysAreFaithful, KeysAssumed
<1> QED
  BY <1>1, UsesTheKeys, KeysAreTable, SameKeyPromises, PTL

------------------------------------------------------------------------------
(***************************************************************************)
(* Failures.                                                               *)
(***************************************************************************)
\* A request of the try blocks of generate() and analyze() that has failed, and lives,
\* is on its way to the release, or has been there.
FreedInv ==
  \A r \in Requests :
    /\ failed[r] \notin {"none", "release"} /\ kind[r] \in {"generate", "assess"}
       => \/ step[r] = "release" \/ stage[r] = "dead"
          \/ stage[r] \in {"undoing", "error"} /\ phase[r] = "released"
    /\ failed[r] = "pipe" => kind[r] = "none"
    /\ step[r] \notin {"none", "release"} => failed[r] = "none"
    /\ stage[r] \in {"new", "lookup", "returned", "ok"} => failed[r] = "none"

\* A handler fails once: into its catch block, or out of the interceptor.
LEMMA FreedStep == TypeOK /\ Placed /\ FreedInv /\ [Next]_vars => FreedInv'
<1> SUFFICES ASSUME TypeOK, Placed, FreedInv, [Next]_vars PROVE FreedInv'
  OBVIOUS
<1> USE DEF TypeOK, Placed, FreedInv, Q!TypeOK, I!TypeOK, Steps, Failures, Kinds, To,
           FailsAt, Fault, I!MoveTo, quotaVars, keyVars, handlerVars
<1>1. ASSUME NEW r \in Requests, NEW o \in Orgs, Arrive(r, o)
      PROVE  FreedInv'
  BY <1>1 DEF Arrive, Q!GuardPasses, Q!GuardRefuses, Q!orgVars, Q!fillVars
<1>2. ASSUME NEW r \in Requests, Reserve(r) \/ GuardErrors(r)
      PROVE  FreedInv'
  BY <1>2 DEF Reserve, Q!Reserve, Q!ReserveRejects, GuardErrors, Q!GuardErrors, Q!orgVars,
     Q!fillVars
<1>3. ASSUME NEW r \in Requests, WithoutKey(r)
      PROVE  FreedInv'
  BY <1>3 DEF WithoutKey, I!PassThrough
<1>4. ASSUME NEW r \in Requests, NEW k \in Keys, ClaimKey(r, k)
      PROVE  FreedInv'
  BY <1>4 DEF ClaimKey, I!Claim
<1>5. ASSUME NEW r \in Requests, ClaimFails(r) \/ Conflict(r) \/ LookupFails(r)
      PROVE  FreedInv'
  BY <1>5 DEF ClaimFails, Conflict, LookupFails, I!ClaimFails, I!Conflict, I!LookupFails,
     Q!Strand, Q!orgVars, Q!fillVars
<1>6. ASSUME NEW r \in Requests, Replay(r)
      PROVE  FreedInv'
  BY <1>6 DEF Replay, I!Replay, Q!Strand, Q!orgVars, Q!fillVars
<1>7. ASSUME NEW r \in Requests, RejectDto(r)
      PROVE  FreedInv'
  BY <1>7 DEF RejectDto, I!HandlerThrows, Q!Strand, Q!orgVars, Q!fillVars
<1>8. ASSUME NEW r \in Requests, NEW k \in Kinds, Dispatch(r, k)
      PROVE  FreedInv'
  BY <1>8 DEF Dispatch, Kinds
<1>9. ASSUME NEW r \in Requests, NEW t \in Titles, CreateJob(r, t) \/ CreateJobClashes(r, t)
      PROVE  FreedInv'
  BY <1>9 DEF CreateJob, CreateJobClashes
<1>10. ASSUME NEW r \in Requests,
             Work(r) \/ WorkFails(r) \/ CreateJobFails(r) \/ PersistFails(r)
       PROVE  FreedInv'
  BY <1>10 DEF Work, WorkFails, CreateJobFails, PersistFails
<1>11. ASSUME NEW r \in Requests, Persist(r)
       PROVE  FreedInv'
  BY <1>11 DEF Persist, Q!LogGeneration, I!HandlerReturns, Q!orgVars, Q!fillVars
<1>12. ASSUME NEW r \in Requests, Apply(r)
       PROVE  FreedInv'
  BY <1>12 DEF Apply, I!HandlerReturns
<1>13. ASSUME NEW r \in Requests, ApplyFails(r)
       PROVE  FreedInv'
  BY <1>13 DEF ApplyFails, I!HandlerThrows
<1>14. ASSUME NEW r \in Requests, Release(r)
       PROVE  FreedInv'
  BY <1>14 DEF Release, Q!releaseQuota, I!HandlerThrows, Q!orgVars, Q!fillVars
<1>15. ASSUME NEW r \in Requests, ReleaseFails(r)
       PROVE  FreedInv'
  BY <1>15 DEF ReleaseFails, Q!Strand, I!HandlerThrows, Q!orgVars, Q!fillVars
<1>16. ASSUME NEW r \in Requests, SettleKey(r)
       PROVE  FreedInv'
  BY <1>16 DEF SettleKey, I!Complete, I!Unclaim, I!CompleteFails, I!UnclaimFails
<1>17. ASSUME NEW S \in SUBSET InFlight, Crash(S)
       PROVE  FreedInv'
  BY <1>17 DEF Crash, Q!Crash, Q!AfterCrash, I!Crash, I!Finished, InFlight, Answered,
     Q!orgVars, Q!fillVars
<1>18. CASE Background
  <2>1. UNCHANGED <<phase, bucket, stage, step, kind, target, answer, failed>>
    BY <1>18 DEF Background, Q!Tick, Q!BackfillList, Q!BackfillCount, Q!BackfillRaise,
       Q!BillingSync, Q!reqVars
  <2> QED
    BY <2>1
<1>19. CASE UNCHANGED vars
  BY <1>19 DEF vars, quotaVars, keyVars, handlerVars
<1> QED
  BY <1>1, <1>2, <1>3, <1>4, <1>5, <1>6, <1>7, <1>8, <1>9, <1>10, <1>11, <1>12, <1>13, <1>14,
     <1>15, <1>16, <1>17, <1>18, <1>19
     DEF Next, Serve, Faulty

\* A generation or an assessment that fails in its handler, at whatever statement,
\* has given its slot back by the time the client hears of it, unless the release
\* itself failed.
THEOREM FailuresAreFree == Spec => []FailedGenerationIsFree
<1>1. Init => FreedInv
  BY DEF Init, Q!Init, I!Init, FreedInv
<1>2. HandlerInv /\ FreedInv /\ [Next]_vars => FreedInv'
  BY FreedStep DEF HandlerInv
<1>3. HandlerInv /\ FreedInv => FailedGenerationIsFree
  BY DEF HandlerInv, Placed, FreedInv, FailedGenerationIsFree
<1> QED
  BY <1>1, <1>2, <1>3, HandlersInPlace, PTL DEF Spec

------------------------------------------------------------------------------
(***************************************************************************)
(* What clients are told, and what they pay for.                           *)
(***************************************************************************)

\* A request's organisation is fixed before its key is looked at.
LEMMA OwnRowsStep == TypeOK /\ Placed /\ OwnRows /\ [Next]_vars => OwnRows'
<1> SUFFICES ASSUME TypeOK, Placed, OwnRows, [Next]_vars PROVE OwnRows'
  OBVIOUS
<1> USE DEF TypeOK, Placed, OwnRows, Q!TypeOK, I!TypeOK, Steps, Failures, Kinds, To, FailsAt,
           Fault, I!MoveTo, quotaVars, keyVars, handlerVars, OrgOf
<1> USE GenerationAssumption
<1>1. ASSUME NEW r \in Requests, NEW o \in Orgs, Arrive(r, o)
      PROVE  OwnRows'
  <2>1. UNCHANGED <<target, stage, answer, kind>> /\ phase[r] = "new"
    BY <1>1 DEF Arrive, Q!GuardPasses, Q!GuardRefuses
  <2>2. target[r] = NoRow
    BY <2>1
  <2>3. \A q \in Requests \ {r} : bucket'[q] = bucket[q]
    BY <1>1 DEF Arrive, Q!GuardPasses, Q!GuardRefuses
  <2> QED
    BY <2>1, <2>2, <2>3
<1>2. ASSUME NEW r \in Requests, Reserve(r) \/ GuardErrors(r)
      PROVE  OwnRows'
  BY <1>2 DEF Reserve, Q!Reserve, Q!ReserveRejects, GuardErrors, Q!GuardErrors, Q!orgVars,
     Q!fillVars
<1>3. ASSUME NEW r \in Requests, WithoutKey(r)
      PROVE  OwnRows'
  BY <1>3 DEF WithoutKey, I!PassThrough
<1>4. ASSUME NEW r \in Requests, NEW k \in Keys, ClaimKey(r, k)
      PROVE  OwnRows'
  BY <1>4 DEF ClaimKey, I!Claim
<1>5. ASSUME NEW r \in Requests, ClaimFails(r) \/ Conflict(r) \/ LookupFails(r)
      PROVE  OwnRows'
  BY <1>5 DEF ClaimFails, Conflict, LookupFails, I!ClaimFails, I!Conflict, I!LookupFails,
     Q!Strand, Q!orgVars, Q!fillVars
<1>6. ASSUME NEW r \in Requests, Replay(r)
      PROVE  OwnRows'
  BY <1>6 DEF Replay, I!Replay, Q!Strand, Q!orgVars, Q!fillVars
<1>7. ASSUME NEW r \in Requests, RejectDto(r)
      PROVE  OwnRows'
  BY <1>7 DEF RejectDto, I!HandlerThrows, Q!Strand, Q!orgVars, Q!fillVars
<1>8. ASSUME NEW r \in Requests, NEW k \in Kinds, Dispatch(r, k)
      PROVE  OwnRows'
  BY <1>8 DEF Dispatch, Kinds
<1>9. ASSUME NEW r \in Requests, NEW t \in Titles, CreateJob(r, t) \/ CreateJobClashes(r, t)
      PROVE  OwnRows'
  BY <1>9 DEF CreateJob, CreateJobClashes
<1>10. ASSUME NEW r \in Requests,
             Work(r) \/ WorkFails(r) \/ CreateJobFails(r) \/ PersistFails(r)
       PROVE  OwnRows'
  BY <1>10 DEF Work, WorkFails, CreateJobFails, PersistFails
<1>11. ASSUME NEW r \in Requests, Persist(r)
       PROVE  OwnRows'
  BY <1>11 DEF Persist, Q!LogGeneration, I!HandlerReturns, Q!orgVars, Q!fillVars
<1>12. ASSUME NEW r \in Requests, Apply(r)
       PROVE  OwnRows'
  BY <1>12 DEF Apply, I!HandlerReturns
<1>13. ASSUME NEW r \in Requests, ApplyFails(r)
       PROVE  OwnRows'
  BY <1>13 DEF ApplyFails, I!HandlerThrows
<1>14. ASSUME NEW r \in Requests, Release(r)
       PROVE  OwnRows'
  BY <1>14 DEF Release, Q!releaseQuota, I!HandlerThrows, Q!orgVars, Q!fillVars
<1>15. ASSUME NEW r \in Requests, ReleaseFails(r)
       PROVE  OwnRows'
  BY <1>15 DEF ReleaseFails, Q!Strand, I!HandlerThrows, Q!orgVars, Q!fillVars
<1>16. ASSUME NEW r \in Requests, SettleKey(r)
       PROVE  OwnRows'
  BY <1>16 DEF SettleKey, I!Complete, I!Unclaim, I!CompleteFails, I!UnclaimFails
<1>17. ASSUME NEW S \in SUBSET InFlight, Crash(S)
       PROVE  OwnRows'
  BY <1>17 DEF Crash, Q!Crash, Q!AfterCrash, I!Crash, I!Finished, InFlight, Answered,
     Q!orgVars, Q!fillVars
<1>18. CASE Background
  <2>1. UNCHANGED <<phase, bucket, stage, step, kind, target, answer, failed>>
    BY <1>18 DEF Background, Q!Tick, Q!BackfillList, Q!BackfillCount, Q!BackfillRaise,
       Q!BillingSync, Q!reqVars
  <2> QED
    BY <2>1
<1>19. CASE UNCHANGED vars
  BY <1>19 DEF vars, quotaVars, keyVars, handlerVars
<1> QED
  BY <1>1, <1>2, <1>3, <1>4, <1>5, <1>6, <1>7, <1>8, <1>9, <1>10, <1>11, <1>12, <1>13, <1>14,
     <1>15, <1>16, <1>17, <1>18, <1>19
     DEF Next, Serve, Faulty

\* A fault wounds one request.
WoundByFault ==
  \E r \in Requests : Wounded' \subseteq Wounded \union {r} /\ faults' = faults + 1
NoWound == Wounded' \subseteq Wounded /\ faults' >= faults

\* Past the pipe, only a failed statement ends a handler on a slot it still holds.
LEMMA WoundStep == TypeOK /\ Placed /\ [Next]_vars => NoWound \/ WoundByFault
<1> SUFFICES ASSUME TypeOK, Placed, [Next]_vars PROVE NoWound \/ WoundByFault
  OBVIOUS
<1> USE DEF TypeOK, Placed, Q!TypeOK, I!TypeOK, Steps, Failures, Kinds, Wounded, Q!Charged,
           To, FailsAt, Fault, I!MoveTo, quotaVars, keyVars, handlerVars
<1>0. faults \in Nat
  BY GenerationAssumption DEF TypeOK
<1> USE <1>0
<1>1. ASSUME NEW r \in Requests, NEW o \in Orgs, Arrive(r, o)
      PROVE  NoWound \/ WoundByFault
  <2>1. Wounded' \subseteq Wounded
    BY <1>1 DEF Arrive, Q!GuardPasses, Q!GuardRefuses, Q!orgVars, Q!fillVars
  <2>2. faults' >= faults
    BY <1>1 DEF Arrive, Q!GuardPasses, Q!GuardRefuses, Q!orgVars, Q!fillVars
  <2> QED
    BY <2>1, <2>2 DEF NoWound
<1>2. ASSUME NEW r \in Requests, Reserve(r) \/ GuardErrors(r)
      PROVE  NoWound \/ WoundByFault
  <2>1. Wounded' \subseteq Wounded
    BY <1>2 DEF Reserve, Q!Reserve, Q!ReserveRejects, GuardErrors, Q!GuardErrors, Q!orgVars,
       Q!fillVars
  <2>2. faults' >= faults
    BY <1>2 DEF Reserve, Q!Reserve, Q!ReserveRejects, GuardErrors, Q!GuardErrors, Q!orgVars,
       Q!fillVars
  <2> QED
    BY <2>1, <2>2 DEF NoWound
<1>3. ASSUME NEW r \in Requests, WithoutKey(r)
      PROVE  NoWound \/ WoundByFault
  <2>1. Wounded' \subseteq Wounded
    BY <1>3 DEF WithoutKey, I!PassThrough
  <2>2. faults' >= faults
    BY <1>3 DEF WithoutKey, I!PassThrough
  <2> QED
    BY <2>1, <2>2 DEF NoWound
<1>4. ASSUME NEW r \in Requests, NEW k \in Keys, ClaimKey(r, k)
      PROVE  NoWound \/ WoundByFault
  <2>1. Wounded' \subseteq Wounded
    BY <1>4 DEF ClaimKey, I!Claim
  <2>2. faults' >= faults
    BY <1>4 DEF ClaimKey, I!Claim
  <2> QED
    BY <2>1, <2>2 DEF NoWound
<1>5. ASSUME NEW r \in Requests, ClaimFails(r) \/ Conflict(r) \/ LookupFails(r)
      PROVE  NoWound \/ WoundByFault
  <2>1. CASE Conflict(r)
    <3>1. Wounded' \subseteq Wounded /\ faults' >= faults
      BY <2>1 DEF Conflict, I!Conflict, Q!Strand, Q!orgVars, Q!fillVars
    <3> QED
      BY <3>1 DEF NoWound
  <2>2. CASE ClaimFails(r) \/ LookupFails(r)
    <3>1. Wounded' \subseteq Wounded \union {r} /\ faults' = faults + 1
      BY <2>2 DEF ClaimFails, LookupFails, I!ClaimFails, I!LookupFails, Q!Strand, Q!orgVars,
         Q!fillVars
    <3> QED
      BY <3>1 DEF WoundByFault
  <2> QED
    BY <1>5, <2>1, <2>2
<1>6. ASSUME NEW r \in Requests, Replay(r)
      PROVE  NoWound \/ WoundByFault
  <2>1. Wounded' \subseteq Wounded
    BY <1>6 DEF Replay, I!Replay, Q!Strand, Q!orgVars, Q!fillVars
  <2>2. faults' >= faults
    BY <1>6 DEF Replay, I!Replay, Q!Strand, Q!orgVars, Q!fillVars
  <2> QED
    BY <2>1, <2>2 DEF NoWound
<1>7. ASSUME NEW r \in Requests, RejectDto(r)
      PROVE  NoWound \/ WoundByFault
  <2>1. Wounded' \subseteq Wounded
    BY <1>7 DEF RejectDto, I!HandlerThrows, Q!Strand, Q!orgVars, Q!fillVars
  <2>2. faults' >= faults
    BY <1>7 DEF RejectDto, I!HandlerThrows, Q!Strand, Q!orgVars, Q!fillVars
  <2> QED
    BY <2>1, <2>2 DEF NoWound
<1>8. ASSUME NEW r \in Requests, NEW k \in Kinds, Dispatch(r, k)
      PROVE  NoWound \/ WoundByFault
  <2>1. Wounded' \subseteq Wounded
    BY <1>8 DEF Dispatch, Kinds
  <2>2. faults' >= faults
    BY <1>8 DEF Dispatch, Kinds
  <2> QED
    BY <2>1, <2>2 DEF NoWound
<1>9. ASSUME NEW r \in Requests, NEW t \in Titles, CreateJob(r, t) \/ CreateJobClashes(r, t)
      PROVE  NoWound \/ WoundByFault
  <2>1. Wounded' \subseteq Wounded
    BY <1>9 DEF CreateJob, CreateJobClashes
  <2>2. faults' >= faults
    BY <1>9 DEF CreateJob, CreateJobClashes
  <2> QED
    BY <2>1, <2>2 DEF NoWound
<1>10. ASSUME NEW r \in Requests,
             Work(r) \/ WorkFails(r) \/ CreateJobFails(r) \/ PersistFails(r)
       PROVE  NoWound \/ WoundByFault
  <2>1. Wounded' \subseteq Wounded
    BY <1>10 DEF Work, WorkFails, CreateJobFails, PersistFails
  <2>2. faults' >= faults
    BY <1>10 DEF Work, WorkFails, CreateJobFails, PersistFails
  <2> QED
    BY <2>1, <2>2 DEF NoWound
<1>11. ASSUME NEW r \in Requests, Persist(r)
       PROVE  NoWound \/ WoundByFault
  <2>1. Wounded' \subseteq Wounded
    BY <1>11 DEF Persist, Q!LogGeneration, I!HandlerReturns, Q!orgVars, Q!fillVars
  <2>2. faults' >= faults
    BY <1>11 DEF Persist, Q!LogGeneration, I!HandlerReturns, Q!orgVars, Q!fillVars
  <2> QED
    BY <2>1, <2>2 DEF NoWound
<1>12. ASSUME NEW r \in Requests, Apply(r)
       PROVE  NoWound \/ WoundByFault
  <2>1. Wounded' \subseteq Wounded
    BY <1>12 DEF Apply, I!HandlerReturns
  <2>2. faults' >= faults
    BY <1>12 DEF Apply, I!HandlerReturns
  <2> QED
    BY <2>1, <2>2 DEF NoWound
<1>13. ASSUME NEW r \in Requests, ApplyFails(r)
       PROVE  NoWound \/ WoundByFault
  <2>1. Wounded' \subseteq Wounded \union {r} /\ faults' = faults + 1
    BY <1>13 DEF ApplyFails, I!HandlerThrows
  <2> QED
    BY <2>1 DEF WoundByFault
<1>14. ASSUME NEW r \in Requests, Release(r)
       PROVE  NoWound \/ WoundByFault
  <2>1. Wounded' \subseteq Wounded
    BY <1>14 DEF Release, Q!releaseQuota, I!HandlerThrows, Q!orgVars, Q!fillVars
  <2>2. faults' >= faults
    BY <1>14 DEF Release, Q!releaseQuota, I!HandlerThrows, Q!orgVars, Q!fillVars
  <2> QED
    BY <2>1, <2>2 DEF NoWound
<1>15. ASSUME NEW r \in Requests, ReleaseFails(r)
       PROVE  NoWound \/ WoundByFault
  <2>1. Wounded' \subseteq Wounded \union {r} /\ faults' = faults + 1
    BY <1>15 DEF ReleaseFails, Q!Strand, I!HandlerThrows, Q!orgVars, Q!fillVars
  <2> QED
    BY <2>1 DEF WoundByFault
<1>16. ASSUME NEW r \in Requests, SettleKey(r)
       PROVE  NoWound \/ WoundByFault
  <2>1. CASE (I!Complete(r) \/ I!Unclaim(r)) /\ UNCHANGED faults
    <3>1. Wounded' \subseteq Wounded
      BY <1>16, <2>1 DEF SettleKey, I!Complete, I!Unclaim
    <3>2. faults' >= faults
      BY <1>16, <2>1 DEF SettleKey, I!Complete, I!Unclaim
    <3> QED
      BY <3>1, <3>2 DEF NoWound
  <2>2. CASE (I!CompleteFails(r) \/ I!UnclaimFails(r)) /\ Fault
    <3>1. Wounded' \subseteq Wounded \union {r} /\ faults' = faults + 1
      BY <1>16, <2>2 DEF SettleKey, I!CompleteFails, I!UnclaimFails
    <3> QED
      BY <3>1 DEF WoundByFault
  <2> QED
    BY <1>16, <2>1, <2>2 DEF SettleKey
<1>17. ASSUME NEW S \in SUBSET InFlight, Crash(S)
       PROVE  NoWound \/ WoundByFault
  <2>1. Wounded' \subseteq Wounded
    BY <1>17 DEF Crash, Q!Crash, Q!AfterCrash, I!Crash, I!Finished, InFlight, Answered,
       Q!orgVars, Q!fillVars
  <2>2. faults' >= faults
    BY <1>17 DEF Crash, Q!Crash, Q!AfterCrash, I!Crash, I!Finished, InFlight, Answered,
       Q!orgVars, Q!fillVars
  <2> QED
    BY <2>1, <2>2 DEF NoWound
<1>18. CASE Background
  <2>1. UNCHANGED <<phase, stage, failed, faults>>
    BY <1>18 DEF Background, Q!Tick, Q!BackfillList, Q!BackfillCount, Q!BackfillRaise,
       Q!BillingSync, Q!reqVars
  <2> QED
    BY <2>1 DEF NoWound
<1>19. CASE UNCHANGED vars
  <2>1. Wounded' \subseteq Wounded
    BY <1>19 DEF vars, quotaVars, keyVars, handlerVars
  <2>2. faults' >= faults
    BY <1>19 DEF vars, quotaVars, keyVars, handlerVars
  <2> QED
    BY <2>1, <2>2 DEF NoWound
<1> QED
  BY <1>1, <1>2, <1>3, <1>4, <1>5, <1>6, <1>7, <1>8, <1>9, <1>10, <1>11, <1>12, <1>13, <1>14,
     <1>15, <1>16, <1>17, <1>18, <1>19
     DEF Next, Serve, Faulty

LEMMA RequestsFinite == ASSUME NEW S \in SUBSET Requests
                        PROVE  IsFiniteSet(S) /\ Cardinality(S) \in Nat
<1>1. IsFiniteSet(Requests)
  <2>1. Q!IsFiniteSet(Requests)
    BY GenerationAssumption DEF Q!QuotaAssumption
  <2> QED
    BY <2>1 DEF Q!IsFiniteSet, IsFiniteSet
<1> QED
  BY <1>1, FS_Subset, FS_CardinalityType

LEMMA WoundsCounted == HandlerInv /\ WoundsAreFaults /\ [Next]_vars => WoundsAreFaults'
<1> SUFFICES ASSUME TypeOK, Placed, WoundsAreFaults, [Next]_vars
             PROVE  Cardinality(Wounded') <= faults'
  BY DEF HandlerInv, WoundsAreFaults
<1>1. /\ Wounded \in SUBSET Requests /\ Wounded' \in SUBSET Requests
      /\ faults \in Nat /\ faults' \in Nat
  BY ComponentTypes, HandlerTypeStep, GenerationAssumption DEF Wounded, TypeOK, HandlerTypes
<1>2. /\ IsFiniteSet(Wounded) /\ Cardinality(Wounded) \in Nat /\ Cardinality(Wounded') \in Nat
      /\ Cardinality(Wounded) <= faults
  BY <1>1, RequestsFinite DEF WoundsAreFaults
<1>3. CASE NoWound
  <2>1. Cardinality(Wounded') <= Cardinality(Wounded)
    BY <1>2, <1>3, FS_Subset DEF NoWound
  <2> QED
    BY <1>1, <1>2, <1>3, <2>1 DEF NoWound
<1>4. CASE WoundByFault
  <2>1. PICK r \in Requests : Wounded' \subseteq Wounded \union {r} /\ faults' = faults + 1
    BY <1>4 DEF WoundByFault
  <2>2. /\ IsFiniteSet(Wounded \union {r}) /\ Cardinality(Wounded \union {r}) \in Nat
        /\ Cardinality(Wounded \union {r}) <= Cardinality(Wounded) + 1
    BY <1>1, <1>2, RequestsFinite, FS_AddElement
  <2>3. Cardinality(Wounded') <= Cardinality(Wounded \union {r})
    BY <2>1, <2>2, FS_Subset
  <2> QED
    BY <1>1, <1>2, <2>1, <2>2, <2>3
<1> QED
  BY <1>3, <1>4, WoundStep

ClientInv == HandlerInv /\ OwnRows /\ WoundsAreFaults

LEMMA ClientSafe == Spec => []ClientInv
<1>1. Init => OwnRows
  BY DEF Init, I!Init, OwnRows
<1>2. Init => WoundsAreFaults
  <2> SUFFICES ASSUME Init PROVE WoundsAreFaults
    OBVIOUS
  <2>1. Wounded = {} /\ faults = 0
    BY DEF Init, I!Init, Wounded
  <2> QED
    BY <2>1, FS_EmptySet DEF WoundsAreFaults
<1>3. ClientInv /\ [Next]_vars => OwnRows' /\ WoundsAreFaults'
  BY OwnRowsStep, WoundsCounted DEF ClientInv, HandlerInv
<1> QED
  BY <1>1, <1>2, <1>3, HandlersInPlace, PTL DEF Spec, ClientInv

\* A client is told of success only for a generation that was logged and is still
\* charged, to its own organisation, also when the answer is a replayed one.
THEOREM SuccessesAreCharged == Spec => []SuccessIsCharged
<1>1. ClientInv /\ I!ReplayFaithful => SuccessIsCharged
  <2> SUFFICES ASSUME ClientInv, I!ReplayFaithful, NEW r \in Requests,
                      stage[r] \in {"ok", "replayed"}
               PROVE  phase[answer[r]] = "logged" /\ OrgOf(answer[r]) = OrgOf(r)
    BY DEF SuccessIsCharged
  <2>1. CASE stage[r] = "ok"
    BY <2>1 DEF ClientInv, HandlerInv, OwnRows, Placed
  <2>2. CASE stage[r] = "replayed"
    <3>1. /\ answer[r] \in Requests /\ stage[answer[r]] = "ok"
          /\ target[answer[r]] = target[r] /\ target[r] # NoRow
      BY <2>2 DEF I!ReplayFaithful, ClientInv, OwnRows
    <3>2. phase[answer[r]] = "logged"
      BY <3>1 DEF ClientInv, HandlerInv, Placed
    <3>3. target[answer[r]][1] = OrgOf(answer[r]) /\ target[r][1] = OrgOf(r)
      BY <3>1 DEF ClientInv, OwnRows
    <3> QED
      BY <3>1, <3>2, <3>3
  <2> QED
    BY <2>1, <2>2
<1>2. KeyPromises => I!ReplayFaithful
  BY DEF KeyPromises
<1> QED
  BY <1>1, <1>2, ClientSafe, KeysHold, PTL

\* Unless its answer is a replay, a 409 or a refused body, a request is charged without
\* a success only by a failed statement or a crash, one of them for each such request.
THEOREM LossesAreAccounted == Spec => []LostSlotsAreAccounted
<1>1. ClientInv => LostSlotsAreAccounted
  <2> SUFFICES ASSUME ClientInv PROVE LostSlotsAreAccounted
    OBVIOUS
  <2> DEFINE lost == {r \in Requests : Answered(r) /\ Q!Charged(r) /\ stage[r] # "ok"}
                     \ Unserved
             dead == {r \in Requests : stage[r] = "dead"}
  <2>1. lost \subseteq Wounded \union dead
    BY DEF Unserved, Wounded, Answered, I!Finished, Q!Charged
  <2>2. /\ lost \in SUBSET Requests /\ dead \in SUBSET Requests /\ Wounded \in SUBSET Requests
        /\ Wounded \union dead \in SUBSET Requests
    BY DEF Wounded
  <2> HIDE DEF lost, dead
  <2>3. /\ Cardinality(lost) \in Nat /\ Cardinality(dead) \in Nat
        /\ Cardinality(Wounded) \in Nat
        /\ IsFiniteSet(Wounded) /\ IsFiniteSet(dead) /\ IsFiniteSet(Wounded \union dead)
        /\ Cardinality(Wounded \intersect dead) \in Nat
        /\ Cardinality(Wounded \union dead) \in Nat
    BY <2>2, RequestsFinite
  <2>4. Cardinality(lost) <= Cardinality(Wounded \union dead)
    BY <2>1, <2>3, FS_Subset
  <2>5. Cardinality(Wounded \union dead)
        = Cardinality(Wounded) + Cardinality(dead) - Cardinality(Wounded \intersect dead)
    BY <2>3, FS_Union
  <2>6. Cardinality(Wounded) <= faults /\ faults \in Nat
    BY GenerationAssumption DEF ClientInv, WoundsAreFaults, HandlerInv, TypeOK
  <2>7. Cardinality(lost) <= faults + Cardinality(dead)
    BY <2>3, <2>4, <2>5, <2>6
  <2> QED
    BY <2>7 DEF LostSlotsAreAccounted, lost, dead
<1> QED
  BY <1>1, ClientSafe, PTL

\* No success without its charge, and no charge without a success but for a replay, a
\* 409, a refused body, or a fault or crash of the request's own.
THEOREM ClientsPayForWhatTheyGet == Spec => []ChargesMatchAnswers
<1>1. SuccessIsCharged /\ LostSlotsAreAccounted <=> ChargesMatchAnswers
  BY DEF ChargesMatchAnswers
<1> QED
  BY <1>1, SuccessesAreCharged, LossesAreAccounted, PTL
==============================================================================
