----------------------------- MODULE QuotaProofs -----------------------------
(***************************************************************************)
(* Quota, for every set of requests, organisations and plans, every table  *)
(* of limits, and any number of billing changes and backfill runs.         *)
(***************************************************************************)
EXTENDS Quota, FiniteSetTheorems, TLAPS

\* A multiple of a positive period lies between 0 and the number it was rounded from.
LEMMA CycleStart ==
  ASSUME NEW t \in Nat, NEW p \in Nat \ {0}
  PROVE  (t \div p) * p \in 0..t
<1>1. t = p * (t \div p) + (t % p) /\ t % p \in 0..(p - 1)
  OBVIOUS
<1>2. t \div p \in Nat
  OBVIOUS
<1>3. (t \div p) * p \in Nat
  BY <1>2
<1> QED
  BY <1>1, <1>2, <1>3

\* The bucket the guard and the backfill compute is one of the model's buckets.
LEMMA PeriodIsBucket ==
  ASSUME TypeOK, NEW o \in Orgs, NEW e \in Ends \union {NoEnd}
  PROVE  PeriodOf(o, e) \in Buckets
<1>1. now \in Nat /\ now <= MaxTime /\ PERIOD \in Nat \ {0} /\ MaxTime \in Nat
  BY QuotaAssumption DEF TypeOK, Times
<1>2. (now \div PERIOD) * PERIOD \in 0..now
  BY <1>1, CycleStart
<1>3. computePeriodStart(0, e, now) \in Starts
  <2>1. CASE e # NoEnd
    BY <1>1, <2>1 DEF computePeriodStart, Ends, Starts
  <2>2. CASE e = NoEnd
    <3>1. now - 0 = now /\ 0 + (now \div PERIOD) * PERIOD = (now \div PERIOD) * PERIOD
      BY <1>1, <1>2
    <3> QED
      BY <1>1, <1>2, <2>2, <3>1 DEF computePeriodStart, Starts
  <2> QED
    BY <2>1, <2>2
<1> QED
  BY <1>3 DEF PeriodOf, CreatedAt, Buckets
------------------------------------------------------------------------------
(***************************************************************************)
(* Type correctness.                                                       *)
(***************************************************************************)

LEMMA InitType == Init => TypeOK
<1> SUFFICES ASSUME Init PROVE TypeOK
  OBVIOUS
<1>1. now \in Times /\ syncs \in 0..MaxSyncs /\ runs \in 0..MaxBackfills
  BY QuotaAssumption DEF Init, Times
<1>2. org \in [Orgs -> OrgRows]
  BY QuotaAssumption DEF Init, OrgRows
<1>3. used \in [Buckets -> Nat] /\ seeded \in [Buckets -> Nat]
  BY DEF Init
<1>4. phase \in [Requests -> Phases] /\ limit \in [Requests -> Nat]
  BY DEF Init, Phases
<1>5. /\ bucket \in [Requests -> Buckets \union {NoBucket}]
      /\ logAt \in [Requests -> Times \union {NoTime}]
  BY DEF Init
<1>6. backfill \in [Orgs -> BackfillLocals]
  BY QuotaAssumption DEF Init, BackfillLocals, Starts
<1>7. \A r \in Requests : phase[r] = "new" /\ bucket[r] = NoBucket
  BY DEF Init
<1> QED
  BY <1>1, <1>2, <1>3, <1>4, <1>5, <1>6, <1>7 DEF TypeOK

LEMMA LogCount ==
  ASSUME NEW o \in Orgs, NEW s
  PROVE  /\ IsFiniteSet(RecentLogs(o, s)) /\ Cardinality(RecentLogs(o, s)) \in Nat
         /\ OldLogs(o, s) \in Nat
         /\ LogsSince(o, s) \in Nat
<1>1. IsFiniteSet(RecentLogs(o, s)) /\ Cardinality(RecentLogs(o, s)) \in Nat
  <2>1. RecentLogs(o, s) \in SUBSET Requests
    BY DEF RecentLogs
  <2>2. IsFiniteSet(RecentLogs(o, s))
    BY <2>1, FS_Subset, QuotaAssumption
  <2> QED
    BY <2>2, FS_CardinalityType
<1>2. OldLogs(o, s) \in Nat
  BY QuotaAssumption DEF OldLogs
<1> QED
  BY <1>1, <1>2 DEF LogsSince

LEMMA NextType == TypeOK /\ [Next]_vars => TypeOK'
<1> SUFFICES ASSUME TypeOK, [Next]_vars PROVE TypeOK'
  OBVIOUS
<1> USE DEF TypeOK
<1>1. ASSUME NEW r \in Requests, NEW o \in Orgs, GuardPasses(r, o)
      PROVE  TypeOK'
  <2>1. org[o].periodEnd \in Ends \union {NoEnd} /\ org[o].plan \in Plans
    BY DEF OrgRows
  <2>2. PeriodOf(o, org[o].periodEnd) \in Buckets
    BY <2>1, PeriodIsBucket
  <2>3. bucket' \in [Requests -> Buckets \union {NoBucket}] /\ limit' \in [Requests -> Nat]
    BY <1>1, <2>1, <2>2, QuotaAssumption DEF GuardPasses
  <2>4. phase' \in [Requests -> Phases]
    BY <1>1 DEF GuardPasses, Phases
  <2>5. bucket'[r] # NoBucket
    BY <1>1, <2>2, QuotaAssumption DEF GuardPasses
  <2> QED
    BY <1>1, <2>3, <2>4, <2>5 DEF GuardPasses, orgVars, fillVars
<1>2. ASSUME NEW r \in Requests, NEW o \in Orgs, GuardRefuses(r, o)
      PROVE  TypeOK'
  BY <1>2 DEF GuardRefuses, Phases, orgVars, fillVars
<1>3. ASSUME NEW r \in Requests, Reserve(r)
      PROVE  TypeOK'
  <2>1. bucket[r] \in Buckets
    BY <1>3 DEF Reserve
  <2>2. used' \in [Buckets -> Nat]
    BY <1>3, <2>1 DEF Reserve
  <2> QED
    BY <1>3, <2>2 DEF Reserve, Phases, orgVars, fillVars
<1>4. ASSUME NEW r \in Requests, ReserveRejects(r) \/ GuardErrors(r) \/ Strand(r)
      PROVE  TypeOK'
  BY <1>4 DEF ReserveRejects, GuardErrors, Strand, Phases, orgVars, fillVars
<1>5. ASSUME NEW r \in Requests, LogGeneration(r)
      PROVE  TypeOK'
  BY <1>5 DEF LogGeneration, Phases, orgVars, fillVars
<1>6. ASSUME NEW r \in Requests, Release(r)
      PROVE  TypeOK'
  <2>1. bucket[r] \in Buckets
    BY <1>6 DEF Release
  <2>2. used' \in [Buckets -> Nat]
    BY <1>6, <2>1 DEF Release, releaseQuota
  <2> QED
    BY <1>6, <2>2 DEF Release, releaseQuota, Phases, orgVars, fillVars
<1>7. ASSUME NEW S \in SUBSET Requests, Crash(S)
      PROVE  TypeOK'
  <2>1. \A r \in Requests : AfterCrash(phase[r]) \in Phases
    BY DEF AfterCrash, Phases
  <2>2. phase' \in [Requests -> Phases]
    BY <1>7, <2>1 DEF Crash
  <2>3. \A r \in Requests :
          /\ phase'[r] \notin {"new", "refused"} => phase[r] \notin {"new", "refused"}
          /\ phase'[r] = "new" => phase[r] = "new"
    BY <1>7 DEF Crash, AfterCrash
  <2> QED
    BY <1>7, <2>2, <2>3 DEF Crash, orgVars, fillVars
<1>8. CASE BackfillList
  <2>1. backfill' \in [Orgs -> BackfillLocals]
    BY <1>8, QuotaAssumption DEF BackfillList, OrgRows, BackfillLocals, Starts
  <2>2. runs' \in 0..MaxBackfills
    BY <1>8, QuotaAssumption DEF BackfillList
  <2> QED
    BY <1>8, <2>1, <2>2 DEF BackfillList, orgVars, reqVars
<1>9. ASSUME NEW o \in Orgs, BackfillCount(o)
      PROVE  TypeOK'
  <2> DEFINE s == PeriodOf(o, backfill[o].periodEnd)[2]
  <2>1. backfill[o] \in BackfillLocals
    OBVIOUS
  <2>2. PeriodOf(o, backfill[o].periodEnd) \in Buckets
    BY <2>1, PeriodIsBucket DEF BackfillLocals
  <2>3. s \in Starts
    BY <2>2 DEF Buckets
  <2>4. LogsSince(o, s) \in Nat
    BY <2>3, LogCount
  <2> HIDE DEF s
  <2>5. backfill' = [backfill EXCEPT
           ![o].phase = IF LogsSince(o, s) = 0 THEN "done" ELSE "counted",
           ![o].start = s,
           ![o].count = LogsSince(o, s)]
    BY <1>9 DEF BackfillCount, s
  <2>6. backfill' \in [Orgs -> BackfillLocals]
    BY <2>1, <2>3, <2>4, <2>5 DEF BackfillLocals
  <2> QED
    BY <1>9, <2>6 DEF BackfillCount, orgVars, reqVars
<1>10. ASSUME NEW o \in Orgs, BackfillRaise(o)
       PROVE  TypeOK'
  <2> DEFINE b == <<o, backfill[o].start>>
  <2>1. b \in Buckets /\ backfill[o].count \in Nat
    BY DEF BackfillLocals, Buckets
  <2>2. Raised(o) \in Nat /\ Raised(o) >= used[b]
    BY <2>1 DEF Raised, Greatest
  <2>3. used' \in [Buckets -> Nat] /\ seeded' \in [Buckets -> Nat]
    BY <1>10, <2>1, <2>2 DEF BackfillRaise
  <2>4. backfill' \in [Orgs -> BackfillLocals]
    BY <1>10 DEF BackfillRaise, BackfillLocals
  <2> QED
    BY <1>10, <2>3, <2>4 DEF BackfillRaise, orgVars, reqVars
<1>11. CASE Tick
  BY <1>11, QuotaAssumption DEF Tick, Times, reqVars, fillVars
<1>12. ASSUME NEW o \in Orgs, NEW p \in Plans, NEW st \in {"active", "inactive"}, NEW e \in Ends,
              BillingSync(o, p, st, e)
       PROVE  TypeOK'
  BY <1>12, QuotaAssumption DEF BillingSync, OrgRows, reqVars, fillVars
<1>13. CASE UNCHANGED vars
  BY <1>13 DEF vars
<1> QED
  BY <1>1, <1>2, <1>3, <1>4, <1>5, <1>6, <1>7, <1>8, <1>9, <1>10, <1>11, <1>12, <1>13 DEF Next

\* Every reachable state of Quota is of the right type: whatever the plans'
\* limits and however often billing, the clock and the backfill intervene, the
\* guard always computes a bucket of the model and no counter goes negative.
THEOREM TypeCorrect == Spec => []TypeOK
<1>1. Init => TypeOK
  BY InitType
<1>2. TypeOK /\ [Next]_vars => TypeOK'
  BY NextType
<1> QED
  BY <1>1, <1>2, PTL DEF Spec
------------------------------------------------------------------------------
(***************************************************************************)
(* The counter is exact, and no bucket is overdrawn.                       *)
(***************************************************************************)

LEMMA ChargedFinite ==
  ASSUME NEW b
  PROVE  IsFiniteSet(ChargedTo(b)) /\ Cardinality(ChargedTo(b)) \in Nat
<1>1. ChargedTo(b) \in SUBSET Requests
  BY DEF ChargedTo
<1>2. IsFiniteSet(ChargedTo(b))
  BY <1>1, FS_Subset, QuotaAssumption
<1> QED
  BY <1>2, FS_CardinalityType

\* A request charged to a bucket makes the bucket's count positive.
LEMMA ChargedPositive ==
  ASSUME NEW b, NEW r \in ChargedTo(b)
  PROVE  Cardinality(ChargedTo(b)) > 0
<1>1. IsFiniteSet(ChargedTo(b)) /\ Cardinality(ChargedTo(b)) \in Nat
  BY ChargedFinite
<1>2. Cardinality(ChargedTo(b)) # 0
  BY <1>1, FS_EmptySet
<1> QED
  BY <1>1, <1>2

\* A step that neither charges nor uncharges anyone leaves every bucket's
\* charges alone.
SameCharges ==
  \A r \in Requests :
    /\ Charged(r)' <=> Charged(r)
    /\ Charged(r) => bucket'[r] = bucket[r]

LEMMA ChargesUnchanged ==
  ASSUME SameCharges, NEW b \in Buckets
  PROVE  ChargedTo(b)' = ChargedTo(b)
BY DEF SameCharges, ChargedTo, Charged

\* The steps that touch neither a charge nor a counter.
QuietStep ==
  \/ \E r \in Requests, o \in Orgs : GuardPasses(r, o) \/ GuardRefuses(r, o)
  \/ \E r \in Requests : ReserveRejects(r) \/ GuardErrors(r) \/ LogGeneration(r) \/ Strand(r)
  \/ \E S \in SUBSET Requests : Crash(S)
  \/ BackfillList
  \/ \E o \in Orgs : BackfillCount(o)
  \/ Tick
  \/ \E o \in Orgs, p \in Plans, st \in {"active", "inactive"}, e \in Ends :
       BillingSync(o, p, st, e)
  \/ UNCHANGED vars

LEMMA StepKinds ==
  ASSUME [Next]_vars
  PROVE  \/ QuietStep
         \/ \E r \in Requests : Reserve(r) \/ Release(r)
         \/ \E o \in Orgs : BackfillRaise(o)
BY DEF Next, QuietStep

LEMMA QuietCharges ==
  ASSUME TypeOK, QuietStep
  PROVE  SameCharges /\ used' = used /\ seeded' = seeded
<1>1. ASSUME NEW r \in Requests, NEW o \in Orgs, GuardPasses(r, o) \/ GuardRefuses(r, o)
      PROVE  SameCharges /\ used' = used /\ seeded' = seeded
  BY <1>1 DEF TypeOK, GuardPasses, GuardRefuses, SameCharges, Charged, fillVars
<1>2. ASSUME NEW r \in Requests,
             ReserveRejects(r) \/ GuardErrors(r) \/ LogGeneration(r) \/ Strand(r)
      PROVE  SameCharges /\ used' = used /\ seeded' = seeded
  BY <1>2 DEF TypeOK, ReserveRejects, GuardErrors, LogGeneration, Strand, SameCharges, Charged, fillVars
<1>3. ASSUME NEW S \in SUBSET Requests, Crash(S)
      PROVE  SameCharges /\ used' = used /\ seeded' = seeded
  BY <1>3 DEF TypeOK, Crash, AfterCrash, SameCharges, Charged, fillVars
<1>4. CASE BackfillList \/ (\E o \in Orgs : BackfillCount(o))
  BY <1>4 DEF BackfillList, BackfillCount, SameCharges, Charged, reqVars
<1>5. CASE Tick \/ (\E o \in Orgs, p \in Plans, st \in {"active", "inactive"}, e \in Ends :
                       BillingSync(o, p, st, e))
  BY <1>5 DEF Tick, BillingSync, SameCharges, Charged, reqVars, fillVars
<1>6. CASE UNCHANGED vars
  BY <1>6 DEF vars, SameCharges, Charged
<1> QED
  BY <1>1, <1>2, <1>3, <1>4, <1>5, <1>6 DEF QuietStep

LEMMA ReserveCharges ==
  ASSUME TypeOK, NEW r \in Requests, Reserve(r), NEW b \in Buckets
  PROVE  /\ b = bucket[r] =>
              /\ ChargedTo(b)' = ChargedTo(b) \union {r}
              /\ Cardinality(ChargedTo(b)') = Cardinality(ChargedTo(b)) + 1
         /\ b # bucket[r] => ChargedTo(b)' = ChargedTo(b)
<1>1. /\ ~ Charged(r) /\ Charged(r)' /\ bucket' = bucket
      /\ \A q \in Requests : q # r => phase'[q] = phase[q]
  BY DEF TypeOK, Reserve, Charged
<1>2. ASSUME b = bucket[r]
      PROVE  /\ ChargedTo(b)' = ChargedTo(b) \union {r}
             /\ Cardinality(ChargedTo(b)') = Cardinality(ChargedTo(b)) + 1
  <2>1. ChargedTo(b)' = ChargedTo(b) \union {r}
    BY <1>1, <1>2 DEF ChargedTo, Charged
  <2>2. r \notin ChargedTo(b)
    BY <1>1 DEF ChargedTo
  <2> QED
    BY <2>1, <2>2, ChargedFinite, FS_AddElement
<1>3. b # bucket[r] => ChargedTo(b)' = ChargedTo(b)
  BY <1>1 DEF ChargedTo, Charged
<1> QED
  BY <1>2, <1>3

LEMMA ReleaseUncharges ==
  ASSUME TypeOK, NEW r \in Requests, Release(r), NEW b \in Buckets
  PROVE  /\ b = bucket[r] =>
              /\ r \in ChargedTo(b)
              /\ ChargedTo(b)' = ChargedTo(b) \ {r}
              /\ Cardinality(ChargedTo(b)') = Cardinality(ChargedTo(b)) - 1
         /\ b # bucket[r] => ChargedTo(b)' = ChargedTo(b)
<1>1. /\ Charged(r) /\ ~ Charged(r)' /\ bucket' = bucket
      /\ \A q \in Requests : q # r => phase'[q] = phase[q]
  BY DEF TypeOK, Release, releaseQuota, Charged
<1>2. ASSUME b = bucket[r]
      PROVE  /\ r \in ChargedTo(b)
             /\ ChargedTo(b)' = ChargedTo(b) \ {r}
             /\ Cardinality(ChargedTo(b)') = Cardinality(ChargedTo(b)) - 1
  <2>1. r \in ChargedTo(b)
    BY <1>1, <1>2 DEF ChargedTo
  <2>2. ChargedTo(b)' = ChargedTo(b) \ {r}
    BY <1>1, <1>2 DEF ChargedTo, Charged
  <2> QED
    BY <2>1, <2>2, ChargedFinite, FS_RemoveElement
<1>3. b # bucket[r] => ChargedTo(b)' = ChargedTo(b)
  BY <1>1 DEF ChargedTo, Charged
<1> QED
  BY <1>2, <1>3

LEMMA RaiseKeepsCharges ==
  ASSUME TypeOK, NEW o \in Orgs, BackfillRaise(o)
  PROVE  SameCharges
BY DEF BackfillRaise, SameCharges, Charged, reqVars

LEMMA ExactStep == TypeOK /\ LedgerExact /\ [Next]_vars => LedgerExact'
<1> SUFFICES ASSUME TypeOK, LedgerExact, [Next]_vars, NEW b \in Buckets
             PROVE  used'[b] = Cardinality(ChargedTo(b)') + seeded'[b]
  BY DEF LedgerExact
<1>1. used[b] = Cardinality(ChargedTo(b)) + seeded[b]
  BY DEF LedgerExact
<1>2. used[b] \in Nat /\ seeded[b] \in Nat /\ Cardinality(ChargedTo(b)) \in Nat
  BY ChargedFinite DEF TypeOK
<1>3. CASE QuietStep
  BY <1>1, <1>3, QuietCharges, ChargesUnchanged
<1>4. ASSUME NEW r \in Requests, Reserve(r)
      PROVE  used'[b] = Cardinality(ChargedTo(b)') + seeded'[b]
  <2>1. seeded' = seeded /\ used' = [used EXCEPT ![bucket[r]] = @ + 1]
    BY <1>4 DEF Reserve, fillVars
  <2>2. CASE b = bucket[r]
    BY <1>1, <1>2, <1>4, <2>1, <2>2, ReserveCharges DEF TypeOK
  <2>3. CASE b # bucket[r]
    BY <1>1, <1>4, <2>1, <2>3, ReserveCharges DEF TypeOK
  <2> QED
    BY <2>2, <2>3
<1>5. ASSUME NEW r \in Requests, Release(r)
      PROVE  used'[b] = Cardinality(ChargedTo(b)') + seeded'[b]
  <2>1. /\ seeded' = seeded
        /\ used' = [used EXCEPT ![bucket[r]] = IF @ > 0 THEN @ - 1 ELSE @]
    BY <1>5 DEF Release, releaseQuota, fillVars
  <2>2. CASE b = bucket[r]
    <3>1. Cardinality(ChargedTo(b)) > 0
      BY <1>5, <2>2, ReleaseUncharges, ChargedPositive
    <3>2. used'[b] = used[b] - 1
      BY <1>1, <1>2, <2>1, <2>2, <3>1 DEF TypeOK
    <3> QED
      BY <1>1, <1>2, <1>5, <2>1, <2>2, <3>2, ReleaseUncharges
  <2>3. CASE b # bucket[r]
    BY <1>1, <1>5, <2>1, <2>3, ReleaseUncharges DEF TypeOK
  <2> QED
    BY <2>2, <2>3
<1>6. ASSUME NEW o \in Orgs, BackfillRaise(o)
      PROVE  used'[b] = Cardinality(ChargedTo(b)') + seeded'[b]
  <2> DEFINE c == <<o, backfill[o].start>>
  <2>1. ChargedTo(b)' = ChargedTo(b)
    BY <1>6, RaiseKeepsCharges, ChargesUnchanged
  <2>2. Raised(o) \in Nat
    BY <1>6 DEF TypeOK, BackfillLocals, Raised, Greatest, Buckets
  <2>3. CASE b = c
    BY <1>1, <1>2, <1>6, <2>1, <2>2, <2>3 DEF BackfillRaise, TypeOK
  <2>4. CASE b # c
    BY <1>1, <1>6, <2>1, <2>4 DEF BackfillRaise, TypeOK
  <2> QED
    BY <2>3, <2>4
<1> QED
  BY <1>3, <1>4, <1>5, <1>6, StepKinds

LEMMA NobodyCharged ==
  ASSUME Init, NEW b
  PROVE  ChargedTo(b) = {} /\ Cardinality(ChargedTo(b)) = 0
<1>1. ChargedTo(b) = {}
  BY DEF Init, ChargedTo, Charged
<1> QED
  BY <1>1, FS_EmptySet

\* The counter is exact in every reachable state: reservations, releases,
\* crashes and backfills never lose, double or misplace a slot.
THEOREM CounterExact == Spec => []LedgerExact
<1>1. Init => LedgerExact
  BY NobodyCharged DEF LedgerExact, Init
<1>2. TypeOK /\ LedgerExact /\ [Next]_vars => LedgerExact'
  BY ExactStep
<1> QED
  BY <1>1, <1>2, TypeCorrect, PTL DEF Spec
\* A request's quote is final: its bucket and its limit never change again.
LEMMA QuotesStand ==
  ASSUME TypeOK, [Next]_vars, NEW r \in Requests, bucket[r] \in Buckets
  PROVE  bucket'[r] = bucket[r] /\ limit'[r] = limit[r]
<1>1. phase[r] # "new"
  BY QuotaAssumption DEF TypeOK
<1>2. ASSUME NEW q \in Requests, NEW o \in Orgs, GuardPasses(q, o)
      PROVE  bucket'[r] = bucket[r] /\ limit'[r] = limit[r]
  BY <1>1, <1>2 DEF TypeOK, GuardPasses
<1>3. ASSUME ~ \E q \in Requests, o \in Orgs : GuardPasses(q, o)
      PROVE  bucket' = bucket /\ limit' = limit
  BY <1>3 DEF Next, vars, GuardRefuses, Reserve, ReserveRejects, GuardErrors, LogGeneration,
     Release, releaseQuota, Strand, Crash, BackfillList, BackfillCount, BackfillRaise, Tick,
     BillingSync, reqVars
<1> QED
  BY <1>2, <1>3

LEMMA OverdraftStep == TypeOK /\ LedgerExact /\ NoOverdraft /\ [Next]_vars => NoOverdraft'
<1> DEFINE Covered(b) == \E r \in Requests : bucket[r] = b /\ limit[r] >= Cardinality(ChargedTo(b))
<1> SUFFICES ASSUME TypeOK, LedgerExact, NoOverdraft, [Next]_vars,
                    NEW b \in Buckets, ChargedTo(b)' # {}
             PROVE  Covered(b)'
  BY DEF NoOverdraft
<1>1. ASSUME ChargedTo(b) # {}, Cardinality(ChargedTo(b)') <= Cardinality(ChargedTo(b)),
             Cardinality(ChargedTo(b)') \in Nat
      PROVE  Covered(b)'
  <2>1. PICK r \in Requests : bucket[r] = b /\ limit[r] >= Cardinality(ChargedTo(b))
    BY <1>1 DEF NoOverdraft
  <2>2. bucket'[r] = b /\ limit'[r] = limit[r]
    BY <2>1, QuotesStand
  <2>3. limit[r] \in Nat /\ Cardinality(ChargedTo(b)) \in Nat
    BY ChargedFinite DEF TypeOK
  <2>4. limit'[r] >= Cardinality(ChargedTo(b)')
    BY <1>1, <2>1, <2>2, <2>3
  <2> QED
    BY <2>2, <2>4
<1>2. ASSUME ChargedTo(b)' = ChargedTo(b)
      PROVE  Covered(b)'
  <2>1. Cardinality(ChargedTo(b)) \in Nat
    BY ChargedFinite
  <2>2. Cardinality(ChargedTo(b)') = Cardinality(ChargedTo(b))
    BY <1>2
  <2> QED
    BY <1>1, <1>2, <2>1, <2>2
<1>3. CASE QuietStep
  BY <1>2, <1>3, QuietCharges, ChargesUnchanged
<1>4. ASSUME NEW r \in Requests, Reserve(r)
      PROVE  Covered(b)'
  <2>1. CASE b = bucket[r]
    <3>1. used[b] = Cardinality(ChargedTo(b)) + seeded[b] /\ seeded[b] \in Nat
      BY DEF LedgerExact, TypeOK
    <3>2. used[b] < limit[r] /\ limit'[r] = limit[r] /\ bucket'[r] = b /\ limit[r] \in Nat
      BY <1>4, <2>1 DEF Reserve, BelowLimit, TypeOK
    <3>3. Cardinality(ChargedTo(b)') = Cardinality(ChargedTo(b)) + 1
      BY <1>4, <2>1, ReserveCharges
    <3>4. Cardinality(ChargedTo(b)) \in Nat
      BY ChargedFinite
    <3> QED
      BY <3>1, <3>2, <3>3, <3>4
  <2>2. CASE b # bucket[r]
    BY <1>2, <1>4, <2>2, ReserveCharges
  <2> QED
    BY <2>1, <2>2
<1>5. ASSUME NEW r \in Requests, Release(r)
      PROVE  Covered(b)'
  <2>1. CASE b = bucket[r]
    <3>1. /\ r \in ChargedTo(b)
          /\ Cardinality(ChargedTo(b)') = Cardinality(ChargedTo(b)) - 1
      BY <1>5, <2>1, ReleaseUncharges
    <3>2. Cardinality(ChargedTo(b)) \in Nat /\ Cardinality(ChargedTo(b)) > 0
      BY <3>1, ChargedFinite, ChargedPositive
    <3> QED
      BY <1>1, <3>1, <3>2
  <2>2. CASE b # bucket[r]
    BY <1>2, <1>5, <2>2, ReleaseUncharges
  <2> QED
    BY <2>1, <2>2
<1>6. ASSUME NEW o \in Orgs, BackfillRaise(o)
      PROVE  Covered(b)'
  BY <1>2, <1>6, RaiseKeepsCharges, ChargesUnchanged
<1> QED
  BY <1>3, <1>4, <1>5, <1>6, StepKinds

\* No interleaving of guards, releases, plan changes and backfills ever charges
\* a bucket beyond a limit that one of its own requests was quoted.
THEOREM NeverOverdrawn == Spec => []NoOverdraft
<1>1. Init => NoOverdraft
  BY NobodyCharged DEF NoOverdraft
<1>2. TypeOK /\ LedgerExact /\ NoOverdraft /\ [Next]_vars => NoOverdraft'
  BY OverdraftStep
<1> QED
  BY <1>1, <1>2, TypeCorrect, CounterExact, PTL DEF Spec
------------------------------------------------------------------------------
(***************************************************************************)
(* The backfill never counts a generation twice.                           *)
(***************************************************************************)

\* A log row belongs to a request that is still charged for it.
LogsAreCharged ==
  \A r \in Requests : logAt[r] # NoTime => phase[r] = "logged"

\* GenerationLog rows are never deleted, so a count taken earlier is a lower
\* bound of the count now.
CountsStand ==
  \A o \in Orgs : backfill[o].phase = "counted" =>
    backfill[o].count <= LogsSince(o, backfill[o].start)

BackfillInv == LogsAreCharged /\ CountsStand /\ BackfillNeverOvercounts

LEMMA LogsStand ==
  ASSUME TypeOK, LogsAreCharged, [Next]_vars, NEW r \in Requests, logAt[r] # NoTime
  PROVE  /\ logAt'[r] = logAt[r]
         /\ bucket'[r] = bucket[r]
         /\ phase'[r] = "logged"
<1>1. phase[r] = "logged" /\ bucket[r] \in Buckets
  BY DEF TypeOK, LogsAreCharged
<1>2. bucket'[r] = bucket[r]
  BY <1>1, QuotesStand
<1>3. ASSUME NEW q \in Requests, LogGeneration(q)
      PROVE  logAt'[r] = logAt[r] /\ phase'[r] = "logged"
  BY <1>1, <1>3 DEF TypeOK, LogGeneration
<1>4. ASSUME NEW q \in Requests, NEW o \in Orgs, GuardPasses(q, o) \/ GuardRefuses(q, o)
      PROVE  logAt'[r] = logAt[r] /\ phase'[r] = "logged"
  BY <1>1, <1>4 DEF TypeOK, GuardPasses, GuardRefuses
<1>5. ASSUME NEW q \in Requests,
             Reserve(q) \/ ReserveRejects(q) \/ GuardErrors(q) \/ Release(q) \/ Strand(q)
      PROVE  logAt'[r] = logAt[r] /\ phase'[r] = "logged"
  BY <1>1, <1>5 DEF TypeOK, Reserve, ReserveRejects, GuardErrors, Release, releaseQuota, Strand
<1>6. ASSUME NEW S \in SUBSET Requests, Crash(S)
      PROVE  logAt'[r] = logAt[r] /\ phase'[r] = "logged"
  BY <1>1, <1>6 DEF Crash, AfterCrash
<1>7. CASE \/ BackfillList \/ Tick \/ UNCHANGED vars
           \/ \E o \in Orgs : BackfillCount(o) \/ BackfillRaise(o)
           \/ \E o \in Orgs, p \in Plans, st \in {"active", "inactive"}, e \in Ends :
                BillingSync(o, p, st, e)
  BY <1>1, <1>7 DEF BackfillList, BackfillCount, BackfillRaise, Tick, BillingSync, reqVars, vars
<1> QED
  BY <1>2, <1>3, <1>4, <1>5, <1>6, <1>7 DEF Next

LEMMA LogsChargedStep == TypeOK /\ LogsAreCharged /\ [Next]_vars => LogsAreCharged'
<1> SUFFICES ASSUME TypeOK, LogsAreCharged, [Next]_vars,
                    NEW r \in Requests, logAt'[r] # NoTime
             PROVE  phase'[r] = "logged"
  BY DEF LogsAreCharged
<1>1. CASE logAt[r] # NoTime
  BY <1>1, LogsStand
<1>2. CASE logAt[r] = NoTime
  <2>1. LogGeneration(r)
    BY <1>2 DEF Next, vars, TypeOK, GuardPasses, GuardRefuses, Reserve, ReserveRejects, GuardErrors,
       LogGeneration, Release, releaseQuota, Strand, Crash, BackfillList, BackfillCount,
       BackfillRaise, Tick, BillingSync, reqVars
  <2> QED
    BY <2>1 DEF LogGeneration, TypeOK
<1> QED
  BY <1>1, <1>2

\* The logs of a window only grow, and so do those not charged to bucket b.
LEMMA LogsGrow ==
  ASSUME TypeOK, LogsAreCharged, [Next]_vars, NEW o \in Orgs, NEW s
  PROVE  LogsSince(o, s) <= LogsSince(o, s)' /\ LogsSince(o, s)' \in Nat
<1>1. RecentLogs(o, s) \subseteq RecentLogs(o, s)'
  BY LogsStand DEF RecentLogs
<1>2. IsFiniteSet(RecentLogs(o, s)')
  <2>1. RecentLogs(o, s)' \in SUBSET Requests
    BY DEF RecentLogs
  <2> QED
    BY <2>1, FS_Subset, QuotaAssumption
<1>3. /\ Cardinality(RecentLogs(o, s)) <= Cardinality(RecentLogs(o, s)')
      /\ Cardinality(RecentLogs(o, s)') \in Nat
  BY <1>1, <1>2, FS_Subset, FS_CardinalityType
<1>4. OldLogs(o, s)' = OldLogs(o, s)
  BY DEF OldLogs
<1> QED
  BY <1>3, <1>4, LogCount DEF LogsSince

Foreign(b) == {r \in RecentLogs(b[1], b[2]) : bucket[r] # b}

LEMMA ForeignFinite ==
  ASSUME NEW b \in Buckets
  PROVE  IsFiniteSet(Foreign(b)) /\ Cardinality(Foreign(b)) \in Nat
<1>1. b[1] \in Orgs
  BY DEF Buckets
<1>2. Foreign(b) \in SUBSET RecentLogs(b[1], b[2])
  BY DEF Foreign
<1>3. IsFiniteSet(Foreign(b))
  BY <1>1, <1>2, LogCount, FS_Subset
<1> QED
  BY <1>3, FS_CardinalityType

LEMMA ForeignLogsGrow ==
  ASSUME TypeOK, LogsAreCharged, [Next]_vars, NEW b \in Buckets
  PROVE  /\ ForeignLogs(b) \in Nat
         /\ ForeignLogs(b)' \in Nat
         /\ ForeignLogs(b) <= ForeignLogs(b)'
<1>1. b[1] \in Orgs
  BY DEF Buckets
<1>2. Foreign(b) \subseteq Foreign(b)'
  BY LogsStand DEF Foreign, RecentLogs
<1>3. IsFiniteSet(Foreign(b)')
  <2>1. Foreign(b)' \in SUBSET Requests
    BY DEF Foreign, RecentLogs
  <2> QED
    BY <2>1, FS_Subset, QuotaAssumption
<1>4. /\ Cardinality(Foreign(b)) <= Cardinality(Foreign(b)')
      /\ Cardinality(Foreign(b)') \in Nat
  BY <1>2, <1>3, FS_Subset, FS_CardinalityType
<1>5. OldLogs(b[1], b[2])' = OldLogs(b[1], b[2]) /\ OldLogs(b[1], b[2]) \in Nat
  BY <1>1, LogCount DEF OldLogs
<1>6. /\ ForeignLogs(b) = Cardinality(Foreign(b)) + OldLogs(b[1], b[2])
      /\ ForeignLogs(b)' = Cardinality(Foreign(b)') + OldLogs(b[1], b[2])'
  BY DEF ForeignLogs, Foreign
<1> QED
  BY <1>4, <1>5, <1>6, ForeignFinite
LEMMA CountsStandStep == TypeOK /\ LogsAreCharged /\ CountsStand /\ [Next]_vars => CountsStand'
<1> DEFINE Stands(o) == backfill[o].count <= LogsSince(o, backfill[o].start)
<1> SUFFICES ASSUME TypeOK, LogsAreCharged, CountsStand, [Next]_vars,
                    NEW o \in Orgs, backfill'[o].phase = "counted"
             PROVE  Stands(o)'
  BY DEF CountsStand
<1>1. ASSUME backfill'[o] = backfill[o]
      PROVE  Stands(o)'
  <2>1. PICK t : t = backfill[o].start
    OBVIOUS
  <2>2. PICK c : c = backfill[o].count
    OBVIOUS
  <2>3. c <= LogsSince(o, t) /\ c \in Nat
    BY <1>1, <2>1, <2>2 DEF CountsStand, TypeOK, BackfillLocals
  <2>4. /\ LogsSince(o, t) <= LogsSince(o, t)'
        /\ LogsSince(o, t) \in Nat /\ LogsSince(o, t)' \in Nat
    BY LogsGrow, LogCount
  <2>5. c <= LogsSince(o, t)'
    BY <2>3, <2>4
  <2> QED
    BY <1>1, <2>1, <2>2, <2>5
<1>2. ASSUME BackfillCount(o)
      PROVE  Stands(o)'
  <2>1. PICK t : t = PeriodOf(o, backfill[o].periodEnd)[2]
    OBVIOUS
  <2>2. backfill'[o].start = t /\ backfill'[o].count = LogsSince(o, t)
    BY <1>2, <2>1 DEF BackfillCount, TypeOK, BackfillLocals
  <2>3. LogsSince(o, t)' = LogsSince(o, t) /\ LogsSince(o, t) \in Nat
    BY <1>2, LogCount DEF BackfillCount, reqVars, LogsSince, RecentLogs, OldLogs
  <2> QED
    BY <2>2, <2>3
<1>3. ASSUME NEW q \in Orgs, q # o, BackfillCount(q) \/ BackfillRaise(q)
      PROVE  backfill'[o] = backfill[o]
  <2>1. CASE BackfillCount(q)
    BY <1>3, <2>1 DEF BackfillCount, TypeOK
  <2>2. CASE BackfillRaise(q)
    BY <1>3, <2>2 DEF BackfillRaise, TypeOK
  <2> QED
    BY <1>3, <2>1, <2>2
<1>4. ~ BackfillList /\ ~ BackfillRaise(o)
  <2>1. ~ BackfillList
    BY DEF BackfillList, TypeOK
  <2>2. ~ BackfillRaise(o)
    <3>1. BackfillRaise(o) => backfill'[o].phase = "done"
      BY DEF BackfillRaise, TypeOK, BackfillLocals
    <3> QED
      BY <3>1
  <2> QED
    BY <2>1, <2>2
<1>5. ASSUME ~ BackfillList, ~ \E q \in Orgs : BackfillCount(q) \/ BackfillRaise(q)
      PROVE  backfill' = backfill
  BY <1>5 DEF Next, vars, GuardPasses, GuardRefuses, Reserve, ReserveRejects, GuardErrors,
     LogGeneration, Release, releaseQuota, Strand, Crash, Tick, BillingSync, fillVars
<1> QED
  BY <1>1, <1>2, <1>3, <1>4, <1>5

\* Every log of the window was charged to the bucket or elsewhere.
LEMMA LogsSplit ==
  ASSUME TypeOK, LogsAreCharged, NEW b \in Buckets
  PROVE  LogsSince(b[1], b[2]) <= Cardinality(ChargedTo(b)) + ForeignLogs(b)
<1> DEFINE all == RecentLogs(b[1], b[2])
<1> DEFINE own == {r \in all : bucket[r] = b}
<1>0. b[1] \in Orgs
  BY DEF Buckets
<1>1. own \subseteq ChargedTo(b)
  BY DEF LogsAreCharged, RecentLogs, ChargedTo, Charged
<1>2. IsFiniteSet(ChargedTo(b)) /\ Cardinality(ChargedTo(b)) \in Nat
  BY ChargedFinite
<1>3. IsFiniteSet(own) /\ Cardinality(own) <= Cardinality(ChargedTo(b)) /\ Cardinality(own) \in Nat
  BY <1>1, <1>2, FS_Subset, FS_CardinalityType
<1>4. IsFiniteSet(Foreign(b)) /\ Cardinality(Foreign(b)) \in Nat
  BY ForeignFinite
<1>5. all = own \union Foreign(b) /\ own \cap Foreign(b) = {}
  BY DEF Foreign
<1>6. Cardinality(all) <= Cardinality(own) + Cardinality(Foreign(b))
  <2>1. Cardinality(own \cap Foreign(b)) = 0
    BY <1>5, FS_EmptySet
  <2>2. Cardinality(own \union Foreign(b)) =
          Cardinality(own) + Cardinality(Foreign(b)) - Cardinality(own \cap Foreign(b))
    BY <1>3, <1>4, FS_Union
  <2>3. Cardinality(own \union Foreign(b)) = Cardinality(own) + Cardinality(Foreign(b))
    BY <1>3, <1>4, <2>1, <2>2
  <2>4. Cardinality(all) = Cardinality(own \union Foreign(b))
    BY <1>5
  <2> HIDE DEF all, own
  <2> QED
    BY <1>3, <1>4, <2>3, <2>4
<1>7. OldLogs(b[1], b[2]) \in Nat /\ Cardinality(all) \in Nat
  BY <1>0, LogCount
<1>8. /\ LogsSince(b[1], b[2]) = Cardinality(all) + OldLogs(b[1], b[2])
      /\ ForeignLogs(b) = Cardinality(Foreign(b)) + OldLogs(b[1], b[2])
  BY DEF LogsSince, ForeignLogs, Foreign
<1> HIDE DEF all, own
<1> QED
  BY <1>2, <1>3, <1>4, <1>6, <1>7, <1>8

LEMMA OvercountStep ==
  TypeOK /\ LedgerExact /\ BackfillInv /\ [Next]_vars => BackfillNeverOvercounts'
<1> SUFFICES ASSUME TypeOK, LedgerExact, BackfillInv, [Next]_vars, NEW b \in Buckets
             PROVE  seeded'[b] <= ForeignLogs(b)'
  BY DEF BackfillNeverOvercounts
<1>1. LogsAreCharged /\ CountsStand /\ seeded[b] <= ForeignLogs(b) /\ seeded[b] \in Nat
  BY DEF BackfillInv, BackfillNeverOvercounts, TypeOK
<1>2. /\ ForeignLogs(b) \in Nat /\ ForeignLogs(b)' \in Nat
      /\ ForeignLogs(b) <= ForeignLogs(b)'
  BY <1>1, ForeignLogsGrow
<1>3. ASSUME seeded'[b] = seeded[b]
      PROVE  seeded'[b] <= ForeignLogs(b)'
  BY <1>1, <1>2, <1>3
<1>4. ASSUME NEW o \in Orgs, BackfillRaise(o)
      PROVE  seeded'[b] <= ForeignLogs(b)'
  <2> DEFINE c == <<o, backfill[o].start>>
  <2>0. /\ c \in Buckets
        /\ seeded' = [seeded EXCEPT ![c] = @ + (Raised(o) - used[c])]
        /\ backfill[o].count \in Nat
    BY <1>4 DEF BackfillRaise, TypeOK, BackfillLocals, Buckets
  <2>1. CASE b # c
    BY <1>3, <2>0, <2>1 DEF TypeOK
  <2>2. CASE b = c
    <3>1. seeded'[b] = seeded[b] + (Raised(o) - used[b])
      BY <2>0, <2>2 DEF TypeOK
    <3>2. /\ used[b] = Cardinality(ChargedTo(b)) + seeded[b]
          /\ Cardinality(ChargedTo(b)) \in Nat
      BY ChargedFinite DEF LedgerExact
    <3>3. b[1] = o /\ b[2] = backfill[o].start
      BY <2>2
    <3>4. backfill[o].count <= LogsSince(b[1], b[2])
      BY <1>1, <1>4, <3>3 DEF BackfillRaise, CountsStand
    <3>5. LogsSince(b[1], b[2]) <= Cardinality(ChargedTo(b)) + ForeignLogs(b)
      BY <1>1, LogsSplit
    <3>6. LogsSince(b[1], b[2]) \in Nat
      BY <3>3, LogCount
    <3>7. \/ Raised(o) = used[b]
          \/ Raised(o) = backfill[o].count
      BY <2>2 DEF Raised, Greatest
    <3> QED
      BY <1>1, <1>2, <2>0, <3>1, <3>2, <3>4, <3>5, <3>6, <3>7
  <2> QED
    BY <2>1, <2>2
<1>5. ASSUME NEW r \in Requests, Reserve(r) \/ Release(r)
      PROVE  seeded' = seeded
  BY <1>5 DEF Reserve, Release, releaseQuota, fillVars
<1> QED
  BY <1>3, <1>4, <1>5, QuietCharges, StepKinds

\* However the backfill interleaves with live requests and however often it is
\* run again, it adds to a bucket at most the generations of the period that
\* the bucket had not counted.
THEOREM BackfillSafe == Spec => []BackfillNeverOvercounts
<1>1. Init => BackfillInv
  <2>1. Init => LogsAreCharged /\ CountsStand
    BY DEF Init, LogsAreCharged, CountsStand
  <2>2. ASSUME Init, NEW b \in Buckets
        PROVE  seeded[b] <= ForeignLogs(b)
    <3>1. seeded[b] = 0 /\ b[1] \in Orgs
      BY <2>2 DEF Init, Buckets
    <3>2. ForeignLogs(b) = Cardinality(Foreign(b)) + OldLogs(b[1], b[2])
      BY DEF ForeignLogs, Foreign
    <3> QED
      BY <3>1, <3>2, ForeignFinite, LogCount
  <2> QED
    BY <2>1, <2>2 DEF BackfillInv, BackfillNeverOvercounts
<1>2. TypeOK /\ LedgerExact /\ BackfillInv /\ [Next]_vars => BackfillInv'
  BY LogsChargedStep, CountsStandStep, OvercountStep DEF BackfillInv
<1>3. BackfillInv => BackfillNeverOvercounts
  BY DEF BackfillInv
<1> QED
  BY <1>1, <1>2, <1>3, TypeCorrect, CounterExact, PTL DEF Spec
------------------------------------------------------------------------------
(***************************************************************************)
(* The counter implements the ledger.                                      *)
(***************************************************************************)

entryBar == [r \in Requests |-> LedgerEntry(phase[r])]
Granted == {PLAN_LIMITS[p] : p \in Plans}

LEMMA EntryOf ==
  /\ LedgerEntry("new") = "none"      /\ LedgerEntry("checked") = "quoted"
  /\ LedgerEntry("held") = "charged"  /\ LedgerEntry("stranded") = "charged"
  /\ LedgerEntry("logged") = "settled" /\ LedgerEntry("released") = "refunded"
  /\ LedgerEntry("refused") = "refused"
BY DEF LedgerEntry

\* Both modules take Cardinality from the same library module.
LEMMA SameCardinality ==
  ASSUME NEW S
  PROVE  Ledger!Cardinality(S) = Cardinality(S)
BY DEF Ledger!Cardinality, Cardinality

\* The abstract charges are the concrete ones.
LEMMA SameLedgerCharges ==
  ASSUME TypeOK, NEW b
  PROVE  Ledger!ChargedTo(b) = ChargedTo(b)
<1>1. \A r \in Requests : LedgerEntry(phase[r]) \in {"charged", "settled"} <=> Charged(r)
  BY DEF TypeOK, Phases, LedgerEntry, Charged
<1> QED
  BY <1>1 DEF Ledger!ChargedTo, ChargedTo

\* A step that moves one request moves one ledger entry.
LEMMA OneEntryMoves ==
  ASSUME TypeOK, NEW r \in Requests, NEW ph, phase' = [phase EXCEPT ![r] = ph]
  PROVE  entryBar' = [entryBar EXCEPT ![r] = LedgerEntry(ph)]
BY DEF TypeOK, entryBar

LEMMA LedgerStep ==
  ASSUME TypeOK, TypeOK', LedgerExact, [Next]_vars
  PROVE  [Ledger!Next]_(Ledger!vars)
<1>1. ASSUME NEW r \in Requests, NEW o \in Orgs, GuardPasses(r, o)
      PROVE  Ledger!Next
  <2> DEFINE b == PeriodOf(o, org[o].periodEnd)
  <2> DEFINE c == PLAN_LIMITS[org[o].plan]
  <2>1. org[o].plan \in Plans /\ org[o].periodEnd \in Ends \union {NoEnd}
    BY DEF TypeOK, OrgRows
  <2>2. b \in Buckets /\ c \in Granted /\ c > 0
    <3>1. c \in Nat /\ ~ (c <= 0)
      BY <1>1, <2>1, QuotaAssumption DEF GuardPasses, Blocked
    <3> QED
      BY <2>1, <3>1, PeriodIsBucket DEF Granted
  <2>3. entryBar' = [entryBar EXCEPT ![r] = "quoted"]
    BY <1>1, OneEntryMoves DEF GuardPasses, LedgerEntry
  <2>4. entryBar[r] = "none"
    BY <1>1 DEF GuardPasses, entryBar, LedgerEntry
  <2>5. bucket' = [bucket EXCEPT ![r] = b] /\ limit' = [limit EXCEPT ![r] = c]
    BY <1>1 DEF GuardPasses
  <2> HIDE DEF b, c
  <2>6. Ledger!Quote(r, b, c)
    BY <2>2, <2>3, <2>4, <2>5 DEF Ledger!Quote, entryBar
  <2> QED
    BY <2>2, <2>6 DEF Ledger!Next, Granted
<1>2. ASSUME NEW r \in Requests, phase[r] \in {"new", "checked"},
             phase' = [phase EXCEPT ![r] = "refused"], bucket' = bucket, limit' = limit
      PROVE  Ledger!Next
  <2>1. entryBar' = [q \in Requests |-> IF q \in {r} THEN "refused" ELSE entryBar[q]]
    BY <1>2, EntryOf DEF entryBar, TypeOK
  <2>2. \A q \in {r} : entryBar[q] \in {"none", "quoted"}
    BY <1>2 DEF entryBar, LedgerEntry
  <2>3. Ledger!Refuse({r})
    BY <1>2, <2>1, <2>2 DEF Ledger!Refuse, entryBar
  <2> QED
    BY <2>3 DEF Ledger!Next
<1>3. ASSUME NEW r \in Requests, Reserve(r)
      PROVE  Ledger!Next
  <2>1. entryBar' = [entryBar EXCEPT ![r] = "charged"] /\ entryBar[r] = "quoted"
    BY <1>3, OneEntryMoves DEF Reserve, LedgerEntry, entryBar
  <2>2. bucket[r] \in Buckets
    BY <1>3 DEF TypeOK, Reserve
  <2>3. Cardinality(ChargedTo(bucket[r])) < limit[r]
    <3>1. /\ used[bucket[r]] = Cardinality(ChargedTo(bucket[r])) + seeded[bucket[r]]
          /\ Cardinality(ChargedTo(bucket[r])) \in Nat
          /\ seeded[bucket[r]] \in Nat /\ limit[r] \in Nat
      BY <2>2, ChargedFinite DEF LedgerExact, TypeOK
    <3>2. used[bucket[r]] < limit[r]
      BY <1>3 DEF Reserve, BelowLimit
    <3> QED
      BY <3>1, <3>2
  <2>4. Ledger!Cardinality(Ledger!ChargedTo(bucket[r])) < limit[r]
    BY <2>3, SameLedgerCharges, SameCardinality
  <2>5. bucket' = bucket /\ limit' = limit
    BY <1>3 DEF Reserve
  <2>6. Ledger!Charge(r)
    BY <2>1, <2>4, <2>5 DEF Ledger!Charge, entryBar
  <2> QED
    BY <2>6 DEF Ledger!Next
<1>4. ASSUME NEW r \in Requests, LogGeneration(r)
      PROVE  Ledger!Next
  <2>1. entryBar' = [entryBar EXCEPT ![r] = "settled"] /\ entryBar[r] = "charged"
    BY <1>4, OneEntryMoves DEF LogGeneration, LedgerEntry, entryBar
  <2>2. Ledger!Settle(r)
    BY <1>4, <2>1 DEF Ledger!Settle, LogGeneration, entryBar
  <2> QED
    BY <2>2 DEF Ledger!Next
<1>5. ASSUME NEW r \in Requests, Release(r)
      PROVE  Ledger!Next
  <2>1. entryBar' = [entryBar EXCEPT ![r] = "refunded"] /\ entryBar[r] = "charged"
    BY <1>5, OneEntryMoves DEF Release, releaseQuota, LedgerEntry, entryBar
  <2>2. Ledger!Refund(r)
    BY <1>5, <2>1 DEF Ledger!Refund, Release, releaseQuota, entryBar
  <2> QED
    BY <2>2 DEF Ledger!Next
<1>6. ASSUME NEW r \in Requests, Strand(r)
      PROVE  UNCHANGED Ledger!vars
  <2>1. entryBar' = [entryBar EXCEPT ![r] = "charged"] /\ entryBar[r] = "charged"
    BY <1>6, OneEntryMoves DEF Strand, LedgerEntry, entryBar
  <2>2. entryBar' = entryBar
    BY <2>1 DEF entryBar
  <2> QED
    BY <1>6, <2>2 DEF Strand, Ledger!vars, entryBar
<1>7. ASSUME NEW S \in SUBSET Requests, Crash(S)
      PROVE  Ledger!Next
  <2> DEFINE T == {r \in S : phase[r] = "checked"}
  <2>0. \A r \in Requests :
          LedgerEntry(phase'[r]) = IF r \in T THEN "refused" ELSE LedgerEntry(phase[r])
    BY <1>7, EntryOf DEF Crash, AfterCrash
  <2>1. entryBar' = [r \in Requests |-> IF r \in T THEN "refused" ELSE entryBar[r]]
    BY <2>0 DEF entryBar
  <2>2. \A r \in T : entryBar[r] \in {"none", "quoted"}
    BY DEF entryBar, LedgerEntry
  <2>3. Ledger!Refuse(T)
    BY <1>7, <2>1, <2>2 DEF Ledger!Refuse, Crash, entryBar
  <2> QED
    BY <2>3 DEF Ledger!Next
<1>8. ASSUME UNCHANGED <<phase, bucket, limit>>
      PROVE  UNCHANGED Ledger!vars
  BY <1>8 DEF Ledger!vars
<1>9. ASSUME NEW r \in Requests, ReserveRejects(r) \/ GuardErrors(r)
                                 \/ \E o \in Orgs : GuardRefuses(r, o)
      PROVE  Ledger!Next
  BY <1>2, <1>9 DEF ReserveRejects, GuardErrors, GuardRefuses
<1>10. ASSUME \/ BackfillList \/ Tick \/ UNCHANGED vars
              \/ \E o \in Orgs : BackfillCount(o) \/ BackfillRaise(o)
              \/ \E o \in Orgs, p \in Plans, st \in {"active", "inactive"}, e \in Ends :
                   BillingSync(o, p, st, e)
       PROVE  UNCHANGED <<phase, bucket, limit>>
  BY <1>10 DEF BackfillList, Tick, BackfillCount, BackfillRaise, BillingSync, reqVars, vars
<1> QED
  BY <1>1, <1>3, <1>4, <1>5, <1>6, <1>7, <1>8, <1>9, <1>10 DEF Next

\* A single integer per bucket, bumped and decremented by statements that run in
\* any order, does what a ledger of named entries does: charges within the
\* quoted capacity, refunds at most once, and never refunds recorded work.
THEOREM ImplementsLedger == Spec => LedgerSpec
<1>1. Init => Ledger!Init
  BY DEF Init, Ledger!Init, LedgerEntry
<1>2. TypeOK /\ TypeOK' /\ LedgerExact /\ [Next]_vars => [Ledger!Next]_(Ledger!vars)
  BY LedgerStep
<1> QED
  BY <1>1, <1>2, TypeCorrect, CounterExact, PTL DEF Spec, LedgerSpec, Ledger!Spec
==============================================================================
