---------------------------- MODULE LlmSpendProofs ----------------------------
(***************************************************************************)
(* What LlmSpend guarantees for any number of requests, devices, days and  *)
(* restarts: how far the caps can be overshot, whom the trial budget lets  *)
(* through, and which configuration a call uses.                           *)
(***************************************************************************)
EXTENDS LlmSpend, FiniteSetTheorems, TLAPS

-----------------------------------------------------------------------------
(* The invariant *)

Steps == Final \cup {"idle", "evaluate", "decide", "admit", "config", "call",
                     "record", "log", "find", "store"}

SpendTypes ==
  /\ kind \in [Requests -> Kinds \cup {"none"}] /\ step \in [Requests -> Steps]
  /\ visitor \in [Requests -> Visitors \cup {Nothing}] /\ read \in [Requests -> Nat]
  /\ usage \in [Visitors -> [Trials -> Nat]]
  /\ counted \in [Requests -> SUBSET Requests]
  /\ config \in [Rows -> Settings \cup {Nothing}] /\ priced \in [Settings -> BOOLEAN]
  /\ latest \in Settings \cup {Nothing}
  /\ used \in [Requests -> Settings \cup {Nothing}]
  /\ asOf \in [Requests -> Settings \cup {Nothing}]
  /\ day \in 1..MaxDays /\ restarts \in 0..MaxRestarts
  /\ logged \in [Requests -> 0..MaxDays]
  /\ bill \in [Requests -> [day : 0..MaxDays, life : 0..MaxRestarts]]
  /\ anonSpend \in [day : 0..MaxDays, usd : Nat]
  /\ crowd \in [anon : Nat, tenant : Nat]

\* What a request is doing says what it is, and what it has done.
Placed(r) ==
  /\ step[r] = "idle" <=> kind[r] = "none"
  /\ kind[r] \in Trials => visitor[r] \in Visitors
  /\ step[r] \in {"evaluate", "decide", "record"} => kind[r] \in Trials
  /\ step[r] = "admit" => kind[r] \in Anon \cup Tenant
  /\ step[r] \in {"config", "call"} => kind[r] \in Anon \cup Tenant \cup {"extract"}
  /\ step[r] = "log" => kind[r] \in Tenant
  /\ step[r] \in {"find", "store"} => kind[r] \in Writers
  /\ step[r] \in {"idle", "evaluate", "decide", "admit", "config", "find"} => used[r] = Nothing
  /\ step[r] \in {"call", "record", "log", "store"} => used[r] # Nothing
  /\ step[r] \in {"idle", "evaluate", "decide", "admit", "config", "call"} => bill[r] = Unpaid
  /\ bill[r].day # 0 \/ logged[r] # 0 =>
       used[r] # Nothing /\ kind[r] \notin Writers \cup {"none"}

\* The settings that have come into being, none of which changes its price.
Known == {Seeded} \cup {p \in Requests : kind[p] = "setLlm"}

Stored ==
  /\ \A w \in Live : config[w] \in Known
  /\ \A r \in Requests :
       kind[r] \notin Writers \cup {"none"} /\ used[r] # Nothing => used[r] \in Known

\* The counters of a device count its recorded answers; whoever evaluate has let
\* through was counted below the cap.
Counts ==
  /\ \A v \in Visitors : \A k \in Trials : usage[v][k] = Cardinality(Recorded(v, k))
  /\ \A r \in Requests : read[r] = Cardinality(counted[r])
  /\ NoAnswerPastTheCap

\* Rows are inserted by requests that found none, and none finds none after the seed.
Inserter(p) == kind[p] = "setLlm" /\ used[p] = p
TwoInserted == \E p, q \in Requests : p # q /\ Inserter(p) /\ Inserter(q)
OneRow ==
  /\ \A w \in Live : w = Seeded \/ Inserter(w)
  /\ Seeded \in Live => \A p \in Requests : ~Inserter(p)
  /\ \A r \in Requests : step[r] = "store" => used[r] \in Live \cup {r}
  /\ TwoInserted \/ \A w \in Live : config[w] = latest
  /\ ConfigIsCurrent

\* Calls that have been admitted and are not on their account yet; what is on it.
Waiting(k) == {q \in Requests : kind[q] \in k /\ step[q] \in {"config", "call", "log"}}
LoggedOn(d) == {q \in Requests : logged[q] = d /\ priced[used[q]]}
PaidOn(d, l) ==
  {q \in Requests : kind[q] \in Anon /\ bill[q] = [day |-> d, life |-> l] /\ priced[used[q]]}

\* The anonymous account holds what this process has paid on the day it is for, and
\* nothing was paid in this process on a later one.
AccountExact ==
  /\ IF anonSpend.day = 0 THEN anonSpend.usd = 0
     ELSE anonSpend.usd = Cardinality(PaidOn(anonSpend.day, restarts))
  /\ anonSpend.day <= day
  /\ \A q \in Requests :
       /\ logged[q] <= day /\ bill[q].day <= day /\ bill[q].life <= restarts
       /\ bill[q].life = restarts /\ kind[q] \in Anon => bill[q].day <= anonSpend.day

\* A cap of nothing admits nothing.
Covers(spent, bound) == spent > 0 => spent < bound

\* What is on an account, with what is on its way to it, is below the cap and the crowd.
CrowdsCover ==
  /\ Cardinality(Waiting(Tenant)) <= crowd.tenant /\ Cardinality(Waiting(Anon)) <= crowd.anon
  /\ crowd.tenant <= Cardinality(Requests) /\ crowd.anon <= Cardinality(Requests)
  /\ Covers(Cardinality(LoggedOn(day)) + Cardinality(Waiting(Tenant)), DAILY_CAP + crowd.tenant)
  /\ \A d \in 1..MaxDays : Covers(Cardinality(LoggedOn(d)), DAILY_CAP + crowd.tenant)
  /\ Covers(Cardinality(PaidOn(day, restarts)) + Cardinality(Waiting(Anon)), ANON_CAP + crowd.anon)
  /\ \A d \in 1..MaxDays, l \in 0..MaxRestarts :
       Covers(Cardinality(PaidOn(d, l)), ANON_CAP + crowd.anon)

SpendInv ==
  /\ SpendTypes /\ \A r \in Requests : Placed(r)
  /\ Stored /\ Counts /\ OneRow /\ AccountExact /\ CrowdsCover

-----------------------------------------------------------------------------
(* Steps of one request *)

Serves(r) ==
  \/ \E k \in Trials, v \in Visitors : ReadSignals(r, k, v)
  \/ Call(r, "tenant", "admit") \/ Call(r, "preview", "admit") \/ Call(r, "extract", "config")
  \/ EvaluateReads(r) \/ Decide(r) \/ Record(r) \/ RecordFails(r)
  \/ Admit(r) \/ ReadConfig(r) \/ ProviderFails(r) \/ ProviderReturns(r) \/ LogCall(r)
  \/ SetGlobalLlm(r) \/ FindConfig(r) \/ StoreConfig(r)

LEMMA StepsAreServed == Next => (\E r \in Requests : Serves(r)) \/ NextDay \/ Restart
BY DEF Next, Serves, Assess, Proposal, Trials, generateProposal, analyzeJob, regenerateSection,
       generateDoc, regenerateDocField, adjustToneProse, generatePreview, extractMemories

OthersKeep(r) ==
  \A q \in Requests : q # r =>
    /\ kind'[q] = kind[q] /\ step'[q] = step[q] /\ visitor'[q] = visitor[q]
    /\ read'[q] = read[q] /\ counted'[q] = counted[q] /\ used'[q] = used[q]
    /\ asOf'[q] = asOf[q] /\ logged'[q] = logged[q] /\ bill'[q] = bill[q]

LEMMA RequestsFinite ==
  ASSUME NEW S \in SUBSET Requests
  PROVE  /\ IsFiniteSet(S) /\ Cardinality(S) \in Nat /\ Cardinality(Requests) \in Nat
         /\ Cardinality(S) <= Cardinality(Requests)
BY LlmSpendAssumption, FS_Subset, FS_CardinalityType

LEMMA SmallerSet ==
  ASSUME NEW S \in SUBSET Requests, NEW T \in SUBSET S
  PROVE  Cardinality(T) <= Cardinality(S) /\ Cardinality(T) \in Nat /\ Cardinality(S) \in Nat
BY RequestsFinite, FS_Subset

LEMMA OneMore ==
  ASSUME NEW S \in SUBSET Requests, NEW r \in Requests, r \notin S
  PROVE  Cardinality(S \cup {r}) = Cardinality(S) + 1
BY RequestsFinite, FS_AddElement

\* The account after its day has been looked at, and the crowd with r.
LEMMA AccountTypes ==
  ASSUME SpendTypes, NEW r \in Requests
  PROVE  /\ Today \in [day : 0..MaxDays, usd : Nat]
         /\ used[r] # Nothing =>
              /\ Cost(used[r]) \in 0..1
              /\ RecordAnonSpend(r) \in [day : 0..MaxDays, usd : Nat]
         /\ Crowd(r) \in [anon : Nat, tenant : Nat]
<1>1. Today \in [day : 0..MaxDays, usd : Nat]
  BY DEF SpendTypes, Today
<1>2. used[r] # Nothing => Cost(used[r]) \in 0..1
  BY DEF SpendTypes, Cost
<1>3. used[r] # Nothing => RecordAnonSpend(r) \in [day : 0..MaxDays, usd : Nat]
  BY <1>1, <1>2 DEF RecordAnonSpend
<1>4. \A k : Cardinality(Unaccounted(r, k)) \in Nat
  BY RequestsFinite DEF Unaccounted
<1>5. Crowd(r) \in [anon : Nat, tenant : Nat]
  BY <1>4 DEF Crowd, SpendTypes, Bigger
<1> QED
  BY <1>1, <1>2, <1>3, <1>5

\* What a request that is being served does to the types and to its own place.
LEMMA ServedInPlace ==
  ASSUME SpendTypes, NEW r \in Requests, Placed(r), Serves(r)
  PROVE  SpendTypes' /\ OthersKeep(r) /\ Placed(r)'
<1> USE DEF Goto, reqVars, trialVars, confVars, callVars, billVars, timeVars
<1>0. Nothing \notin Requests /\ Nothing # Seeded /\ Seeded \notin Requests
  BY LlmSpendAssumption
<1>1. ASSUME NEW k \in Trials, NEW v \in Visitors, ReadSignals(r, k, v)
      PROVE  SpendTypes' /\ OthersKeep(r) /\ Placed(r)'
  <2>1. SpendTypes' /\ OthersKeep(r)
    BY <1>1 DEF ReadSignals, SpendTypes, OthersKeep, Steps, Kinds, Anon
  <2>2. Placed(r)'
    BY <1>1 DEF ReadSignals, SpendTypes, Placed, Trials, Anon, Tenant, Writers
  <2> QED
    BY <2>1, <2>2
<1>2. ASSUME NEW k \in {"tenant", "preview"}, Call(r, k, "admit")
      PROVE  SpendTypes' /\ OthersKeep(r) /\ Placed(r)'
  <2>1. SpendTypes' /\ OthersKeep(r)
    BY <1>2 DEF Call, SpendTypes, OthersKeep, Steps, Kinds, Anon, Tenant
  <2>2. Placed(r)'
    BY <1>2 DEF Call, SpendTypes, Placed, Trials, Anon, Tenant, Writers
  <2> QED
    BY <2>1, <2>2
<1>3. CASE Call(r, "extract", "config")
  <2>1. SpendTypes' /\ OthersKeep(r)
    BY <1>3 DEF Call, SpendTypes, OthersKeep, Steps, Kinds
  <2>2. Placed(r)'
    BY <1>3 DEF Call, SpendTypes, Placed, Trials, Anon, Tenant, Writers
  <2> QED
    BY <2>1, <2>2
<1>4. CASE EvaluateReads(r)
  <2>1. usage[visitor[r]][kind[r]] \in Nat /\ Recorded(visitor[r], kind[r]) \subseteq Requests
    BY <1>4 DEF EvaluateReads, SpendTypes, Placed, Recorded
  <2>2. SpendTypes' /\ OthersKeep(r)
    BY <1>4, <2>1 DEF EvaluateReads, SpendTypes, OthersKeep, Steps
  <2>3. Placed(r)'
    BY <1>4 DEF EvaluateReads, SpendTypes, Placed
  <2> QED
    BY <2>2, <2>3
<1>5. CASE Decide(r)
  <2>1. PICK s \in {"admit", "refused"} : step' = [step EXCEPT ![r] = s]
    BY <1>5 DEF Decide
  <2>2. SpendTypes' /\ OthersKeep(r)
    BY <1>5, <2>1 DEF Decide, SpendTypes, OthersKeep, Steps, Final
  <2>3. Placed(r)'
    BY <1>5, <2>1 DEF Decide, SpendTypes, Placed, Trials, Anon
  <2> QED
    BY <2>2, <2>3
<1>6. CASE Record(r)
  <2>1. visitor[r] \in Visitors /\ kind[r] \in Trials
    BY <1>6 DEF Record, Placed
  <2>2. usage' \in [Visitors -> [Trials -> Nat]]
    BY <1>6, <2>1 DEF Record, SpendTypes
  <2>3. SpendTypes' /\ OthersKeep(r)
    BY <1>6, <2>2 DEF Record, SpendTypes, OthersKeep, Steps, Final
  <2>4. Placed(r)'
    BY <1>6 DEF Record, SpendTypes, Placed
  <2> QED
    BY <2>3, <2>4
<1>7. ASSUME NEW s \in {"unrecorded", "failed"}, step[r] \in {"record", "call"},
             step' = [step EXCEPT ![r] = s],
             UNCHANGED <<kind, trialVars, confVars, callVars, billVars, timeVars, crowd>>
      PROVE  SpendTypes' /\ OthersKeep(r) /\ Placed(r)'
  <2>1. SpendTypes' /\ OthersKeep(r)
    BY <1>7 DEF SpendTypes, OthersKeep, Steps, Final
  <2>2. Placed(r)'
    BY <1>7 DEF SpendTypes, Placed
  <2> QED
    BY <2>1, <2>2
<1>8. CASE Admit(r)
  <2>1. PICK s \in {"config", "failed"} : step' = [step EXCEPT ![r] = s]
    BY <1>8 DEF Admit
  <2>2. /\ crowd' \in [anon : Nat, tenant : Nat]
        /\ anonSpend' \in [day : 0..MaxDays, usd : Nat]
    BY <1>8, AccountTypes DEF Admit, SpendTypes
  <2>3. SpendTypes' /\ OthersKeep(r)
    BY <1>8, <2>1, <2>2 DEF Admit, SpendTypes, OthersKeep, Steps, Final
  <2>4. Placed(r)'
    BY <1>8, <2>1 DEF Admit, SpendTypes, Placed
  <2> QED
    BY <2>3, <2>4
<1>9. CASE ReadConfig(r)
  <2>1. CASE step' = [step EXCEPT ![r] = "failed"] /\ UNCHANGED callVars
    <3>1. SpendTypes' /\ OthersKeep(r)
      BY <1>9, <2>1 DEF ReadConfig, SpendTypes, OthersKeep, Steps, Final
    <3>2. Placed(r)'
      BY <1>9, <2>1 DEF ReadConfig, SpendTypes, Placed
    <3> QED
      BY <3>1, <3>2
  <2>2. ASSUME NEW w \in Live, used' = [used EXCEPT ![r] = config[w]],
               asOf' = [asOf EXCEPT ![r] = latest], step' = [step EXCEPT ![r] = "call"]
        PROVE  SpendTypes' /\ OthersKeep(r) /\ Placed(r)'
    <3>1. config[w] \in Settings /\ config[w] # Nothing
      BY DEF Live, SpendTypes, Rows
    <3>2. SpendTypes' /\ OthersKeep(r)
      BY <1>9, <2>2, <3>1 DEF ReadConfig, SpendTypes, OthersKeep, Steps, Final
    <3>3. Placed(r)'
      BY <1>9, <2>2, <3>1 DEF ReadConfig, SpendTypes, Placed
    <3> QED
      BY <3>2, <3>3
  <2> QED
    BY <1>9, <2>1, <2>2 DEF ReadConfig
<1>10. CASE ProviderReturns(r)
  <2>1. PICK s \in {After(kind[r]), "failed"} : step' = [step EXCEPT ![r] = s]
    BY <1>10 DEF ProviderReturns
  <2>2. /\ s \in {"record", "log", "ok", "failed"}
        /\ s = "record" => kind[r] \in Trials
        /\ s = "log" => kind[r] \in Tenant
    BY DEF After
  <2>3. anonSpend' \in [day : 0..MaxDays, usd : Nat]
    BY <1>10, AccountTypes DEF ProviderReturns, SpendTypes, Placed
  <2>4. /\ bill' \in [Requests -> [day : 0..MaxDays, life : 0..MaxRestarts]]
        /\ \A q \in Requests : q # r => bill'[q] = bill[q]
    BY <1>10 DEF ProviderReturns, SpendTypes
  <2>5. SpendTypes' /\ OthersKeep(r)
    BY <1>10, <2>1, <2>2, <2>3, <2>4 DEF ProviderReturns, SpendTypes, OthersKeep, Steps, Final
  <2>6. kind[r] \in Anon \cup Tenant \cup {"extract"} /\ used[r] # Nothing
    BY <1>10 DEF ProviderReturns, Placed
  <2>7. Placed(r)'
    BY <1>10, <2>1, <2>2, <2>6 DEF ProviderReturns, SpendTypes, Placed, Trials, Anon, Tenant, Writers
  <2> QED
    BY <2>5, <2>7
<1>11. CASE LogCall(r)
  <2>1. SpendTypes' /\ OthersKeep(r)
    BY <1>11 DEF LogCall, SpendTypes, OthersKeep, Steps, Final
  <2>2. Placed(r)'
    BY <1>11 DEF LogCall, SpendTypes, Placed, Tenant, Writers
  <2> QED
    BY <2>1, <2>2
<1>12. CASE SetGlobalLlm(r)
  <2>1. SpendTypes' /\ OthersKeep(r)
    BY <1>12 DEF SetGlobalLlm, SpendTypes, OthersKeep, Steps, Kinds, Writers, Settings
  <2>2. Placed(r)'
    BY <1>12 DEF SetGlobalLlm, SpendTypes, Placed, Trials, Writers
  <2> QED
    BY <2>1, <2>2
<1>13. CASE FindConfig(r)
  <2>1. PICK w \in Settings : used' = [used EXCEPT ![r] = w]
    BY <1>13 DEF FindConfig, Live, Rows, Settings
  <2>2. w # Nothing
    BY <1>0 DEF Settings
  <2>3. SpendTypes' /\ OthersKeep(r)
    BY <1>13, <2>1 DEF FindConfig, SpendTypes, OthersKeep, Steps
  <2>4. Placed(r)'
    BY <1>13, <2>1, <2>2 DEF FindConfig, SpendTypes, Placed
  <2> QED
    BY <2>3, <2>4
<1>14. CASE StoreConfig(r)
  <2>1. SpendTypes' /\ OthersKeep(r)
    BY <1>14 DEF StoreConfig, SpendTypes, OthersKeep, Steps, Final, Settings, Rows
  <2>2. Placed(r)'
    BY <1>14 DEF StoreConfig, SpendTypes, Placed
  <2> QED
    BY <2>1, <2>2
<1> QED
  BY <1>1, <1>2, <1>3, <1>4, <1>5, <1>6, <1>7, <1>8, <1>9, <1>10, <1>11, <1>12, <1>13, <1>14
     DEF Serves, RecordFails, ProviderFails

\* What a request is does not change once it has begun.
LEMMA KindStays ==
  ASSUME SpendTypes, NEW r \in Requests, Placed(r), Serves(r)
  PROVE  step[r] # "idle" => kind' = kind
BY DEF Serves, ReadSignals, Call, EvaluateReads, Decide, Record, RecordFails, Admit, ReadConfig,
       ProviderFails, ProviderReturns, LogCall, SetGlobalLlm, FindConfig, StoreConfig, trialVars

-----------------------------------------------------------------------------
(* The configuration *)

\* The steps that neither read nor write the configuration.
NoConf(r) ==
  /\ config' = config /\ latest' = latest /\ used' = used /\ asOf' = asOf
  /\ step'[r] # "store"

LEMMA ConfigSteps ==
  ASSUME SpendTypes, NEW r \in Requests, Placed(r), Serves(r)
  PROVE  \/ NoConf(r) \/ FindConfig(r) \/ StoreConfig(r)
         \/ /\ step[r] = "config" /\ step'[r] = "call" /\ UNCHANGED <<kind, config, latest>>
            /\ \E w \in Live : used' = [used EXCEPT ![r] = config[w]]
            /\ asOf' = [asOf EXCEPT ![r] = latest]
<1> USE DEF Goto, reqVars, trialVars, confVars, callVars, billVars, timeVars, NoConf
<1>1. CASE \/ \E k \in Trials, v \in Visitors : ReadSignals(r, k, v)
           \/ Call(r, "tenant", "admit") \/ Call(r, "preview", "admit") \/ Call(r, "extract", "config")
           \/ EvaluateReads(r) \/ Decide(r)
  BY <1>1 DEF ReadSignals, Call, EvaluateReads, Decide, SpendTypes
<1>2. CASE \/ Record(r) \/ RecordFails(r) \/ Admit(r) \/ ProviderFails(r) \/ LogCall(r)
           \/ SetGlobalLlm(r)
  BY <1>2 DEF Record, RecordFails, Admit, ProviderFails, LogCall, SetGlobalLlm, SpendTypes
<1>3. CASE ProviderReturns(r)
  <2>1. PICK s \in {After(kind[r]), "failed"} : step' = [step EXCEPT ![r] = s]
    BY <1>3 DEF ProviderReturns
  <2>2. s # "store"
    BY DEF After
  <2> QED
    BY <1>3, <2>1, <2>2 DEF ProviderReturns, SpendTypes
<1>4. CASE ReadConfig(r)
  BY <1>4 DEF ReadConfig, SpendTypes
<1> QED
  BY <1>1, <1>2, <1>3, <1>4 DEF Serves

LEMMA RowsAreSettings ==
  ASSUME SpendTypes
  PROVE  /\ \A w \in Live : w \in Settings /\ config[w] \in Settings /\ config[w] # Nothing
         /\ Nothing \notin Settings /\ Seeded \notin Requests
BY LlmSpendAssumption DEF SpendTypes, Live, Rows, Settings

LEMMA StoredKept ==
  ASSUME SpendTypes, \A q \in Requests : Placed(q), Stored, NEW r \in Requests, Serves(r)
  PROVE  Stored' /\ Known \subseteq Known'
<1>1. SpendTypes' /\ OthersKeep(r) /\ Placed(r)' /\ (step[r] # "idle" => kind' = kind)
  BY ServedInPlace, KindStays
<1>2. Known \subseteq Known'
  BY <1>1 DEF Known, OthersKeep, Placed
<1>3. ASSUME NEW q \in Requests, q # r, kind'[q] \notin Writers \cup {"none"}, used'[q] # Nothing
      PROVE  used'[q] \in Known'
  BY <1>1, <1>2, <1>3 DEF Stored, OthersKeep
<1>4. CASE NoConf(r)
  <2>1. Live' = Live
    BY <1>4 DEF NoConf, Live
  <2>2. \A w \in Live' : config'[w] \in Known'
    BY <1>2, <1>4, <2>1 DEF Stored, NoConf
  <2>3. kind'[r] \notin Writers \cup {"none"} /\ used'[r] # Nothing => used'[r] \in Known'
    BY <1>1, <1>2, <1>4 DEF Stored, NoConf, Placed
  <2> QED
    BY <1>2, <1>3, <2>2, <2>3 DEF Stored
<1>5. ASSUME NEW w \in Live, UNCHANGED <<kind, config, latest>>,
             used' = [used EXCEPT ![r] = config[w]]
      PROVE  Stored'
  <2>1. Live' = Live /\ used'[r] = config[w]
    BY <1>5 DEF Live, SpendTypes
  <2>2. config[w] \in Known'
    BY <1>2 DEF Stored
  <2> QED
    BY <1>2, <1>3, <1>5, <2>1, <2>2 DEF Stored
<1>6. CASE FindConfig(r)
  <2>1. config' = config /\ kind' = kind /\ kind[r] \in Writers
    BY <1>6 DEF FindConfig, confVars, Placed
  <2>2. Live' = Live
    BY <2>1 DEF Live
  <2> QED
    BY <1>2, <1>3, <2>1, <2>2 DEF Stored
<1>7. CASE StoreConfig(r)
  <2>1. /\ config' = [config EXCEPT ![used[r]] = r] /\ kind' = kind /\ kind[r] = "setLlm"
    BY <1>7 DEF StoreConfig, Placed, Writers
  <2>2. r \in Known'
    BY <2>1 DEF Known
  <2>3. \A w \in Live' : config'[w] = r \/ (w \in Live /\ config'[w] = config[w])
    BY <2>1 DEF Live, SpendTypes
  <2>4. \A w \in Live' : config'[w] \in Known'
    BY <1>2, <2>2, <2>3 DEF Stored
  <2> QED
    BY <1>2, <1>3, <2>1, <2>4 DEF Stored, Writers
<1> QED
  BY <1>2, <1>4, <1>5, <1>6, <1>7, ConfigSteps

LEMMA OneRowKept ==
  ASSUME SpendTypes, \A q \in Requests : Placed(q), OneRow, NEW r \in Requests, Serves(r)
  PROVE  OneRow'
<1>1. SpendTypes' /\ OthersKeep(r) /\ Placed(r)' /\ (step[r] # "idle" => kind' = kind)
  BY ServedInPlace, KindStays
<1>2. /\ \A w \in Live : w = Seeded \/ (w \in Requests /\ Inserter(w))
      /\ Seeded \in Live => \A p \in Requests : ~Inserter(p)
      /\ Nothing \notin Settings /\ Seeded \notin Requests /\ r \in Settings
  BY RowsAreSettings DEF OneRow, Settings
<1>3. \A q \in Requests \ {r} : Inserter(q)' <=> Inserter(q)
  BY <1>1 DEF Inserter, OthersKeep
<1>4. Inserter(r) => Inserter(r)'
  <2> SUFFICES ASSUME Inserter(r) PROVE Inserter(r)'
    OBVIOUS
  <2>1. kind[r] = "setLlm" /\ used[r] = r /\ used[r] # Nothing
    BY <1>2 DEF Inserter, Settings
  <2>2. kind' = kind /\ step[r] # "find" /\ step[r] # "config"
    BY <1>1, <2>1 DEF Placed
  <2>3. used'[r] = used[r]
    BY <2>2, ConfigSteps DEF NoConf, FindConfig, StoreConfig, callVars
  <2> QED
    BY <2>1, <2>2, <2>3 DEF Inserter
<1>5. TwoInserted => TwoInserted'
  BY <1>3, <1>4 DEF TwoInserted
<1>6. \A w \in Live : w = Seeded \/ Inserter(w)'
  BY <1>2, <1>3, <1>4
<1>7. ASSUME NEW q \in Requests, q # r, used'[q] # asOf'[q], kind'[q] \notin Writers \cup {"none"},
             used'[q] # Nothing
      PROVE  TwoInserted'
  <2>1. used[q] # asOf[q] /\ kind[q] \notin Writers \cup {"none"} /\ used[q] # Nothing
    BY <1>1, <1>7 DEF OthersKeep
  <2>2. TwoInserted
    BY <2>1 DEF OneRow, ConfigIsCurrent, TwoInserted, Inserter
  <2> QED
    BY <1>5, <2>2
<1>8. ASSUME used'[r] # asOf'[r] /\ kind'[r] \notin Writers \cup {"none"} /\ used'[r] # Nothing
             => TwoInserted'
      PROVE  ConfigIsCurrent'
  <2>1. TwoInserted' => \E p, q \in Requests : p # q /\ kind'[p] = "setLlm" /\ kind'[q] = "setLlm"
                                               /\ used'[p] = p /\ used'[q] = q
    BY DEF TwoInserted, Inserter
  <2> QED
    BY <1>7, <1>8, <2>1 DEF ConfigIsCurrent
<1>9. CASE NoConf(r)
  <2>1. Live' = Live
    BY <1>9 DEF NoConf, Live
  <2>2. \A p \in Requests : Inserter(p)' => Inserter(p)
    <3>1. Inserter(r)' => Inserter(r)
      BY <1>1, <1>2, <1>9 DEF Inserter, NoConf, Placed, Settings
    <3> QED
      BY <1>3, <3>1
  <2>3. \A q \in Requests : step'[q] = "store" => used'[q] \in Live' \cup {q}
    BY <1>1, <1>9, <2>1 DEF OneRow, NoConf, OthersKeep
  <2>4. TwoInserted' \/ \A w \in Live' : config'[w] = latest'
    BY <1>5, <1>9, <2>1 DEF OneRow, NoConf
  <2>5. used'[r] # asOf'[r] /\ kind'[r] \notin Writers \cup {"none"} /\ used'[r] # Nothing
        => TwoInserted'
    <3> SUFFICES ASSUME used[r] # asOf[r], kind'[r] \notin Writers \cup {"none"}, used[r] # Nothing
                 PROVE  TwoInserted
      BY <1>5, <1>9 DEF NoConf
    <3>1. kind' = kind
      BY <1>1 DEF Placed
    <3> QED
      BY <3>1 DEF OneRow, ConfigIsCurrent, TwoInserted, Inserter
  <2> QED
    BY <1>2, <1>6, <1>8, <2>1, <2>2, <2>3, <2>4, <2>5 DEF OneRow
<1>10. ASSUME NEW w \in Live, step[r] = "config", step'[r] = "call",
              UNCHANGED <<kind, config, latest>>, used' = [used EXCEPT ![r] = config[w]],
              asOf' = [asOf EXCEPT ![r] = latest]
       PROVE  OneRow'
  <2>1. Live' = Live /\ used'[r] = config[w] /\ asOf'[r] = latest
    BY <1>10 DEF Live, SpendTypes
  <2>2. \A p \in Requests : Inserter(p)' => Inserter(p)
    <3>1. kind'[r] # "setLlm"
      BY <1>10 DEF Placed, Anon, Trials, Tenant
    <3> QED
      BY <1>3, <3>1 DEF Inserter
  <2>3. \A q \in Requests : step'[q] = "store" => used'[q] \in Live' \cup {q}
    BY <1>1, <1>10, <2>1 DEF OneRow, OthersKeep
  <2>4. TwoInserted' \/ \A x \in Live' : config'[x] = latest'
    BY <1>5, <1>10, <2>1 DEF OneRow
  <2>5. used'[r] # asOf'[r] => TwoInserted'
    BY <1>10, <2>1, <2>4
  <2> QED
    BY <1>2, <1>6, <1>8, <2>1, <2>2, <2>3, <2>4, <2>5 DEF OneRow
<1>11. CASE FindConfig(r)
  <2>1. /\ config' = config /\ latest' = latest /\ kind' = kind /\ kind[r] \in Writers
        /\ step[r] = "find" /\ used[r] = Nothing
    BY <1>11 DEF FindConfig, confVars, Placed
  <2>2. Live' = Live
    BY <2>1 DEF Live
  <2>3. PICK w \in IF Live = {} THEN {r} ELSE Live : used' = [used EXCEPT ![r] = w]
    BY <1>11 DEF FindConfig
  <2>4. used'[r] = w
    BY <2>3 DEF SpendTypes
  <2>5. r \notin Live
    BY <1>2, <2>1 DEF Inserter, Settings
  <2>6. Seeded \in Live' => \A p \in Requests : ~Inserter(p)'
    <3> SUFFICES ASSUME Seeded \in Live, NEW p \in Requests PROVE ~Inserter(p)'
      BY <2>2
    <3>1. w \in Live
      BY <2>3
    <3>2. p = r => ~Inserter(p)'
      BY <2>4, <2>5, <3>1 DEF Inserter
    <3> QED
      BY <1>2, <1>3, <3>2
  <2>7. \A q \in Requests : step'[q] = "store" => used'[q] \in Live' \cup {q}
    BY <1>1, <2>2, <2>3, <2>4 DEF OneRow, OthersKeep
  <2>8. TwoInserted' \/ \A x \in Live' : config'[x] = latest'
    BY <1>5, <2>1, <2>2 DEF OneRow
  <2> QED
    BY <1>6, <1>8, <2>1, <2>2, <2>6, <2>7, <2>8 DEF OneRow
<1>12. CASE StoreConfig(r)
  <2>1. /\ config' = [config EXCEPT ![used[r]] = r] /\ latest' = r /\ kind' = kind /\ used' = used
        /\ kind[r] = "setLlm" /\ step[r] = "store" /\ step'[r] = "ok"
    BY <1>12 DEF StoreConfig, Placed, Writers, callVars, Goto, SpendTypes
  <2>2. used[r] \in Live \cup {r} /\ used[r] \in Rows
    BY <1>2, <2>1, RowsAreSettings DEF OneRow, Rows
  <2>3. Live' = Live \cup {used[r]}
    BY <1>2, <2>1, <2>2 DEF Live, SpendTypes, Settings
  <2>4. \A p \in Requests : Inserter(p)' <=> Inserter(p)
    BY <2>1 DEF Inserter
  <2>5. used[r] \in Live \/ Inserter(r)
    BY <2>1, <2>2 DEF Inserter
  <2>6. \A w \in Live' : w = Seeded \/ Inserter(w)'
    <3>1. used[r] \in Live \/ (used[r] = r /\ Inserter(r)')
      BY <1>4, <2>2, <2>5
    <3> QED
      BY <1>6, <2>3, <3>1
  <2>7. Seeded \in Live' => \A p \in Requests : ~Inserter(p)'
    BY <1>2, <2>2, <2>3, <2>4
  <2>8. \A q \in Requests : step'[q] = "store" => used'[q] \in Live' \cup {q}
    BY <1>1, <2>1, <2>3 DEF OneRow, OthersKeep
  <2>9. ASSUME NEW w \in Live', config'[w] # latest'
        PROVE  TwoInserted'
    <3>1. w \in Live /\ w # used[r]
      BY <2>1, <2>2, <2>3, <2>9 DEF SpendTypes
    <3>2. w \in Requests /\ Inserter(w)
      BY <1>2, <2>5, <3>1
    <3>3. used[r] \in Requests /\ Inserter(used[r])
      BY <1>2, <2>2, <2>5, <3>2
    <3> QED
      BY <1>5, <3>1, <3>2, <3>3 DEF TwoInserted
  <2> QED
    BY <1>8, <2>1, <2>6, <2>7, <2>8, <2>9 DEF OneRow, Writers
<1> QED
  BY <1>9, <1>10, <1>11, <1>12, ConfigSteps

-----------------------------------------------------------------------------
(* The trial budget *)

\* A request that evaluate has let through, and that has not failed.
Through(r) == kind[r] \in Trials /\ step[r] \notin {"idle", "evaluate", "decide", "refused", "failed"}

\* The steps that neither ask the trial budget nor charge it.
NoTrial(r) ==
  /\ UNCHANGED <<usage, read, counted>>
  /\ step[r] # "ok"
  /\ ~(kind'[r] \in Trials /\ step'[r] = "ok")
  /\ Through(r)' => Through(r) /\ kind'[r] = kind[r]

LEMMA TrialSteps ==
  ASSUME SpendTypes, NEW r \in Requests, Placed(r), Serves(r)
  PROVE  NoTrial(r) \/ EvaluateReads(r) \/ Decide(r) \/ Record(r)
<1> USE DEF Goto, trialVars, NoTrial, Through
<1>1. CASE \/ \E k \in Trials, v \in Visitors : ReadSignals(r, k, v)
           \/ Call(r, "tenant", "admit") \/ Call(r, "preview", "admit") \/ Call(r, "extract", "config")
  BY <1>1 DEF ReadSignals, Call, SpendTypes, Trials
<1>2. CASE RecordFails(r) \/ ReadConfig(r) \/ ProviderFails(r)
  BY <1>2 DEF RecordFails, ReadConfig, ProviderFails, SpendTypes
<1>3. CASE Admit(r)
  <2>1. PICK s \in {"config", "failed"} : step' = [step EXCEPT ![r] = s]
    BY <1>3 DEF Admit
  <2> QED
    BY <1>3, <2>1 DEF Admit, SpendTypes
<1>4. CASE ProviderReturns(r)
  <2>1. PICK s \in {After(kind[r]), "failed"} : step' = [step EXCEPT ![r] = s]
    BY <1>4 DEF ProviderReturns
  <2>2. ~(kind[r] \in Trials /\ s = "ok")
    BY DEF After
  <2> QED
    BY <1>4, <2>1, <2>2 DEF ProviderReturns, SpendTypes
<1>5. CASE LogCall(r) \/ SetGlobalLlm(r) \/ FindConfig(r) \/ StoreConfig(r)
  BY <1>5 DEF LogCall, SetGlobalLlm, FindConfig, StoreConfig, SpendTypes, Placed,
              Trials, Tenant, Writers
<1> QED
  BY <1>1, <1>2, <1>3, <1>4, <1>5 DEF Serves

LEMMA CountsKept ==
  ASSUME SpendTypes, \A q \in Requests : Placed(q), Counts, NEW r \in Requests, Serves(r)
  PROVE  Counts'
<1>1. SpendTypes' /\ OthersKeep(r) /\ Placed(r)' /\ (step[r] # "idle" => kind' = kind)
  BY ServedInPlace, KindStays
<1>2. /\ \A v \in Visitors : \A k \in Trials : usage[v][k] = Cardinality(Recorded(v, k))
      /\ \A q \in Requests : read[q] = Cardinality(counted[q])
      /\ \A q \in Requests : Through(q) => Cardinality(counted[q]) < Cap(kind[q])
  BY DEF Counts, NoAnswerPastTheCap, Through
<1>3. \A q \in Requests : q # r =>
        /\ read'[q] = Cardinality(counted'[q])
        /\ Through(q)' => Cardinality(counted'[q]) < Cap(kind'[q])
  BY <1>1, <1>2 DEF OthersKeep, Through
<1>4. ASSUME \A v \in Visitors : \A k \in Trials : usage'[v][k] = Cardinality(Recorded(v, k)'),
             read'[r] = Cardinality(counted'[r]),
             Through(r)' => Cardinality(counted'[r]) < Cap(kind'[r])
      PROVE  Counts'
  <2>1. \A q \in Requests : Through(q)' => Cardinality(counted'[q]) < Cap(kind'[q])
    BY <1>3, <1>4
  <2>2. NoAnswerPastTheCap'
    BY <2>1 DEF NoAnswerPastTheCap, Through
  <2> QED
    BY <1>3, <1>4, <2>2 DEF Counts
<1>5. ASSUME NEW v, NEW k \in Trials, step[r] # "ok", ~(kind'[r] = k /\ step'[r] = "ok")
      PROVE  Recorded(v, k)' = Recorded(v, k)
  BY <1>1, <1>5 DEF Recorded, OthersKeep
<1>6. CASE NoTrial(r)
  <2>1. \A v \in Visitors : \A k \in Trials : usage'[v][k] = Cardinality(Recorded(v, k)')
    BY <1>2, <1>5, <1>6 DEF NoTrial
  <2>2. Through(r)' => Cardinality(counted'[r]) < Cap(kind'[r])
    BY <1>2, <1>6 DEF NoTrial
  <2> QED
    BY <1>2, <1>4, <1>6, <2>1, <2>2 DEF NoTrial
<1>7. CASE EvaluateReads(r)
  <2>1. /\ read' = [read EXCEPT ![r] = usage[visitor[r]][kind[r]]]
        /\ counted' = [counted EXCEPT ![r] = Recorded(visitor[r], kind[r])]
        /\ step' = [step EXCEPT ![r] = "decide"] /\ usage' = usage /\ step[r] = "evaluate"
    BY <1>7 DEF EvaluateReads, Goto
  <2>2. visitor[r] \in Visitors /\ kind[r] \in Trials
    BY <2>1 DEF Placed
  <2>3. step'[r] = "decide" /\ read'[r] = Cardinality(counted'[r])
    BY <1>2, <2>1, <2>2 DEF SpendTypes
  <2>4. \A v \in Visitors : \A k \in Trials : usage'[v][k] = Cardinality(Recorded(v, k)')
    BY <1>2, <1>5, <2>1, <2>3
  <2> QED
    BY <1>4, <2>3, <2>4 DEF Through
<1>8. CASE Decide(r)
  <2>1. /\ UNCHANGED <<kind, visitor, read, usage, counted>> /\ step[r] = "decide"
        /\ step' = [step EXCEPT ![r] = IF FraudScore(visitor[r]) <= 70 /\ read[r] < Cap(kind[r])
                                       THEN "admit" ELSE "refused"]
    BY <1>8 DEF Decide, Goto, trialVars
  <2>2. \/ step'[r] = "refused"
        \/ step'[r] = "admit" /\ Cardinality(counted'[r]) < Cap(kind'[r])
    BY <1>2, <2>1 DEF SpendTypes
  <2>3. \A v \in Visitors : \A k \in Trials : usage'[v][k] = Cardinality(Recorded(v, k)')
    BY <1>2, <1>5, <2>1, <2>2
  <2> QED
    BY <1>2, <1>4, <2>1, <2>2, <2>3 DEF Through
<1>9. CASE Record(r)
  <2>1. /\ usage' = [usage EXCEPT ![visitor[r]][kind[r]] = @ + 1] /\ step[r] = "record"
        /\ step'[r] = "ok" /\ UNCHANGED <<kind, visitor, read, counted>>
    BY <1>9 DEF Record, Goto, SpendTypes
  <2>2. visitor[r] \in Visitors /\ kind[r] \in Trials
    BY <2>1 DEF Placed
  <2>3. Through(r)' => Cardinality(counted'[r]) < Cap(kind'[r])
    BY <1>2, <2>1, <2>2 DEF Through
  <2>4. ASSUME NEW v \in Visitors, NEW k \in Trials
        PROVE  usage'[v][k] = Cardinality(Recorded(v, k)')
    <3>1. CASE v = visitor[r] /\ k = kind[r]
      <4>1. Recorded(v, k)' = Recorded(v, k) \cup {r} /\ r \notin Recorded(v, k)
        BY <1>1, <2>1, <3>1 DEF Recorded, OthersKeep
      <4>2. Cardinality(Recorded(v, k)') = Cardinality(Recorded(v, k)) + 1
        BY <4>1, OneMore DEF Recorded
      <4>3. usage'[v][k] = usage[v][k] + 1
        BY <2>1, <2>2, <3>1 DEF SpendTypes
      <4> QED
        BY <1>2, <4>2, <4>3
    <3>2. CASE ~(v = visitor[r] /\ k = kind[r])
      <4>1. Recorded(v, k)' = Recorded(v, k)
        BY <1>1, <2>1, <3>2 DEF Recorded, OthersKeep
      <4>2. usage'[v][k] = usage[v][k]
        BY <2>1, <2>2, <3>2 DEF SpendTypes
      <4> QED
        BY <1>2, <4>1, <4>2
    <3> QED
      BY <3>1, <3>2
  <2> QED
    BY <1>2, <1>4, <2>1, <2>3, <2>4
<1> QED
  BY <1>6, <1>7, <1>8, <1>9, TrialSteps

-----------------------------------------------------------------------------
(* The accounts *)

\* Who is on an account stays what it is, and the setting it was charged for keeps
\* its price.
LEMMA PricesStay ==
  ASSUME SpendTypes, \A q \in Requests : Placed(q), Stored, NEW r \in Requests, Serves(r),
         NEW q \in Requests, logged[q] # 0 \/ bill[q].day # 0
  PROVE  kind'[q] = kind[q] /\ used'[q] = used[q] /\ priced'[used[q]] = priced[used[q]]
<1>1. SpendTypes' /\ OthersKeep(r) /\ (step[r] # "idle" => kind' = kind)
  BY ServedInPlace, KindStays
<1>2. /\ used[q] # Nothing /\ kind[q] \notin Writers \cup {"none"}
      /\ step[q] \notin {"idle", "evaluate", "decide", "admit", "config", "find"}
      /\ used[q] \in Known /\ used[q] \in Settings
  BY DEF Placed, Stored, SpendTypes
<1>3. kind'[q] = kind[q]
  BY <1>1, <1>2 DEF OthersKeep
<1>4. used'[q] = used[q]
  <2>1. q # r => used'[q] = used[q]
    BY <1>1 DEF OthersKeep
  <2>2. q = r => used'[q] = used[q]
    BY <1>2, ConfigSteps DEF NoConf, FindConfig, StoreConfig, callVars
  <2> QED
    BY <2>1, <2>2
<1>5. priced'[used[q]] = priced[used[q]]
  <2>1. CASE SetGlobalLlm(r)
    <3>1. step[r] = "idle" /\ \E p \in BOOLEAN : priced' = [priced EXCEPT ![r] = p]
      BY <2>1 DEF SetGlobalLlm
    <3>2. used[q] # r
      <4>1. kind[r] # "setLlm" /\ r # Seeded
        BY <3>1, RowsAreSettings DEF Placed
      <4> QED
        BY <1>2, <4>1 DEF Known
    <3> QED
      BY <1>2, <3>1, <3>2 DEF SpendTypes
  <2>2. CASE ~SetGlobalLlm(r)
    <3>1. priced' = priced
      BY <2>2 DEF Serves, ReadSignals, Call, EvaluateReads, Decide, Record, RecordFails, Admit,
                  ReadConfig, ProviderFails, ProviderReturns, LogCall, FindConfig, StoreConfig,
                  confVars
    <3> QED
      BY <3>1
  <2> QED
    BY <2>1, <2>2
<1> QED
  BY <1>3, <1>4, <1>5

\* The steps that leave the accounts alone.
NoMoney(r) ==
  /\ UNCHANGED <<logged, bill, anonSpend, crowd, day, restarts>>
  /\ \A k \in {Anon, Tenant} :
       kind'[r] \in k /\ step'[r] \in {"config", "call", "log"} =>
         kind[r] \in k /\ step[r] \in {"config", "call", "log"}

LEMMA MoneySteps ==
  ASSUME SpendTypes, NEW r \in Requests, Placed(r), Serves(r)
  PROVE  NoMoney(r) \/ Admit(r) \/ ProviderReturns(r) \/ LogCall(r)
<1> USE DEF Goto, billVars, timeVars, NoMoney
<1>1. CASE \/ \E k \in Trials, v \in Visitors : ReadSignals(r, k, v)
           \/ Call(r, "tenant", "admit") \/ Call(r, "preview", "admit")
  BY <1>1 DEF ReadSignals, Call, SpendTypes
<1>2. CASE Call(r, "extract", "config")
  BY <1>2 DEF Call, SpendTypes, Anon, Trials, Tenant
<1>3. CASE Decide(r)
  <2>1. PICK s \in {"admit", "refused"} : step' = [step EXCEPT ![r] = s]
    BY <1>3 DEF Decide
  <2> QED
    BY <1>3, <2>1 DEF Decide, SpendTypes
<1>4. CASE EvaluateReads(r) \/ Record(r) \/ RecordFails(r) \/ ReadConfig(r) \/ ProviderFails(r)
  BY <1>4 DEF EvaluateReads, Record, RecordFails, ReadConfig, ProviderFails, SpendTypes
<1>5. CASE SetGlobalLlm(r) \/ FindConfig(r) \/ StoreConfig(r)
  BY <1>5 DEF SetGlobalLlm, FindConfig, StoreConfig, SpendTypes
<1> QED
  BY <1>1, <1>2, <1>3, <1>4, <1>5 DEF Serves

\* What was logged, or paid, before a step that logs, or pays, nothing.
LEMMA LogStays ==
  ASSUME SpendTypes, \A q \in Requests : Placed(q), Stored, NEW r \in Requests, Serves(r),
         NEW d \in Nat \ {0},
         \A q \in Requests : logged'[q] = d <=> logged[q] = d
  PROVE  LoggedOn(d)' = LoggedOn(d)
<1>1. \A q \in Requests : logged[q] = d => priced'[used'[q]] = priced[used[q]]
  BY PricesStay
<1> QED
  BY <1>1 DEF LoggedOn

LEMMA PaymentsStay ==
  ASSUME SpendTypes, \A q \in Requests : Placed(q), Stored, NEW r \in Requests, Serves(r),
         NEW d \in Nat \ {0}, NEW l,
         \A q \in Requests :
           bill'[q] = [day |-> d, life |-> l] <=> bill[q] = [day |-> d, life |-> l]
  PROVE  PaidOn(d, l)' = PaidOn(d, l)
<1>1. \A q \in Requests : bill[q] = [day |-> d, life |-> l] =>
        kind'[q] = kind[q] /\ priced'[used'[q]] = priced[used[q]]
  BY PricesStay
<1> QED
  BY <1>1 DEF PaidOn

\* Today's account holds what this process has paid for anonymous callers today.
LEMMA TodayExact ==
  ASSUME SpendTypes, AccountExact
  PROVE  /\ Today.day = day /\ Today.usd = Cardinality(PaidOn(day, restarts))
         /\ anonSpend.day <= Today.day
<1>1. day \in Nat \ {0} /\ anonSpend.day \in Nat /\ anonSpend.day <= day
  BY DEF SpendTypes, AccountExact
<1>2. CASE anonSpend.day = day
  BY <1>1, <1>2 DEF Today, AccountExact
<1>3. CASE anonSpend.day # day
  <2>1. \A q \in Requests : kind[q] \in Anon => bill[q] # [day |-> day, life |-> restarts]
    BY <1>1, <1>3 DEF AccountExact
  <2>2. PaidOn(day, restarts) = {}
    BY <2>1 DEF PaidOn
  <2> QED
    BY <1>1, <1>3, <2>2, FS_EmptySet DEF Today
<1> QED
  BY <1>2, <1>3

\* The account after a step that paid nothing: as it was, or turned to today.
LEMMA AccountStays ==
  ASSUME SpendTypes, \A q \in Requests : Placed(q), Stored, AccountExact,
         NEW r \in Requests, Serves(r),
         UNCHANGED <<bill, day, restarts>>, anonSpend' = anonSpend \/ anonSpend' = Today,
         \A q \in Requests : logged'[q] <= day
  PROVE  AccountExact'
<1>1. day \in Nat \ {0} /\ anonSpend.day \in Nat /\ Today.day \in Nat
  BY AccountTypes DEF SpendTypes
<1>2. \A d \in Nat \ {0} : PaidOn(d, restarts)' = PaidOn(d, restarts)
  <2> TAKE d \in Nat \ {0}
  <2> QED
    BY PaymentsStay
<1>3. /\ Today.day = day /\ Today.usd = Cardinality(PaidOn(day, restarts))
      /\ anonSpend.day <= Today.day
  BY TodayExact
<1>4. anonSpend'.day >= anonSpend.day /\ anonSpend'.day <= day /\ anonSpend'.day \in Nat
  BY <1>1, <1>3 DEF AccountExact
<1>5. IF anonSpend'.day = 0 THEN anonSpend'.usd = 0
      ELSE anonSpend'.usd = Cardinality(PaidOn(anonSpend'.day, restarts))
  BY <1>1, <1>3 DEF AccountExact
<1>6. IF anonSpend'.day = 0 THEN anonSpend'.usd = 0
      ELSE anonSpend'.usd = Cardinality(PaidOn(anonSpend.day, restarts)')
  <2>1. anonSpend'.day # 0 => PaidOn(anonSpend.day, restarts)' = PaidOn(anonSpend'.day, restarts)
    <3> SUFFICES ASSUME anonSpend'.day # 0
                 PROVE  PaidOn(anonSpend.day, restarts)' = PaidOn(anonSpend'.day, restarts)
      OBVIOUS
    <3>1. PICK d \in Nat \ {0} : d = anonSpend'.day
      BY <1>4
    <3>2. PaidOn(d, restarts)' = PaidOn(d, restarts)
      BY <1>2
    <3> QED
      BY <3>1, <3>2 DEF PaidOn
  <2> QED
    BY <1>5, <2>1
<1>7. \A q \in Requests :
        /\ logged'[q] <= day' /\ bill'[q].day <= day' /\ bill'[q].life <= restarts'
        /\ bill'[q].life = restarts' /\ kind'[q] \in Anon => bill'[q].day <= anonSpend'.day
  <2> SUFFICES ASSUME NEW q \in Requests
               PROVE  /\ logged'[q] <= day' /\ bill'[q].day <= day' /\ bill'[q].life <= restarts'
                      /\ bill'[q].life = restarts' /\ kind'[q] \in Anon
                           => bill'[q].day <= anonSpend'.day
    OBVIOUS
  <2>1. bill[q].day \in Nat
    BY DEF SpendTypes
  <2>2. bill[q].life = restarts /\ kind[q] \in Anon => bill[q].day <= anonSpend.day
    BY DEF AccountExact
  <2>3. bill[q].day # 0 => kind'[q] = kind[q]
    BY PricesStay
  <2>4. bill[q].life = restarts /\ kind'[q] \in Anon => bill[q].day <= anonSpend'.day
    BY <1>1, <1>4, <2>1, <2>2, <2>3
  <2> QED
    BY <2>4 DEF AccountExact
<1> QED
  BY <1>4, <1>6, <1>7 DEF AccountExact

\* Nobody begins to wait for an account but r, if it does.
LEMMA FewerWait ==
  ASSUME NEW r \in Requests, OthersKeep(r), NEW k,
         kind'[r] \in k /\ step'[r] \in {"config", "call", "log"} =>
           kind[r] \in k /\ step[r] \in {"config", "call", "log"}
  PROVE  /\ Waiting(k)' \subseteq Waiting(k)
         /\ Cardinality(Waiting(k)') <= Cardinality(Waiting(k))
         /\ Cardinality(Waiting(k)') \in Nat /\ Cardinality(Waiting(k)) \in Nat
<1>1. Waiting(k)' \subseteq Waiting(k) /\ Waiting(k) \subseteq Requests
  BY DEF Waiting, OthersKeep
<1> QED
  BY <1>1, SmallerSet

\* What CrowdsCover says of the sizes of the sets.
LEMMA Sizes ==
  ASSUME SpendTypes
  PROVE  /\ \A d : Cardinality(LoggedOn(d)) \in Nat
         /\ \A d, l : Cardinality(PaidOn(d, l)) \in Nat
         /\ \A k : Cardinality(Waiting(k)) \in Nat
         /\ crowd.anon \in Nat /\ crowd.tenant \in Nat /\ Cardinality(Requests) \in Nat
         /\ DAILY_CAP \in Nat /\ ANON_CAP \in Nat
         /\ day \in 1..MaxDays /\ restarts \in 0..MaxRestarts /\ MaxDays \in Nat
<1>1. \A d : LoggedOn(d) \subseteq Requests
  BY DEF LoggedOn
<1>2. \A d, l : PaidOn(d, l) \subseteq Requests
  BY DEF PaidOn
<1>3. \A k : Waiting(k) \subseteq Requests
  BY DEF Waiting
<1>4. crowd.anon \in Nat /\ crowd.tenant \in Nat /\ day \in 1..MaxDays /\ restarts \in 0..MaxRestarts
  BY DEF SpendTypes
<1> QED
  BY <1>1, <1>2, <1>3, <1>4, RequestsFinite, LlmSpendAssumption

\* A step that puts nothing on an account and lets nobody on its way to one.
LEMMA CrowdsStay ==
  ASSUME SpendTypes, \A q \in Requests : Placed(q), Stored, CrowdsCover,
         NEW r \in Requests, Serves(r), UNCHANGED <<logged, bill, crowd, day, restarts>>,
         \A k \in {Anon, Tenant} :
           kind'[r] \in k /\ step'[r] \in {"config", "call", "log"} =>
             kind[r] \in k /\ step[r] \in {"config", "call", "log"}
  PROVE  CrowdsCover'
<1>1. OthersKeep(r)
  BY ServedInPlace
<1>2. \A d \in Nat \ {0} : LoggedOn(d)' = LoggedOn(d)
  <2> TAKE d \in Nat \ {0}
  <2> QED
    BY LogStays
<1>3. \A d \in Nat \ {0} : \A l : PaidOn(d, l)' = PaidOn(d, l)
  <2> TAKE d \in Nat \ {0}
  <2> TAKE l
  <2> QED
    BY PaymentsStay
<1>4. /\ Cardinality(Waiting(Anon)') <= Cardinality(Waiting(Anon))
      /\ Cardinality(Waiting(Tenant)') <= Cardinality(Waiting(Tenant))
      /\ Cardinality(Waiting(Anon)') \in Nat /\ Cardinality(Waiting(Tenant)') \in Nat
  <2>1. Anon' = Anon /\ Tenant' = Tenant
    BY DEF Anon, Trials, Tenant
  <2> QED
    BY <1>1, <2>1, FewerWait
<1>5. day \in Nat \ {0} /\ \A d \in 1..MaxDays : d \in Nat \ {0}
  BY Sizes
<1>6. LoggedOn(day)' = LoggedOn(day) /\ PaidOn(day, restarts)' = PaidOn(day, restarts)
  BY <1>2, <1>3, <1>5
<1>7. /\ \A d \in 1..MaxDays : LoggedOn(d)' = LoggedOn(d)
      /\ \A d \in 1..MaxDays, l \in 0..MaxRestarts : PaidOn(d, l)' = PaidOn(d, l)
  BY <1>2, <1>3, <1>5
<1> QED
  BY <1>4, <1>6, <1>7, Sizes DEF CrowdsCover, Covers

LEMMA NoMoneyKeeps ==
  ASSUME SpendTypes, \A q \in Requests : Placed(q), Stored, AccountExact, CrowdsCover,
         NEW r \in Requests, Serves(r), NoMoney(r)
  PROVE  AccountExact' /\ CrowdsCover'
<1>1. AccountExact'
  BY AccountStays DEF NoMoney, AccountExact
<1>2. CrowdsCover'
  BY CrowdsStay DEF NoMoney
<1> QED
  BY <1>1, <1>2

\* The crowd that an admission has counted.
LEMMA CrowdGrows ==
  ASSUME SpendTypes, NEW r \in Requests, NEW k \in {"anon", "tenant"},
         kind[r] \in IF k = "anon" THEN Anon ELSE Tenant
  PROVE  LET K == IF k = "anon" THEN Anon ELSE Tenant
         IN  /\ Crowd(r)[k] >= crowd[k] /\ Crowd(r)[k] >= Cardinality(Waiting(K) \cup {r})
             /\ crowd[k] <= Cardinality(Requests) => Crowd(r)[k] <= Cardinality(Requests)
             /\ \A j \in {"anon", "tenant"} : j # k => Crowd(r)[j] = crowd[j]
<1> DEFINE K == IF k = "anon" THEN Anon ELSE Tenant
<1>1. Unaccounted(r, K) = Waiting(K) \cup {r} /\ Waiting(K) \cup {r} \subseteq Requests
  BY DEF Unaccounted, Waiting
<1>2. /\ Cardinality(Waiting(K) \cup {r}) \in Nat /\ Cardinality(Requests) \in Nat
      /\ Cardinality(Waiting(K) \cup {r}) <= Cardinality(Requests)
  BY <1>1, RequestsFinite
<1>3. crowd \in [anon : Nat, tenant : Nat]
  BY DEF SpendTypes
<1>4. CASE k = "anon"
  <2>1. Crowd(r) = [crowd EXCEPT !.anon = Bigger(crowd.anon, Cardinality(Unaccounted(r, Anon)))]
    BY <1>4 DEF Crowd
  <2> QED
    BY <1>1, <1>2, <1>3, <1>4, <2>1 DEF Bigger
<1>5. CASE k = "tenant"
  <2>1. kind[r] \notin Anon
    BY <1>5 DEF Anon, Trials, Tenant
  <2>2. Crowd(r) = [crowd EXCEPT !.tenant = Bigger(crowd.tenant, Cardinality(Unaccounted(r, Tenant)))]
    BY <2>1 DEF Crowd
  <2> QED
    BY <1>1, <1>2, <1>3, <1>5, <2>2 DEF Bigger
<1> QED
  BY <1>4, <1>5

LEMMA AdmitKeeps ==
  ASSUME SpendTypes, \A q \in Requests : Placed(q), Stored, AccountExact, CrowdsCover,
         NEW r \in Requests, Admit(r)
  PROVE  AccountExact' /\ CrowdsCover'
<1>0. Serves(r)
  BY DEF Serves
<1>1. /\ step[r] = "admit" /\ UNCHANGED <<kind, used, priced, logged, bill, day, restarts>>
      /\ anonSpend' = anonSpend \/ anonSpend' = Today
  BY DEF Admit, confVars, callVars, timeVars
<1>2. AccountExact'
  BY <1>0, <1>1, AccountStays DEF AccountExact
<1>3. CASE step' = [step EXCEPT ![r] = "failed"] /\ crowd' = crowd
  <2>1. step'[r] = "failed"
    BY <1>3 DEF SpendTypes
  <2>2. CrowdsCover'
    BY <1>0, <1>1, <1>3, <2>1, CrowdsStay
  <2> QED
    BY <1>2, <2>2
<1>4. ASSUME step' = [step EXCEPT ![r] = "config"], crowd' = Crowd(r),
             Priced(LoggedToday) < DAILY_CAP, kind[r] \in Anon => Today.usd < ANON_CAP
      PROVE  CrowdsCover'
  <2>1. kind[r] \in Anon \cup Tenant
    BY <1>1 DEF Placed
  <2>2. \A d : LoggedOn(d)' = LoggedOn(d)
    BY <1>1 DEF LoggedOn
  <2>3. \A d, l : PaidOn(d, l)' = PaidOn(d, l)
    BY <1>1 DEF PaidOn
  <2>4. Cardinality(LoggedOn(day)) < DAILY_CAP
    <3>1. {q \in LoggedToday : priced[used[q]]} = LoggedOn(day)
      BY DEF LoggedToday, LoggedOn
    <3> QED
      BY <1>4, <3>1 DEF Priced
  <2>5. \A k : Waiting(k)' = IF kind[r] \in k THEN Waiting(k) \cup {r} ELSE Waiting(k)
    BY <1>1, <1>4 DEF Waiting, SpendTypes
  <2>6. CASE kind[r] \in Anon
    <3>1. kind[r] \notin Tenant
      BY <2>6 DEF Anon, Trials, Tenant
    <3>2. Waiting(Anon)' = Waiting(Anon) \cup {r} /\ Waiting(Tenant)' = Waiting(Tenant)
      BY <2>5, <2>6, <3>1 DEF Anon, Trials, Tenant
    <3>3. /\ crowd'.anon >= crowd.anon /\ crowd'.anon >= Cardinality(Waiting(Anon)')
          /\ crowd'.tenant = crowd.tenant
          /\ crowd.anon <= Cardinality(Requests) => crowd'.anon <= Cardinality(Requests)
      BY <1>4, <2>6, <3>2, CrowdGrows
    <3>4. Cardinality(PaidOn(day, restarts)) < ANON_CAP
      BY <1>4, <2>6, TodayExact
    <3>5. crowd'.anon \in Nat /\ Cardinality(Waiting(Anon)') \in Nat
      BY <1>0, ServedInPlace, Sizes, <3>2, RequestsFinite DEF Waiting, SpendTypes
    <3> QED
      BY <1>1, <2>2, <2>3, <3>2, <3>3, <3>4, <3>5, Sizes DEF CrowdsCover, Covers
  <2>7. CASE kind[r] \in Tenant
    <3>1. kind[r] \notin Anon
      BY <2>7 DEF Anon, Trials, Tenant
    <3>2. Waiting(Tenant)' = Waiting(Tenant) \cup {r} /\ Waiting(Anon)' = Waiting(Anon)
      BY <2>5, <2>7, <3>1 DEF Anon, Trials, Tenant
    <3>3. /\ crowd'.tenant >= crowd.tenant /\ crowd'.tenant >= Cardinality(Waiting(Tenant)')
          /\ crowd'.anon = crowd.anon
          /\ crowd.tenant <= Cardinality(Requests) => crowd'.tenant <= Cardinality(Requests)
      BY <1>4, <2>7, <3>2, CrowdGrows
    <3>5. crowd'.tenant \in Nat /\ Cardinality(Waiting(Tenant)') \in Nat
      BY <1>0, ServedInPlace, Sizes, <3>2, RequestsFinite DEF Waiting, SpendTypes
    <3> QED
      BY <1>1, <2>2, <2>3, <2>4, <3>2, <3>3, <3>5, Sizes DEF CrowdsCover, Covers
  <2> QED
    BY <2>1, <2>6, <2>7
<1> QED
  BY <1>2, <1>3, <1>4 DEF Admit, Goto

LEMMA ProviderReturnsKeeps ==
  ASSUME SpendTypes, \A q \in Requests : Placed(q), Stored, AccountExact, CrowdsCover,
         NEW r \in Requests, ProviderReturns(r)
  PROVE  AccountExact' /\ CrowdsCover'
<1>0. Serves(r)
  BY DEF Serves
<1>1. /\ step[r] = "call" /\ UNCHANGED <<kind, used, priced, logged, day, restarts, crowd>>
      /\ bill' = [bill EXCEPT ![r] = [day |-> day, life |-> restarts]]
      /\ anonSpend' = IF kind[r] \in Anon THEN RecordAnonSpend(r) ELSE anonSpend
  BY DEF ProviderReturns, confVars, callVars, timeVars
<1>2. /\ OthersKeep(r) /\ bill[r] = Unpaid /\ used[r] # Nothing
      /\ bill'[r] = [day |-> day, life |-> restarts]
      /\ day \in Nat \ {0} /\ restarts \in Nat
  BY <1>0, <1>1, ServedInPlace DEF Placed, SpendTypes
<1>3. \A d : LoggedOn(d)' = LoggedOn(d)
  BY <1>1 DEF LoggedOn
<1>4. \A d \in Nat \ {0} : \A l :
        ~(d = day /\ l = restarts) => PaidOn(d, l)' = PaidOn(d, l)
  BY <1>1, <1>2 DEF PaidOn, OthersKeep, Unpaid
<1>5. /\ PaidOn(day, restarts)' = (IF kind[r] \in Anon /\ priced[used[r]]
                                   THEN PaidOn(day, restarts) \cup {r} ELSE PaidOn(day, restarts))
      /\ r \notin PaidOn(day, restarts)
  BY <1>1, <1>2 DEF PaidOn, OthersKeep, Unpaid
<1>6. Cardinality(PaidOn(day, restarts)')
        = Cardinality(PaidOn(day, restarts))
          + (IF kind[r] \in Anon /\ priced[used[r]] THEN 1 ELSE 0)
  <2>1. PaidOn(day, restarts) \subseteq Requests
    BY DEF PaidOn
  <2> QED
    BY <1>5, <2>1, OneMore, Sizes
<1>7. AccountExact'
  <2>1. /\ Today.day = day /\ Today.usd = Cardinality(PaidOn(day, restarts))
        /\ anonSpend.day <= Today.day /\ Today \in [day : 0..MaxDays, usd : Nat]
    BY TodayExact, AccountTypes
  <2>2. CASE kind[r] \in Anon
    <3>1. anonSpend' = [Today EXCEPT !.usd = Today.usd + Cost(used[r])]
      BY <1>1, <2>2 DEF RecordAnonSpend
    <3>2. anonSpend'.day = day /\ anonSpend'.usd = Today.usd + Cost(used[r])
      BY <2>1, <3>1
    <3>3. anonSpend'.usd = Cardinality(PaidOn(day, restarts)')
      BY <1>6, <2>1, <2>2, <3>2 DEF Cost
    <3>4. anonSpend'.usd = Cardinality(PaidOn(anonSpend.day, restarts)')
      BY <1>1, <3>2, <3>3 DEF PaidOn
    <3>5. \A q \in Requests :
            /\ logged'[q] <= day' /\ bill'[q].day <= day' /\ bill'[q].life <= restarts'
            /\ bill'[q].life = restarts' /\ kind'[q] \in Anon => bill'[q].day <= anonSpend'.day
      BY <1>1, <1>2, <3>2 DEF AccountExact, OthersKeep, SpendTypes
    <3> QED
      BY <1>1, <1>2, <3>2, <3>4, <3>5 DEF AccountExact
  <2>3. CASE kind[r] \notin Anon
    <3>1. anonSpend' = anonSpend /\ PaidOn(day, restarts)' = PaidOn(day, restarts)
      BY <1>1, <1>5, <2>3
    <3>2. anonSpend.day \in Nat
      BY DEF SpendTypes
    <3>3. \A d \in Nat \ {0} : PaidOn(d, restarts)' = PaidOn(d, restarts)
      BY <1>1, <1>2, <2>3 DEF PaidOn, OthersKeep, Unpaid
    <3>4. anonSpend.day # 0 => PaidOn(anonSpend.day, restarts)' = PaidOn(anonSpend.day, restarts)
      <4> SUFFICES ASSUME anonSpend.day # 0
                   PROVE  PaidOn(anonSpend.day, restarts)' = PaidOn(anonSpend.day, restarts)
        OBVIOUS
      <4>1. PICK d \in Nat \ {0} : d = anonSpend.day
        BY <3>2
      <4>2. PaidOn(d, restarts)' = PaidOn(d, restarts)
        BY <3>3
      <4> QED
        BY <3>1, <4>1, <4>2 DEF PaidOn
    <3>5. \A q \in Requests :
            /\ logged'[q] <= day' /\ bill'[q].day <= day' /\ bill'[q].life <= restarts'
            /\ bill'[q].life = restarts' /\ kind'[q] \in Anon => bill'[q].day <= anonSpend'.day
      BY <1>1, <1>2, <2>3, <3>1 DEF AccountExact, OthersKeep
    <3> QED
      BY <1>1, <3>1, <3>4, <3>5 DEF AccountExact
  <2> QED
    BY <2>2, <2>3
<1>8. CrowdsCover'
  <2>1. step'[r] \notin {"config", "call"} /\ (step'[r] = "log" => kind[r] \in Tenant)
    BY DEF ProviderReturns, Goto, After, SpendTypes
  <2>2. /\ Cardinality(Waiting(Anon)') <= Cardinality(Waiting(Anon))
        /\ Cardinality(Waiting(Tenant)') <= Cardinality(Waiting(Tenant))
        /\ Cardinality(Waiting(Anon)') \in Nat /\ Cardinality(Waiting(Tenant)') \in Nat
    <3>1. \A k \in {Anon, Tenant} : kind'[r] \in k => kind[r] \in k /\ step[r] = "call"
      BY <1>1
    <3> QED
      BY <1>2, <3>1, FewerWait DEF Anon, Trials, Tenant
  <2>3. kind[r] \in Anon => Cardinality(Waiting(Anon)') + 1 = Cardinality(Waiting(Anon))
    <3> SUFFICES ASSUME kind[r] \in Anon
                 PROVE  Cardinality(Waiting(Anon)') + 1 = Cardinality(Waiting(Anon))
      OBVIOUS
    <3>1. kind[r] \notin Tenant
      BY DEF Anon, Trials, Tenant
    <3>2. Waiting(Anon) = Waiting(Anon)' \cup {r} /\ r \notin Waiting(Anon)'
      BY <1>1, <1>2, <2>1, <3>1 DEF Waiting, OthersKeep, Anon, Trials
    <3>3. Waiting(Anon)' \subseteq Requests
      BY DEF Waiting
    <3> QED
      BY <3>2, <3>3, OneMore
  <2>4. Covers(Cardinality(PaidOn(day, restarts)') + Cardinality(Waiting(Anon)'), ANON_CAP + crowd.anon)
    BY <1>6, <2>2, <2>3, Sizes DEF CrowdsCover, Covers
  <2>5. \A d \in 1..MaxDays, l \in 0..MaxRestarts :
          Covers(Cardinality(PaidOn(d, l)'), ANON_CAP + crowd.anon)
    <3> TAKE d \in 1..MaxDays, l \in 0..MaxRestarts
    <3>1. CASE d = day /\ l = restarts
      <4>1. Cardinality(PaidOn(d, l)') = Cardinality(PaidOn(day, restarts)')
        BY <1>1, <3>1 DEF PaidOn
      <4>2. Cardinality(PaidOn(day, restarts)') \in Nat
        BY <1>6, Sizes
      <4> QED
        BY <2>2, <2>4, <4>1, <4>2, Sizes DEF Covers
    <3>2. CASE ~(d = day /\ l = restarts)
      BY <1>4, <3>2 DEF CrowdsCover, Covers
    <3> QED
      BY <3>1, <3>2
  <2> QED
    BY <1>1, <1>3, <2>2, <2>4, <2>5, Sizes DEF CrowdsCover, Covers
<1> QED
  BY <1>7, <1>8

LEMMA LogCallKeeps ==
  ASSUME SpendTypes, \A q \in Requests : Placed(q), Stored, AccountExact, CrowdsCover,
         NEW r \in Requests, LogCall(r)
  PROVE  AccountExact' /\ CrowdsCover'
<1>0. Serves(r)
  BY DEF Serves
<1>1. /\ step[r] = "log" /\ UNCHANGED <<kind, used, priced, bill, anonSpend, day, restarts, crowd>>
      /\ logged' = [logged EXCEPT ![r] = day] /\ step' = [step EXCEPT ![r] = "ok"]
  BY DEF LogCall, confVars, callVars, timeVars, Goto
<1>2. OthersKeep(r) /\ kind[r] \in Tenant /\ step'[r] = "ok" /\ logged'[r] = day /\ day \in Nat \ {0}
  BY <1>0, <1>1, ServedInPlace DEF Placed, SpendTypes
<1>3. \A q \in Requests : logged'[q] <= day
  BY <1>1, <1>2 DEF AccountExact, OthersKeep
<1>4. AccountExact'
  BY <1>0, <1>1, <1>3, AccountStays
<1>5. \A d, l : PaidOn(d, l)' = PaidOn(d, l)
  BY <1>1 DEF PaidOn
<1>6. \A d : LoggedOn(d)' \subseteq IF d = day THEN LoggedOn(d) \cup {r} ELSE LoggedOn(d)
  BY <1>1, <1>2 DEF LoggedOn, OthersKeep
<1>7. /\ \A d : Cardinality(LoggedOn(d)') \in Nat
      /\ \A d : d # day => Cardinality(LoggedOn(d)') <= Cardinality(LoggedOn(d))
      /\ Cardinality(LoggedOn(day)') <= Cardinality(LoggedOn(day)) + 1
  <2>1. \A d : LoggedOn(d) \subseteq Requests /\ LoggedOn(d)' \subseteq Requests
    BY DEF LoggedOn
  <2>2. \A d : Cardinality(LoggedOn(d)') \in Nat
    BY <2>1, RequestsFinite
  <2>3. \A d : d # day => Cardinality(LoggedOn(d)') <= Cardinality(LoggedOn(d))
    BY <1>6, <2>1, SmallerSet
  <2>4. /\ Cardinality(LoggedOn(day) \cup {r}) <= Cardinality(LoggedOn(day)) + 1
        /\ Cardinality(LoggedOn(day) \cup {r}) \in Nat
    <3>1. CASE r \in LoggedOn(day)
      <4>1. LoggedOn(day) \cup {r} = LoggedOn(day)
        BY <3>1
      <4>2. Cardinality(LoggedOn(day)) \in Nat
        BY Sizes
      <4>3. Cardinality(LoggedOn(day) \cup {r}) = Cardinality(LoggedOn(day))
        BY <4>1, Zenon
      <4> QED
        BY <4>2, <4>3
    <3>2. CASE r \notin LoggedOn(day)
      BY <2>1, <3>2, OneMore, Sizes
    <3> QED
      BY <3>1, <3>2
  <2>5. LoggedOn(day)' \subseteq LoggedOn(day) \cup {r} /\ LoggedOn(day) \cup {r} \subseteq Requests
    BY <1>1, <1>6, <2>1 DEF LoggedOn
  <2>6. Cardinality(LoggedOn(day)') <= Cardinality(LoggedOn(day) \cup {r})
        /\ Cardinality(LoggedOn(day)') \in Nat
    BY <2>5, SmallerSet
  <2> QED
    BY <2>2, <2>3, <2>4, <2>6, Sizes
<1>8. /\ Cardinality(Waiting(Tenant)') + 1 = Cardinality(Waiting(Tenant))
      /\ Waiting(Anon)' = Waiting(Anon)
  <2>1. Waiting(Tenant) = Waiting(Tenant)' \cup {r} /\ r \notin Waiting(Tenant)'
    BY <1>1, <1>2 DEF Waiting, OthersKeep, Tenant
  <2>2. Waiting(Tenant)' \subseteq Requests
    BY DEF Waiting
  <2>3. Waiting(Anon)' = Waiting(Anon)
    BY <1>1, <1>2 DEF Waiting, OthersKeep, Anon, Trials, Tenant
  <2> QED
    BY <2>1, <2>2, <2>3, OneMore
<1>9. Cardinality(Waiting(Tenant)') \in Nat
  BY RequestsFinite DEF Waiting
<1>10. Covers(Cardinality(LoggedOn(day)') + Cardinality(Waiting(Tenant)'), DAILY_CAP + crowd.tenant)
  BY <1>7, <1>8, <1>9, Sizes DEF CrowdsCover, Covers
<1>11. \A d \in 1..MaxDays : Covers(Cardinality(LoggedOn(d)'), DAILY_CAP + crowd.tenant)
  <2> TAKE d \in 1..MaxDays
  <2>1. CASE d = day
    <3>1. Cardinality(LoggedOn(d)') = Cardinality(LoggedOn(day)')
      BY <1>1, <2>1 DEF LoggedOn
    <3> QED
      BY <1>7, <1>9, <1>10, <3>1, Sizes DEF Covers
  <2>2. CASE d # day
    BY <1>7, <2>2, Sizes DEF CrowdsCover, Covers
  <2> QED
    BY <2>1, <2>2
<1>12. CrowdsCover'
  BY <1>1, <1>5, <1>8, <1>9, <1>10, <1>11, Sizes DEF CrowdsCover, Covers
<1> QED
  BY <1>4, <1>12

-----------------------------------------------------------------------------
(* Days, restarts and the first state *)

LEMMA ServedKeeps ==
  ASSUME SpendInv, NEW r \in Requests, Serves(r)
  PROVE  SpendInv'
<1>1. /\ SpendTypes /\ \A q \in Requests : Placed(q)
      /\ Stored /\ Counts /\ OneRow /\ AccountExact /\ CrowdsCover
  BY DEF SpendInv
<1>2. SpendTypes' /\ OthersKeep(r) /\ Placed(r)'
  BY <1>1, ServedInPlace
<1>3. \A q \in Requests : Placed(q)'
  BY <1>1, <1>2 DEF Placed, OthersKeep
<1>4. Stored' /\ OneRow' /\ Counts'
  BY <1>1, StoredKept, OneRowKept, CountsKept
<1>5. AccountExact' /\ CrowdsCover'
  BY <1>1, MoneySteps, NoMoneyKeeps, AdmitKeeps, ProviderReturnsKeeps, LogCallKeeps
<1> QED
  BY <1>2, <1>3, <1>4, <1>5 DEF SpendInv

LEMMA NextDayKeeps ==
  ASSUME SpendInv, NextDay
  PROVE  SpendInv'
<1>1. /\ SpendTypes /\ \A q \in Requests : Placed(q)
      /\ Stored /\ Counts /\ OneRow /\ AccountExact /\ CrowdsCover
  BY DEF SpendInv
<1>2. /\ UNCHANGED <<kind, step, visitor, read, usage, counted, config, priced, latest, used, asOf,
                     logged, anonSpend, bill, restarts, crowd>>
      /\ day' = day + 1 /\ day < MaxDays
  BY DEF NextDay, reqVars, trialVars, confVars, callVars, billVars
<1>3. SpendTypes'
  <2>1. day' \in 1..MaxDays
    BY <1>1, <1>2, LlmSpendAssumption DEF SpendTypes
  <2> QED
    BY <1>1, <1>2, <2>1 DEF SpendTypes
<1>4. \A q \in Requests : Placed(q)'
  BY <1>1, <1>2 DEF Placed
<1>5. Stored' /\ OneRow'
  BY <1>1, <1>2 DEF Stored, OneRow, Known, Live, Inserter, TwoInserted, ConfigIsCurrent
<1>6. Counts'
  BY <1>1, <1>2 DEF Counts, Recorded, NoAnswerPastTheCap
<1>7. /\ day \in Nat \ {0} /\ restarts \in Nat /\ day + 1 \in 1..MaxDays
      /\ \A q \in Requests : logged[q] <= day /\ bill[q].day <= day /\ logged[q] \in Nat
                             /\ bill[q].day \in Nat
  BY <1>1, <1>2, Sizes DEF AccountExact, SpendTypes
<1>8. AccountExact'
  <2>1. PaidOn(anonSpend.day, restarts)' = PaidOn(anonSpend.day, restarts)
    BY <1>2 DEF PaidOn
  <2>2. anonSpend.day \in Nat
    BY <1>1 DEF SpendTypes
  <2> QED
    BY <1>1, <1>2, <1>7, <2>1, <2>2 DEF AccountExact
<1>9. CrowdsCover'
  <2>1. \A d : LoggedOn(d)' = LoggedOn(d)
    BY <1>2 DEF LoggedOn
  <2>2. \A d, l : PaidOn(d, l)' = PaidOn(d, l)
    BY <1>2 DEF PaidOn
  <2>3. \A k : Waiting(k)' = Waiting(k)
    BY <1>2 DEF Waiting
  <2>4. LoggedOn(day)' = {} /\ PaidOn(day, restarts)' = {}
    BY <1>2, <1>7 DEF LoggedOn, PaidOn
  <2>5. Cardinality(LoggedOn(day)') = 0 /\ Cardinality(PaidOn(day, restarts)') = 0
    BY <2>4, FS_EmptySet
  <2>6. Waiting(Tenant)' = Waiting(Tenant) /\ Waiting(Anon)' = Waiting(Anon)
    BY <2>3 DEF Tenant, Anon, Trials
  <2> QED
    BY <1>1, <1>2, <2>1, <2>2, <2>5, <2>6, Sizes DEF CrowdsCover, Covers
<1> QED
  BY <1>3, <1>4, <1>5, <1>6, <1>8, <1>9 DEF SpendInv

LEMMA RestartKeeps ==
  ASSUME SpendInv, Restart
  PROVE  SpendInv'
<1>1. /\ SpendTypes /\ \A q \in Requests : Placed(q)
      /\ Stored /\ Counts /\ OneRow /\ AccountExact /\ CrowdsCover
  BY DEF SpendInv
<1>2. /\ UNCHANGED <<kind, visitor, read, usage, counted, config, priced, latest, used, asOf,
                     logged, bill, day, crowd>>
      /\ restarts < MaxRestarts /\ restarts' = restarts + 1 /\ anonSpend' = [day |-> 0, usd |-> 0]
      /\ step' = [r \in Requests |-> IF r \in InFlight THEN "failed" ELSE step[r]]
  BY DEF Restart, trialVars, confVars, callVars
<1>3. \A q \in Requests :
        \/ step'[q] = step[q] /\ step[q] \in Final \cup {"idle"}
        \/ step'[q] = "failed" /\ step[q] \notin Final \cup {"idle"}
  BY <1>1, <1>2 DEF InFlight, SpendTypes
<1>4. SpendTypes'
  <2>1. step' \in [Requests -> Steps]
    BY <1>1, <1>2 DEF SpendTypes, Steps, Final
  <2>2. restarts' \in 0..MaxRestarts /\ anonSpend' \in [day : 0..MaxDays, usd : Nat]
    BY <1>1, <1>2, LlmSpendAssumption DEF SpendTypes
  <2> QED
    BY <1>1, <1>2, <2>1, <2>2 DEF SpendTypes
<1>5. \A q \in Requests : Placed(q)'
  BY <1>1, <1>2, <1>3 DEF Placed, Final
<1>6. Stored'
  BY <1>1, <1>2 DEF Stored, Known, Live
<1>7. OneRow'
  <2>1. \A r \in Requests : step'[r] = "store" => step[r] = "store"
    BY <1>3 DEF Final
  <2>2. TwoInserted' = TwoInserted /\ Live' = Live
    BY <1>2 DEF TwoInserted, Inserter, Live
  <2>3. ConfigIsCurrent'
    BY <1>1, <1>2 DEF OneRow, ConfigIsCurrent
  <2> QED
    BY <1>1, <1>2, <2>1, <2>2, <2>3 DEF OneRow, Inserter
<1>8. Counts'
  <2>1. \A v, k : Recorded(v, k)' = Recorded(v, k)
    BY <1>2, <1>3 DEF Recorded, Final
  <2>2. NoAnswerPastTheCap'
    BY <1>1, <1>2, <1>3 DEF Counts, NoAnswerPastTheCap, Final
  <2> QED
    BY <1>1, <1>2, <2>1, <2>2 DEF Counts
<1>9. /\ restarts \in Nat /\ day \in Nat \ {0}
      /\ \A q \in Requests : bill[q].life <= restarts /\ bill[q].life \in Nat
  BY <1>1, Sizes DEF AccountExact, SpendTypes
<1>10. AccountExact'
  BY <1>1, <1>2, <1>9 DEF AccountExact
<1>11. CrowdsCover'
  <2>1. \A d : LoggedOn(d)' = LoggedOn(d)
    BY <1>2 DEF LoggedOn
  <2>2. \A d, l : PaidOn(d, l)' = PaidOn(d, l)
    BY <1>2 DEF PaidOn
  <2>3. \A k : Waiting(k)' = {}
    BY <1>3 DEF Waiting, Final
  <2>4. PaidOn(day, restarts)' = {}
    BY <1>2, <1>9 DEF PaidOn
  <2>5. LoggedOn(day)' = LoggedOn(day)
    BY <1>2 DEF LoggedOn
  <2>6. Waiting(Tenant)' = {} /\ Waiting(Anon)' = {}
    BY <2>3 DEF Tenant, Anon, Trials
  <2>7. /\ Cardinality(Waiting(Tenant)') = 0 /\ Cardinality(Waiting(Anon)') = 0
        /\ Cardinality(PaidOn(day, restarts)') = 0
    BY <2>4, <2>6, FS_EmptySet
  <2> QED
    BY <1>1, <1>2, <2>1, <2>2, <2>5, <2>7, Sizes DEF CrowdsCover, Covers
<1> QED
  BY <1>4, <1>5, <1>6, <1>7, <1>8, <1>10, <1>11 DEF SpendInv

LEMMA SpendStarts == Init => SpendInv
<1> SUFFICES ASSUME Init PROVE SpendInv
  OBVIOUS
<1>1. /\ kind = [r \in Requests |-> "none"] /\ step = [r \in Requests |-> "idle"]
      /\ visitor = [r \in Requests |-> Nothing] /\ read = [r \in Requests |-> 0]
      /\ usage = [v \in Visitors |-> [k \in Trials |-> 0]]
      /\ priced = [s \in Settings |-> s = Seeded] /\ latest = config[Seeded]
      /\ used = [r \in Requests |-> Nothing] /\ asOf = [r \in Requests |-> Nothing]
      /\ day = 1 /\ logged = [r \in Requests |-> 0] /\ anonSpend = [day |-> 0, usd |-> 0]
      /\ bill = [r \in Requests |-> Unpaid] /\ counted = [r \in Requests |-> {}]
      /\ restarts = 0 /\ crowd = [anon |-> 0, tenant |-> 0]
      /\ \E seeded \in BOOLEAN :
           config = [w \in Rows |-> IF w = Seeded /\ seeded THEN Seeded ELSE Nothing]
  BY DEF Init
<1>2. SpendTypes
  BY <1>1, LlmSpendAssumption DEF SpendTypes, Steps, Settings, Rows, Unpaid
<1>3. \A q \in Requests : Placed(q)
  BY <1>1 DEF Placed, Trials, Unpaid
<1>4. Live \subseteq {Seeded} /\ \A w \in Live : config[w] = Seeded /\ latest = Seeded
  BY <1>1 DEF Live, Rows, Settings
<1>5. Stored
  BY <1>1, <1>4 DEF Stored, Known
<1>6. Counts
  <2>1. \A v, k : Recorded(v, k) = {}
    BY <1>1 DEF Recorded
  <2>2. NoAnswerPastTheCap
    BY <1>1 DEF NoAnswerPastTheCap
  <2> QED
    BY <1>1, <2>1, <2>2, FS_EmptySet DEF Counts
<1>7. OneRow
  BY <1>1, <1>4 DEF OneRow, Inserter, ConfigIsCurrent
<1>8. AccountExact
  BY <1>1 DEF AccountExact, Unpaid
<1>9. CrowdsCover
  <2>1. \A k : Waiting(k) = {}
    BY <1>1 DEF Waiting
  <2>2. \A d \in Nat \ {0} : LoggedOn(d) = {}
    BY <1>1 DEF LoggedOn
  <2>3. \A d \in Nat \ {0} : \A l : PaidOn(d, l) = {}
    BY <1>1 DEF PaidOn, Unpaid
  <2>4. Cardinality({}) = 0 /\ day \in Nat \ {0} /\ \A d \in 1..MaxDays : d \in Nat \ {0}
    BY <1>2, FS_EmptySet, Sizes
  <2>5. crowd.anon = 0 /\ crowd.tenant = 0
    BY <1>1
  <2>6. /\ Cardinality(LoggedOn(day)) = 0 /\ Cardinality(PaidOn(day, restarts)) = 0
        /\ Cardinality(Waiting(Tenant)) = 0 /\ Cardinality(Waiting(Anon)) = 0
    BY <2>1, <2>2, <2>3, <2>4
  <2>7. /\ \A d \in 1..MaxDays : Cardinality(LoggedOn(d)) = 0
        /\ \A d \in 1..MaxDays, l \in 0..MaxRestarts : Cardinality(PaidOn(d, l)) = 0
    BY <2>2, <2>3, <2>4
  <2> QED
    BY <1>2, <2>5, <2>6, <2>7, Sizes DEF CrowdsCover, Covers
<1> QED
  BY <1>2, <1>3, <1>5, <1>6, <1>7, <1>8, <1>9 DEF SpendInv

LEMMA SpendKept == SpendInv /\ [Next]_vars => SpendInv'
<1> SUFFICES ASSUME SpendInv, [Next]_vars PROVE SpendInv'
  OBVIOUS
<1>1. CASE UNCHANGED vars
  <2>1. UNCHANGED <<kind, step, visitor, read, usage, counted, config, priced, latest, used, asOf,
                    logged, anonSpend, bill, day, restarts, crowd>>
    BY <1>1 DEF vars
  <2>2. SpendTypes' /\ (\A q \in Requests : Placed(q)')
    BY <2>1 DEF SpendInv, SpendTypes, Placed
  <2>3. Stored' /\ OneRow'
    BY <2>1 DEF SpendInv, Stored, OneRow, Known, Live, Inserter, TwoInserted, ConfigIsCurrent
  <2>4. Counts'
    BY <2>1 DEF SpendInv, Counts, Recorded, NoAnswerPastTheCap
  <2>5. AccountExact' /\ CrowdsCover'
    BY <2>1 DEF SpendInv, AccountExact, CrowdsCover, Covers, LoggedOn, PaidOn, Waiting
  <2> QED
    BY <2>2, <2>3, <2>4, <2>5 DEF SpendInv
<1>2. CASE Next
  BY <1>2, StepsAreServed, ServedKeeps, NextDayKeeps, RestartKeeps
<1> QED
  BY <1>1, <1>2

-----------------------------------------------------------------------------
(* The theorems *)

(* Budgets, configuration and accounts of LlmService, TrialService and         *)
(* AdminService stay in step, whatever overlaps and whenever the process dies. *)
THEOREM SpendHolds == Spec => []SpendInv
<1>1. Init => SpendInv
  BY SpendStarts
<1>2. SpendInv /\ [Next]_vars => SpendInv'
  BY SpendKept
<1> QED
  BY <1>1, <1>2, PTL DEF Spec

LEMMA TypesHold == SpendInv => TypeOK
<1> SUFFICES ASSUME SpendInv PROVE TypeOK
  OBVIOUS
<1>1. /\ SpendTypes /\ \A q \in Requests : Placed(q)
      /\ Counts /\ AccountExact /\ CrowdsCover
  BY DEF SpendInv
<1>2. \A S \in SUBSET Requests : Cardinality(S) \in 0..Cardinality(Requests)
  BY RequestsFinite
<1>3. read \in [Requests -> 0..Cardinality(Requests)]
  BY <1>1, <1>2 DEF SpendTypes, Counts
<1>4. usage \in [Visitors -> [Trials -> 0..Cardinality(Requests)]]
  <2>1. \A v \in Visitors : \A k \in Trials : usage[v][k] \in 0..Cardinality(Requests)
    BY <1>1, <1>2 DEF Counts, Recorded
  <2> QED
    BY <1>1, <2>1 DEF SpendTypes
<1>5. anonSpend \in [day : 0..MaxDays, usd : 0..Cardinality(Requests)]
  <2>1. anonSpend.usd \in 0..Cardinality(Requests)
    <3>1. 0 \in 0..Cardinality(Requests)
      BY RequestsFinite
    <3>2. PaidOn(anonSpend.day, restarts) \in SUBSET Requests
      BY DEF PaidOn
    <3> QED
      BY <1>1, <1>2, <3>1, <3>2 DEF AccountExact
  <2> QED
    BY <1>1, <2>1 DEF SpendTypes
<1>6. crowd \in [anon : 0..Cardinality(Requests), tenant : 0..Cardinality(Requests)]
  BY <1>1, Sizes DEF SpendTypes, CrowdsCover
<1>7. \A r \in Requests : step[r] \in {"call", "record", "log", "store"} => used[r] # Nothing
  BY <1>1 DEF Placed
<1> QED
  BY <1>1, <1>3, <1>4, <1>5, <1>6, <1>7 DEF SpendTypes, TypeOK, Steps

(* Every variable keeps its type: the counters of a device, the anonymous      *)
(* account and the crowds never exceed the number of requests, and a call is   *)
(* made with a setting that was read.                                          *)
THEOREM TypeCorrect == Spec => []TypeOK
BY TypesHold, SpendHolds, PTL

LEMMA CrowdsBound == SpendInv => CapsOvershootByTheCrowd
<1> SUFFICES ASSUME SpendInv, NEW d \in 1..MaxDays
             PROVE  /\ Covers(Priced({q \in Requests : logged[q] = d}), DAILY_CAP + crowd.tenant)
                    /\ \A l \in 0..MaxRestarts :
                         Covers(Priced(Paid(d, l, Anon)), ANON_CAP + crowd.anon)
  BY DEF CapsOvershootByTheCrowd, Covers
<1>1. {q \in {q \in Requests : logged[q] = d} : priced[used[q]]} = LoggedOn(d)
  BY DEF LoggedOn
<1>2. \A l : {q \in Paid(d, l, Anon) : priced[used[q]]} = PaidOn(d, l)
  BY DEF Paid, PaidOn
<1>3. /\ Covers(Cardinality(LoggedOn(d)), DAILY_CAP + crowd.tenant)
      /\ \A l \in 0..MaxRestarts : Covers(Cardinality(PaidOn(d, l)), ANON_CAP + crowd.anon)
  BY DEF SpendInv, CrowdsCover
<1> QED
  BY <1>1, <1>2, <1>3 DEF Priced

(* A day's logged spend, and what one process pays for anonymous callers in a  *)
(* day, exceed their caps by less than the most calls that were ever admitted  *)
(* and not yet accounted at once.                                              *)
THEOREM CapsBoundTheSpend == Spec => []CapsOvershootByTheCrowd
BY CrowdsBound, SpendHolds, PTL

(* Whoever TrialService lets through was evaluated against fewer recorded      *)
(* answers of its device than the cap, whatever overlapped since.              *)
THEOREM BudgetsHold == Spec => []NoAnswerPastTheCap
<1>1. SpendInv => NoAnswerPastTheCap
  BY DEF SpendInv, Counts
<1> QED
  BY <1>1, SpendHolds, PTL

(* A call uses the setting that was stored last when it read, unless two       *)
(* administrators had both found no row and inserted one each.                 *)
THEOREM ConfigsAreCurrent == Spec => []ConfigIsCurrent
<1>1. SpendInv => ConfigIsCurrent
  BY DEF SpendInv, OneRow
<1> QED
  BY <1>1, SpendHolds, PTL
==============================================================================
