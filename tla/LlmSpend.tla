------------------------------ MODULE LlmSpend -------------------------------
(***************************************************************************)
(* What the platform pays its LLM vendor for.  Every call goes through     *)
(* LlmService: the breaker on the day's logged spend, for the public       *)
(* endpoints also the anonymous allowance kept in process memory, then the *)
(* one global LlmConfig row, the provider, and the reading of its answer.  *)
(* Around it: the free-trial budget of a visitor's device (TrialService),  *)
(* and an administrator replacing the global configuration (AdminService). *)
(* One action per database call, provider call or continuation; money is   *)
(* counted in calls, and a call to a model that the price map does not     *)
(* list costs nothing.                                                     *)
(*                                                                         *)
(* All visitors share one address and one user agent, and Family gives     *)
(* the browser fingerprint that each one shows.                            *)
(***************************************************************************)
EXTENDS Naturals, FiniteSets

CONSTANTS
  Requests,        \* the requests that may be served, each once
  Visitors,        \* anonymous devices (deviceId)
  Family,          \* [Visitors -> their fingerprintHash]
  VERDICT_CAP, PROPOSAL_CAP,
  DAILY_CAP,       \* LLM_DAILY_USD_CAP, in calls
  ANON_CAP,        \* LLM_ANON_DAILY_USD_CAP, in calls
  ManyDevices,     \* 5 in the code: more devices than this behind one address score
  ManyRows,        \* 3 in the code
  MaxDays, MaxRestarts,
  Seeded,          \* the setting of the global row that the deployment began with
  Nothing

ASSUME LlmSpendAssumption ==
  /\ IsFiniteSet(Requests) /\ Requests # {} /\ IsFiniteSet(Visitors)
  /\ VERDICT_CAP \in Nat /\ PROPOSAL_CAP \in Nat
  /\ DAILY_CAP \in Nat /\ ANON_CAP \in Nat
  /\ ManyDevices \in Nat /\ ManyRows \in Nat
  /\ MaxDays \in Nat \ {0} /\ MaxRestarts \in Nat
  /\ Seeded \notin Requests /\ Nothing \notin Requests \cup {Seeded}

Trials  == {"verdict", "proposal"}
Anon    == Trials \cup {"preview"}
Tenant  == {"tenant"}
Writers == {"setLlm"}
Kinds   == Anon \cup Tenant \cup Writers \cup {"extract"}
Settings == Requests \cup {Seeded}
Rows    == Settings       \* a row of LlmConfig is named after the request that inserted it

VARIABLES
  kind, step,     \* [Requests -> operation; next statement or answer]
  visitor,        \* [Requests -> the device behind a trial request]
  read,           \* [Requests -> the count of the device that the request read]
  usage,          \* [Visitors -> verdictCount and proposalCount of their TrialUsage row]
  config,         \* [Rows -> the setting stored in the row, or Nothing]
  priced,         \* [Settings -> its model is in the price map]
  used,           \* [Requests -> the setting a call was made with; the row a set updates]
  day,
  logged,         \* [Requests -> day of the GenerationLog row, 0 for none]
  anonSpend,      \* the module variable of llm.service.ts
  restarts,
  bill,           \* history: [Requests -> day and process in which the call was paid]
  counted,        \* history: [Requests -> earlier answers on the row that evaluate read]
  latest,         \* history: the last setting an administrator stored
  asOf,           \* history: [Requests -> latest, when the call read the configuration]
  crowd           \* history: most calls of a class between admission and account at once

reqVars   == <<kind, step>>
trialVars == <<visitor, read, usage, counted>>
confVars  == <<config, priced, latest>>
callVars  == <<used, asOf>>
billVars  == <<logged, anonSpend, bill>>
timeVars  == <<day, restarts>>
vars == <<kind, step, visitor, read, usage, counted, config, priced, latest, used, asOf,
          logged, anonSpend, bill, day, restarts, crowd>>

Final == {"ok", "unrecorded", "refused", "failed"}
Unpaid == [day |-> 0, life |-> 0]

Init ==
  /\ kind = [r \in Requests |-> "none"]
  /\ step = [r \in Requests |-> "idle"]
  /\ visitor = [r \in Requests |-> Nothing]
  /\ read = [r \in Requests |-> 0]
  /\ usage = [v \in Visitors |-> [k \in Trials |-> 0]]
  /\ \E seeded \in BOOLEAN :
       config = [w \in Rows |-> IF w = Seeded /\ seeded THEN Seeded ELSE Nothing]
  /\ priced = [s \in Settings |-> s = Seeded]
  /\ latest = config[Seeded]
  /\ used = [r \in Requests |-> Nothing]
  /\ asOf = [r \in Requests |-> Nothing]
  /\ day = 1
  /\ logged = [r \in Requests |-> 0]
  /\ anonSpend = [day |-> 0, usd |-> 0]
  /\ bill = [r \in Requests |-> Unpaid]
  /\ counted = [r \in Requests |-> {}]
  /\ restarts = 0
  /\ crowd = [anon |-> 0, tenant |-> 0]

Goto(r, s) == step' = [step EXCEPT ![r] = s]

Live == {w \in Rows : config[w] # Nothing}
Cost(s) == IF priced[s] THEN 1 ELSE 0

-----------------------------------------------------------------------------
(* the trial budget *)

\* A trial request passes the honeypot and shows its signals.
ReadSignals(r, k, v) ==
  /\ step[r] = "idle"
  /\ kind' = [kind EXCEPT ![r] = k]
  /\ visitor' = [visitor EXCEPT ![r] = v]
  /\ Goto(r, "evaluate")
  /\ UNCHANGED <<read, usage, counted, confVars, callVars, billVars, timeVars, crowd>>

Assess(r, v)   == ReadSignals(r, "verdict", v)
Proposal(r, v) == ReadSignals(r, "proposal", v)

\* The answers of the device that the row stands for: given, and recorded.
Recorded(v, k) == {q \in Requests : visitor[q] = v /\ kind[q] = k /\ step[q] = "ok"}

EvaluateReads(r) ==
  /\ step[r] = "evaluate"
  /\ read' = [read EXCEPT ![r] = usage[visitor[r]][kind[r]]]
  /\ counted' = [counted EXCEPT ![r] = Recorded(visitor[r], kind[r])]
  /\ Goto(r, "decide")
  /\ UNCHANGED <<kind, visitor, usage, confVars, callVars, billVars, timeVars, crowd>>

\* A row is inserted with its first count.
HasRow(v) == \E k \in Trials : usage[v][k] > 0

FraudScore(v) ==
  LET others == {u \in Visitors \ {v} : HasRow(u)}
      sharers == {u \in others : Family[u] = Family[v]}
  IN  (IF sharers # {} THEN 50 ELSE 0)
      + (IF Cardinality(others \cup {v}) > ManyDevices THEN 20 ELSE 0)
      + (IF others # {} THEN 15 ELSE 0)
      + (IF Cardinality(others) > ManyRows THEN 5 ELSE 0)

Cap(k) == IF k = "verdict" THEN VERDICT_CAP ELSE PROPOSAL_CAP

\* Defect: the budget is compared with <=.
DecideLoosely(r) ==
  /\ step[r] = "decide"
  /\ Goto(r, IF FraudScore(visitor[r]) <= 70 /\ read[r] <= Cap(kind[r])
             THEN "admit" ELSE "refused")
  /\ UNCHANGED <<kind, trialVars, confVars, callVars, billVars, timeVars, crowd>>

\* The fraud score of the rows of now, the count of before.
Decide(r) ==
  /\ step[r] = "decide"
  /\ Goto(r, IF FraudScore(visitor[r]) <= 70 /\ read[r] < Cap(kind[r])
             THEN "admit" ELSE "refused")
  /\ UNCHANGED <<kind, trialVars, confVars, callVars, billVars, timeVars, crowd>>

\* The counter is incremented in place.  trialUsed, which nothing reads, is left out.
Record(r) ==
  /\ step[r] = "record"
  /\ usage' = [usage EXCEPT ![visitor[r]][kind[r]] = @ + 1]
  /\ Goto(r, "ok")
  /\ UNCHANGED <<kind, visitor, read, counted, confVars, callVars, billVars, timeVars, crowd>>

\* The error is swallowed and the answer given all the same.
RecordFails(r) ==
  /\ step[r] = "record"
  /\ Goto(r, "unrecorded")
  /\ UNCHANGED <<kind, trialVars, confVars, callVars, billVars, timeVars, crowd>>

-----------------------------------------------------------------------------
(* LlmService *)

Call(r, k, s) ==
  /\ step[r] = "idle"
  /\ kind' = [kind EXCEPT ![r] = k]
  /\ Goto(r, s)
  /\ UNCHANGED <<trialVars, confVars, callVars, billVars, timeVars, crowd>>

\* The signed-in operations.  Each asks the breaker, makes one call, refuses an
\* answer it (or its caller) cannot read, and is logged by its caller.
generateProposal(r)   == Call(r, "tenant", "admit")
analyzeJob(r)         == Call(r, "tenant", "admit")
regenerateSection(r)  == Call(r, "tenant", "admit")
generateDoc(r)        == Call(r, "tenant", "admit")
regenerateDocField(r) == Call(r, "tenant", "admit")
adjustToneProse(r)    == Call(r, "tenant", "admit")

\* The landing page's teaser, and the extraction, which no budget is asked for.
generatePreview(r) == Call(r, "preview", "admit")
extractMemories(r) == Call(r, "extract", "config")

LoggedToday == {q \in Requests : logged[q] = day}
Priced(S) == Cardinality({q \in S : priced[used[q]]})

Today == IF anonSpend.day = day THEN anonSpend ELSE [day |-> day, usd |-> 0]

\* Calls that have been admitted and are not on their account yet, with r: a
\* tenant's until it is logged, an anonymous one until the provider has answered.
Unaccounted(r, k) ==
  {r} \cup {q \in Requests : kind[q] \in k /\ step[q] \in {"config", "call", "log"}}

Bigger(a, b) == IF a > b THEN a ELSE b
Crowd(r) ==
  IF kind[r] \in Anon
  THEN [crowd EXCEPT !.anon = Bigger(@, Cardinality(Unaccounted(r, Anon)))]
  ELSE [crowd EXCEPT !.tenant = Bigger(@, Cardinality(Unaccounted(r, Tenant)))]

\* Defect: only the platform's breaker is asked.
AdmitAnyone(r) ==
  /\ step[r] = "admit"
  /\ anonSpend' = IF kind[r] \in Anon THEN Today ELSE anonSpend
  /\ IF Priced(LoggedToday) < DAILY_CAP
     THEN Goto(r, "config") /\ crowd' = Crowd(r)
     ELSE Goto(r, "failed") /\ UNCHANGED crowd
  /\ UNCHANGED <<kind, trialVars, confVars, callVars, logged, bill, timeVars>>

\* assertPlatformBudget and, in the same continuation, assertAnonBudget.
Admit(r) ==
  /\ step[r] = "admit"
  /\ LET breaker == Priced(LoggedToday) < DAILY_CAP
         allowance == kind[r] \in Anon => Today.usd < ANON_CAP
     IN /\ anonSpend' = IF breaker /\ kind[r] \in Anon THEN Today ELSE anonSpend
        /\ IF breaker /\ allowance
           THEN Goto(r, "config") /\ crowd' = Crowd(r)
           ELSE Goto(r, "failed") /\ UNCHANGED crowd
  /\ UNCHANGED <<kind, trialVars, confVars, callVars, logged, bill, timeVars>>

\* Defect: a missing row is not noticed.
ReadConfigUnchecked(r) ==
  /\ step[r] = "config"
  /\ \E w \in IF Live = {} THEN Rows ELSE Live : used' = [used EXCEPT ![r] = config[w]]
  /\ asOf' = [asOf EXCEPT ![r] = latest]
  /\ Goto(r, "call")
  /\ UNCHANGED <<kind, trialVars, confVars, billVars, timeVars, crowd>>

\* findFirst where orgId is null; no order is asked for.  The key is decrypted.
ReadConfig(r) ==
  /\ step[r] = "config"
  /\ \/ /\ Live = {}
        /\ Goto(r, "failed")
        /\ UNCHANGED callVars
     \/ \E w \in Live :
          /\ used' = [used EXCEPT ![r] = config[w]]
          /\ asOf' = [asOf EXCEPT ![r] = latest]
          /\ Goto(r, "call")
  /\ UNCHANGED <<kind, trialVars, confVars, billVars, timeVars, crowd>>

ProviderFails(r) ==
  /\ step[r] = "call"
  /\ Goto(r, "failed")
  /\ UNCHANGED <<kind, trialVars, confVars, callVars, billVars, timeVars, crowd>>

\* Where a readable answer goes: a trial is recorded, a tenant's call logged.
After(k) == CASE k \in Trials -> "record" [] k \in Tenant -> "log" [] OTHER -> "ok"

RecordAnonSpend(r) == [Today EXCEPT !.usd = @ + Cost(used[r])]

\* Defect: the spend is recorded once the answer has been read.
ReturnsThenRecords(r) ==
  /\ step[r] = "call"
  /\ bill' = [bill EXCEPT ![r] = [day |-> day, life |-> restarts]]
  /\ \E readable \in BOOLEAN :
       /\ Goto(r, IF readable THEN After(kind[r]) ELSE "failed")
       /\ anonSpend' = IF kind[r] \in Anon /\ readable THEN RecordAnonSpend(r) ELSE anonSpend
  /\ UNCHANGED <<kind, trialVars, confVars, callVars, logged, timeVars, crowd>>

\* The provider answers, and has been paid; the anonymous spend is recorded before
\* the answer is parsed.
ProviderReturns(r) ==
  /\ step[r] = "call"
  /\ bill' = [bill EXCEPT ![r] = [day |-> day, life |-> restarts]]
  /\ anonSpend' = IF kind[r] \in Anon THEN RecordAnonSpend(r) ELSE anonSpend
  /\ \E readable \in BOOLEAN : Goto(r, IF readable THEN After(kind[r]) ELSE "failed")
  /\ UNCHANGED <<kind, trialVars, confVars, callVars, logged, timeVars, crowd>>

\* The caller's transaction writes the result and its GenerationLog row.
LogCall(r) ==
  /\ step[r] = "log"
  /\ logged' = [logged EXCEPT ![r] = day]
  /\ Goto(r, "ok")
  /\ UNCHANGED <<kind, trialVars, confVars, callVars, anonSpend, bill, timeVars, crowd>>

-----------------------------------------------------------------------------
(* AdminService *)

\* The super-admin guard has passed; the model may be one the price map lacks.
SetGlobalLlm(r) ==
  /\ step[r] = "idle"
  /\ kind' = [kind EXCEPT ![r] = "setLlm"]
  /\ \E p \in BOOLEAN : priced' = [priced EXCEPT ![r] = p]
  /\ Goto(r, "find")
  /\ UNCHANGED <<trialVars, config, latest, callVars, billVars, timeVars, crowd>>

FindConfig(r) ==
  /\ step[r] = "find"
  /\ \E w \in IF Live = {} THEN {r} ELSE Live : used' = [used EXCEPT ![r] = w]
  /\ Goto(r, "store")
  /\ UNCHANGED <<kind, trialVars, confVars, asOf, billVars, timeVars, crowd>>

\* Defect: every change of the configuration inserts a row.
InsertConfig(r) ==
  /\ step[r] = "store"
  /\ config' = [config EXCEPT ![r] = r]
  /\ latest' = r
  /\ Goto(r, "ok")
  /\ UNCHANGED <<kind, trialVars, priced, callVars, billVars, timeVars, crowd>>

\* The row found is updated; without one, a row is inserted (NULLs are not unique).
StoreConfig(r) ==
  /\ step[r] = "store"
  /\ config' = [config EXCEPT ![used[r]] = r]
  /\ latest' = r
  /\ Goto(r, "ok")
  /\ UNCHANGED <<kind, trialVars, priced, callVars, billVars, timeVars, crowd>>

-----------------------------------------------------------------------------
NextDay ==
  /\ day < MaxDays
  /\ day' = day + 1
  /\ UNCHANGED <<reqVars, trialVars, confVars, callVars, billVars, restarts, crowd>>

InFlight == {r \in Requests : step[r] \notin Final \cup {"idle"}}

\* The requests in flight die with the process, and so does the anonymous account.
Restart ==
  /\ restarts < MaxRestarts
  /\ restarts' = restarts + 1
  /\ step' = [r \in Requests |-> IF r \in InFlight THEN "failed" ELSE step[r]]
  /\ anonSpend' = [day |-> 0, usd |-> 0]
  /\ UNCHANGED <<kind, trialVars, confVars, callVars, logged, bill, day, crowd>>

Next ==
  \/ \E r \in Requests :
       \/ \E v \in Visitors : Assess(r, v) \/ Proposal(r, v)
       \/ EvaluateReads(r) \/ Decide(r) \/ Record(r) \/ RecordFails(r)
       \/ generateProposal(r) \/ analyzeJob(r) \/ regenerateSection(r) \/ generateDoc(r)
       \/ regenerateDocField(r) \/ adjustToneProse(r) \/ generatePreview(r) \/ extractMemories(r)
       \/ Admit(r) \/ ReadConfig(r) \/ ProviderFails(r) \/ ProviderReturns(r) \/ LogCall(r)
       \/ SetGlobalLlm(r) \/ FindConfig(r) \/ StoreConfig(r)
  \/ NextDay \/ Restart

Spec == Init /\ [][Next]_vars
-----------------------------------------------------------------------------
(* Properties *)

Paid(d, l, k) ==
  {q \in Requests : kind[q] \in k /\ bill[q] = [day |-> d, life |-> l]}

\* Every variable keeps its type, and a request that is past its admission to the
\* provider holds the setting it was made with.
TypeOK ==
  /\ kind \in [Requests -> Kinds \cup {"none"}]
  /\ step \in [Requests -> Final \cup {"idle", "evaluate", "decide", "admit", "config", "call",
                                       "record", "log", "find", "store"}]
  /\ visitor \in [Requests -> Visitors \cup {Nothing}]
  /\ read \in [Requests -> 0..Cardinality(Requests)]
  /\ usage \in [Visitors -> [Trials -> 0..Cardinality(Requests)]]
  /\ config \in [Rows -> Settings \cup {Nothing}]
  /\ priced \in [Settings -> BOOLEAN]
  /\ used \in [Requests -> Settings \cup {Nothing}]
  /\ day \in 1..MaxDays /\ restarts \in 0..MaxRestarts
  /\ logged \in [Requests -> 0..MaxDays]
  /\ anonSpend \in [day : 0..MaxDays, usd : 0..Cardinality(Requests)]
  /\ bill \in [Requests -> [day : 0..MaxDays, life : 0..MaxRestarts]]
  /\ counted \in [Requests -> SUBSET Requests]
  /\ latest \in Settings \cup {Nothing} /\ asOf \in [Requests -> Settings \cup {Nothing}]
  /\ crowd \in [anon : 0..Cardinality(Requests), tenant : 0..Cardinality(Requests)]
  /\ \A r \in Requests : step[r] \in {"call", "record", "log", "store"} =>
       used[r] # Nothing

\* Both caps are checked before a call and charged after it, so they can be passed,
\* but only by the calls that were on their way together: a day's logged spend, and
\* what one process pays for anonymous callers in a day, readable or not, exceed the
\* cap by less than the most calls that were ever admitted and not yet accounted.
CapsOvershootByTheCrowd ==
  \A d \in 1..MaxDays :
    /\ LET spent == Priced({q \in Requests : logged[q] = d})
       IN  spent > 0 => spent < DAILY_CAP + crowd.tenant
    /\ \A l \in 0..MaxRestarts :
         LET spent == Priced(Paid(d, l, Anon))
         IN  spent > 0 => spent < ANON_CAP + crowd.anon

\* A device's free answers can exceed its budget only by answers that were not yet
\* recorded when the request was evaluated: whoever is let through was evaluated
\* against fewer recorded answers than the cap, whatever overlapped since.
NoAnswerPastTheCap ==
  \A r \in Requests :
    kind[r] \in Trials /\ step[r] \notin {"idle", "evaluate", "decide", "refused"}
    => Cardinality(counted[r]) < Cap(kind[r]) \/ step[r] = "failed"

\* A call uses the setting that was stored last when it read the configuration,
\* unless two administrators had found no row at the same time: then both inserted
\* one, and from then on either may be read or updated.
ConfigIsCurrent ==
  \A r \in Requests :
    used[r] # asOf[r] /\ kind[r] \notin Writers \cup {"none"} /\ used[r] # Nothing
    => \E p, q \in Requests : p # q /\ kind[p] = "setLlm" /\ kind[q] = "setLlm"
                              /\ used[p] = p /\ used[q] = q
==============================================================================
