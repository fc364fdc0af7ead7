------------------------------ MODULE JobsProofs ------------------------------
(***************************************************************************)
(* What the modules around the jobs of an organisation guarantee, for any  *)
(* number of requests, organisations, titles and facts: the jobs and the   *)
(* memory they feed (Jobs, Memory), the extension that scopes their        *)
(* queries (TenantScope), and the figures computed from their rows         *)
(* (Analytics).                                                            *)
(***************************************************************************)
EXTENDS Jobs, Analytics, FiniteSetTheorems, TLAPS

-----------------------------------------------------------------------------
(* The scoping of one query, in every context, for every model, operation and filter *)

\* With enforcement on, a filtered query on a tenant model never reaches a row of another
\* organisation: without an organisation in the context it throws and reaches nothing.
THEOREM EnforcedStaysInOrg ==
  ASSUME NEW ctx, ctx.store, ~ctx.bypass, ctx.enforce,
         NEW model \in TENANT_KEY, NEW operation \in WHERE_OPS, NEW rows, NEW own
  PROVE  \A row \in Scoped(ctx, model, operation, rows, own) :
           ctx.org # NoOrg /\ own[row] = ctx.org
<1>1. Scopes(ctx, model)
  BY DEF Scopes
<1>2. CASE ctx.org = NoOrg
  <2>1. Scoped(ctx, model, operation, rows, own) = {}
    BY <1>1, <1>2 DEF Scoped, FailsClosed
  <2> QED
    BY <2>1
<1>3. CASE ctx.org # NoOrg
  <2>1. Enforced(ctx, model) /\ ~FailsClosed(ctx, model)
    BY <1>1, <1>3 DEF Enforced, FailsClosed
  <2>2. Scoped(ctx, model, operation, rows, own) = {row \in rows : own[row] = ctx.org}
    BY <2>1 DEF Scoped
  <2> QED
    BY <1>3, <2>2
<1> QED
  BY <1>2, <1>3

\* Services filter by the organisation themselves: for such a query the extension
\* changes nothing, whatever its mode, unless it throws.  Turning enforcement on
\* is safe for every query that was already scoped.
THEOREM ScopedQueriesUnchanged ==
  ASSUME NEW ctx, NEW model, NEW operation, NEW rows, NEW own,
         ~FailsClosed(ctx, model), \A row \in rows : own[row] = ctx.org
  PROVE  Scoped(ctx, model, operation, rows, own) = rows
<1>1. {row \in rows : own[row] = ctx.org} = rows
  OBVIOUS
<1> QED
  BY <1>1 DEF Scoped

\* The extension adds no row to a query and, outside a request (a drain, a script) or
\* in audit mode, takes none away.
THEOREM OnlyNarrows ==
  ASSUME NEW ctx, NEW model, NEW operation, NEW rows, NEW own
  PROVE  /\ Scoped(ctx, model, operation, rows, own) \subseteq rows
         /\ (~ctx.store \/ ctx.bypass \/ ~ctx.enforce)
              => Scoped(ctx, model, operation, rows, own) = rows
<1>1. Scoped(ctx, model, operation, rows, own) \subseteq rows
  BY DEF Scoped
<1>2. ASSUME ~ctx.store \/ ctx.bypass \/ ~ctx.enforce
      PROVE  ~FailsClosed(ctx, model) /\ ~Enforced(ctx, model)
  BY <1>2, Zenon DEF FailsClosed, Enforced, Scopes
<1> QED
  BY <1>1, <1>2 DEF Scoped
-----------------------------------------------------------------------------
(* The memory *)

MemoryRows ==
  [state : {"absent", "live", "deleted"}, id : Requests \cup {Nobody},
   text : Requests \cup {Nobody}, cipher : BOOLEAN, sensitive : BOOLEAN,
   conf : Confs \cup {0}, source : Sources \cup {"none"}]
MemoryOps ==
  [name : {"none", "create", "recordFact", "update", "remove", "removeMany", "prompt"},
   key : Keys \cup {Nobody}, id : Requests \cup {Nobody}, flag : {"keep", "on", "off"},
   text : BOOLEAN, conf : Confs \cup {0}, source : Sources \cup {"none"}]

MemoryTypes ==
  /\ fact \in [Keys -> MemoryRows]
  /\ op \in [Requests -> MemoryOps]
  /\ at \in [Requests -> {"idle", "find", "upsert", "write", "ok", "failed"}]
  /\ saw \in [Requests -> MemoryRows]
  /\ sealed \in [Requests -> BOOLEAN]
  /\ replaced \in [Requests -> MemoryRows]
  /\ prompted \in SUBSET [text : Requests, marked : BOOLEAN]

\* A row is named after a request that is through, and its name is its own.
RowsAreNamed ==
  /\ \A k \in Keys : fact[k].id = Nobody <=> fact[k] = Absent
  /\ \A k \in Keys : fact[k] # Absent => at[fact[k].id] = "ok"
  /\ \A k, j \in Keys : k # j /\ fact[k] # Absent => fact[k].id # fact[j].id

\* A write by id names a row.
WritesNameRows ==
  \A r \in Requests : at[r] = "write" => op[r].id \in Requests /\ op[r].name # "recordFact"

\* The text of a row was written by a request that is through, and is ciphertext
\* exactly when that request took it for a sensitive one.
TextsAreSealed ==
  \A k \in Keys : fact[k] # Absent =>
    /\ fact[k].text \in Requests /\ at[fact[k].text] = "ok"
    /\ fact[k].cipher = sealed[fact[k].text]

\* A text that a prompt has carried was written in the clear, by a request that is through.
PromptsAreClear ==
  \A p \in prompted : ~p.marked /\ at[p.text] = "ok" /\ ~sealed[p.text]

\* What r read is kept from what r asks to record.
Kept(r) ==
  /\ IsLive(saw[r]) /\ saw[r].conf > op[r].conf
  /\ op[r].source \notin OVERRIDE_SOURCES

\* recordFact goes on to its upsert only if what it read gives way.
KeptMeansKept ==
  \A r \in Requests :
    /\ at[r] \in {"idle", "find", "upsert"} => replaced[r] = Absent
    /\ at[r] \in {"find", "upsert"} => op[r].name = "recordFact" /\ op[r].key \in Keys
    /\ at[r] = "upsert" => ~Kept(r)
    /\ op[r].name = "recordFact" /\ Kept(r) => replaced[r] = Absent

MemoryInv ==
  /\ MemoryTypes /\ RowsAreNamed /\ WritesNameRows /\ TextsAreSealed
  /\ PromptsAreClear /\ KeptMeansKept

-----------------------------------------------------------------------------
(* The jobs *)

JobRows == [org : Orgs \cup {NoOrg}, title : Titles \cup {Keep}, status : JobStatus]
JobAsks == [name : {"none", "create", "assess", "update"}, org : Orgs \cup {NoOrg},
            id : Ids \cup {Nobody}, title : Titles \cup {Keep}, status : JobStatus]
Steps == Answers \cup {"idle", "find", "check", "insert", "write", "extract"}

JobTypes ==
  /\ job \in [Ids -> JobRows] /\ ask \in [Requests -> JobAsks] /\ step \in [Requests -> Steps]
  /\ enforce \in BOOLEAN
  /\ writers \in [Ids -> SUBSET Requests]
  /\ rivals \in [Requests -> SUBSET Ids] /\ taken \in [Requests -> SUBSET Ids]

\* A job has an organisation and a title, which no other job of the organisation has;
\* only the request it is named after inserts it, and is through then.
RowsAreFiled ==
  /\ \A j \in Ids : Exists(j) => job[j].org \in Orgs /\ job[j].title \in Titles
  /\ \A r \in Requests : Exists(r) => step[r] = "ok"
  /\ \A j, i \in Ids :
       j # i /\ Exists(j) /\ job[j].org = job[i].org => job[j].title # job[i].title

\* What a request asks fits the statement it is at; past the scoped read, the job of
\* an update is one of its organisation.
Fits(r) ==
  /\ ask[r].name = "none" <=> step[r] = "idle"
  /\ step[r] # "idle" => ask[r].org \in Orgs
  /\ ask[r].name = "update" => ask[r].id \in Ids /\ Exists(ask[r].id)
  /\ ask[r].name \in {"create", "assess"} => ask[r].title \in Titles
  /\ step[r] \in {"find", "write", "extract"} => ask[r].name = "update"
  /\ step[r] = "check" => ask[r].name \in {"create", "update"} /\ ask[r].title # Keep
  /\ step[r] = "insert" => ask[r].name \in {"create", "assess"}
  /\ ask[r].name = "update" /\ step[r] \in {"check", "write", "extract"}
       => job[ask[r].id].org = ask[r].org

AsksFit == \A r \in Requests : Fits(r)

\* A job that does not exist was written by nobody, the others from their organisation.
WritersAreOwners ==
  /\ \A j \in Ids : ~Exists(j) => writers[j] = {}
  /\ \A j \in Ids : \A r \in writers[j] : step[r] # "idle" /\ ask[r].org = job[j].org

\* Whoever holds the title of a request held it when the request came or took it since,
\* and took it since if the request has looked for rivals and found none.
RivalsAreKnown ==
  \A r \in Requests :
    /\ step[r] # "idle" => Others(r) \subseteq rivals[r] \cup taken[r]
    /\ step[r] = "write" /\ ask[r].title # Keep => Others(r) \subseteq taken[r]

JobsInv ==
  JobTypes /\ RowsAreFiled /\ AsksFit /\ WritersAreOwners /\ RivalsAreKnown /\ ClashesAreReal
-----------------------------------------------------------------------------
(* The steps of the memory *)

\* What the outcome of a deal asks of the memory.
Captures(r) ==
  /\ \E k \in Keys, c \in Confs : Asks(r, RecordFact(k, FALSE, c, "outcome"), "find")
  /\ UNCHANGED <<fact, saw, sealed, replaced, prompted>>

\* Seen from the memory, a step of the jobs is one of its own requests, or nothing.
LEMMA MemorySteps ==
  ASSUME [Next]_vars
  PROVE  \/ UNCHANGED memVars
         \/ \E r \in Requests : MemoryStatement(r) \/ MemoryRequest(r) \/ Captures(r)
<1>1. CASE UNCHANGED vars
  BY <1>1 DEF vars, memVars
<1>2. CASE Next
  <2> PICK r \in Requests :
        JobStep(r) \/ MemoryStatement(r) \/ (step[r] = "idle" /\ MemoryRequest(r))
    BY <1>2 DEF Next
  <2>1. CASE JobStep(r)
    <3>1. ASSUME NEW o, NEW t, createJob(r, o, t) \/ assess(r, o, t)
          PROVE  UNCHANGED memVars
      BY <3>1 DEF createJob, assess, Begin
    <3>2. ASSUME NEW o, NEW j, NEW t, NEW s, updateJob(r, o, j, t, s)
          PROVE  UNCHANGED memVars
      BY <3>2 DEF updateJob, Begin
    <3>3. ASSUME Find(r) \/ assertTitleFree(r) \/ Insert(r) \/ Write(r)
          PROVE  UNCHANGED memVars
      BY <3>3 DEF Find, assertTitleFree, Insert, Write, Passes, Stores
    <3>4. ASSUME captureFromOutcome(r)
          PROVE  UNCHANGED memVars \/ Captures(r)
      BY <3>4 DEF captureFromOutcome, Captures
    <3> QED
      BY <2>1, <3>1, <3>2, <3>3, <3>4 DEF JobStep
  <2> QED
    BY <2>1
<1> QED
  BY <1>1, <1>2

LEMMA AbsentIsARow == Absent \in MemoryRows
BY DEF Absent, MemoryRows

\* The upsert of a request that has not been through.
LEMMA UpsertKeepsRows ==
  ASSUME MemoryInv, NEW r \in Requests, at[r] \in {"idle", "upsert"}, NEW k \in Keys,
         NEW sensitive \in BOOLEAN, NEW conf \in Confs \cup {0},
         NEW source \in Sources \cup {"none"},
         Upsert(r, k, sensitive, conf, source), Goes(r, "ok"), prompted' = prompted
  PROVE  /\ fact' \in [Keys -> MemoryRows]
         /\ at' \in [Requests -> {"idle", "find", "upsert", "write", "ok", "failed"}]
         /\ sealed' \in [Requests -> BOOLEAN] /\ replaced' \in [Requests -> MemoryRows]
         /\ RowsAreNamed' /\ TextsAreSealed' /\ PromptsAreClear'
<1> USE MemoryAssumption
<1> DEFINE text == Encoded(r, fact[k], sensitive)
           row == [text EXCEPT !.state = "live", !.sensitive = sensitive,
                     !.conf = conf, !.source = source, !.id = IF @ = Nobody THEN r ELSE @]
<1>1. fact[k] \in MemoryRows
  BY DEF MemoryInv, MemoryTypes
<1>2. fact' = [fact EXCEPT ![k] = row]
  BY DEF Upsert
<1>3. text \in MemoryRows /\ text.id = fact[k].id /\ text.text = r /\ text.cipher = sensitive
  BY <1>1 DEF MemoryRows, Encoded
<1> HIDE DEF text
<1>4. row \in MemoryRows /\ row.state = "live"
  BY <1>3 DEF MemoryRows
<1>5. /\ row.id = (IF fact[k].id = Nobody THEN r ELSE fact[k].id)
      /\ row.text = r /\ row.cipher = sensitive
  BY <1>3 DEF MemoryRows
<1> HIDE DEF row
<1>6. /\ fact' \in [Keys -> MemoryRows]
      /\ at' \in [Requests -> {"idle", "find", "upsert", "write", "ok", "failed"}]
      /\ sealed' \in [Requests -> BOOLEAN] /\ replaced' \in [Requests -> MemoryRows]
  BY <1>1, <1>2, <1>4 DEF Upsert, Goes, MemoryInv, MemoryTypes
<1>7. /\ fact'[k] = row /\ \A j \in Keys : j # k => fact'[j] = fact[j]
      /\ at'[r] = "ok" /\ at[r] # "ok" /\ \A q \in Requests : q # r => at'[q] = at[q]
      /\ sealed'[r] = sensitive /\ \A q \in Requests : q # r => sealed'[q] = sealed[q]
  BY <1>2 DEF Upsert, Goes, MemoryInv, MemoryTypes
<1>8. \A j \in Keys :
        fact[j] \in MemoryRows /\ fact[j].id \in Requests \cup {Nobody} /\ fact[j].id # r
  <2> TAKE j \in Keys
  <2>1. fact[j] \in MemoryRows
    BY DEF MemoryInv, MemoryTypes
  <2>2. fact[j].id # Nobody => at[fact[j].id] = "ok"
    BY DEF MemoryInv, RowsAreNamed
  <2> QED
    BY <2>1, <2>2 DEF MemoryRows
<1>9. row.id \in Requests /\ row # Absent
  BY <1>4, <1>5, <1>8 DEF Absent
<1>10. RowsAreNamed'
  <2>1. \A j \in Keys : fact[j].id = Nobody <=> fact[j] = Absent
    BY DEF MemoryInv, RowsAreNamed
  <2>2. \A j \in Keys : fact[j] # Absent => at[fact[j].id] = "ok"
    BY DEF MemoryInv, RowsAreNamed
  <2>3. \A i, j \in Keys : i # j /\ fact[i] # Absent => fact[i].id # fact[j].id
    BY DEF MemoryInv, RowsAreNamed
  <2>4. \A j \in Keys : fact'[j].id = Nobody <=> fact'[j] = Absent
    BY <2>1, <1>5, <1>7, <1>9
  <2>5. \A j \in Keys : fact'[j] # Absent => at'[fact'[j].id] = "ok"
    BY <2>1, <2>2, <1>5, <1>7, <1>8, <1>9
  <2>6. \A i, j \in Keys : i # j /\ fact'[i] # Absent => fact'[i].id # fact'[j].id
    <3> SUFFICES ASSUME NEW i \in Keys, NEW j \in Keys, i # j, fact'[i] # Absent
                 PROVE  fact'[i].id # fact'[j].id
      OBVIOUS
    <3>1. CASE i = k
      BY <3>1, <2>1, <2>3, <1>5, <1>7, <1>8, <1>9
    <3>2. CASE j = k
      BY <3>2, <2>1, <2>3, <1>5, <1>7, <1>8, <1>9
    <3>3. CASE i # k /\ j # k
      BY <3>3, <2>3, <1>7
    <3> QED
      BY <3>1, <3>2, <3>3
  <2> QED
    BY <2>4, <2>5, <2>6 DEF RowsAreNamed
<1>11. TextsAreSealed'
  <2> SUFFICES ASSUME NEW j \in Keys, fact'[j] # Absent
               PROVE  /\ fact'[j].text \in Requests /\ at'[fact'[j].text] = "ok"
                      /\ fact'[j].cipher = sealed'[fact'[j].text]
    BY DEF TextsAreSealed
  <2>1. CASE j = k
    BY <2>1, <1>5, <1>7, <1>9
  <2>2. CASE j # k
    BY <2>2, <1>7 DEF MemoryInv, TextsAreSealed
  <2> QED
    BY <2>1, <2>2
<1>12. PromptsAreClear'
  BY <1>7 DEF PromptsAreClear, MemoryInv, MemoryTypes
<1> QED
  BY <1>10, <1>11, <1>12, <1>6

\* The rows and prompts are left alone, and nobody goes back.
LEMMA RowsStay ==
  ASSUME MemoryInv, fact' = fact, sealed' = sealed, prompted' = prompted,
         \A q \in Requests : at[q] = "ok" => at'[q] = "ok"
  PROVE  RowsAreNamed' /\ TextsAreSealed' /\ PromptsAreClear'
<1>1. \A k \in Keys : fact[k] # Absent => fact[k].id \in Requests
  <2> TAKE k \in Keys
  <2>1. fact[k] \in MemoryRows /\ (fact[k].id = Nobody <=> fact[k] = Absent)
    BY DEF MemoryInv, MemoryTypes, RowsAreNamed
  <2> QED
    BY <2>1 DEF MemoryRows
<1>2. RowsAreNamed'
  BY <1>1 DEF MemoryInv, RowsAreNamed
<1>3. TextsAreSealed'
  BY DEF MemoryInv, TextsAreSealed
<1>4. PromptsAreClear'
  BY DEF MemoryInv, MemoryTypes, PromptsAreClear
<1> QED
  BY <1>2, <1>3, <1>4

\* A request of the memory begins.
LEMMA AsksKeepTypes ==
  ASSUME MemoryInv, NEW r \in Requests, NEW o \in MemoryOps, NEW s \in {"find", "write", "ok"},
         Asks(r, o, s)
  PROVE  /\ op' \in [Requests -> MemoryOps]
         /\ at' \in [Requests -> {"idle", "find", "upsert", "write", "ok", "failed"}]
         /\ op'[r] = o /\ at'[r] = s /\ at[r] = "idle"
         /\ \A q \in Requests : q # r => op'[q] = op[q] /\ at'[q] = at[q]
         /\ \A q \in Requests : at[q] = "ok" => at'[q] = "ok"
BY DEF Asks, Goes, MemoryInv, MemoryTypes

LEMMA createKeeps ==
  ASSUME MemoryInv, NEW r \in Requests, NEW k \in Keys, NEW sensitive \in BOOLEAN,
         NEW conf \in Confs,
         create(r, k, sensitive, conf)
  PROVE  MemoryInv'
<1> USE MemoryAssumption
<1> DEFINE o == [NoOp EXCEPT !.name = "create"]
<1>1. o \in MemoryOps /\ o.name = "create"
  BY DEF NoOp, MemoryOps
<1>2. Asks(r, o, "ok") /\ Upsert(r, k, sensitive, conf, "manual") /\ UNCHANGED <<saw, prompted>>
  BY DEF create
<1> HIDE DEF o
<1>3. /\ op' \in [Requests -> MemoryOps] /\ op'[r] = o /\ at'[r] = "ok" /\ at[r] = "idle"
      /\ \A q \in Requests : q # r => op'[q] = op[q] /\ at'[q] = at[q]
  BY <1>1, <1>2, AsksKeepTypes
<1>4. Goes(r, "ok")
  BY <1>2 DEF Asks
<1>5. /\ fact' \in [Keys -> MemoryRows]
      /\ at' \in [Requests -> {"idle", "find", "upsert", "write", "ok", "failed"}]
      /\ sealed' \in [Requests -> BOOLEAN] /\ replaced' \in [Requests -> MemoryRows]
      /\ RowsAreNamed' /\ TextsAreSealed' /\ PromptsAreClear'
  BY <1>2, <1>3, <1>4, UpsertKeepsRows DEF Sources
<1>6. MemoryTypes'
  BY <1>2, <1>3, <1>5 DEF MemoryInv, MemoryTypes
<1>7. WritesNameRows'
  BY <1>3 DEF MemoryInv, WritesNameRows
<1>8. \A q \in Requests : q # r => replaced'[q] = replaced[q]
  BY <1>2 DEF Upsert, MemoryInv, MemoryTypes
<1>9. KeptMeansKept'
  BY <1>1, <1>2, <1>3, <1>8 DEF MemoryInv, KeptMeansKept, Kept
<1> QED
  BY <1>5, <1>6, <1>7, <1>9 DEF MemoryInv

\* A request to record a fact, of an import or a capture.
LEMMA RecordFactBegins ==
  ASSUME MemoryInv, NEW r \in Requests, NEW k \in Keys, NEW sensitive \in BOOLEAN,
         NEW conf \in Confs,
         NEW source \in Sources, Asks(r, RecordFact(k, sensitive, conf, source), "find"),
         UNCHANGED <<fact, saw, sealed, replaced, prompted>>
  PROVE  MemoryInv'
<1> USE MemoryAssumption
<1> DEFINE o == RecordFact(k, sensitive, conf, source)
<1>1. o \in MemoryOps /\ o.name = "recordFact" /\ o.key = k
  BY DEF RecordFact, NoOp, MemoryOps
<1> HIDE DEF o
<1>2. Asks(r, o, "find")
  BY DEF o
<1>3. /\ op' \in [Requests -> MemoryOps]
      /\ at' \in [Requests -> {"idle", "find", "upsert", "write", "ok", "failed"}]
      /\ op'[r] = o /\ at'[r] = "find" /\ at[r] = "idle"
      /\ \A q \in Requests : q # r => op'[q] = op[q] /\ at'[q] = at[q]
      /\ \A q \in Requests : at[q] = "ok" => at'[q] = "ok"
  BY <1>1, <1>2, AsksKeepTypes
<1>4. MemoryTypes'
  BY <1>3 DEF MemoryInv, MemoryTypes
<1>5. WritesNameRows'
  BY <1>3 DEF MemoryInv, WritesNameRows
<1>6. KeptMeansKept'
  BY <1>1, <1>3 DEF MemoryInv, KeptMeansKept, Kept
<1>7. RowsAreNamed' /\ TextsAreSealed' /\ PromptsAreClear'
  BY <1>3, RowsStay
<1> QED
  BY <1>4, <1>5, <1>6, <1>7 DEF MemoryInv

LEMMA FactFoundKeeps ==
  ASSUME MemoryInv, NEW r \in Requests, FactFound(r)
  PROVE  MemoryInv'
<1> DEFINE row == fact[op[r].key]
           kept == /\ IsLive(row) /\ row.conf > op[r].conf
                   /\ op[r].source \notin OVERRIDE_SOURCES
<1>1. at[r] = "find" /\ op[r].name = "recordFact" /\ op[r].key \in Keys /\ replaced[r] = Absent
  BY DEF FactFound, MemoryInv, KeptMeansKept
<1>2. row \in MemoryRows
  BY <1>1 DEF MemoryInv, MemoryTypes
<1>3. saw' = [saw EXCEPT ![r] = row] /\ at' = [at EXCEPT ![r] = IF kept THEN "ok" ELSE "upsert"]
  BY DEF FactFound, Goes
<1>4. UNCHANGED <<fact, op, sealed, replaced, prompted>>
  BY DEF FactFound
<1>5. /\ saw'[r] = row /\ at'[r] = (IF kept THEN "ok" ELSE "upsert")
      /\ \A q \in Requests : q # r => saw'[q] = saw[q] /\ at'[q] = at[q]
  BY <1>3 DEF MemoryInv, MemoryTypes
<1>6. Kept(r)' <=> kept
  BY <1>4, <1>5 DEF Kept, IsLive
<1>7. MemoryTypes'
  BY <1>2, <1>3, <1>4 DEF MemoryInv, MemoryTypes
<1> HIDE DEF row, kept
<1>8. WritesNameRows'
  BY <1>4, <1>5 DEF MemoryInv, WritesNameRows
<1>9. KeptMeansKept'
  <2> SUFFICES ASSUME NEW q \in Requests
               PROVE  /\ at'[q] \in {"idle", "find", "upsert"} => replaced'[q] = Absent
                      /\ at'[q] \in {"find", "upsert"}
                           => op'[q].name = "recordFact" /\ op'[q].key \in Keys
                      /\ at'[q] = "upsert" => ~Kept(q)'
                      /\ op'[q].name = "recordFact" /\ Kept(q)' => replaced'[q] = Absent
    BY DEF KeptMeansKept
  <2>1. CASE q = r
    BY <2>1, <1>1, <1>4, <1>5, <1>6
  <2>2. CASE q # r
    <3>1. Kept(q)' <=> Kept(q)
      BY <2>2, <1>4, <1>5 DEF Kept
    <3> QED
      BY <2>2, <3>1, <1>4, <1>5 DEF MemoryInv, KeptMeansKept
  <2> QED
    BY <2>1, <2>2
<1>10. \A q \in Requests : at[q] = "ok" => at'[q] = "ok"
  BY <1>1, <1>5
<1>11. RowsAreNamed' /\ TextsAreSealed' /\ PromptsAreClear'
  BY <1>4, <1>10, RowsStay
<1> QED
  BY <1>7, <1>8, <1>9, <1>11 DEF MemoryInv

LEMMA FactRecordedKeeps ==
  ASSUME MemoryInv, NEW r \in Requests, FactRecorded(r)
  PROVE  MemoryInv'
<1>1. /\ at[r] = "upsert" /\ op[r].name = "recordFact" /\ op[r].key \in Keys /\ ~Kept(r)
      /\ Upsert(r, op[r].key, op[r].flag = "on", op[r].conf, op[r].source) /\ Goes(r, "ok")
      /\ UNCHANGED <<op, saw, prompted>>
  BY DEF FactRecorded, MemoryInv, KeptMeansKept
<1>2. op[r].conf \in Confs \cup {0} /\ op[r].source \in Sources \cup {"none"}
  BY DEF MemoryInv, MemoryTypes, MemoryOps
<1>3. /\ fact' \in [Keys -> MemoryRows]
      /\ at' \in [Requests -> {"idle", "find", "upsert", "write", "ok", "failed"}]
      /\ sealed' \in [Requests -> BOOLEAN] /\ replaced' \in [Requests -> MemoryRows]
      /\ RowsAreNamed' /\ TextsAreSealed' /\ PromptsAreClear'
  <2>1. (op[r].flag = "on") \in BOOLEAN
    OBVIOUS
  <2>2. ASSUME NEW b \in BOOLEAN, b = (op[r].flag = "on")
        PROVE  Upsert(r, op[r].key, b, op[r].conf, op[r].source)
    BY <1>1, <2>2
  <2> QED
    BY <1>1, <1>2, <2>1, UpsertKeepsRows
<1>4. /\ at'[r] = "ok" /\ \A q \in Requests : q # r => at'[q] = at[q] /\ replaced'[q] = replaced[q]
  BY <1>1 DEF Goes, Upsert, MemoryInv, MemoryTypes
<1>5. MemoryTypes'
  BY <1>1, <1>3 DEF MemoryInv, MemoryTypes
<1>6. WritesNameRows'
  BY <1>1, <1>4 DEF MemoryInv, WritesNameRows
<1>7. KeptMeansKept'
  BY <1>1, <1>4 DEF MemoryInv, KeptMeansKept, Kept
<1> QED
  BY <1>3, <1>5, <1>6, <1>7 DEF MemoryInv

LEMMA LiveIdsAreRequests ==
  ASSUME MemoryInv
  PROVE  LiveIds \subseteq Requests
<1> SUFFICES ASSUME NEW k \in Keys, IsLive(fact[k])
             PROVE  fact[k].id \in Requests
  BY DEF LiveIds
<1>1. fact[k] \in MemoryRows /\ (fact[k].id = Nobody <=> fact[k] = Absent)
  BY DEF MemoryInv, MemoryTypes, RowsAreNamed
<1>2. fact[k] # Absent
  BY DEF IsLive, Absent
<1> QED
  BY <1>1, <1>2 DEF MemoryRows

\* update and remove begin, on a row that is live.
LEMMA getOwnedKeeps ==
  ASSUME MemoryInv, NEW r \in Requests, NEW o \in MemoryOps, o.name \in {"update", "remove"},
         o.id \in LiveIds, getOwned(r, o)
  PROVE  MemoryInv'
<1>1. /\ op' \in [Requests -> MemoryOps]
      /\ at' \in [Requests -> {"idle", "find", "upsert", "write", "ok", "failed"}]
      /\ op'[r] = o /\ at'[r] = "write" /\ at[r] = "idle"
      /\ \A q \in Requests : q # r => op'[q] = op[q] /\ at'[q] = at[q]
      /\ \A q \in Requests : at[q] = "ok" => at'[q] = "ok"
  BY AsksKeepTypes DEF getOwned
<1>2. UNCHANGED <<fact, sealed, replaced, prompted>>
  BY DEF getOwned
<1>3. PICK k \in Keys : saw' = [saw EXCEPT ![r] = fact[k]]
  BY DEF getOwned, At
<1>4. saw' \in [Requests -> MemoryRows] /\ \A q \in Requests : q # r => saw'[q] = saw[q]
  BY <1>3 DEF MemoryInv, MemoryTypes
<1>5. MemoryTypes'
  BY <1>1, <1>2, <1>4 DEF MemoryInv, MemoryTypes
<1>6. WritesNameRows'
  BY <1>1, LiveIdsAreRequests DEF MemoryInv, WritesNameRows
<1>7. KeptMeansKept'
  BY <1>1, <1>2, <1>4 DEF MemoryInv, KeptMeansKept, Kept
<1>8. RowsAreNamed' /\ TextsAreSealed' /\ PromptsAreClear'
  BY <1>1, <1>2, RowsStay
<1> QED
  BY <1>5, <1>6, <1>7, <1>8 DEF MemoryInv

\* A row is patched or deleted, where it is or under a key that nothing holds.
LEMMA MovedRow ==
  ASSUME MemoryInv, NEW r \in Requests, at[r] = "write",
         NEW k \in Keys, NEW to \in Keys, fact[k] # Absent, to = k \/ fact[to] = Absent,
         NEW row \in MemoryRows, row.id = fact[k].id, row # Absent,
         fact'[to] = row, to # k => fact'[k] = Absent,
         \A j \in Keys : j # k /\ j # to => fact'[j] = fact[j],
         \/ row.text = r /\ row.cipher = sealed'[r]
         \/ row.text = fact[k].text /\ row.cipher = fact[k].cipher,
         at'[r] = "ok", \A q \in Requests : q # r => at'[q] = at[q] /\ sealed'[q] = sealed[q],
         prompted' = prompted
  PROVE  RowsAreNamed' /\ TextsAreSealed' /\ PromptsAreClear'
<1>1. \A j \in Keys : fact[j].id = Nobody <=> fact[j] = Absent
  BY DEF MemoryInv, RowsAreNamed
<1>2. \A j \in Keys : fact[j] # Absent => fact[j].id \in Requests /\ at[fact[j].id] = "ok"
  <2> TAKE j \in Keys
  <2>1. fact[j] \in MemoryRows
    BY DEF MemoryInv, MemoryTypes
  <2> QED
    BY <1>1, <2>1 DEF MemoryInv, RowsAreNamed, MemoryRows
<1>3. \A j \in Keys : fact'[j].id = Nobody <=> fact'[j] = Absent
  <2>1. Absent.id = Nobody
    BY DEF Absent
  <2> QED
    BY <1>1, <2>1
<1>4. \A j \in Keys : fact'[j] # Absent => at'[fact'[j].id] = "ok"
  BY <1>2
<1>5. \A i, j \in Keys : i # j /\ fact'[i] # Absent => fact'[i].id # fact'[j].id
  <2>1. \A i, j \in Keys : i # j /\ fact[i] # Absent => fact[i].id # fact[j].id
    BY DEF MemoryInv, RowsAreNamed
  <2> SUFFICES ASSUME NEW i \in Keys, NEW j \in Keys, i # j, fact'[i] # Absent, fact'[j] # Absent
               PROVE  fact'[i].id # fact'[j].id
    BY <1>3
  <2>2. CASE i = to
    BY <2>1, <2>2
  <2>3. CASE j = to
    BY <2>1, <2>3
  <2>4. CASE i # to /\ j # to
    BY <2>1, <2>4
  <2> QED
    BY <2>2, <2>3, <2>4
<1>6. RowsAreNamed'
  BY <1>3, <1>4, <1>5 DEF RowsAreNamed
<1>7. TextsAreSealed'
  <2> SUFFICES ASSUME NEW j \in Keys, fact'[j] # Absent
               PROVE  /\ fact'[j].text \in Requests /\ at'[fact'[j].text] = "ok"
                      /\ fact'[j].cipher = sealed'[fact'[j].text]
    BY DEF TextsAreSealed
  <2>1. \A i \in Keys : fact[i] # Absent =>
          /\ fact[i].text \in Requests /\ at[fact[i].text] = "ok"
          /\ fact[i].cipher = sealed[fact[i].text]
    BY DEF MemoryInv, TextsAreSealed
  <2>2. CASE j = to
    BY <2>1, <2>2
  <2>3. CASE j # to
    BY <2>1, <2>3
  <2> QED
    BY <2>2, <2>3
<1>8. PromptsAreClear'
  BY DEF MemoryInv, MemoryTypes, PromptsAreClear
<1> QED
  BY <1>6, <1>7, <1>8

\* Only at, fact, sealed and replaced change, and the request that writes by id is through.
LEMMA WriteByIdEnds ==
  ASSUME MemoryInv, NEW r \in Requests, at[r] = "write", NEW s \in {"ok", "failed"}, Goes(r, s),
         fact' \in [Keys -> MemoryRows], sealed' \in [Requests -> BOOLEAN],
         replaced' \in [Requests -> MemoryRows],
         \A q \in Requests : q # r => replaced'[q] = replaced[q],
         UNCHANGED <<op, saw, prompted>>
  PROVE  /\ MemoryTypes' /\ WritesNameRows' /\ KeptMeansKept'
         /\ at'[r] = s /\ \A q \in Requests : q # r => at'[q] = at[q]
<1>1. /\ at' \in [Requests -> {"idle", "find", "upsert", "write", "ok", "failed"}]
      /\ at'[r] = s /\ \A q \in Requests : q # r => at'[q] = at[q]
  BY DEF Goes, MemoryInv, MemoryTypes
<1>2. MemoryTypes'
  BY <1>1 DEF MemoryInv, MemoryTypes
<1>3. WritesNameRows'
  BY <1>1 DEF MemoryInv, WritesNameRows
<1>4. KeptMeansKept'
  BY <1>1 DEF MemoryInv, KeptMeansKept, Kept, WritesNameRows
<1> QED
  BY <1>1, <1>2, <1>3, <1>4

LEMMA PatchedRow ==
  ASSUME MemoryInv, NEW r \in Requests, NEW row \in MemoryRows
  PROVE  /\ Patched(r, row) \in MemoryRows /\ Patched(r, row).id = row.id
         /\ op[r].text => Patched(r, row).text = r /\ Patched(r, row).cipher = EffectiveFlag(r)
         /\ ~op[r].text => Patched(r, row).text = row.text /\ Patched(r, row).cipher = row.cipher
<1> DEFINE flagged == IF op[r].flag = "keep" THEN row
                      ELSE [row EXCEPT !.sensitive = op[r].flag = "on"]
           rated == IF op[r].conf = 0 THEN flagged ELSE [flagged EXCEPT !.conf = op[r].conf]
<1>1. op[r].conf \in Confs \cup {0} /\ saw[r] \in MemoryRows
  BY DEF MemoryInv, MemoryTypes, MemoryOps
<1>2. EffectiveFlag(r) \in BOOLEAN
  BY DEF EffectiveFlag
<1>3. /\ flagged \in MemoryRows /\ flagged.id = row.id /\ flagged.text = row.text
      /\ flagged.cipher = row.cipher
  BY DEF MemoryRows
<1> HIDE DEF flagged
<1>4. /\ rated \in MemoryRows /\ rated.id = row.id /\ rated.text = row.text
      /\ rated.cipher = row.cipher
  BY <1>1, <1>3 DEF MemoryRows
<1>5. Patched(r, row) = (IF op[r].text THEN Encoded(r, rated, EffectiveFlag(r)) ELSE rated)
  BY DEF Patched, flagged
<1> HIDE DEF rated
<1>6. ASSUME NEW b \in BOOLEAN
      PROVE  /\ Encoded(r, rated, b) \in MemoryRows /\ Encoded(r, rated, b).id = row.id
             /\ Encoded(r, rated, b).text = r /\ Encoded(r, rated, b).cipher = b
  BY <1>4 DEF MemoryRows, Encoded
<1> QED
  BY <1>2, <1>4, <1>5, <1>6

LEMMA UpdateWrittenKeeps ==
  ASSUME MemoryInv, NEW r \in Requests, UpdateWritten(r)
  PROVE  MemoryInv'
<1>1. at[r] = "write" /\ op[r].id \in Requests /\ UNCHANGED <<op, saw, prompted>>
  BY DEF UpdateWritten, MemoryInv, WritesNameRows
<1>2. PICK k \in At(op[r].id) :
        LET to == IF op[r].key = Nobody THEN k ELSE op[r].key
        IN  IF to # k /\ fact[to] # Absent
            THEN Goes(r, "failed") /\ UNCHANGED <<fact, sealed, replaced>>
            ELSE /\ fact' = [[fact EXCEPT ![k] = Absent] EXCEPT ![to] = Patched(r, fact[k])]
                 /\ sealed' = [sealed EXCEPT ![r] =
                      /\ op[r].text
                      /\ (op[r].flag = "on" \/ (op[r].flag = "keep" /\ saw[r].sensitive))]
                 /\ replaced' = [replaced EXCEPT ![r] = fact[k]]
                 /\ Goes(r, "ok")
  BY DEF UpdateWritten
<1> DEFINE to == IF op[r].key = Nobody THEN k ELSE op[r].key
<1>3. /\ k \in Keys /\ to \in Keys /\ fact[k] \in MemoryRows /\ fact[k].id = op[r].id
      /\ fact[k] # Absent
  BY <1>1, MemoryAssumption DEF At, MemoryInv, MemoryTypes, MemoryOps, Absent
<1>4. CASE to # k /\ fact[to] # Absent
  <2>1. Goes(r, "failed") /\ UNCHANGED <<fact, sealed, replaced>>
    BY <1>2, <1>4
  <2>2. /\ fact' \in [Keys -> MemoryRows] /\ sealed' \in [Requests -> BOOLEAN]
        /\ replaced' \in [Requests -> MemoryRows]
    BY <2>1 DEF MemoryInv, MemoryTypes
  <2>3. /\ MemoryTypes' /\ WritesNameRows' /\ KeptMeansKept'
        /\ at'[r] = "failed" /\ \A q \in Requests : q # r => at'[q] = at[q]
    BY <1>1, <2>1, <2>2, WriteByIdEnds
  <2>4. RowsAreNamed' /\ TextsAreSealed' /\ PromptsAreClear'
    BY <1>1, <2>1, <2>3, RowsStay
  <2> QED
    BY <2>3, <2>4 DEF MemoryInv
<1>5. CASE to = k \/ fact[to] = Absent
  <2> DEFINE row == Patched(r, fact[k])
             mark == op[r].text /\ EffectiveFlag(r)
  <2>1. /\ fact' = [[fact EXCEPT ![k] = Absent] EXCEPT ![to] = row]
        /\ sealed' = [sealed EXCEPT ![r] = mark] /\ Goes(r, "ok")
        /\ replaced' = [replaced EXCEPT ![r] = fact[k]]
    BY <1>2, <1>5 DEF EffectiveFlag
  <2>2. /\ row \in MemoryRows /\ row.id = fact[k].id
        /\ op[r].text => row.text = r /\ row.cipher = EffectiveFlag(r)
        /\ ~op[r].text => row.text = fact[k].text /\ row.cipher = fact[k].cipher
    BY <1>3, PatchedRow
  <2>3. mark \in BOOLEAN /\ (op[r].text => mark = EffectiveFlag(r))
    BY DEF EffectiveFlag
  <2> HIDE DEF row, mark
  <2>4. /\ fact' \in [Keys -> MemoryRows] /\ sealed' \in [Requests -> BOOLEAN]
        /\ sealed'[r] = mark /\ \A q \in Requests : q # r => sealed'[q] = sealed[q]
        /\ replaced' \in [Requests -> MemoryRows]
        /\ \A q \in Requests : q # r => replaced'[q] = replaced[q]
    BY <1>3, <2>1, <2>2, <2>3, AbsentIsARow DEF MemoryInv, MemoryTypes
  <2>5. /\ MemoryTypes' /\ WritesNameRows' /\ KeptMeansKept'
        /\ at'[r] = "ok" /\ \A q \in Requests : q # r => at'[q] = at[q]
    BY <1>1, <2>1, <2>4, WriteByIdEnds
  <2>6. row # Absent
    BY <1>1, <1>3, <2>2, MemoryAssumption DEF Absent
  <2>7. /\ fact'[to] = row /\ (to # k => fact'[k] = Absent)
        /\ \A j \in Keys : j # k /\ j # to => fact'[j] = fact[j]
    BY <1>3, <2>1 DEF MemoryInv, MemoryTypes
  <2>8. \/ row.text = r /\ row.cipher = sealed'[r]
        \/ row.text = fact[k].text /\ row.cipher = fact[k].cipher
    BY <2>2, <2>3, <2>4
  <2> HIDE DEF to
  <2>9. RowsAreNamed' /\ TextsAreSealed' /\ PromptsAreClear'
    BY <1>1, <1>3, <1>5, <2>2, <2>4, <2>5, <2>6, <2>7, <2>8, MovedRow
  <2> QED
    BY <2>5, <2>9 DEF MemoryInv
<1> QED
  BY <1>4, <1>5

LEMMA DeletedRow ==
  ASSUME NEW row \in MemoryRows
  PROVE  /\ Deleted(row) \in MemoryRows /\ Deleted(row).id = row.id /\ Deleted(row) # Absent
         /\ Deleted(row).text = row.text /\ Deleted(row).cipher = row.cipher
BY DEF Deleted, MemoryRows, Absent

LEMMA RemoveWrittenKeeps ==
  ASSUME MemoryInv, NEW r \in Requests, RemoveWritten(r)
  PROVE  MemoryInv'
<1>1. /\ at[r] = "write" /\ op[r].id \in Requests /\ Goes(r, "ok")
      /\ UNCHANGED <<op, saw, sealed, replaced, prompted>> /\ replaced \in [Requests -> MemoryRows]
  BY DEF RemoveWritten, MemoryInv, MemoryTypes, WritesNameRows
<1>2. PICK k \in At(op[r].id) : fact' = [fact EXCEPT ![k] = Deleted(fact[k])]
  BY DEF RemoveWritten
<1>3. k \in Keys /\ fact[k] \in MemoryRows /\ fact[k] # Absent
  BY <1>1, MemoryAssumption DEF At, MemoryInv, MemoryTypes, Absent
<1> DEFINE row == Deleted(fact[k])
<1>4. /\ row \in MemoryRows /\ row.id = fact[k].id /\ row # Absent
      /\ row.text = fact[k].text /\ row.cipher = fact[k].cipher
  BY <1>3, DeletedRow
<1> HIDE DEF row
<1>5. /\ fact' \in [Keys -> MemoryRows] /\ sealed' \in [Requests -> BOOLEAN]
      /\ fact'[k] = row /\ \A j \in Keys : j # k => fact'[j] = fact[j]
  BY <1>1, <1>2, <1>3, <1>4 DEF MemoryInv, MemoryTypes, row
<1>6. /\ MemoryTypes' /\ WritesNameRows' /\ KeptMeansKept'
      /\ at'[r] = "ok" /\ \A q \in Requests : q # r => at'[q] = at[q]
  BY <1>1, <1>5, WriteByIdEnds
<1>7. RowsAreNamed' /\ TextsAreSealed' /\ PromptsAreClear'
  BY <1>1, <1>3, <1>4, <1>5, <1>6, MovedRow
<1> QED
  BY <1>6, <1>7 DEF MemoryInv

LEMMA removeManyKeeps ==
  ASSUME MemoryInv, NEW r \in Requests, NEW K, removeMany(r, K)
  PROVE  MemoryInv'
<1> DEFINE o == [NoOp EXCEPT !.name = "removeMany"]
<1>1. o \in MemoryOps /\ o.name = "removeMany"
  BY DEF NoOp, MemoryOps
<1>2. Asks(r, o, "ok") /\ UNCHANGED <<saw, sealed, replaced, prompted>>
  BY DEF removeMany
<1> HIDE DEF o
<1>3. /\ op' \in [Requests -> MemoryOps]
      /\ at' \in [Requests -> {"idle", "find", "upsert", "write", "ok", "failed"}]
      /\ op'[r] = o /\ at'[r] = "ok" /\ at[r] = "idle"
      /\ \A q \in Requests : q # r => op'[q] = op[q] /\ at'[q] = at[q]
      /\ \A q \in Requests : at[q] = "ok" => at'[q] = "ok"
  BY <1>1, <1>2, AsksKeepTypes
<1>4. /\ fact' = [k \in Keys |-> IF k \in K /\ IsLive(fact[k]) THEN Deleted(fact[k]) ELSE fact[k]]
      /\ \A k \in Keys : fact[k] \in MemoryRows
  BY DEF removeMany, MemoryInv, MemoryTypes
<1>5. \A k \in Keys : IsLive(fact[k]) => fact[k] # Absent
  BY DEF IsLive, Absent
<1>6. \A k \in Keys : /\ fact'[k] \in MemoryRows /\ fact'[k].id = fact[k].id
                      /\ fact'[k].text = fact[k].text /\ fact'[k].cipher = fact[k].cipher
                      /\ (fact'[k] = Absent <=> fact[k] = Absent)
  <2> TAKE k \in Keys
  <2>1. fact'[k] = (IF k \in K /\ IsLive(fact[k]) THEN Deleted(fact[k]) ELSE fact[k])
    BY <1>4
  <2> QED
    BY <1>4, <1>5, <2>1, DeletedRow
<1>7. fact' \in [Keys -> MemoryRows]
  BY <1>4, <1>6
<1>8. MemoryTypes'
  BY <1>2, <1>3, <1>7 DEF MemoryInv, MemoryTypes
<1>9. WritesNameRows'
  BY <1>3 DEF MemoryInv, WritesNameRows
<1>10. KeptMeansKept'
  BY <1>1, <1>2, <1>3 DEF MemoryInv, KeptMeansKept, Kept
<1>11. RowsAreNamed'
  <2>1. \A k \in Keys : fact'[k].id = Nobody <=> fact'[k] = Absent
    BY <1>6 DEF MemoryInv, RowsAreNamed
  <2>2. \A k \in Keys : fact[k] # Absent => fact[k].id \in Requests
    BY <1>4 DEF MemoryInv, RowsAreNamed, MemoryRows
  <2>3. \A k \in Keys : fact'[k] # Absent => at'[fact'[k].id] = "ok"
    BY <1>3, <1>6, <2>2 DEF MemoryInv, RowsAreNamed
  <2>4. \A k, j \in Keys : k # j /\ fact'[k] # Absent => fact'[k].id # fact'[j].id
    BY <1>6 DEF MemoryInv, RowsAreNamed
  <2> QED
    BY <2>1, <2>3, <2>4 DEF RowsAreNamed
<1>12. TextsAreSealed'
  BY <1>2, <1>3, <1>6 DEF MemoryInv, TextsAreSealed
<1>13. PromptsAreClear'
  BY <1>2, <1>3 DEF MemoryInv, MemoryTypes, PromptsAreClear
<1> QED
  BY <1>8, <1>9, <1>10, <1>11, <1>12, <1>13 DEF MemoryInv

LEMMA forPromptKeeps ==
  ASSUME MemoryInv, NEW r \in Requests, forPrompt(r)
  PROVE  MemoryInv'
<1> DEFINE o == [NoOp EXCEPT !.name = "prompt"]
           rows == {fact[k] : k \in {j \in Keys : Promptable(fact[j])}}
           new == {[text |-> row.text, marked |-> row.sensitive] :
                     row \in {w \in rows : ~w.cipher}}
<1>1. o \in MemoryOps /\ o.name = "prompt"
  BY DEF NoOp, MemoryOps
<1>2. /\ Asks(r, o, "ok") /\ UNCHANGED <<fact, saw, sealed, replaced>>
      /\ prompted' = prompted \cup new
  BY DEF forPrompt
<1> HIDE DEF o
<1>3. /\ op' \in [Requests -> MemoryOps]
      /\ at' \in [Requests -> {"idle", "find", "upsert", "write", "ok", "failed"}]
      /\ op'[r] = o /\ at'[r] = "ok" /\ at[r] = "idle"
      /\ \A q \in Requests : q # r => op'[q] = op[q] /\ at'[q] = at[q]
      /\ \A q \in Requests : at[q] = "ok" => at'[q] = "ok"
  BY <1>1, <1>2, AsksKeepTypes
<1>4. \A p \in new : /\ p \in [text : Requests, marked : BOOLEAN] /\ ~p.marked
                     /\ at[p.text] = "ok" /\ ~sealed[p.text]
  <2> SUFFICES ASSUME NEW k \in Keys, Promptable(fact[k]), ~fact[k].cipher
               PROVE  LET p == [text |-> fact[k].text, marked |-> fact[k].sensitive]
                      IN  /\ p \in [text : Requests, marked : BOOLEAN] /\ ~p.marked
                          /\ at[p.text] = "ok" /\ ~sealed[p.text]
    OBVIOUS
  <2>1. fact[k] \in MemoryRows
    BY DEF MemoryInv, MemoryTypes
  <2>2. fact[k] # Absent /\ ~fact[k].sensitive
    BY DEF Promptable, IsLive, Absent
  <2>3. /\ fact[k].text \in Requests /\ at[fact[k].text] = "ok"
        /\ fact[k].cipher = sealed[fact[k].text]
    BY <2>2 DEF MemoryInv, TextsAreSealed
  <2> QED
    BY <2>1, <2>2, <2>3 DEF MemoryRows
<1> HIDE DEF new
<1>5. MemoryTypes'
  BY <1>2, <1>3, <1>4 DEF MemoryInv, MemoryTypes
<1>6. WritesNameRows'
  BY <1>3 DEF MemoryInv, WritesNameRows
<1>7. KeptMeansKept'
  BY <1>1, <1>2, <1>3 DEF MemoryInv, KeptMeansKept, Kept
<1>8. RowsAreNamed' /\ TextsAreSealed'
  <2>1. \A k \in Keys : fact[k] # Absent => fact[k].id \in Requests
    <3> TAKE k \in Keys
    <3>1. fact[k] \in MemoryRows /\ (fact[k].id = Nobody <=> fact[k] = Absent)
      BY DEF MemoryInv, MemoryTypes, RowsAreNamed
    <3> QED
      BY <3>1 DEF MemoryRows
  <2>2. RowsAreNamed'
    BY <1>2, <1>3, <2>1 DEF MemoryInv, RowsAreNamed
  <2>3. TextsAreSealed'
    BY <1>2, <1>3 DEF MemoryInv, TextsAreSealed
  <2> QED
    BY <2>2, <2>3
<1>9. PromptsAreClear'
  BY <1>2, <1>3, <1>4 DEF MemoryInv, MemoryTypes, PromptsAreClear
<1> QED
  BY <1>5, <1>6, <1>7, <1>8, <1>9 DEF MemoryInv

LEMMA MemoryInitially ==
  ASSUME MemoryInit
  PROVE  MemoryInv
<1> USE DEF MemoryInit
<1>1. NoOp \in MemoryOps /\ Absent.id = Nobody /\ NoOp.name = "none"
  BY DEF NoOp, MemoryOps, Absent
<1>2. MemoryTypes
  BY <1>1, AbsentIsARow DEF MemoryTypes
<1>3. RowsAreNamed /\ WritesNameRows /\ TextsAreSealed /\ PromptsAreClear
  BY <1>1 DEF RowsAreNamed, WritesNameRows, TextsAreSealed, PromptsAreClear
<1>4. KeptMeansKept
  BY <1>1 DEF KeptMeansKept
<1> QED
  BY <1>2, <1>3, <1>4 DEF MemoryInv

LEMMA MemoryStands ==
  ASSUME MemoryInv, UNCHANGED memVars
  PROVE  MemoryInv'
<1> USE DEF memVars, MemoryInv
<1>1. MemoryTypes'
  BY DEF MemoryTypes
<1>2. RowsAreNamed' /\ WritesNameRows' /\ TextsAreSealed'
  BY DEF RowsAreNamed, WritesNameRows, TextsAreSealed
<1>3. PromptsAreClear'
  BY DEF PromptsAreClear
<1>4. KeptMeansKept'
  BY DEF KeptMeansKept, Kept
<1> QED
  BY <1>1, <1>2, <1>3, <1>4

\* Every step keeps the invariant of the memory.
LEMMA MemoryInvKept ==
  ASSUME MemoryInv, [Next]_vars
  PROVE  MemoryInv'
<1>1. CASE UNCHANGED memVars
  BY <1>1, MemoryStands
<1>2. ASSUME NEW r \in Requests, MemoryStatement(r)
      PROVE  MemoryInv'
  BY <1>2, FactFoundKeeps, FactRecordedKeeps, UpdateWrittenKeeps, RemoveWrittenKeeps
     DEF MemoryStatement
<1>3. ASSUME NEW r \in Requests, Captures(r)
      PROVE  MemoryInv'
  BY <1>3, RecordFactBegins DEF Captures, Sources
<1>4. ASSUME NEW r \in Requests, MemoryRequest(r)
      PROVE  MemoryInv'
  <2>1. ASSUME NEW k \in Keys, NEW s \in BOOLEAN, NEW c \in Confs, create(r, k, s, c)
        PROVE  MemoryInv'
    BY <2>1, createKeeps
  <2>2. ASSUME NEW k \in Keys, NEW s \in BOOLEAN, NEW c \in Confs,
               NEW source \in {"import", "manual"},
               import(r, k, s, c, source)
        PROVE  MemoryInv'
    BY <2>2, RecordFactBegins DEF import, Sources
  <2>3. ASSUME NEW id \in LiveIds, remove(r, id)
        PROVE  MemoryInv'
    <3>1. LET o == [NoOp EXCEPT !.name = "remove", !.id = id]
          IN  o \in MemoryOps /\ o.name = "remove" /\ o.id = id
      BY LiveIdsAreRequests DEF NoOp, MemoryOps
    <3> QED
      BY <2>3, <3>1, getOwnedKeeps DEF remove
  <2>4. ASSUME NEW id \in LiveIds, NEW p \in Patches, update(r, id, p)
        PROVE  MemoryInv'
    <3>1. /\ p.flag \in {"keep", "on", "off"} /\ p.text \in BOOLEAN /\ p.conf \in Confs \cup {0}
          /\ p.key \in Keys \cup {Nobody}
      BY MemoryAssumption
    <3>2. LET o == [NoOp EXCEPT !.name = "update", !.id = id, !.flag = p.flag,
                                !.text = p.text, !.conf = p.conf, !.key = p.key]
          IN  o \in MemoryOps /\ o.name = "update" /\ o.id = id
      BY <3>1, LiveIdsAreRequests DEF NoOp, MemoryOps
    <3> QED
      BY <2>4, <3>2, getOwnedKeeps DEF update
  <2>5. ASSUME NEW K, removeMany(r, K)
        PROVE  MemoryInv'
    BY <2>5, removeManyKeeps
  <2>6. CASE forPrompt(r)
    BY <2>6, forPromptKeeps
  <2> QED
    BY <1>4, <2>1, <2>2, <2>3, <2>4, <2>5, <2>6 DEF MemoryRequest
<1> QED
  BY <1>1, <1>2, <1>3, <1>4, MemorySteps

\* MemoryService at rest and at work: whatever the requests, the memory's rows keep
\* their names and the marks they were sealed under.
THEOREM MemoryHolds == Spec => []MemoryInv
<1>1. Init => MemoryInv
  BY MemoryInitially DEF Init
<1>2. MemoryInv /\ [Next]_vars => MemoryInv'
  BY MemoryInvKept
<1> QED
  BY <1>1, <1>2, PTL DEF Spec

\* recordFact lets a live fact that is more sure stand, unless the source overrides it
\* or the fact was written after recordFact had read it.
THEOREM SureFactsStand == Spec => []SurerFactsAreKept
<1>1. MemoryInv => SurerFactsAreKept
  <2> SUFFICES ASSUME MemoryInv, NEW r \in Requests, op[r].name = "recordFact",
                      op[r].source \notin OVERRIDE_SOURCES, IsLive(replaced[r]),
                      replaced[r].conf > op[r].conf, replaced[r] = saw[r]
               PROVE  FALSE
    BY DEF SurerFactsAreKept
  <2>1. replaced[r] = Absent
    BY DEF MemoryInv, KeptMeansKept, Kept
  <2> QED
    BY <2>1 DEF IsLive, Absent
<1> QED
  BY <1>1, MemoryHolds, PTL

\* No prompt carries in the clear a value whose fact is marked at that moment, nor one
\* that was encoded as sensitive when it was written.
LEMMA PromptsHold == Spec => []PromptsSpareSensitive
<1>1. MemoryInv => PromptsSpareSensitive
  BY DEF MemoryInv, PromptsAreClear, PromptsSpareSensitive
<1> QED
  BY <1>1, MemoryHolds, PTL

\* Whatever a step does, a request that is through keeps what it asked, saw and replaced.
LEMMA ThroughIsThrough ==
  ASSUME MemoryInv, [Next]_vars, NEW q \in Requests, at[q] = "ok"
  PROVE  op'[q] = op[q] /\ at'[q] = "ok" /\ saw'[q] = saw[q] /\ replaced'[q] = replaced[q]
<1> USE DEF MemoryInv, MemoryTypes, Goes, Asks, Upsert
<1>1. CASE UNCHANGED memVars
  BY <1>1 DEF memVars
<1>2. ASSUME NEW r \in Requests, MemoryStatement(r)
      PROVE  /\ op'[q] = op[q] /\ at'[q] = "ok" /\ saw'[q] = saw[q]
             /\ replaced'[q] = replaced[q]
  BY <1>2 DEF MemoryStatement, FactFound, FactRecorded, UpdateWritten, RemoveWritten
<1>3. ASSUME NEW r \in Requests, MemoryRequest(r) \/ Captures(r)
      PROVE  /\ op'[q] = op[q] /\ at'[q] = "ok" /\ saw'[q] = saw[q]
             /\ replaced'[q] = replaced[q]
  BY <1>3 DEF MemoryRequest, create, import, remove, update, getOwned, removeMany, forPrompt,
     Captures
<1> QED
  BY <1>1, <1>2, <1>3, MemorySteps

\* Rows that keep their text, their encoding and their mark keep the explanation.
Explained(text) ==
  \E r \in Requests : TurnedTheFlag(r, text) \/ (MissedTheFlag(r) /\ text = r)

LEMMA ExplanationsLast ==
  ASSUME MemoryInv, [Next]_vars, NEW text, Explained(text)
  PROVE  Explained(text)'
BY ThroughIsThrough DEF Explained, TurnedTheFlag, MissedTheFlag

LEMMA PatchedMark ==
  ASSUME MemoryInv, NEW r \in Requests, NEW row \in MemoryRows
  PROVE  Patched(r, row).sensitive = (IF op[r].flag = "keep" THEN row.sensitive
                                      ELSE op[r].flag = "on")
<1> DEFINE flagged == IF op[r].flag = "keep" THEN row
                      ELSE [row EXCEPT !.sensitive = op[r].flag = "on"]
           rated == IF op[r].conf = 0 THEN flagged ELSE [flagged EXCEPT !.conf = op[r].conf]
           mark == IF op[r].flag = "keep" THEN row.sensitive ELSE op[r].flag = "on"
<1>1. flagged \in MemoryRows /\ flagged.sensitive = mark
  BY DEF MemoryRows
<1>2. op[r].conf \in Confs \cup {0}
  BY DEF MemoryInv, MemoryTypes, MemoryOps
<1> HIDE DEF flagged, mark
<1>3. rated \in MemoryRows /\ rated.sensitive = mark
  BY <1>1, <1>2 DEF MemoryRows
<1>4. Patched(r, row) = (IF op[r].text THEN Encoded(r, rated, EffectiveFlag(r)) ELSE rated)
  BY DEF Patched, flagged
<1> HIDE DEF rated
<1>5. Encoded(r, rated, EffectiveFlag(r)).sensitive = mark
  BY <1>3 DEF Encoded, MemoryRows
<1> QED
  BY <1>3, <1>4, <1>5 DEF mark

\* What a step leaves in a row: nothing, the text, encoding and mark that some row had,
\* a value encoded for its mark, or what an update makes of it.
LEMMA RowsRewritten ==
  ASSUME MemoryInv, [Next]_vars, NEW k \in Keys
  PROVE  \/ \E j \in Keys : /\ fact'[k].text = fact[j].text /\ fact'[k].cipher = fact[j].cipher
                           /\ fact'[k].sensitive = fact[j].sensitive
         \/ fact'[k].cipher = fact'[k].sensitive
         \/ \E r \in Requests, j \in Keys :
              /\ op[r].name = "update" /\ op'[r] = op[r] /\ saw'[r] = saw[r] /\ at'[r] = "ok"
              /\ replaced'[r] = fact[j] /\ fact'[k] = Patched(r, fact[j])
<1> USE DEF MemoryInv, MemoryTypes
<1>1. CASE fact' = fact
  BY <1>1
<1>2. ASSUME NEW r \in Requests, NEW key \in Keys, NEW sensitive, NEW conf, NEW source,
             Upsert(r, key, sensitive, conf, source)
      PROVE  fact'[k] = fact[k] \/ fact'[k].cipher = fact'[k].sensitive
  <2>1. CASE k # key
    BY <1>2, <2>1 DEF Upsert
  <2>2. CASE k = key
    <3> DEFINE text == Encoded(r, fact[key], sensitive)
    <3>1. text.cipher = sensitive /\ text = [fact[key] EXCEPT !.text = r, !.cipher = sensitive]
      BY DEF Encoded, MemoryRows
    <3>2. fact'[key] = [text EXCEPT !.state = "live", !.sensitive = sensitive,
                          !.conf = conf, !.source = source, !.id = IF @ = Nobody THEN r ELSE @]
      BY <1>2 DEF Upsert
    <3>3. DOMAIN text = {"state", "id", "text", "cipher", "sensitive", "conf", "source"}
      BY <3>1 DEF MemoryRows
    <3> HIDE DEF text
    <3>4. fact'[key].cipher = text.cipher /\ fact'[key].sensitive = sensitive
      BY <3>2, <3>3
    <3> QED
      BY <2>2, <3>1, <3>4
  <2> QED
    BY <2>1, <2>2
<1>3. ASSUME NEW r \in Requests, MemoryStatement(r)
      PROVE  \/ \E j \in Keys : /\ fact'[k].text = fact[j].text
                               /\ fact'[k].cipher = fact[j].cipher
                               /\ fact'[k].sensitive = fact[j].sensitive
             \/ fact'[k].cipher = fact'[k].sensitive
             \/ \E q \in Requests, j \in Keys :
                  /\ op[q].name = "update" /\ op'[q] = op[q] /\ saw'[q] = saw[q]
                  /\ at'[q] = "ok" /\ replaced'[q] = fact[j] /\ fact'[k] = Patched(q, fact[j])
  <2>1. CASE FactFound(r)
    BY <1>1, <2>1 DEF FactFound
  <2>2. CASE FactRecorded(r)
    BY <1>2, <2>2 DEF FactRecorded, KeptMeansKept
  <2>3. CASE UpdateWritten(r)
    <3>1. PICK j \in At(op[r].id) :
            LET to == IF op[r].key = Nobody THEN j ELSE op[r].key
            IN  \/ fact' = fact
                \/ /\ fact' = [[fact EXCEPT ![j] = Absent] EXCEPT ![to] = Patched(r, fact[j])]
                   /\ replaced' = [replaced EXCEPT ![r] = fact[j]] /\ at' = [at EXCEPT ![r] = "ok"]
      BY <2>3 DEF UpdateWritten, Goes
    <3>2. op[r].name = "update" /\ UNCHANGED <<op, saw>> /\ j \in Keys
      BY <2>3 DEF UpdateWritten, At
    <3> DEFINE to == IF op[r].key = Nobody THEN j ELSE op[r].key
    <3>3. CASE fact' = fact
      BY <1>1, <3>3
    <3>4. CASE fact' # fact
      <4>1. /\ fact' = [[fact EXCEPT ![j] = Absent] EXCEPT ![to] = Patched(r, fact[j])]
            /\ replaced'[r] = fact[j] /\ at'[r] = "ok"
        BY <3>1, <3>4
      <4> HIDE DEF to
      <4>2. fact'[k] \in {Patched(r, fact[j]), Absent, fact[k]}
        BY <4>1
      <4>3. Absent.cipher = Absent.sensitive
        BY DEF Absent
      <4> QED
        BY <3>2, <4>1, <4>2, <4>3
    <3> QED
      BY <3>3, <3>4
  <2>4. CASE RemoveWritten(r)
    <3>1. PICK j \in Keys : fact' = [fact EXCEPT ![j] = Deleted(fact[j])]
      BY <2>4 DEF RemoveWritten, At
    <3>2. fact'[k] = fact[k] \/ fact'[k] = Deleted(fact[k])
      BY <3>1
    <3> QED
      BY <3>2 DEF Deleted, MemoryRows
  <2> QED
    BY <1>3, <2>1, <2>2, <2>3, <2>4 DEF MemoryStatement
<1>4. ASSUME NEW r \in Requests, MemoryRequest(r)
      PROVE  \/ \E j \in Keys : /\ fact'[k].text = fact[j].text
                               /\ fact'[k].cipher = fact[j].cipher
                               /\ fact'[k].sensitive = fact[j].sensitive
             \/ fact'[k].cipher = fact'[k].sensitive
  <2>1. ASSUME NEW key \in Keys, NEW s \in BOOLEAN, NEW c \in Confs, create(r, key, s, c)
        PROVE  fact'[k] = fact[k] \/ fact'[k].cipher = fact'[k].sensitive
    BY <1>2, <2>1 DEF create
  <2>2. ASSUME NEW K, removeMany(r, K)
        PROVE  fact'[k] = fact[k] \/ fact'[k] = Deleted(fact[k])
    BY <2>2 DEF removeMany
  <2>3. fact'[k] = Deleted(fact[k]) =>
          /\ fact'[k].text = fact[k].text /\ fact'[k].cipher = fact[k].cipher
          /\ fact'[k].sensitive = fact[k].sensitive
    BY DEF Deleted, MemoryRows
  <2>4. \/ fact' = fact
        \/ \E key \in Keys, s \in BOOLEAN, c \in Confs : create(r, key, s, c)
        \/ \E K : removeMany(r, K)
    BY <1>4 DEF MemoryRequest, import, remove, update, getOwned, forPrompt
  <2> QED
    BY <1>1, <2>1, <2>2, <2>3, <2>4
<1>5. ASSUME NEW r \in Requests, Captures(r)
      PROVE  fact' = fact
  BY <1>5 DEF Captures
<1> QED
  BY <1>1, <1>3, <1>4, <1>5, MemorySteps DEF memVars

\* A value whose encoding contradicts its mark is the work of a patch of the flag alone, or
\* of a patch of the value that had read another flag.
LEMMA MarksAreHeeded == Spec => []EncodedAsFlagged
<1>1. Init => EncodedAsFlagged
  <2>1. Absent.cipher = Absent.sensitive
    BY DEF Absent
  <2>2. Init => \A k \in Keys : fact[k] = Absent
    BY DEF Init, MemoryInit
  <2> QED
    BY <2>1, <2>2 DEF EncodedAsFlagged
<1>2. ASSUME MemoryInv, EncodedAsFlagged, [Next]_vars
      PROVE  EncodedAsFlagged'
  <2> SUFFICES ASSUME NEW k \in Keys, fact'[k].cipher # fact'[k].sensitive
               PROVE  Explained(fact[k].text)'
    BY DEF EncodedAsFlagged, Explained
  <2>1. ASSUME NEW j \in Keys, fact'[k].text = fact[j].text, fact[j].cipher # fact[j].sensitive
        PROVE  Explained(fact[k].text)'
    <3>1. Explained(fact[j].text)
      BY <1>2, <2>1 DEF EncodedAsFlagged, Explained
    <3>2. ASSUME NEW text, Explained(text)
          PROVE  Explained(text)'
      BY <1>2, <3>2, ExplanationsLast
    <3> QED
      BY <2>1, <3>1, <3>2 DEF Explained
  <2>2. ASSUME NEW r \in Requests, NEW j \in Keys, op[r].name = "update", op'[r] = op[r],
               saw'[r] = saw[r], at'[r] = "ok", replaced'[r] = fact[j],
               fact'[k] = Patched(r, fact[j])
        PROVE  Explained(fact[k].text)'
    <3>1. fact[j] \in MemoryRows /\ saw[r] \in MemoryRows /\ op[r].flag \in {"keep", "on", "off"}
      BY <1>2 DEF MemoryInv, MemoryTypes, MemoryOps
    <3>2. fact'[k].sensitive = (IF op[r].flag = "keep" THEN fact[j].sensitive
                                ELSE op[r].flag = "on")
      BY <1>2, <2>2, <3>1, PatchedMark
    <3>3. /\ op[r].text => fact'[k].text = r /\ fact'[k].cipher = EffectiveFlag(r)
          /\ ~op[r].text => /\ fact'[k].text = fact[j].text
                            /\ fact'[k].cipher = fact[j].cipher
      BY <1>2, <2>2, <3>1, PatchedRow
    <3>4. CASE op[r].text
      <4>1. op[r].flag = "keep" /\ saw[r].sensitive # fact[j].sensitive
        BY <3>1, <3>2, <3>3, <3>4 DEF EffectiveFlag, MemoryRows
      <4>2. MissedTheFlag(r)'
        BY <2>2, <3>4, <4>1 DEF MissedTheFlag
      <4> QED
        BY <3>3, <3>4, <4>2 DEF Explained
    <3>5. CASE ~op[r].text /\ op[r].flag # "keep" /\ fact[j].sensitive # (op[r].flag = "on")
      BY <2>2, <3>3, <3>5 DEF Explained, TurnedTheFlag
    <3>6. CASE ~op[r].text /\ (op[r].flag = "keep" \/ fact[j].sensitive = (op[r].flag = "on"))
      BY <2>1, <3>2, <3>3, <3>6
    <3> QED
      BY <3>4, <3>5, <3>6
  <2> QED
    BY <1>2, <2>1, <2>2, RowsRewritten
<1> QED
  BY <1>1, <1>2, MemoryHolds, PTL DEF Spec

\* What the mark of a fact means at rest and in prompts, for any requests in any order.
THEOREM SecretsHold == Spec => []SensitiveStaysSealed
<1>1. EncodedAsFlagged /\ PromptsSpareSensitive => SensitiveStaysSealed
  BY DEF SensitiveStaysSealed
<1> QED
  BY <1>1, MarksAreHeeded, PromptsHold, PTL

-----------------------------------------------------------------------------
(* The steps of the jobs *)

\* A request whose read matches rows of its organisation only is answered from those.
LEMMA FoundIsOwned ==
  ASSUME NEW r \in Requests, NEW ctx,
         Scoped(ctx, "Job", "findFirst", Owned(r), owner) # {}
  PROVE  ask[r].id \in Ids /\ Exists(ask[r].id) /\ job[ask[r].id].org = ask[r].org
<1>1. Scoped(ctx, "Job", "findFirst", Owned(r), owner) \subseteq Owned(r)
  BY DEF Scoped
<1> QED
  BY <1>1 DEF Owned

\* A create in a request's own context stays in the organisation that is asked for.
LEMMA InsertedInOwnOrg ==
  ASSUME NEW org
  PROVE  Inserted(RequestContext(org, enforce), "Job", "create", org) = org
BY DEF Inserted, RequestContext

\* Nothing changes but the statement that r is at, or the answer it gets.
LEMMA PassesKeeps ==
  ASSUME JobsInv, NEW r \in Requests, step[r] # "idle", step[r] # "ok",
         NEW s \in {"missing", "write", "check", "duplicate", "insert", "error", "ok"}, Goto(r, s),
         UNCHANGED <<job, ask, enforce, writers, rivals, taken>>,
         s \in {"check", "write"} => ask[r].name = "update" /\ job[ask[r].id].org = ask[r].org,
         s = "check" => ask[r].title # Keep,
         s = "insert" => ask[r].name \in {"create", "assess"},
         s = "write" /\ ask[r].title # Keep => Others(r) = {},
         s \in {"duplicate", "error"} => rivals[r] \cup taken[r] # {},
         s = "error" /\ ask[r].name = "update" => taken[r] # {}
  PROVE  JobsInv'
<1>1. /\ step' \in [Requests -> Steps] /\ step'[r] = s
      /\ \A q \in Requests : q # r => step'[q] = step[q]
  BY DEF Goto, JobsInv, JobTypes, Steps, Answers
<1>2. JobTypes'
  BY <1>1 DEF JobsInv, JobTypes
<1>3. \A j \in Ids : Exists(j)' <=> Exists(j)
  BY DEF Exists
<1>4. RowsAreFiled'
  BY <1>1, <1>3 DEF JobsInv, RowsAreFiled, Ids
<1>5. AsksFit'
  <2> SUFFICES ASSUME NEW q \in Requests
               PROVE  Fits(q)'
    BY DEF AsksFit
  <2>1. CASE q = r
    BY <2>1, <1>1 DEF JobsInv, AsksFit, Fits, Exists
  <2>2. CASE q # r
    BY <2>2, <1>1 DEF JobsInv, AsksFit, Fits, Exists
  <2> QED
    BY <2>1, <2>2
<1>6. WritersAreOwners'
  <2>1. \A q \in Requests : step[q] # "idle" => step'[q] # "idle"
    BY <1>1
  <2>2. \A j \in Ids : writers[j] \subseteq Requests
    BY DEF JobsInv, JobTypes
  <2> QED
    BY <1>3, <2>1, <2>2 DEF JobsInv, WritersAreOwners
<1>7. \A q \in Requests : Others(q)' = Others(q)
  BY DEF Others, Holders, Target, Exists
<1>8. RivalsAreKnown'
  BY <1>1, <1>7 DEF JobsInv, RivalsAreKnown
<1>9. ClashesAreReal'
  BY <1>1 DEF JobsInv, ClashesAreReal
<1> QED
  BY <1>2, <1>4, <1>5, <1>6, <1>8, <1>9 DEF JobsInv

LEMMA FindKeeps ==
  ASSUME JobsInv, NEW r \in Requests, Find(r)
  PROVE  JobsInv'
<1> DEFINE row == Scoped(RequestContext(ask[r].org, enforce), "Job", "findFirst", Owned(r), owner)
           s == IF row = {} THEN "missing" ELSE IF ask[r].title = Keep THEN "write" ELSE "check"
<1>1. step[r] = "find" /\ ask[r].name = "update" /\ Passes(r, s)
  BY DEF Find, JobsInv, AsksFit, Fits
<1>2. row # {} => job[ask[r].id].org = ask[r].org
  BY FoundIsOwned
<1> HIDE DEF row
<1>3. /\ s \in {"missing", "write", "check"} /\ (s # "missing" => row # {})
      /\ s = "check" => ask[r].title # Keep
      /\ s = "write" => ask[r].title = Keep
  OBVIOUS
<1> HIDE DEF s
<1>4. Goto(r, s) /\ UNCHANGED <<job, ask, enforce, writers, rivals, taken>>
  BY <1>1 DEF Passes
<1> QED
  BY <1>1, <1>2, <1>3, <1>4, PassesKeeps

LEMMA assertTitleFreeKeeps ==
  ASSUME JobsInv, NEW r \in Requests, assertTitleFree(r)
  PROVE  JobsInv'
<1> DEFINE s == IF Clashes(r) # {} THEN "duplicate"
                ELSE IF ask[r].name = "create" THEN "insert" ELSE "write"
<1>1. /\ step[r] = "check" /\ Passes(r, s) /\ ask[r].name \in {"create", "update"}
      /\ ask[r].name = "update" => job[ask[r].id].org = ask[r].org
      /\ Others(r) \subseteq rivals[r] \cup taken[r]
  BY DEF assertTitleFree, JobsInv, AsksFit, Fits, RivalsAreKnown
<1>2. /\ s \in {"duplicate", "insert", "write"}
      /\ s = "duplicate" => Others(r) # {}
      /\ s = "insert" => ask[r].name = "create"
      /\ s = "write" => ask[r].name = "update" /\ Others(r) = {}
  BY <1>1 DEF Clashes
<1> HIDE DEF s
<1>3. Goto(r, s) /\ UNCHANGED <<job, ask, enforce, writers, rivals, taken>>
  BY <1>1 DEF Passes
<1>4. s = "duplicate" => rivals[r] \cup taken[r] # {}
  BY <1>1, <1>2
<1> QED
  BY <1>1, <1>2, <1>3, <1>4, PassesKeeps

\* A request of the jobs begins.
LEMMA BeginKeeps ==
  ASSUME JobsInv, NEW r \in Requests, NEW a \in JobAsks, NEW s \in {"find", "check", "insert"},
         Begin(r, a, s), a.name # "none", a.org \in Orgs,
         a.name = "update" => a.id \in Ids /\ Exists(a.id), a.name # "update" => a.id = Nobody,
         a.name # "update" => a.title \in Titles, s = "find" <=> a.name = "update",
         s = "check" => a.name = "create"
  PROVE  JobsInv'
<1>1. /\ step[r] = "idle" /\ Goto(r, s) /\ ask' = [ask EXCEPT ![r] = a]
      /\ rivals' = [rivals EXCEPT ![r] = Holders(a.org, a.title) \ {a.id}]
      /\ UNCHANGED <<job, enforce, writers, taken>>
  BY DEF Begin
<1>2. /\ step' \in [Requests -> Steps] /\ step'[r] = s
      /\ ask' \in [Requests -> JobAsks] /\ ask'[r] = a
      /\ \A q \in Requests : q # r => step'[q] = step[q] /\ ask'[q] = ask[q]
  BY <1>1 DEF Goto, JobsInv, JobTypes, Steps, Answers
<1>3. Holders(a.org, a.title) \subseteq Ids
  BY DEF Holders
<1>4. /\ rivals' \in [Requests -> SUBSET Ids] /\ rivals'[r] = Holders(a.org, a.title) \ {a.id}
      /\ \A q \in Requests : q # r => rivals'[q] = rivals[q]
  BY <1>1, <1>3 DEF JobsInv, JobTypes
<1>5. JobTypes'
  BY <1>1, <1>2, <1>4 DEF JobsInv, JobTypes
<1>6. \A j \in Ids : Exists(j)' <=> Exists(j)
  BY <1>1 DEF Exists
<1>7. RowsAreFiled'
  <2>1. ~Exists(r)
    BY <1>1 DEF JobsInv, RowsAreFiled
  <2> QED
    BY <1>1, <1>2, <1>6, <2>1 DEF JobsInv, RowsAreFiled, Ids
<1>8. AsksFit'
  <2> SUFFICES ASSUME NEW q \in Requests
               PROVE  Fits(q)'
    BY DEF AsksFit
  <2>1. CASE q = r
    <3>1. a.name \in {"create", "assess", "update"}
      BY DEF JobAsks
    <3> QED
      BY <2>1, <3>1, <1>1, <1>2, JobsAssumption DEF Fits, Exists
  <2>2. CASE q # r
    BY <2>2, <1>1, <1>2 DEF JobsInv, AsksFit, Fits, Exists
  <2> QED
    BY <2>1, <2>2
<1>9. WritersAreOwners'
  <2>1. \A j \in Ids : \A q \in writers[j] : q \in Requests /\ q # r
    BY <1>1 DEF JobsInv, JobTypes, WritersAreOwners
  <2> QED
    BY <1>1, <1>2, <1>6, <2>1 DEF JobsInv, WritersAreOwners
<1>10. RivalsAreKnown'
  <2>1. \A q \in Requests : q # r => Others(q)' = Others(q)
    BY <1>1, <1>2 DEF Others, Holders, Target, Exists
  <2>2. Others(r)' \subseteq rivals'[r]
    <3>1. Others(r)' = Holders(a.org, a.title) \ {IF a.name = "update" THEN a.id ELSE r}
      BY <1>1, <1>2 DEF Others, Holders, Target, Exists
    <3>2. Nobody \notin Ids
      BY MemoryAssumption, JobsAssumption DEF Ids
    <3> QED
      BY <1>3, <1>4, <3>1, <3>2
  <2>3. \A q \in Requests : q # r =>
          /\ step[q] # "idle" => Others(q) \subseteq rivals[q] \cup taken[q]
          /\ step[q] = "write" /\ ask[q].title # Keep => Others(q) \subseteq taken[q]
    BY DEF JobsInv, RivalsAreKnown
  <2>4. \A q \in Requests :
          /\ step'[q] # "idle" => Others(q)' \subseteq rivals'[q] \cup taken'[q]
          /\ step'[q] = "write" /\ ask'[q].title # Keep => Others(q)' \subseteq taken'[q]
    BY <1>1, <1>2, <1>4, <2>1, <2>2, <2>3
  <2> QED
    BY <2>4 DEF RivalsAreKnown
<1>11. ClashesAreReal'
  BY <1>1, <1>2, <1>4 DEF JobsInv, ClashesAreReal
<1> QED
  BY <1>5, <1>7, <1>8, <1>9, <1>10, <1>11 DEF JobsInv

\* A row is stored: the request's own new one, or the one that it was let at.
LEMMA StoresKeeps ==
  ASSUME JobsInv, NEW r \in Requests, NEW j \in Ids, NEW row \in JobRows,
         NEW s \in {"ok", "extract"},
         Stores(r, j, row, s), step[r] \in {"insert", "write"},
         row.org \in Orgs, row.title \in Titles, row.org = ask[r].org,
         Exists(j) => job[j].org = row.org, ~Exists(j) => j = r /\ s = "ok",
         \/ Holders(row.org, row.title) \ {j} = {}
         \/ Exists(j) /\ job[j].title = row.title,
         s = "extract" => ask[r].name = "update"
  PROVE  JobsInv'
<1>1. /\ job' = [job EXCEPT ![j] = row] /\ writers' = [writers EXCEPT ![j] = writers[j] \cup {r}]
      /\ Goto(r, s) /\ UNCHANGED <<ask, enforce, rivals>>
      /\ taken' = [q \in Requests |->
           IF /\ ask[q].org = row.org /\ ask[q].title = row.title /\ Target(q) # j
              /\ job[j].title # row.title
           THEN taken[q] \cup {j} ELSE taken[q]]
  BY DEF Stores
<1>2. /\ step' \in [Requests -> Steps] /\ step'[r] = s
      /\ \A q \in Requests : q # r => step'[q] = step[q]
  BY <1>1 DEF Goto, JobsInv, JobTypes, Steps, Answers
<1>3. /\ job' \in [Ids -> JobRows] /\ job'[j] = row /\ \A i \in Ids : i # j => job'[i] = job[i]
      /\ writers' \in [Ids -> SUBSET Requests] /\ writers'[j] = writers[j] \cup {r}
      /\ \A i \in Ids : i # j => writers'[i] = writers[i]
  BY <1>1 DEF JobsInv, JobTypes
<1>4. /\ taken' \in [Requests -> SUBSET Ids]
      /\ \A q \in Requests : taken[q] \subseteq taken'[q]
      /\ \A q \in Requests : /\ ask[q].org = row.org /\ ask[q].title = row.title /\ Target(q) # j
                             /\ job[j].title # row.title
                             => j \in taken'[q]
  BY <1>1 DEF JobsInv, JobTypes
<1>5. JobTypes'
  BY <1>1, <1>2, <1>3, <1>4 DEF JobsInv, JobTypes
<1>6. /\ \A i \in Ids : job[i] = NoJob => job[i].title \notin Titles
      /\ row # NoJob
  BY JobsAssumption DEF NoJob
<1>7. Exists(j)' /\ \A i \in Ids : i # j => (Exists(i)' <=> Exists(i))
  BY <1>3, <1>6 DEF Exists
<1>8. RowsAreFiled'
  <2>1. \A i \in Ids : Exists(i)' => job'[i].org \in Orgs /\ job'[i].title \in Titles
    BY <1>3, <1>7 DEF JobsInv, RowsAreFiled
  <2>2. \A q \in Requests : Exists(q)' => step'[q] = "ok"
    <3> SUFFICES ASSUME NEW q \in Requests, Exists(q)'
                 PROVE  step'[q] = "ok"
      OBVIOUS
    <3>1. q \in Ids
      BY DEF Ids
    <3>2. Exists(q) => step[q] = "ok"
      BY DEF JobsInv, RowsAreFiled
    <3> QED
      BY <3>1, <3>2, <1>2, <1>7
  <2>3. ASSUME NEW i \in Ids, i # j, Exists(i), job[i].org = row.org
        PROVE  job[i].title # row.title
    <3>1. CASE Holders(row.org, row.title) \ {j} = {}
      BY <2>3, <3>1 DEF Holders
    <3>2. CASE Exists(j) /\ job[j].title = row.title
      BY <2>3, <3>2 DEF JobsInv, RowsAreFiled
    <3> QED
      BY <3>1, <3>2
  <2>4. ASSUME NEW i \in Ids, NEW k \in Ids, i # k, Exists(i)', job'[i].org = job'[k].org
        PROVE  job'[i].title # job'[k].title
    <3>1. CASE i = j
      <4>1. Exists(k)
        <5>1. k # j /\ job'[k] = job[k] /\ job[k].org \in Orgs
          BY <1>3, <2>4, <3>1
        <5> QED
          BY <5>1, JobsAssumption DEF Exists, NoJob
      <4> QED
        BY <1>3, <2>3, <2>4, <3>1, <4>1
    <3>2. CASE k = j
      BY <1>3, <1>7, <2>3, <2>4, <3>2
    <3>3. CASE i # j /\ k # j
      BY <1>3, <1>7, <2>4, <3>3 DEF JobsInv, RowsAreFiled
    <3> QED
      BY <3>1, <3>2, <3>3
  <2> QED
    BY <2>1, <2>2, <2>4 DEF RowsAreFiled
<1>9. AsksFit'
  <2> SUFFICES ASSUME NEW q \in Requests
               PROVE  Fits(q)'
    BY DEF AsksFit
  <2>1. Fits(q)
    BY DEF JobsInv, AsksFit
  <2>2. ask[q].name = "update" =>
          job'[ask[q].id] # NoJob /\ job'[ask[q].id].org = job[ask[q].id].org
    BY <1>3, <1>6, <2>1 DEF Fits, Exists
  <2>3. CASE q = r
    BY <1>1, <1>2, <2>1, <2>2, <2>3 DEF Fits, Exists
  <2>4. CASE q # r
    BY <1>1, <1>2, <2>1, <2>2, <2>4 DEF Fits, Exists
  <2> QED
    BY <2>3, <2>4
<1>10. WritersAreOwners'
  <2>1. \A i \in Ids : ~Exists(i)' => writers'[i] = {}
    BY <1>3, <1>7 DEF JobsInv, WritersAreOwners
  <2>2. ASSUME NEW i \in Ids, NEW q \in writers'[i]
        PROVE  step'[q] # "idle" /\ ask[q].org = job'[i].org
    <3>1. q \in Requests
      BY <1>3
    <3>2. CASE i = j
      <4>1. q = r \/ (q \in writers[j] /\ Exists(j))
        BY <1>3, <3>2 DEF JobsInv, WritersAreOwners
      <4>2. q \in writers[j] => step[q] # "idle" /\ ask[q].org = job[j].org
        BY DEF JobsInv, WritersAreOwners
      <4> QED
        BY <1>2, <1>3, <3>1, <3>2, <4>1, <4>2
    <3>3. CASE i # j
      BY <1>2, <1>3, <3>1, <3>3 DEF JobsInv, WritersAreOwners
    <3> QED
      BY <3>2, <3>3
  <2> QED
    BY <1>1, <2>1, <2>2 DEF WritersAreOwners
<1>11. RivalsAreKnown'
  <2>1. ASSUME NEW q \in Requests, NEW i \in Others(q)'
        PROVE  i \in Others(q) \/ i \in taken'[q]
    <3>1. /\ i \in Ids /\ Exists(i)' /\ job'[i].org = ask[q].org /\ job'[i].title = ask[q].title
          /\ i # Target(q)
      BY <1>1, <2>1 DEF Others, Holders, Target
    <3>2. CASE i # j
      BY <1>3, <1>7, <3>1, <3>2 DEF Others, Holders
    <3>3. CASE i = j
      <4>1. CASE job[j].title # row.title
        BY <1>3, <1>4, <3>1, <3>3, <4>1
      <4>2. CASE job[j].title = row.title
        BY <1>3, <1>6, <3>1, <3>3, <4>2 DEF Others, Holders, Exists
      <4> QED
        BY <4>1, <4>2
    <3> QED
      BY <3>2, <3>3
  <2>2. ASSUME NEW q \in Requests, step'[q] # "idle"
        PROVE  Others(q)' \subseteq rivals[q] \cup taken'[q]
    BY <1>2, <1>4, <2>1, <2>2 DEF JobsInv, RivalsAreKnown
  <2>3. ASSUME NEW q \in Requests, step'[q] = "write", ask[q].title # Keep
        PROVE  Others(q)' \subseteq taken'[q]
    BY <1>2, <1>4, <2>1, <2>3 DEF JobsInv, RivalsAreKnown
  <2> QED
    BY <1>1, <2>2, <2>3 DEF RivalsAreKnown
<1>12. ClashesAreReal'
  BY <1>1, <1>2, <1>4 DEF JobsInv, ClashesAreReal
<1> QED
  BY <1>5, <1>8, <1>9, <1>10, <1>11, <1>12 DEF JobsInv

LEMMA InsertKeeps ==
  ASSUME JobsInv, NEW r \in Requests, Insert(r)
  PROVE  JobsInv'
<1> DEFINE org == ask[r].org
           row == [org |-> org, title |-> ask[r].title, status |-> "draft"]
<1>1. /\ step[r] = "insert" /\ ask[r].name \in {"create", "assess"}
      /\ org \in Orgs /\ ask[r].title \in Titles
      /\ Others(r) \subseteq rivals[r] \cup taken[r]
  BY DEF Insert, JobsInv, AsksFit, Fits, RivalsAreKnown
<1>2. IF Holders(org, ask[r].title) # {}
      THEN Passes(r, IF ask[r].name = "create" THEN "duplicate" ELSE "error")
      ELSE Stores(r, r, row, "ok")
  BY InsertedInOwnOrg DEF Insert
<1>3. ~Exists(r) /\ r \in Ids
  BY <1>1 DEF JobsInv, RowsAreFiled, Ids
<1>4. CASE Holders(org, ask[r].title) # {}
  <2> DEFINE s == IF ask[r].name = "create" THEN "duplicate" ELSE "error"
  <2>1. Others(r) # {}
    BY <1>1, <1>3, <1>4 DEF Others, Target, Holders
  <2>2. Goto(r, s) /\ UNCHANGED <<job, ask, enforce, writers, rivals, taken>>
    BY <1>2, <1>4 DEF Passes
  <2>3. s \in {"duplicate", "error"} /\ ask[r].name # "update"
    BY <1>1
  <2> HIDE DEF s
  <2> QED
    BY <1>1, <2>1, <2>2, <2>3, PassesKeeps
<1>5. CASE Holders(org, ask[r].title) = {}
  <2>1. Stores(r, r, row, "ok")
    BY <1>2, <1>5
  <2>2. row \in JobRows /\ row.org = org /\ row.title = ask[r].title
    BY <1>1 DEF JobRows, JobStatus
  <2> HIDE DEF row
  <2> QED
    BY <1>1, <1>3, <1>5, <2>1, <2>2, StoresKeeps
<1> QED
  BY <1>4, <1>5

LEMMA WriteKeeps ==
  ASSUME JobsInv, NEW r \in Requests, Write(r)
  PROVE  JobsInv'
<1> DEFINE j == ask[r].id
           row == [job[j] EXCEPT !.title = IF ask[r].title = Keep THEN @ ELSE ask[r].title,
                                 !.status = IF ask[r].status = "won" THEN "won" ELSE @]
           s == IF ask[r].status = "won" THEN "extract" ELSE "ok"
<1>1. /\ step[r] = "write" /\ ask[r].name = "update" /\ j \in Ids /\ Exists(j)
      /\ job[j].org = ask[r].org /\ ask[r].org \in Orgs
      /\ ask[r].title # Keep => Others(r) \subseteq taken[r]
  BY DEF Write, JobsInv, AsksFit, Fits, RivalsAreKnown
<1>2. /\ job[j] \in JobRows /\ job[j].org \in Orgs /\ job[j].title \in Titles
      /\ ask[r].title \in Titles \cup {Keep} /\ ask[r].status \in JobStatus
  BY <1>1 DEF JobsInv, JobTypes, RowsAreFiled, JobAsks
<1>3. IF ask[r].title # Keep /\ Holders(job[j].org, ask[r].title) \ {j} # {}
      THEN Passes(r, "error")
      ELSE Stores(r, j, row, s)
  BY DEF Write
<1>4. /\ row \in JobRows /\ row.org = job[j].org /\ s \in {"ok", "extract"}
      /\ row.title = (IF ask[r].title = Keep THEN job[j].title ELSE ask[r].title)
  BY <1>2 DEF JobRows, JobStatus
<1>5. Others(r) = Holders(job[j].org, ask[r].title) \ {j}
  BY <1>1 DEF Others, Target
<1> HIDE DEF row, j, s
<1>6. CASE ask[r].title # Keep /\ Holders(job[j].org, ask[r].title) \ {j} # {}
  <2>1. Goto(r, "error") /\ UNCHANGED <<job, ask, enforce, writers, rivals, taken>>
    BY <1>3, <1>6 DEF Passes
  <2> QED
    BY <1>1, <1>5, <1>6, <2>1, PassesKeeps
<1>7. CASE ~(ask[r].title # Keep /\ Holders(job[j].org, ask[r].title) \ {j} # {})
  <2>1. Stores(r, j, row, s)
    BY <1>3, <1>7
  <2>2. \/ Holders(row.org, row.title) \ {j} = {}
        \/ Exists(j) /\ job[j].title = row.title
    BY <1>1, <1>4, <1>7
  <2>3. row.title \in Titles /\ row.org \in Orgs
    BY <1>2, <1>4
  <2> QED
    BY <1>1, <1>4, <2>1, <2>2, <2>3, StoresKeeps
<1> QED
  BY <1>6, <1>7

LEMMA JobsInitially ==
  ASSUME Init
  PROVE  JobsInv
<1> USE DEF Init
<1>1. /\ NoJob \in JobRows /\ NoAsk \in JobAsks /\ NoAsk.name = "none"
      /\ NoJob.org = NoOrg /\ NoJob.title = Keep
  BY DEF NoJob, NoAsk, JobRows, JobAsks, JobStatus
<1> DEFINE old == [org |-> Home, title |-> SeedTitle, status |-> "draft"]
<1>2. old \in JobRows /\ old.org = Home /\ old.title = SeedTitle
  BY JobsAssumption DEF JobRows, JobStatus
<1>3. job = [j \in Ids |-> IF j = Seed THEN old ELSE NoJob]
  OBVIOUS
<1> HIDE DEF old
<1>4. JobTypes
  BY <1>1, <1>2, <1>3 DEF JobTypes, Steps
<1>5. \A j \in Ids : (Exists(j) <=> j = Seed) /\ (j # Seed => job[j] = NoJob)
  BY <1>1, <1>2, <1>3, JobsAssumption DEF Exists
<1>6. \A r \in Requests : r \in Ids /\ r # Seed
  BY JobsAssumption DEF Ids
<1>7. RowsAreFiled
  <2>1. Seed \in Ids => job[Seed] = old
    BY <1>3
  <2> QED
    BY <1>1, <1>2, <1>3, <1>5, <1>6, <2>1, JobsAssumption DEF RowsAreFiled
<1>8. AsksFit
  BY <1>1 DEF AsksFit, Fits
<1>9. WritersAreOwners
  BY DEF WritersAreOwners
<1>10. RivalsAreKnown /\ ClashesAreReal
  BY DEF RivalsAreKnown, ClashesAreReal
<1> QED
  BY <1>4, <1>7, <1>8, <1>9, <1>10 DEF JobsInv

LEMMA JobsStand ==
  ASSUME JobsInv, UNCHANGED jobVars
  PROVE  JobsInv'
<1> USE DEF jobVars, JobsInv
<1>1. JobTypes'
  BY DEF JobTypes
<1>2. RowsAreFiled'
  BY DEF RowsAreFiled, Exists
<1>3. AsksFit'
  BY DEF AsksFit, Fits, Exists
<1>4. WritersAreOwners'
  BY DEF WritersAreOwners, Exists
<1>5. RivalsAreKnown' /\ ClashesAreReal'
  BY DEF RivalsAreKnown, ClashesAreReal, Others, Holders, Target, Exists
<1> QED
  BY <1>1, <1>2, <1>3, <1>4, <1>5

\* Every step keeps the invariant of the jobs.
LEMMA JobsInvKept ==
  ASSUME JobsInv, [Next]_vars
  PROVE  JobsInv'
<1>1. CASE UNCHANGED vars
  BY <1>1, JobsStand DEF vars, jobVars
<1>2. ASSUME NEW r \in Requests, UNCHANGED jobVars
      PROVE  JobsInv'
  BY <1>2, JobsStand
<1>3. ASSUME NEW r \in Requests, JobStep(r)
      PROVE  JobsInv'
  <2>1. ASSUME NEW o \in Orgs, NEW t \in Titles, createJob(r, o, t) \/ assess(r, o, t)
        PROVE  JobsInv'
    <3> DEFINE a(n) == [NoAsk EXCEPT !.name = n, !.org = o, !.title = t]
    <3>1. \A n \in {"create", "assess"} :
            a(n) \in JobAsks /\ a(n).name = n /\ a(n).org = o /\ a(n).title = t /\ a(n).id = Nobody
      BY DEF NoAsk, JobAsks, JobStatus
    <3>2. Begin(r, a("create"), "check") \/ Begin(r, a("assess"), "insert")
      BY <2>1 DEF createJob, assess
    <3> HIDE DEF a
    <3> QED
      BY <3>1, <3>2, BeginKeeps
  <2>2. ASSUME NEW o \in Orgs, NEW j \in Ids, NEW t \in Titles \cup {Keep}, NEW s \in JobStatus,
               updateJob(r, o, j, t, s)
        PROVE  JobsInv'
    <3> DEFINE a == [name |-> "update", org |-> o, id |-> j, title |-> t, status |-> s]
    <3>1. a \in JobAsks /\ a.name = "update" /\ a.org = o /\ a.id = j
      BY DEF JobAsks
    <3>2. Exists(j) /\ Begin(r, a, "find")
      BY <2>2 DEF updateJob
    <3> HIDE DEF a
    <3> QED
      BY <3>1, <3>2, BeginKeeps
  <2>3. CASE captureFromOutcome(r)
    <3>1. /\ step[r] = "extract" /\ Goto(r, "ok")
          /\ UNCHANGED <<job, ask, enforce, writers, rivals, taken>>
      BY <2>3 DEF captureFromOutcome
    <3> QED
      BY <3>1, PassesKeeps
  <2> QED
    BY <1>3, <2>1, <2>2, <2>3, FindKeeps, assertTitleFreeKeeps, InsertKeeps, WriteKeeps DEF JobStep
<1> QED
  BY <1>1, <1>2, <1>3 DEF Next

\* JobsService: rows, requests and rivals stay in step, whoever races with whom.
THEOREM JobsHold == Spec => []JobsInv
<1>1. Init => JobsInv
  BY JobsInitially
<1>2. JobsInv /\ [Next]_vars => JobsInv'
  BY JobsInvKept
<1> QED
  BY <1>1, <1>2, PTL DEF Spec

\* Every variable of JobsService and MemoryService keeps its type; no organisation ever
\* has two jobs of one title, and no two keys hold the same fact.
THEOREM TypeCorrect == Spec => []TypeOK
<1>1. JobsInv /\ MemoryInv => TypeOK
  <2>1. JobsInv => job \in [Ids -> JobRows] /\ step \in [Requests -> Steps] /\ RowsAreFiled
    BY DEF JobsInv, JobTypes
  <2>2. MemoryInv => MemoryTypeOK
    BY DEF MemoryInv, MemoryTypes, MemoryRows, RowsAreNamed, MemoryTypeOK
  <2> QED
    BY <2>1, <2>2 DEF TypeOK, JobRows, Steps, RowsAreFiled
<1> QED
  BY <1>1, JobsHold, MemoryHolds, PTL

\* JobsService writes by id only what a scoped read has let the request at: a job is
\* changed by requests of its own organisation only, with the extension enforced or not.
THEOREM OwnOrgHolds == Spec => []OwnOrgOnly
<1>1. JobsInv => OwnOrgOnly
  BY DEF JobsInv, WritersAreOwners, OwnOrgOnly
<1> QED
  BY <1>1, JobsHold, PTL

\* assertTitleFree and the unique index refuse a title only for a job that had it, and
\* an update fails on the index only when another job took the title meanwhile.
THEOREM RefusalsAreReal == Spec => []ClashesAreReal
<1>1. JobsInv => ClashesAreReal
  BY DEF JobsInv
<1> QED
  BY <1>1, JobsHold, PTL

-----------------------------------------------------------------------------
(* The figures of the dashboard, for any set of jobs in any state: the funnel narrows,
   nothing is counted on both sides of a split, and a rate is a percentage. *)

\* Two disjoint finite sets: their sizes add up.
LEMMA DisjointSizes ==
  ASSUME NEW A, NEW B, IsFiniteSet(A), IsFiniteSet(B), A \cap B = {}
  PROVE  /\ IsFiniteSet(A \cup B)
         /\ Cardinality(A \cup B) = Cardinality(A) + Cardinality(B)
         /\ Cardinality(A) \in Nat /\ Cardinality(B) \in Nat
<1>1. /\ IsFiniteSet(A \cup B)
      /\ Cardinality(A \cup B) = Cardinality(A) + Cardinality(B) - Cardinality(A \cap B)
  BY FS_Union
<1>2. Cardinality(A \cap B) = 0
  BY FS_EmptySet
<1>3. Cardinality(A) \in Nat /\ Cardinality(B) \in Nat
  BY FS_CardinalityType
<1> QED
  BY <1>1, <1>2, <1>3

\* The jobs of one status are finitely many.
LEMMA StatusFinite ==
  ASSUME NEW row, IsFiniteSet(DOMAIN row), NEW s
  PROVE  IsFiniteSet(With(row, s)) /\ Count(row, s) \in Nat
<1>1. With(row, s) \in SUBSET (DOMAIN row)
  BY DEF With
<1>2. IsFiniteSet(With(row, s))
  BY <1>1, FS_Subset
<1> QED
  BY <1>2, FS_CardinalityType DEF Count

\* Math.round of a quotient that is at most 100 is at most 100, and not negative.
LEMMA RoundedPercent ==
  ASSUME NEW x \in Nat, NEW y \in Nat \ {0}, x <= 100 * y
  PROVE  Rounded(x, y) \in 0..100
<1>1. 2 * x + y \in Nat /\ 2 * y \in Nat /\ 2 * y > 0 /\ 2 * x + y < 101 * (2 * y)
  OBVIOUS
<1> DEFINE q == (2 * x + y) \div (2 * y)
<1>2. q \in Int /\ (2 * y) * q <= 2 * x + y /\ 2 * x + y < (2 * y) * (q + 1)
  BY <1>1, SMTT(30)
<1>3. q >= 0
  <2>1. SUFFICES ASSUME q <= -1 PROVE FALSE
    BY <1>2
  <2>2. (2 * y) * (q + 1) <= 0
    BY <1>1, <1>2, <2>1, SMTT(30)
  <2> QED
    BY <1>1, <1>2, <2>2
<1>4. q <= 100
  <2>1. SUFFICES ASSUME q >= 101 PROVE FALSE
    BY <1>2
  <2>2. (2 * y) * q >= (2 * y) * 101
    BY <1>1, <1>2, <2>1, SMTT(30)
  <2> QED
    BY <1>1, <1>2, <2>2
<1> QED
  BY <1>2, <1>3, <1>4 DEF Rounded

\* AnalyticsService.summary: no more deals are decided than applications were sent,
\* and no more applications were sent than there are jobs.
THEOREM FunnelNarrows ==
  ASSUME NEW row, IsFiniteSet(DOMAIN row)
  PROVE  LET s == Summary(row) IN s.won + s.lost <= s.sent /\ s.sent <= s.total
<1> DEFINE N(t) == With(row, t)
           A == N("sent") \cup N("viewed")
           B == A \cup N("negotiation")
           C == B \cup N("won")
           E == C \cup N("lost")
<1>1. /\ IsFiniteSet(N("sent")) /\ IsFiniteSet(N("viewed")) /\ IsFiniteSet(N("negotiation"))
      /\ IsFiniteSet(N("won")) /\ IsFiniteSet(N("lost"))
  BY StatusFinite
<1>2. /\ N("sent") \cap N("viewed") = {} /\ A \cap N("negotiation") = {}
      /\ B \cap N("won") = {} /\ C \cap N("lost") = {}
  BY DEF With
<1>3. E \in SUBSET (DOMAIN row)
  BY DEF With
<1>4. /\ Count(row, "sent") = Cardinality(N("sent"))
      /\ Count(row, "viewed") = Cardinality(N("viewed"))
      /\ Count(row, "negotiation") = Cardinality(N("negotiation"))
      /\ Count(row, "won") = Cardinality(N("won"))
      /\ Count(row, "lost") = Cardinality(N("lost"))
  BY DEF Count
<1> HIDE DEF N
<1>5. /\ IsFiniteSet(A) /\ Cardinality(A) = Cardinality(N("sent")) + Cardinality(N("viewed"))
      /\ Cardinality(N("sent")) \in Nat /\ Cardinality(N("viewed")) \in Nat
  BY <1>1, <1>2, DisjointSizes
<1> HIDE DEF A
<1>6. /\ IsFiniteSet(B) /\ Cardinality(B) = Cardinality(A) + Cardinality(N("negotiation"))
      /\ Cardinality(N("negotiation")) \in Nat
  BY <1>1, <1>2, <1>5, DisjointSizes
<1> HIDE DEF B
<1>7. /\ IsFiniteSet(C) /\ Cardinality(C) = Cardinality(B) + Cardinality(N("won"))
      /\ Cardinality(N("won")) \in Nat
  BY <1>1, <1>2, <1>6, DisjointSizes
<1> HIDE DEF C
<1>8. /\ IsFiniteSet(E) /\ Cardinality(E) = Cardinality(C) + Cardinality(N("lost"))
      /\ Cardinality(N("lost")) \in Nat
  BY <1>1, <1>2, <1>7, DisjointSizes
<1> HIDE DEF E
<1>9. Cardinality(E) <= Cardinality(DOMAIN row)
  BY <1>3, FS_Subset
<1>10. Sent(row) = Cardinality(E) /\ Count(row, "won") + Count(row, "lost") <= Sent(row)
  BY <1>4, <1>5, <1>6, <1>7, <1>8 DEF Sent
<1> QED
  BY <1>9, <1>10 DEF Summary

\* A job that was flagged "avoid" and heeded is never also counted as applied for,
\* and the heeded ones are among the assessed.
THEOREM HeededOrApplied ==
  ASSUME NEW row, IsFiniteSet(DOMAIN row)
  PROVE  LET s == Summary(row)
         IN  s.avoidHeeded + s.applied <= s.total /\ s.avoidHeeded <= s.assessed
<1> DEFINE D == DOMAIN row
<1>1. /\ Assessed(row) \in SUBSET D /\ Applied(row) \in SUBSET D
      /\ AvoidHeeded(row) \in SUBSET Assessed(row)
  BY DEF Assessed, Applied, AvoidHeeded
<1>2. IsFiniteSet(Assessed(row)) /\ IsFiniteSet(Applied(row))
  BY <1>1, FS_Subset
<1>3. IsFiniteSet(AvoidHeeded(row)) /\ Cardinality(AvoidHeeded(row)) <= Cardinality(Assessed(row))
  BY <1>1, <1>2, FS_Subset
<1>4. AvoidHeeded(row) \cap Applied(row) = {}
  <2>1. \A j \in AvoidHeeded(row) : row[j].documents = 0
    BY DEF AvoidHeeded
  <2>2. \A j \in Applied(row) : row[j].documents > 0
    BY DEF Applied
  <2> QED
    BY <2>1, <2>2
<1>5. Cardinality(AvoidHeeded(row) \cup Applied(row))
        = Cardinality(AvoidHeeded(row)) + Cardinality(Applied(row))
  BY <1>2, <1>3, <1>4, DisjointSizes
<1>6. AvoidHeeded(row) \cup Applied(row) \in SUBSET D
  BY <1>1
<1>7. Cardinality(AvoidHeeded(row) \cup Applied(row)) <= Cardinality(D)
  BY <1>6, FS_Subset
<1> QED
  BY <1>3, <1>5, <1>7 DEF Summary

\* The rate of the summary is null exactly when nothing is decided; otherwise it is
\* a percentage.
THEOREM WinRateIsPercentage ==
  ASSUME NEW row, IsFiniteSet(DOMAIN row)
  PROVE  LET s == Summary(row) IN
         /\ s.won + s.lost = 0 => s.winRate = NoRate
         /\ s.won + s.lost > 0 => s.winRate \in 0..100
<1>1. Count(row, "won") \in Nat /\ Count(row, "lost") \in Nat
  BY StatusFinite
<1> DEFINE w == Count(row, "won")
           d == Count(row, "won") + Count(row, "lost")
<1>2. ASSUME d > 0 PROVE Rounded(100 * w, d) \in 0..100
  <2>1. 100 * w \in Nat /\ d \in Nat \ {0} /\ 100 * w <= 100 * d
    BY <1>1, <1>2
  <2> QED
    BY <2>1, RoundedPercent
<1> QED
  BY <1>1, <1>2 DEF Summary, WinRate

\* AnalyticsService.bySkill: a skill's wins and losses are its decided deals, of
\* which it has no more than jobs.
THEOREM SkillSplits ==
  ASSUME NEW row, IsFiniteSet(DOMAIN row), NEW skill
  PROVE  LET s == Skill(row, skill) IN s.wins + s.losses = s.decided /\ s.decided <= s.count
<1> DEFINE J == Using(row, skill)
           W == J \cap With(row, "won")
           L == J \cap With(row, "lost")
<1>1. J \in SUBSET (DOMAIN row)
  BY DEF Using, Assessed
<1>2. IsFiniteSet(J)
  BY <1>1, FS_Subset
<1>3. W \in SUBSET J /\ L \in SUBSET J /\ (W \cup L) \in SUBSET J
  OBVIOUS
<1>4. IsFiniteSet(W) /\ IsFiniteSet(L) /\ Cardinality(W \cup L) <= Cardinality(J)
  BY <1>2, <1>3, FS_Subset
<1>5. W \cap L = {}
  BY DEF With
<1>6. Cardinality(W \cup L) = Cardinality(W) + Cardinality(L)
  BY <1>4, <1>5, DisjointSizes
<1>7. W \cup L = J \cap (With(row, "won") \cup With(row, "lost"))
  OBVIOUS
<1> QED
  BY <1>4, <1>6, <1>7 DEF Skill
==============================================================================
