-------------------------------- MODULE Jobs ---------------------------------
(***************************************************************************)
(* The jobs of several organisations (JobsService): creation, assessment,  *)
(* and updates, which may rename a job, move it through the pipeline and,  *)
(* when a deal is decided with a reason, hand what the LLM makes of the    *)
(* reason to the memory of the organisation (Memory, for Home; that of the *)
(* others is out of sight).  Rows are read through `prisma.db`, which      *)
(* TenantScope rewrites, and written by id through the plain client.       *)
(* Titles are normalised.  One action per statement or LLM call.           *)
(***************************************************************************)
EXTENDS Memory, TenantScope

CONSTANTS
  Orgs, Home,
  Titles,
  Seed,        \* a job of Home from before
  SeedTitle,
  Keep         \* a field that an update does not name

ASSUME JobsAssumption ==
  /\ Home \in Orgs /\ NoOrg \notin Orgs
  /\ SeedTitle \in Titles /\ Keep \notin Titles
  /\ Seed \notin Requests /\ Nobody # Seed

Ids == Requests \cup {Seed}   \* a job is named after the request that inserted it
JobStatus == {"draft", "won"}  \* won stands for lost, draft for what comes before either

VARIABLES
  job,       \* [Ids -> Job row]
  ask,       \* [Requests -> what the request asks of the jobs]
  step,      \* [Requests -> its next statement, or its answer]
  enforce,   \* TENANT_EXTENSION_MODE is 'enforce'
  writers,   \* history: [Ids -> requests that have written the job]
  rivals,    \* history: [Requests -> other jobs that held its title when it began]
  taken      \* history: [Requests -> other jobs that took its title since]

jobVars == <<job, ask, step, enforce, writers, rivals, taken>>
vars == <<fact, op, at, saw, sealed, replaced, prompted,
          job, ask, step, enforce, writers, rivals, taken>>

NoJob == [org |-> NoOrg, title |-> Keep, status |-> "draft"]
NoAsk == [name |-> "none", org |-> NoOrg, id |-> Nobody, title |-> Keep, status |-> "draft"]
Answers == {"ok", "duplicate", "missing", "error"}

Init ==
  /\ MemoryInit
  /\ job = [j \in Ids |->
       IF j = Seed THEN [org |-> Home, title |-> SeedTitle, status |-> "draft"] ELSE NoJob]
  /\ ask = [r \in Requests |-> NoAsk]
  /\ step = [r \in Requests |-> "idle"]
  /\ enforce \in BOOLEAN
  /\ writers = [j \in Ids |-> {}]
  /\ rivals = [r \in Requests |-> {}]
  /\ taken = [r \in Requests |-> {}]

Goto(r, s) == step' = [step EXCEPT ![r] = s]

owner == [j \in Ids |-> job[j].org]
Exists(j) == job[j] # NoJob
Holders(o, t) == {j \in Ids : Exists(j) /\ job[j].org = o /\ job[j].title = t}

\* The job that the request is about is not its own rival.
Target(r) == IF ask[r].name = "update" THEN ask[r].id ELSE r
Others(r) == Holders(ask[r].org, ask[r].title) \ {Target(r)}

Begin(r, a, s) ==
  /\ step[r] = "idle" /\ at[r] = "idle"
  /\ ask' = [ask EXCEPT ![r] = a]
  /\ Goto(r, s)
  /\ rivals' = [rivals EXCEPT ![r] = Holders(a.org, a.title) \ {a.id}]
  /\ UNCHANGED <<job, enforce, writers, taken, memVars>>

\* A statement that leaves the jobs alone.
Passes(r, s) ==
  /\ Goto(r, s)
  /\ UNCHANGED <<job, ask, enforce, writers, rivals, taken, memVars>>

\* A statement of r that stores row as job j.
Stores(r, j, row, s) ==
  /\ job' = [job EXCEPT ![j] = row]
  /\ writers' = [writers EXCEPT ![j] = @ \cup {r}]
  /\ taken' = [q \in Requests |->
       IF /\ ask[q].org = row.org /\ ask[q].title = row.title /\ Target(q) # j
          /\ job[j].title # row.title
       THEN taken[q] \cup {j} ELSE taken[q]]
  /\ Goto(r, s)
  /\ UNCHANGED <<ask, enforce, rivals, memVars>>

-----------------------------------------------------------------------------
createJob(r, o, t) == Begin(r, [NoAsk EXCEPT !.name = "create", !.org = o, !.title = t], "check")

\* The title derived from the pasted text is not checked.
assess(r, o, t) == Begin(r, [NoAsk EXCEPT !.name = "assess", !.org = o, !.title = t], "insert")

\* A decision comes with its reason here: without one, nothing is captured.
updateJob(r, o, j, t, s) ==
  /\ Exists(j)
  /\ Begin(r, [name |-> "update", org |-> o, id |-> j, title |-> t, status |-> s], "find")

\* Defect: the row is looked up by id alone.
OwnedById(r) == {j \in Ids : Exists(j) /\ j = ask[r].id}

\* The rows that getOwned's filter matches.
Owned(r) == {j \in Ids : Exists(j) /\ j = ask[r].id /\ job[j].org = ask[r].org}

Find(r) ==
  /\ step[r] = "find"
  /\ LET ctx == RequestContext(ask[r].org, enforce)
         row == Scoped(ctx, "Job", "findFirst", Owned(r), owner)
     IN  Passes(r, IF row = {} THEN "missing" ELSE IF ask[r].title = Keep THEN "write" ELSE "check")

\* Defect: the job that is updated is not excepted.
AnyHolder(r) == Holders(ask[r].org, ask[r].title)

\* The rows that assertTitleFree looks for.
Clashes(r) == Others(r)

assertTitleFree(r) ==
  /\ step[r] = "check"
  /\ Passes(r, IF Clashes(r) # {} THEN "duplicate"
               ELSE IF ask[r].name = "create" THEN "insert" ELSE "write")

\* Defect: there is no unique index.
InsertAnyway(r) ==
  /\ step[r] = "insert"
  /\ Stores(r, r, [org |-> ask[r].org, title |-> ask[r].title, status |-> "draft"], "ok")

\* The unique index turns the insert down: create says so, assess does not expect it.
Insert(r) ==
  /\ step[r] = "insert"
  /\ LET org == Inserted(RequestContext(ask[r].org, enforce), "Job", "create", ask[r].org)
     IN  IF Holders(org, ask[r].title) # {}
         THEN Passes(r, IF ask[r].name = "create" THEN "duplicate" ELSE "error")
         ELSE Stores(r, r, [org |-> org, title |-> ask[r].title, status |-> "draft"], "ok")

\* By id; nothing catches the unique index here.
Write(r) ==
  /\ step[r] = "write"
  /\ LET j == ask[r].id
         row == [job[j] EXCEPT !.title = IF ask[r].title = Keep THEN @ ELSE ask[r].title,
                               !.status = IF ask[r].status = "won" THEN "won" ELSE @]
     IN  IF ask[r].title # Keep /\ Holders(job[j].org, ask[r].title) \ {j} # {}
         THEN Passes(r, "error")
         ELSE Stores(r, j, row, IF ask[r].status = "won" THEN "extract" ELSE "ok")

\* captureFromOutcome: the LLM finds no fact, or one; recordFact does the rest.
captureFromOutcome(r) ==
  /\ step[r] = "extract"
  /\ Goto(r, "ok")
  /\ \/ UNCHANGED memVars
     \/ /\ ask[r].org = Home
        /\ \E k \in Keys, c \in Confs : Asks(r, RecordFact(k, FALSE, c, "outcome"), "find")
        /\ UNCHANGED <<fact, saw, sealed, replaced, prompted>>
  /\ UNCHANGED <<job, ask, enforce, writers, rivals, taken>>

JobStep(r) ==
  \/ \E o \in Orgs, t \in Titles : createJob(r, o, t) \/ assess(r, o, t)
  \/ \E o \in Orgs, j \in Ids, t \in Titles \cup {Keep}, s \in JobStatus :
       updateJob(r, o, j, t, s)
  \/ Find(r) \/ assertTitleFree(r) \/ Insert(r) \/ Write(r) \/ captureFromOutcome(r)

Next ==
  \E r \in Requests :
    \/ JobStep(r)
    \/ /\ MemoryStatement(r) \/ (step[r] = "idle" /\ MemoryRequest(r))
       /\ UNCHANGED jobVars

Spec == Init /\ [][Next]_vars

-----------------------------------------------------------------------------
(* Properties *)

\* Every variable keeps its type, the memory's too, and no organisation has two
\* jobs of one title.
TypeOK ==
  /\ MemoryTypeOK
  /\ job \in [Ids -> [org : Orgs \cup {NoOrg}, title : Titles \cup {Keep}, status : JobStatus]]
  /\ step \in [Requests -> Answers \cup {"idle", "find", "check", "insert", "write", "extract"}]
  /\ \A j, i \in Ids : j # i /\ Exists(j) /\ job[j].org = job[i].org => job[j].title # job[i].title

\* A request changes jobs of its caller's organisation only, in either mode of the
\* extension: its job is written by id, but only after a read scoped to the caller.
OwnOrgOnly ==
  \A j \in Ids : \A r \in writers[j] : ask[r].org = job[j].org

\* A title is refused only if another job of the organisation held it when the
\* request came or has taken it since; and an update ends in a server error only if
\* another job took its title while the update was served.
ClashesAreReal ==
  \A r \in Requests :
    /\ step[r] \in {"duplicate", "error"} => rivals[r] \cup taken[r] # {}
    /\ step[r] = "error" /\ ask[r].name = "update" => taken[r] # {}
==============================================================================
