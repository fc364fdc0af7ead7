------------------------------- MODULE Memory -------------------------------
(***************************************************************************)
(* What the assistant remembers about one organisation's freelancer        *)
(* (MemoryService): facts kept under their key, written by hand, by an     *)
(* import or from the reason of a decided deal, encrypted when they are    *)
(* marked sensitive, deleted softly, and put into prompts.  One action per *)
(* statement: create, removeMany and forPrompt are one each, the others    *)
(* read the row they decide on first.                                      *)
(*                                                                         *)
(* A text is named after the request that wrote it.  The audit trail and   *)
(* lastUsedAt, which nothing else reads, are left out.                     *)
(***************************************************************************)
EXTENDS Naturals

CONSTANTS
  Requests,   \* the requests that may write or read facts, each once
  Keys,       \* (category, key)
  Confs,      \* confidences, all high enough for a prompt
  Patches,    \* what an update may change: the flag, the text, the confidence, the key
  Nobody

ASSUME MemoryAssumption ==
  /\ Confs \subseteq Nat \ {0} /\ Confs # {}
  /\ Patches \subseteq [flag : {"keep", "on", "off"}, text : BOOLEAN, conf : Confs \cup {0},
                         key : Keys \cup {Nobody}]
  /\ Nobody \notin Requests \cup Keys

VARIABLES
  fact,      \* [Keys -> UserMemory row]
  op,        \* [Requests -> what the request asks for]
  at,        \* [Requests -> its next statement, or "ok" or "failed"]
  saw,       \* [Requests -> the row it has read]
  sealed,    \* history: [Requests -> its text was taken for a sensitive one]
  replaced,  \* history: [Requests -> the row its upsert or its update wrote over]
  prompted   \* history: texts that a prompt has carried in the clear, and the row's mark

memVars == <<fact, op, at, saw, sealed, replaced, prompted>>

Absent == [state |-> "absent", id |-> Nobody, text |-> Nobody, cipher |-> FALSE,
           sensitive |-> FALSE, conf |-> 0, source |-> "none"]
Sources == {"manual", "import", "outcome"}
OVERRIDE_SOURCES == {"manual"}      \* and "explicit", which stands with it
NoOp == [name |-> "none", key |-> Nobody, id |-> Nobody, flag |-> "keep", text |-> FALSE,
         conf |-> 0, source |-> "none"]

MemoryInit ==
  /\ fact = [k \in Keys |-> Absent]
  /\ op = [r \in Requests |-> NoOp]
  /\ at = [r \in Requests |-> "idle"]
  /\ saw = [r \in Requests |-> Absent]
  /\ sealed = [r \in Requests |-> FALSE]
  /\ replaced = [r \in Requests |-> Absent]
  /\ prompted = {}

IsLive(row) == row.state = "live"
LiveIds == {fact[k].id : k \in {j \in Keys : IsLive(fact[j])}}
At(id) == {k \in Keys : fact[k].id = id}

Goes(r, s) == at' = [at EXCEPT ![r] = s]
Asks(r, o, s) == at[r] = "idle" /\ op' = [op EXCEPT ![r] = o] /\ Goes(r, s)

-----------------------------------------------------------------------------
(* Changes by key *)

\* encodeValue: the stored value is ciphertext when the flag is set.
Encoded(r, row, sensitive) == [row EXCEPT !.text = r, !.cipher = sensitive]

\* The upsert by (orgId, category, key) keeps the row's id and undeletes it.
Upsert(r, k, sensitive, conf, source) ==
  /\ fact' = [fact EXCEPT ![k] =
       [Encoded(r, fact[k], sensitive) EXCEPT !.state = "live", !.sensitive = sensitive,
          !.conf = conf, !.source = source, !.id = IF @ = Nobody THEN r ELSE @]]
  /\ sealed' = [sealed EXCEPT ![r] = sensitive]
  /\ replaced' = [replaced EXCEPT ![r] = fact[k]]

create(r, k, sensitive, conf) ==
  /\ Asks(r, [NoOp EXCEPT !.name = "create"], "ok")
  /\ Upsert(r, k, sensitive, conf, "manual")
  /\ UNCHANGED <<saw, prompted>>

\* What import and the outcome capture pass to recordFact.
RecordFact(k, sensitive, conf, source) ==
  [NoOp EXCEPT !.name = "recordFact", !.key = k, !.flag = IF sensitive THEN "on" ELSE "off",
               !.conf = conf, !.source = source]

\* A file that was exported carries the source of each fact, "manual" too.
import(r, k, sensitive, conf, source) ==
  /\ Asks(r, RecordFact(k, sensitive, conf, source), "find")
  /\ UNCHANGED <<fact, saw, sealed, replaced, prompted>>

\* Defect: whatever was remembered gives way.
FactFoundAndReplaced(r) ==
  /\ at[r] = "find"
  /\ saw' = [saw EXCEPT ![r] = fact[op[r].key]]
  /\ Goes(r, "upsert")
  /\ UNCHANGED <<fact, op, sealed, replaced, prompted>>

\* A live and more confident fact is kept, unless the source may override it.
FactFound(r) ==
  /\ at[r] = "find"
  /\ LET row == fact[op[r].key]
         kept == /\ IsLive(row) /\ row.conf > op[r].conf
                 /\ op[r].source \notin OVERRIDE_SOURCES
     IN /\ saw' = [saw EXCEPT ![r] = row]
        /\ Goes(r, IF kept THEN "ok" ELSE "upsert")
  /\ UNCHANGED <<fact, op, sealed, replaced, prompted>>

FactRecorded(r) ==
  /\ at[r] = "upsert"
  /\ Upsert(r, op[r].key, op[r].flag = "on", op[r].conf, op[r].source)
  /\ Goes(r, "ok")
  /\ UNCHANGED <<op, saw, prompted>>

-----------------------------------------------------------------------------
(* Changes by id *)

\* getOwned: the row must be live when it is read.
getOwned(r, o) ==
  /\ Asks(r, o, "write")
  /\ \E k \in At(o.id) : IsLive(fact[k]) /\ saw' = [saw EXCEPT ![r] = fact[k]]
  /\ UNCHANGED <<fact, sealed, replaced, prompted>>

update(r, id, patch) ==
  getOwned(r, [NoOp EXCEPT !.name = "update", !.id = id, !.flag = patch.flag,
                           !.text = patch.text, !.conf = patch.conf, !.key = patch.key])

remove(r, id) == getOwned(r, [NoOp EXCEPT !.name = "remove", !.id = id])

\* Defect: the flag that the row had is forgotten.
OwnFlag(r) == op[r].flag = "on"

\* The effective flag: the request's, or the one that was read.
EffectiveFlag(r) == op[r].flag = "on" \/ (op[r].flag = "keep" /\ saw[r].sensitive)

\* The fields that the request names, over the row of now; a value is encoded for
\* the effective flag, a value that is not sent stays as it is stored.
Patched(r, row) ==
  LET flagged == IF op[r].flag = "keep" THEN row ELSE [row EXCEPT !.sensitive = op[r].flag = "on"]
      rated == IF op[r].conf = 0 THEN flagged ELSE [flagged EXCEPT !.conf = op[r].conf]
  IN  IF op[r].text THEN Encoded(r, rated, EffectiveFlag(r)) ELSE rated

\* The update is by id alone: a row deleted in between is changed, and stays deleted.
\* A new key that another row has, deleted or not, fails on the unique index.
UpdateWritten(r) ==
  /\ at[r] = "write" /\ op[r].name = "update"
  /\ \E k \in At(op[r].id) :
       LET to == IF op[r].key = Nobody THEN k ELSE op[r].key
       IN  IF to # k /\ fact[to] # Absent
           THEN Goes(r, "failed") /\ UNCHANGED <<fact, sealed, replaced>>
           ELSE /\ fact' = [[fact EXCEPT ![k] = Absent] EXCEPT ![to] = Patched(r, fact[k])]
                /\ sealed' = [sealed EXCEPT ![r] =
                     op[r].text /\ (op[r].flag = "on" \/ (op[r].flag = "keep" /\ saw[r].sensitive))]
                /\ replaced' = [replaced EXCEPT ![r] = fact[k]]
                /\ Goes(r, "ok")
  /\ UNCHANGED <<op, saw, prompted>>

Deleted(row) == [row EXCEPT !.state = "deleted"]

RemoveWritten(r) ==
  /\ at[r] = "write" /\ op[r].name = "remove"
  /\ \E k \in At(op[r].id) : fact' = [fact EXCEPT ![k] = Deleted(@)]
  /\ Goes(r, "ok")
  /\ UNCHANGED <<op, saw, sealed, replaced, prompted>>

\* With a category, or without: K is the keys it names.
removeMany(r, K) ==
  /\ Asks(r, [NoOp EXCEPT !.name = "removeMany"], "ok")
  /\ fact' = [k \in Keys |-> IF k \in K /\ IsLive(fact[k]) THEN Deleted(fact[k]) ELSE fact[k]]
  /\ UNCHANGED <<saw, sealed, replaced, prompted>>

-----------------------------------------------------------------------------
(* Prompts *)

\* Defect: sensitive facts are not filtered out.
AnyFact(row) == IsLive(row)

Promptable(row) == IsLive(row) /\ ~row.sensitive

\* The facts of a prompt; what the database holds is sent as it is.
forPrompt(r) ==
  /\ Asks(r, [NoOp EXCEPT !.name = "prompt"], "ok")
  /\ LET rows == {fact[k] : k \in {j \in Keys : Promptable(fact[j])}}
     IN  prompted' = prompted \cup {[text |-> row.text, marked |-> row.sensitive] :
                                      row \in {w \in rows : ~w.cipher}}
  /\ UNCHANGED <<fact, saw, sealed, replaced>>

\* What the controllers may ask for ...
MemoryRequest(r) ==
  \/ \E k \in Keys, s \in BOOLEAN, c \in Confs :
       create(r, k, s, c) \/ \E source \in {"import", "manual"} : import(r, k, s, c, source)
  \/ \E id \in LiveIds : remove(r, id) \/ \E p \in Patches : update(r, id, p)
  \/ \E K \in SUBSET Keys : removeMany(r, K)
  \/ forPrompt(r)

\* ... and what follows.
MemoryStatement(r) ==
  \/ FactFound(r) \/ FactRecorded(r) \/ UpdateWritten(r) \/ RemoveWritten(r)

-----------------------------------------------------------------------------
(* Properties *)

\* Every variable keeps its type, and no two keys hold the same row.
MemoryTypeOK ==
  /\ fact \in [Keys -> [state : {"absent", "live", "deleted"}, id : Requests \cup {Nobody},
                        text : Requests \cup {Nobody}, cipher : BOOLEAN, sensitive : BOOLEAN,
                        conf : Confs \cup {0}, source : Sources \cup {"none"}]]
  /\ at \in [Requests -> {"idle", "find", "upsert", "write", "ok", "failed"}]
  /\ sealed \in [Requests -> BOOLEAN]
  /\ \A k, j \in Keys : k # j /\ fact[k] # Absent => fact[k].id # fact[j].id

\* In prompts: none carries in the clear a value whose fact is marked sensitive at that moment,
\* nor one that was encoded as sensitive when it was written, whoever takes the mark off
\* later.  A value written as an ordinary one, and marked later by a patch of the flag
\* alone, is protected by the mark only: EncodedAsFlagged says how it comes to be stored.
PromptsSpareSensitive ==
  \A p \in prompted : ~p.marked /\ ~sealed[p.text]

\* An update that only turned the flag of a row with the text, and one that encoded its
\* text for a flag the row no longer had.
TurnedTheFlag(r, text) ==
  /\ op[r].name = "update" /\ at[r] = "ok" /\ ~op[r].text /\ op[r].flag # "keep"
  /\ replaced[r].text = text /\ replaced[r].sensitive # (op[r].flag = "on")
MissedTheFlag(r) ==
  /\ op[r].name = "update" /\ at[r] = "ok" /\ op[r].text /\ op[r].flag = "keep"
  /\ saw[r].sensitive # replaced[r].sensitive

\* At rest: plaintext under the mark, or ciphertext without it, is the work of a patch of the flag
\* alone on that very value, or of the patch that wrote the value and had read the flag
\* before another request changed it: of no create, import, capture or removal.
EncodedAsFlagged ==
  \A k \in Keys : fact[k].cipher # fact[k].sensitive =>
    \E r \in Requests : TurnedTheFlag(r, fact[k].text) \/ (MissedTheFlag(r) /\ fact[k].text = r)

\* The encryption of sensitive facts, at rest and in prompts: a value is stored in the clear
\* under its mark only by the two patches that EncodedAsFlagged names, and a prompt never
\* carries a marked value, nor one that was encoded as sensitive, whoever raced.
SensitiveStaysSealed == EncodedAsFlagged /\ PromptsSpareSensitive

\* An imported or captured fact, if it does not come as a manual one, replaces a live fact that was
\* more sure only if that fact, or its confidence, was written after recordFact had read the key.
SurerFactsAreKept ==
  \A r \in Requests :
    /\ op[r].name = "recordFact" /\ op[r].source \notin OVERRIDE_SOURCES
    /\ IsLive(replaced[r]) /\ replaced[r].conf > op[r].conf
    => replaced[r] # saw[r]

\* A value is stored encrypted exactly when its fact is marked sensitive.
EncryptedWhenSensitive ==
  \A k \in Keys : fact[k].cipher = fact[k].sensitive
==============================================================================
