-------------------------- MODULE DocumentVersions ---------------------------
(***************************************************************************)
(* One document of DocumentsService under concurrent requests: the editor  *)
(* save, the tone and pricing adjustments, which hold what they read while *)
(* the LLM answers, duplicate, share and unshare.  Every operation reads   *)
(* the row, then writes what it makes of that reading in one transaction.  *)
(*                                                                         *)
(* The content is two fields, each holding the name of the request that    *)
(* last set it: an editor save replaces both by what its client has on     *)
(* screen, with the text edited; an adjustment replaces one.               *)
(***************************************************************************)
EXTENDS Naturals, FiniteSets, Sequences

CONSTANTS
  Requests,  \* the requests that may be served, each once
  Original,  \* the author of the content the document starts with
  NoToken

Authors == Requests \cup {Original}

ASSUME DocumentAssumption ==
  /\ IsFiniteSet(Requests)
  /\ Original \notin Requests /\ NoToken \notin Authors

VARIABLES
  doc,      \* the Document row: content, title, version, shareToken
  history,  \* the DocumentVersion rows, each with the request that wrote it
  op, step, \* [Requests -> operation; how far it is]
  screen,   \* [Requests -> content the editor's client has loaded]
  read,     \* [Requests -> the row the operation read]
  token,    \* [Requests -> the share token answered]
  copies,   \* contents of the documents made by duplicate
  writes,   \* history: the requests that wrote the content, in order
  basis,    \* history: [Requests -> writes done when the content it builds on was read]
  seen,     \* history: [Requests -> writes done when it read the row]
  linked    \* history: the requests that wrote the share token, in order

ghosts == <<writes, basis, seen, linked>>
vars == <<doc, history, op, step, screen, read, token, copies, writes, basis, seen,
          linked>>

Contents == [text : Authors, price : Authors]
Rows == [content : Contents, title : Authors, version : Nat, share : Requests \cup {NoToken}]
Edits == {"save", "tone", "pricing"}
Links == {"share", "unshare"}
Ops == Edits \cup Links \cup {"rename", "duplicate"}

Start == [content |-> [text |-> Original, price |-> Original],
          title |-> Original, version |-> 1, share |-> NoToken]

Init ==
  /\ doc = Start
  /\ history = {}
  /\ op = [r \in Requests |-> "none"]
  /\ step = [r \in Requests |-> "idle"]
  /\ screen = [r \in Requests |-> Start.content]
  /\ read = [r \in Requests |-> Start]
  /\ token = [r \in Requests |-> NoToken]
  /\ copies = {}
  /\ writes = <<>>
  /\ basis = [r \in Requests |-> 0]
  /\ seen = [r \in Requests |-> 0]
  /\ linked = <<>>

Goto(r, s) == step' = [step EXCEPT ![r] = s]

\* The editor's client loads the content it will edit and send back whole.
OpenEditor(r) ==
  /\ step[r] = "idle"
  /\ op' = [op EXCEPT ![r] = "save"]
  /\ screen' = [screen EXCEPT ![r] = doc.content]
  /\ basis' = [basis EXCEPT ![r] = Len(writes)]
  /\ Goto(r, "editing")
  /\ UNCHANGED <<doc, history, read, token, copies, writes, seen, linked>>

\* update's getOne, which the version and the history row are taken from.
SaveReads(r) ==
  /\ step[r] = "editing"
  /\ read' = [read EXCEPT ![r] = doc]
  /\ seen' = [seen EXCEPT ![r] = Len(writes)]
  /\ Goto(r, "write")
  /\ UNCHANGED <<doc, history, op, screen, token, copies, writes, basis, linked>>

\* getOne of every other operation.
getOne(r, o) ==
  /\ step[r] = "idle"
  /\ op' = [op EXCEPT ![r] = o]
  /\ read' = [read EXCEPT ![r] = doc]
  /\ basis' = [basis EXCEPT ![r] = IF o \in Links THEN Len(linked) ELSE Len(writes)]
  /\ seen' = [seen EXCEPT ![r] = Len(writes)]
  /\ Goto(r, "write")
  /\ UNCHANGED <<doc, history, screen, token, copies, writes, linked>>

\* Defect: an adjustment keeps nothing of the content it does not adjust.
BareContent(r) ==
  CASE op[r] = "save"    -> [screen[r] EXCEPT !.text = r]
    [] op[r] = "tone"    -> [text |-> r, price |-> Original]
    [] op[r] = "pricing" -> [read[r].content EXCEPT !.price = r]

NextContent(r) ==
  CASE op[r] = "save"    -> [screen[r] EXCEPT !.text = r]
    [] op[r] = "tone"    -> [read[r].content EXCEPT !.text = r]
    [] op[r] = "pricing" -> [read[r].content EXCEPT !.price = r]

\* Defect: adjustments keep the version.
BumpOnSave(r) == IF op[r] = "save" THEN doc.version + 1 ELSE doc.version

\* Defect: the new version is the one read plus one.
BumpFromRead(r) == read[r].version + 1

\* version: { increment: 1 }, computed by the database.
Bump(r) == doc.version + 1

\* The row that update and applyAdjustment insert: the content and version read.
Snapshot(r) == [by |-> r, version |-> read[r].version, content |-> read[r].content]

\* Snapshot and new content in one transaction (update, applyAdjustment).
applyEdit(r) ==
  /\ step[r] = "write" /\ op[r] \in Edits
  /\ history' = history \cup {Snapshot(r)}
  /\ doc' = [doc EXCEPT !.content = NextContent(r), !.version = Bump(r)]
  /\ writes' = Append(writes, r)
  /\ Goto(r, "done")
  /\ UNCHANGED <<op, screen, read, token, copies, basis, seen, linked>>

\* Title or status only: no version.
Rename(r) ==
  /\ step[r] = "write" /\ op[r] = "rename"
  /\ doc' = [doc EXCEPT !.title = r]
  /\ Goto(r, "done")
  /\ UNCHANGED <<history, op, screen, read, token, copies, ghosts>>

duplicate(r) ==
  /\ step[r] = "write" /\ op[r] = "duplicate"
  /\ copies' = copies \cup {read[r].content}
  /\ Goto(r, "done")
  /\ UNCHANGED <<doc, history, op, screen, read, token, ghosts>>

\* Defect: share stores a new token whether or not there is one.
shareAnew(r) ==
  /\ step[r] = "write" /\ op[r] = "share"
  /\ doc' = [doc EXCEPT !.share = r]
  /\ linked' = Append(linked, r)
  /\ token' = [token EXCEPT ![r] = r]
  /\ Goto(r, "done")
  /\ UNCHANGED <<history, op, screen, read, copies, writes, basis, seen>>

\* The token found is answered as it was read; a new one carries the request's name.
share(r) ==
  /\ step[r] = "write" /\ op[r] = "share"
  /\ IF read[r].share # NoToken
     THEN token' = [token EXCEPT ![r] = read[r].share] /\ UNCHANGED <<doc, linked>>
     ELSE /\ doc' = [doc EXCEPT !.share = r]
          /\ linked' = Append(linked, r)
          /\ token' = [token EXCEPT ![r] = r]
  /\ Goto(r, "done")
  /\ UNCHANGED <<history, op, screen, read, copies, writes, basis, seen>>

unshare(r) ==
  /\ step[r] = "write" /\ op[r] = "unshare"
  /\ IF read[r].share # NoToken
     THEN doc' = [doc EXCEPT !.share = NoToken] /\ linked' = Append(linked, r)
     ELSE UNCHANGED <<doc, linked>>
  /\ Goto(r, "done")
  /\ UNCHANGED <<history, op, screen, read, token, copies, writes, basis, seen>>

\* The LLM call, the log or a statement fails before anything is written.
Fail(r) ==
  /\ step[r] \in {"editing", "write"}
  /\ Goto(r, "failed")
  /\ UNCHANGED <<doc, history, op, screen, read, token, copies, ghosts>>

Next ==
  \E r \in Requests :
    \/ OpenEditor(r) \/ SaveReads(r) \/ applyEdit(r) \/ Rename(r) \/ duplicate(r)
    \/ share(r) \/ unshare(r) \/ Fail(r)
    \/ \E o \in Ops \ {"save"} : getOne(r, o)

Spec == Init /\ [][Next]_vars
-----------------------------------------------------------------------------
(* Types; and the version counts the rows of the history.                      *)
TypeOK ==
  /\ doc \in Rows
  /\ history \subseteq [by : Requests, version : Nat, content : Contents]
  /\ doc.version = 1 + Cardinality(history)
  /\ op \in [Requests -> Ops \cup {"none"}]
  /\ step \in [Requests -> {"idle", "editing", "write", "done", "failed"}]
  /\ screen \in [Requests -> Contents]
  /\ read \in [Requests -> Rows]
  /\ token \in [Requests -> Requests \cup {NoToken}]
  /\ copies \subseteq Contents
  /\ writes \in Seq(Requests) /\ linked \in Seq(Requests)
  /\ basis \in [Requests -> Nat] /\ seen \in [Requests -> Nat]

PlaceIn(seq, r) == CHOOSE i \in DOMAIN seq : seq[i] = r

(* Two rows of the history bear the same version number only if neither        *)
(* request had seen the other's write when it read the document; otherwise     *)
(* the numbers are in the order of the writes.                                 *)
HistoryOrdered ==
  \A a, b \in history :
    a.by # b.by /\ a.version >= b.version => seen[b.by] < PlaceIn(writes, a.by)

\* Every write was made on a basis that held all the writes before it.
NothingRaced == \A i \in DOMAIN writes : basis[writes[i]] = i - 1

\* The last writer that meant to set the field.
LastTo(field) ==
  LET meant == {i \in DOMAIN writes :
                  op[writes[i]] \in IF field = "text" THEN {"save", "tone"} ELSE {"pricing"}}
  IN  IF meant = {} THEN Original
      ELSE writes[CHOOSE i \in meant : \A j \in meant : j <= i]

(* An edit is lost only to a race: when every content was made from the one    *)
(* before it, both fields hold what was last meant for them, and the history   *)
(* holds the content of every version but the current.                         *)
EditsLostOnlyToRaces ==
  NothingRaced =>
    /\ \A field \in {"text", "price"} : doc.content[field] = LastTo(field)
    /\ {h.version : h \in history} = 1 .. doc.version - 1

(* A share link once answered stays alive until an unshare, unless a share     *)
(* that had looked for a token before this one was stored replaced it.         *)
LinksStayAlive ==
  \A r \in Requests :
    token[r] # NoToken /\ doc.share # token[r] =>
      \E i \in basis[r] + 1 .. Len(linked) :
        \/ op[linked[i]] = "unshare"
        \/ linked[i] # r /\ basis[linked[i]] < PlaceIn(linked, token[r])

(* When an unshare has been answered, the link that it found is dead for good. *)
UnshareRevokes ==
  \A r \in Requests :
    op[r] = "unshare" /\ step[r] = "done" /\ read[r].share # NoToken
      => doc.share # read[r].share

(* Links live as long as the answers that handed them out, or revoked them, say. *)
LinksFollowAnswers == LinksStayAlive /\ UnshareRevokes
==============================================================================
