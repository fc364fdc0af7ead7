------------------------ MODULE DocumentVersionsProofs ------------------------
(***************************************************************************)
(* What DocumentVersions guarantees for any number of requests: the        *)
(* history is ordered, edits are lost to races only, and share links live  *)
(* as long as the answers say.                                             *)
(***************************************************************************)
EXTENDS DocumentVersions, FiniteSetTheorems, TLAPS

-----------------------------------------------------------------------------
(* The invariant *)

DocTypes ==
  /\ doc \in Rows
  /\ history \subseteq [by : Requests, version : Nat, content : Contents]
  /\ op \in [Requests -> Ops \cup {"none"}]
  /\ step \in [Requests -> {"idle", "editing", "write", "done", "failed"}]
  /\ screen \in [Requests -> Contents]
  /\ read \in [Requests -> Rows]
  /\ token \in [Requests -> Requests \cup {NoToken}]
  /\ copies \subseteq Contents
  /\ writes \in Seq(Requests) /\ linked \in Seq(Requests)
  /\ basis \in [Requests -> Nat] /\ seen \in [Requests -> Nat]

\* The writers are edits that are through, each once, and each wrote after it had
\* read, which an editor's save did after its client had loaded the document.
WritesInOrder ==
  /\ \A i \in 1..Len(writes) :
       LET w == writes[i]
       IN  op[w] \in Edits /\ step[w] = "done" /\ basis[w] <= seen[w] /\ seen[w] < i
  /\ \A i, j \in 1..Len(writes) : writes[i] = writes[j] => i = j

\* The history has one row of each writer; the versions, of the document and of
\* every reading of it, count the writes.
VersionsCount ==
  /\ history = {Snapshot(writes[i]) : i \in 1..Len(writes)}
  /\ IsFiniteSet(history) /\ Cardinality(history) = Len(writes)
  /\ doc.version = Len(writes) + 1
  /\ \A r \in Requests : read[r].version = seen[r] + 1 /\ seen[r] <= Len(writes)

\* How far an operation is.
OpFits(r) ==
  /\ op[r] = "none" <=> step[r] = "idle"
  /\ step[r] = "editing" => op[r] = "save" /\ basis[r] <= Len(writes)
  /\ step[r] = "write" /\ op[r] \in Edits => basis[r] <= seen[r]

\* The share token that the first n link writers ls leave behind; o is what each does.
ShareOf(ls, o, n) == IF n = 0 THEN NoToken ELSE IF o[ls[n]] = "share" THEN ls[n] ELSE NoToken

\* The link writers are through, each once, and wrote after they had read; a share
\* wrote only if there was no token when it read.
LinksInOrder ==
  /\ \A i \in 1..Len(linked) :
       LET w == linked[i]
       IN  /\ op[w] \in Links /\ step[w] = "done" /\ basis[w] < i
           /\ op[w] = "share" => ShareOf(linked, op, basis[w]) = NoToken
  /\ \A i, j \in 1..Len(linked) : linked[i] = linked[j] => i = j
  /\ doc.share = ShareOf(linked, op, Len(linked))

Linked(r) == \E i \in 1..Len(linked) : linked[i] = r

\* What a share or an unshare has read and answered.
AnswerFits(r) ==
  /\ op[r] \in Links => basis[r] <= Len(linked) /\ read[r].share = ShareOf(linked, op, basis[r])
  /\ token[r] # NoToken => /\ op[r] = "share" /\ step[r] = "done"
                           /\ token[r] = read[r].share \/ (token[r] = r /\ Linked(r))
  /\ op[r] = "unshare" /\ step[r] = "done" /\ read[r].share # NoToken => Linked(r)

\* Of the first n writers ws, which did o on the basis b: none raced, and who was
\* the last of them that was meant for the field.
Unraced(ws, b, n) == \A i \in 1..n : b[ws[i]] = i - 1
Setters(field) == IF field = "text" THEN {"save", "tone"} ELSE {"pricing"}
Last(field, who, ws, o, n) ==
  \/ who = Original /\ \A i \in 1..n : o[ws[i]] \notin Setters(field)
  \/ \E i \in 1..n : /\ who = ws[i] /\ o[ws[i]] \in Setters(field)
                    /\ \A j \in 1..n : j > i => o[ws[j]] \notin Setters(field)

\* A content that no race has touched holds what was last meant for each field.
Holds(content, ws, o, b, n) ==
  Unraced(ws, b, n) =>
    Last("text", content.text, ws, o, n) /\ Last("price", content.price, ws, o, n)

\* The content that an edit under way builds on.
Builds(r) == op[r] \in Edits /\ step[r] \in {"editing", "write"}
Base(r) == IF op[r] = "save" THEN screen[r] ELSE read[r].content
BuildsOnMeant(r) == Builds(r) => Holds(Base(r), writes, op, basis, basis[r])

Fits(r) == OpFits(r) /\ AnswerFits(r) /\ BuildsOnMeant(r)

DocInv ==
  /\ DocTypes /\ WritesInOrder /\ VersionsCount /\ LinksInOrder
  /\ Holds(doc.content, writes, op, basis, Len(writes))
  /\ \A r \in Requests : Fits(r)

-----------------------------------------------------------------------------
(* The writers, and those before them *)

LEMMA Appended ==
  ASSUME NEW S, NEW seq \in Seq(S), NEW e \in S, NEW longer, longer = Append(seq, e)
  PROVE  /\ longer \in Seq(S) /\ Len(longer) = Len(seq) + 1 /\ Len(seq) \in Nat
         /\ \A i \in 1..Len(seq) : longer[i] = seq[i]
         /\ longer[Len(seq) + 1] = e
         /\ \A i \in 1..Len(longer) : i \in 1..Len(seq) \/ i = Len(seq) + 1
OBVIOUS

\* What the first n writers leave behind depends on those writers only.
LEMMA PrefixDecides ==
  ASSUME NEW ws, NEW o, NEW b, NEW vs, NEW p, NEW c, NEW n \in Nat,
         \A i \in 1..n : vs[i] = ws[i] /\ p[ws[i]] = o[ws[i]] /\ c[ws[i]] = b[ws[i]]
  PROVE  /\ Unraced(vs, c, n) <=> Unraced(ws, b, n)
         /\ \A content : Holds(content, vs, p, c, n) <=> Holds(content, ws, o, b, n)
         /\ ShareOf(vs, p, n) = ShareOf(ws, o, n)
<1>1. Unraced(vs, c, n) <=> Unraced(ws, b, n)
  BY DEF Unraced
<1>2. \A field, who : Last(field, who, vs, p, n) <=> Last(field, who, ws, o, n)
  BY DEF Last
<1>3. ShareOf(vs, p, n) = ShareOf(ws, o, n)
  BY DEF ShareOf
<1> QED
  BY <1>1, <1>2, <1>3 DEF Holds

\* A write on top of what it has read sets its field and leaves the other.
LEMMA LastWrite ==
  ASSUME NEW ws, NEW o, NEW n \in Nat, NEW field, NEW who, NEW w,
         ws[n + 1] = w,
         IF o[w] \in Setters(field) THEN who = w ELSE Last(field, who, ws, o, n)
  PROVE  Last(field, who, ws, o, n + 1)
<1>1. \A i \in 1..n + 1 : i \in 1..n \/ i = n + 1
  OBVIOUS
<1>2. CASE o[w] \in Setters(field)
  <2>1. n + 1 \in 1..n + 1 /\ \A j \in 1..n + 1 : ~(j > n + 1)
    OBVIOUS
  <2> QED
    BY <1>2, <2>1 DEF Last
<1>3. CASE o[w] \notin Setters(field)
  <2>1. Last(field, who, ws, o, n)
    BY <1>3
  <2>2. CASE who = Original /\ \A i \in 1..n : o[ws[i]] \notin Setters(field)
    BY <1>1, <1>3, <2>2 DEF Last
  <2>3. ASSUME NEW i \in 1..n, who = ws[i], o[ws[i]] \in Setters(field),
               \A j \in 1..n : j > i => o[ws[j]] \notin Setters(field)
        PROVE  Last(field, who, ws, o, n + 1)
    <3>1. i \in 1..n + 1 /\ \A j \in 1..n + 1 : j > i => o[ws[j]] \notin Setters(field)
      BY <1>1, <1>3, <2>3
    <3> QED
      BY <2>3, <3>1 DEF Last
  <2> QED
    BY <2>1, <2>2, <2>3 DEF Last
<1> QED
  BY <1>2, <1>3

-----------------------------------------------------------------------------
(* The steps *)

\* A request that is not through has written neither the content nor the link.
LEMMA NotYetAWriter ==
  ASSUME DocInv, NEW r \in Requests, step[r] # "done"
  PROVE  /\ \A i \in 1..Len(writes) : writes[i] \in Requests /\ writes[i] # r
         /\ \A i \in 1..Len(linked) : linked[i] \in Requests /\ linked[i] # r
         /\ Len(writes) \in Nat /\ Len(linked) \in Nat
<1>1. writes \in Seq(Requests) /\ linked \in Seq(Requests)
  BY DEF DocInv, DocTypes
<1> QED
  BY <1>1 DEF DocInv, WritesInOrder, LinksInOrder

\* Of everyone but r, an operation leaves all but the documents as it was.
OthersKeep(r) ==
  \A q \in Requests : q # r =>
    /\ op'[q] = op[q] /\ step'[q] = step[q] /\ screen'[q] = screen[q] /\ read'[q] = read[q]
    /\ token'[q] = token[q] /\ basis'[q] = basis[q] /\ seen'[q] = seen[q]

\* A step of r that writes no content: what the writers left stands.
LEMMA NoWrite ==
  ASSUME DocInv, NEW r \in Requests, step[r] # "done", OthersKeep(r),
         writes' = writes, history' = history,
         doc'.content = doc.content, doc'.version = doc.version,
         read'[r].version = seen'[r] + 1, seen'[r] <= Len(writes)
  PROVE  /\ WritesInOrder' /\ VersionsCount'
         /\ Holds(doc'.content, writes', op', basis', Len(writes'))
         /\ \A content : \A n \in 0..Len(writes) :
              Holds(content, writes', op', basis', n) <=> Holds(content, writes, op, basis, n)
         /\ \A q \in Requests : q # r => OpFits(q)' /\ BuildsOnMeant(q)'
<1>1. /\ \A i \in 1..Len(writes) : writes[i] \in Requests /\ writes[i] # r
      /\ Len(writes) \in Nat
  BY NotYetAWriter
<1>2. /\ basis \in [Requests -> Nat] /\ seen \in [Requests -> Nat]
      /\ \A q \in Requests : seen[q] <= Len(writes) /\ read[q].version = seen[q] + 1
  BY DEF DocInv, DocTypes, VersionsCount
<1>3. WritesInOrder'
  BY <1>1 DEF DocInv, WritesInOrder, OthersKeep
<1>4. VersionsCount'
  <2>1. \A i \in 1..Len(writes) : Snapshot(writes[i])' = Snapshot(writes[i])
    BY <1>1 DEF Snapshot, OthersKeep
  <2>2. history = {Snapshot(writes[i]) : i \in 1..Len(writes)}
    BY DEF DocInv, VersionsCount
  <2>3. history' = {Snapshot(writes[i])' : i \in 1..Len(writes)}
    BY <2>1, <2>2
  <2>4. \A q \in Requests : read'[q].version = seen'[q] + 1 /\ seen'[q] <= Len(writes')
    BY <1>2 DEF OthersKeep
  <2> QED
    BY <2>3, <2>4 DEF DocInv, VersionsCount
<1>5. ASSUME NEW content, NEW n \in 0..Len(writes)
      PROVE  Holds(content, writes', op', basis', n) <=> Holds(content, writes, op, basis, n)
  <2>1. \A i \in 1..n : /\ writes'[i] = writes[i] /\ op'[writes[i]] = op[writes[i]]
                        /\ basis'[writes[i]] = basis[writes[i]]
    BY <1>1 DEF OthersKeep
  <2>2. n \in Nat
    BY <1>1
  <2> QED
    BY <2>1, <2>2, PrefixDecides
<1>6. Holds(doc'.content, writes', op', basis', Len(writes'))
  <2>1. Len(writes) \in 0..Len(writes)
    BY <1>1
  <2> QED
    BY <1>5, <2>1 DEF DocInv
<1>7. ASSUME NEW q \in Requests, q # r
      PROVE  OpFits(q)' /\ BuildsOnMeant(q)'
  <2>1. OpFits(q) /\ BuildsOnMeant(q)
    BY DEF DocInv, Fits
  <2>2. OpFits(q)'
    BY <2>1, <1>7 DEF OpFits, OthersKeep
  <2>3. ASSUME Builds(q)
        PROVE  Holds(Base(q), writes', op', basis', basis[q])
    <3>1. basis[q] \in 0..Len(writes)
      BY <1>1, <1>2, <2>1, <2>3 DEF Builds, OpFits
    <3> QED
      BY <1>5, <2>1, <2>3, <3>1 DEF BuildsOnMeant
  <2>4. BuildsOnMeant(q)'
    BY <1>7, <2>3 DEF BuildsOnMeant, Builds, Base, OthersKeep
  <2> QED
    BY <2>2, <2>4
<1> QED
  BY <1>3, <1>4, <1>5, <1>6, <1>7

\* A step of r that does not write the link: what the link writers left stands.
LEMMA NoLink ==
  ASSUME DocInv, NEW r \in Requests, step[r] # "done", OthersKeep(r),
         linked' = linked, doc'.share = doc.share
  PROVE  /\ LinksInOrder'
         /\ \A n \in 0..Len(linked) : ShareOf(linked', op', n) = ShareOf(linked, op, n)
         /\ \A q \in Requests : q # r => AnswerFits(q)'
<1>1. /\ \A i \in 1..Len(linked) : linked[i] \in Requests /\ linked[i] # r
      /\ Len(linked) \in Nat
  BY NotYetAWriter
<1>2. basis \in [Requests -> Nat]
  BY DEF DocInv, DocTypes
<1>3. ASSUME NEW n \in 0..Len(linked)
      PROVE  ShareOf(linked', op', n) = ShareOf(linked, op, n)
  <2>1. n = 0 \/ n \in 1..Len(linked)
    BY <1>1
  <2> QED
    BY <1>1, <2>1 DEF ShareOf, OthersKeep
<1>4. LinksInOrder'
  <2>1. ASSUME NEW i \in 1..Len(linked)
        PROVE  LET w == linked[i]
               IN  /\ op'[w] \in Links /\ step'[w] = "done" /\ basis'[w] < i
                   /\ op'[w] = "share" => ShareOf(linked', op', basis'[w]) = NoToken
    <3> DEFINE w == linked[i]
    <3>1. /\ op[w] \in Links /\ step[w] = "done" /\ basis[w] < i
          /\ op[w] = "share" => ShareOf(linked, op, basis[w]) = NoToken
      BY DEF DocInv, LinksInOrder
    <3>2. w \in Requests /\ w # r
      BY <1>1
    <3>3. basis[w] \in 0..Len(linked)
      BY <1>1, <1>2, <3>1, <3>2
    <3> QED
      BY <1>3, <3>1, <3>2, <3>3 DEF OthersKeep
  <2>2. \A i, j \in 1..Len(linked) : linked[i] = linked[j] => i = j
    BY DEF DocInv, LinksInOrder
  <2>3. doc'.share = ShareOf(linked', op', Len(linked'))
    <3>1. Len(linked) \in 0..Len(linked)
      BY <1>1
    <3> QED
      BY <1>3, <3>1 DEF DocInv, LinksInOrder
  <2> QED
    BY <2>1, <2>2, <2>3 DEF LinksInOrder
<1>5. ASSUME NEW q \in Requests, q # r
      PROVE  AnswerFits(q)'
  <2>1. AnswerFits(q)
    BY DEF DocInv, Fits
  <2>2. op[q] \in Links => basis[q] \in 0..Len(linked)
    BY <1>1, <1>2, <2>1 DEF AnswerFits
  <2> QED
    BY <1>3, <1>5, <2>1, <2>2 DEF AnswerFits, OthersKeep, Linked
<1> QED
  BY <1>3, <1>4, <1>5

\* Where r goes, and the types that nothing but step disturbs.
LEMMA Went ==
  ASSUME DocInv, NEW r \in Requests, NEW s \in {"editing", "write", "done", "failed"}, Goto(r, s)
  PROVE  /\ step' \in [Requests -> {"idle", "editing", "write", "done", "failed"}]
         /\ step'[r] = s /\ \A q \in Requests : q # r => step'[q] = step[q]
BY DEF Goto, DocInv, DocTypes

\* The document as the next reader finds it.
LEMMA Current ==
  ASSUME DocInv
  PROVE  /\ Len(writes) \in Nat /\ Len(linked) \in Nat /\ doc \in Rows
         /\ doc.version = Len(writes) + 1 /\ doc.share = ShareOf(linked, op, Len(linked))
<1>1. Len(writes) \in Nat /\ Len(linked) \in Nat /\ doc \in Rows
  BY DEF DocInv, DocTypes
<1>2. doc.version = Len(writes) + 1
  BY Zenon DEF DocInv, VersionsCount
<1>3. doc.share = ShareOf(linked, op, Len(linked))
  BY Zenon DEF DocInv, LinksInOrder
<1> QED
  BY <1>1, <1>2, <1>3

LEMMA OpenEditorKeeps ==
  ASSUME DocInv, NEW r \in Requests, OpenEditor(r)
  PROVE  DocInv'
<1>1. /\ step[r] = "idle" /\ op' = [op EXCEPT ![r] = "save"]
      /\ screen' = [screen EXCEPT ![r] = doc.content] /\ basis' = [basis EXCEPT ![r] = Len(writes)]
      /\ Goto(r, "editing")
      /\ UNCHANGED <<doc, history, read, token, copies, writes, seen, linked>>
  BY DEF OpenEditor
<1>2. /\ step' \in [Requests -> {"idle", "editing", "write", "done", "failed"}]
      /\ step'[r] = "editing" /\ \A q \in Requests : q # r => step'[q] = step[q]
  BY <1>1, Went
<1>3. Len(writes) \in Nat /\ doc.content \in Contents
  BY DEF DocInv, DocTypes, Rows
<1>4. DocTypes' /\ OthersKeep(r)
  BY <1>1, <1>2, <1>3 DEF DocInv, DocTypes, OthersKeep, Ops, Edits
<1>5. op'[r] = "save" /\ screen'[r] = doc.content /\ basis'[r] = Len(writes)
  BY <1>1 DEF DocInv, DocTypes
<1>6. /\ WritesInOrder' /\ VersionsCount'
      /\ Holds(doc'.content, writes', op', basis', Len(writes'))
      /\ \A q \in Requests : q # r => OpFits(q)' /\ BuildsOnMeant(q)'
  BY <1>1, <1>4, NoWrite DEF DocInv, VersionsCount
<1>7. LinksInOrder' /\ \A q \in Requests : q # r => AnswerFits(q)'
  BY <1>1, <1>4, NoLink
<1>8. OpFits(r)'
  BY <1>1, <1>2, <1>3, <1>5 DEF OpFits
<1>9. AnswerFits(r)'
  <2>1. token[r] = NoToken
    BY <1>1 DEF DocInv, Fits, AnswerFits
  <2> QED
    BY <1>1, <1>5, <2>1 DEF AnswerFits, Links
<1>10. BuildsOnMeant(r)'
  BY <1>1, <1>5, <1>6 DEF BuildsOnMeant, Base
<1> QED
  BY <1>4, <1>6, <1>7, <1>8, <1>9, <1>10 DEF DocInv, Fits

LEMMA SaveReadsKeeps ==
  ASSUME DocInv, NEW r \in Requests, SaveReads(r)
  PROVE  DocInv'
<1>1. /\ step[r] = "editing" /\ read' = [read EXCEPT ![r] = doc]
      /\ seen' = [seen EXCEPT ![r] = Len(writes)] /\ Goto(r, "write")
      /\ UNCHANGED <<doc, history, op, screen, token, copies, writes, basis, linked>>
  BY DEF SaveReads
<1>2. /\ step' \in [Requests -> {"idle", "editing", "write", "done", "failed"}]
      /\ step'[r] = "write" /\ \A q \in Requests : q # r => step'[q] = step[q]
  BY <1>1, Went
<1>3. Len(writes) \in Nat /\ doc \in Rows /\ doc.version = Len(writes) + 1
  BY Current
<1>4. DocTypes' /\ OthersKeep(r)
  BY <1>1, <1>2, <1>3 DEF DocInv, DocTypes, OthersKeep
<1>5. read'[r] = doc /\ seen'[r] = Len(writes)
  BY <1>1 DEF DocInv, DocTypes
<1>6. /\ op[r] = "save" /\ basis[r] <= Len(writes) /\ basis[r] \in Nat /\ token[r] = NoToken
      /\ Holds(screen[r], writes, op, basis, basis[r])
  <2>1. OpFits(r) /\ AnswerFits(r) /\ BuildsOnMeant(r)
    BY DEF DocInv, Fits
  <2>2. op[r] = "save" /\ basis[r] <= Len(writes) /\ token[r] = NoToken
    BY <1>1, <2>1 DEF OpFits, AnswerFits
  <2>3. Holds(screen[r], writes, op, basis, basis[r])
    BY <1>1, <2>1, <2>2 DEF BuildsOnMeant, Builds, Base, Edits
  <2>4. basis[r] \in Nat
    BY DEF DocInv, DocTypes
  <2> QED
    BY <2>2, <2>3, <2>4
<1>7. /\ WritesInOrder' /\ VersionsCount'
      /\ Holds(doc'.content, writes', op', basis', Len(writes'))
      /\ \A content : \A n \in 0..Len(writes) :
           Holds(content, writes', op', basis', n) <=> Holds(content, writes, op, basis, n)
      /\ \A q \in Requests : q # r => OpFits(q)' /\ BuildsOnMeant(q)'
  BY <1>1, <1>3, <1>4, <1>5, NoWrite
<1>8. LinksInOrder' /\ \A q \in Requests : q # r => AnswerFits(q)'
  BY <1>1, <1>4, NoLink
<1>9. OpFits(r)'
  BY <1>1, <1>2, <1>5, <1>6 DEF OpFits
<1>10. AnswerFits(r)'
  BY <1>1, <1>6 DEF AnswerFits, Links
<1>11. BuildsOnMeant(r)'
  <2>1. basis[r] \in 0..Len(writes)
    BY <1>3, <1>6
  <2> QED
    BY <1>1, <1>6, <1>7, <2>1 DEF BuildsOnMeant, Base
<1> QED
  BY <1>4, <1>7, <1>8, <1>9, <1>10, <1>11 DEF DocInv, Fits

LEMMA getOneKeeps ==
  ASSUME DocInv, NEW r \in Requests, NEW o \in Ops \ {"save"}, getOne(r, o)
  PROVE  DocInv'
<1> DEFINE base == IF o \in Links THEN Len(linked) ELSE Len(writes)
<1>1. /\ step[r] = "idle" /\ op' = [op EXCEPT ![r] = o] /\ read' = [read EXCEPT ![r] = doc]
      /\ basis' = [basis EXCEPT ![r] = base] /\ seen' = [seen EXCEPT ![r] = Len(writes)]
      /\ Goto(r, "write")
      /\ UNCHANGED <<doc, history, screen, token, copies, writes, linked>>
  BY DEF getOne
<1>2. /\ step' \in [Requests -> {"idle", "editing", "write", "done", "failed"}]
      /\ step'[r] = "write" /\ \A q \in Requests : q # r => step'[q] = step[q]
  BY <1>1, Went
<1>3. /\ Len(writes) \in Nat /\ Len(linked) \in Nat /\ doc \in Rows
      /\ doc.version = Len(writes) + 1 /\ doc.share = ShareOf(linked, op, Len(linked))
      /\ base \in Nat /\ (o \in Links => base = Len(linked)) /\ (o \notin Links => base = Len(writes))
  BY Current
<1> HIDE DEF base
<1>4. DocTypes' /\ OthersKeep(r)
  BY <1>1, <1>2, <1>3 DEF DocInv, DocTypes, OthersKeep
<1>5. /\ op'[r] = o /\ read'[r] = doc /\ basis'[r] = base /\ seen'[r] = Len(writes)
      /\ read'[r].version = seen'[r] + 1 /\ seen'[r] <= Len(writes)
  BY <1>1, <1>3 DEF DocInv, DocTypes
<1>6. /\ WritesInOrder' /\ VersionsCount'
      /\ Holds(doc'.content, writes', op', basis', Len(writes'))
      /\ \A q \in Requests : q # r => OpFits(q)' /\ BuildsOnMeant(q)'
  BY <1>1, <1>4, <1>5, NoWrite
<1>7. /\ LinksInOrder' /\ \A q \in Requests : q # r => AnswerFits(q)'
      /\ \A n \in 0..Len(linked) : ShareOf(linked', op', n) = ShareOf(linked, op, n)
  BY <1>1, <1>4, NoLink
<1>8. OpFits(r)'
  BY <1>1, <1>2, <1>3, <1>5 DEF OpFits, Ops, Edits, Links
<1>9. AnswerFits(r)'
  <2>1. token[r] = NoToken
    BY <1>1 DEF DocInv, Fits, AnswerFits
  <2>2. Len(linked) \in 0..Len(linked)
    BY <1>3
  <2>3. ShareOf(linked', op', Len(linked)) = read'[r].share
    BY <1>3, <1>5, <1>7, <2>2
  <2>4. o \in Links => basis'[r] <= Len(linked') /\ read'[r].share = ShareOf(linked', op', basis'[r])
    BY <1>1, <1>3, <1>5, <2>2, <2>3
  <2>5. token'[r] = NoToken /\ step'[r] # "done"
    BY <1>1, <1>2, <2>1
  <2> QED
    BY <1>5, <2>4, <2>5 DEF AnswerFits
<1>10. BuildsOnMeant(r)'
  <2>1. o \in Edits => base = Len(writes) /\ o # "save"
    BY <1>3 DEF Edits, Links
  <2> QED
    BY <1>1, <1>5, <1>6, <2>1 DEF BuildsOnMeant, Builds, Base
<1> QED
  BY <1>4, <1>6, <1>7, <1>8, <1>9, <1>10 DEF DocInv, Fits

\* A step that ends r and stores neither content nor link.
LEMMA EndsKeep ==
  ASSUME DocInv, NEW r \in Requests, step[r] \in {"editing", "write"},
         NEW s \in {"done", "failed"}, Goto(r, s), DocTypes',
         UNCHANGED <<history, op, screen, read, basis, seen, writes, linked>>,
         doc'.content = doc.content, doc'.version = doc.version, doc'.share = doc.share,
         \A q \in Requests : q # r => token'[q] = token[q],
         \/ token'[r] = token[r]
         \/ op[r] = "share" /\ s = "done" /\ token'[r] = read[r].share,
         ~(op[r] = "unshare" /\ s = "done" /\ read[r].share # NoToken)
  PROVE  DocInv'
<1>1. step'[r] = s /\ \A q \in Requests : q # r => step'[q] = step[q]
  BY Went
<1>2. OthersKeep(r)
  BY <1>1 DEF OthersKeep
<1>3. /\ read[r].version = seen[r] + 1 /\ seen[r] <= Len(writes)
      /\ OpFits(r) /\ AnswerFits(r)
  BY DEF DocInv, VersionsCount, Fits
<1>4. /\ WritesInOrder' /\ VersionsCount'
      /\ Holds(doc'.content, writes', op', basis', Len(writes'))
      /\ \A q \in Requests : q # r => OpFits(q)' /\ BuildsOnMeant(q)'
  BY <1>2, <1>3, NoWrite
<1>5. LinksInOrder' /\ \A q \in Requests : q # r => AnswerFits(q)'
  BY <1>2, NoLink
<1>6. OpFits(r)' /\ BuildsOnMeant(r)'
  BY <1>1, <1>3 DEF OpFits, BuildsOnMeant, Builds
<1>7. AnswerFits(r)'
  BY <1>1, <1>3 DEF AnswerFits, Linked
<1> QED
  BY <1>4, <1>5, <1>6, <1>7 DEF DocInv, Fits

LEMMA RenameKeeps ==
  ASSUME DocInv, NEW r \in Requests, Rename(r)
  PROVE  DocInv'
<1>1. /\ step[r] = "write" /\ op[r] = "rename" /\ doc' = [doc EXCEPT !.title = r]
      /\ Goto(r, "done")
      /\ UNCHANGED <<history, op, screen, read, token, copies, writes, basis, seen, linked>>
  BY DEF Rename, ghosts
<1>2. doc' \in Rows /\ doc'.content = doc.content /\ doc'.version = doc.version
      /\ doc'.share = doc.share
  BY <1>1 DEF DocInv, DocTypes, Rows, Authors
<1>3. step' \in [Requests -> {"idle", "editing", "write", "done", "failed"}]
  BY <1>1, Went
<1>4. DocTypes'
  BY <1>1, <1>2, <1>3 DEF DocInv, DocTypes
<1> QED
  BY <1>1, <1>2, <1>4, EndsKeep

LEMMA duplicateKeeps ==
  ASSUME DocInv, NEW r \in Requests, duplicate(r)
  PROVE  DocInv'
<1>1. /\ step[r] = "write" /\ op[r] = "duplicate" /\ copies' = copies \cup {read[r].content}
      /\ Goto(r, "done")
      /\ UNCHANGED <<doc, history, op, screen, read, token, writes, basis, seen, linked>>
  BY DEF duplicate, ghosts
<1>2. step' \in [Requests -> {"idle", "editing", "write", "done", "failed"}]
  BY <1>1, Went
<1>3. DocTypes'
  <2>1. read[r].content \in Contents
    BY DEF DocInv, DocTypes, Rows
  <2> QED
    BY <1>1, <1>2, <2>1 DEF DocInv, DocTypes
<1> QED
  BY <1>1, <1>3, EndsKeep

LEMMA FailKeeps ==
  ASSUME DocInv, NEW r \in Requests, Fail(r)
  PROVE  DocInv'
<1>1. /\ step[r] \in {"editing", "write"} /\ Goto(r, "failed")
      /\ UNCHANGED <<doc, history, op, screen, read, token, copies, writes, basis, seen, linked>>
  BY DEF Fail, ghosts
<1>2. step' \in [Requests -> {"idle", "editing", "write", "done", "failed"}]
  BY <1>1, Went
<1>3. DocTypes'
  BY <1>1, <1>2 DEF DocInv, DocTypes
<1> QED
  BY <1>1, <1>3, EndsKeep

\* A step of r that stores a link, or takes it away.
LEMMA LinkWriteKeeps ==
  ASSUME DocInv, NEW r \in Requests, step[r] = "write", op[r] \in Links, Goto(r, "done"),
         read[r].share # NoToken <=> op[r] = "unshare",
         doc' \in Rows, doc'.content = doc.content, doc'.version = doc.version,
         doc'.share = IF op[r] = "share" THEN r ELSE NoToken,
         linked' = Append(linked, r),
         token' = [token EXCEPT ![r] = IF op[r] = "share" THEN r ELSE token[r]],
         UNCHANGED <<history, op, screen, read, copies, writes, basis, seen>>
  PROVE  DocInv'
<1>1. /\ step' \in [Requests -> {"idle", "editing", "write", "done", "failed"}]
      /\ step'[r] = "done" /\ \A q \in Requests : q # r => step'[q] = step[q]
  BY Went
<1>2. /\ linked \in Seq(Requests) /\ basis \in [Requests -> Nat]
      /\ token \in [Requests -> Requests \cup {NoToken}]
  BY DEF DocInv, DocTypes
<1>3. /\ linked' \in Seq(Requests) /\ Len(linked') = Len(linked) + 1 /\ Len(linked) \in Nat
      /\ \A i \in 1..Len(linked) : linked'[i] = linked[i]
      /\ linked'[Len(linked) + 1] = r
      /\ \A i \in 1..Len(linked') : i \in 1..Len(linked) \/ i = Len(linked) + 1
  BY <1>2, Appended
<1>4. /\ \A i \in 1..Len(linked) : linked[i] \in Requests /\ linked[i] # r
  BY NotYetAWriter
<1>5. /\ token' \in [Requests -> Requests \cup {NoToken}]
      /\ token'[r] = (IF op[r] = "share" THEN r ELSE token[r])
      /\ \A q \in Requests : q # r => token'[q] = token[q]
  BY <1>2
<1>6. DocTypes' /\ OthersKeep(r)
  BY <1>1, <1>3, <1>5 DEF DocInv, DocTypes, OthersKeep
<1>7. /\ read[r].version = seen[r] + 1 /\ seen[r] <= Len(writes)
      /\ OpFits(r) /\ AnswerFits(r) /\ BuildsOnMeant(r)
  BY DEF DocInv, VersionsCount, Fits
<1>8. /\ WritesInOrder' /\ VersionsCount'
      /\ Holds(doc'.content, writes', op', basis', Len(writes'))
      /\ \A q \in Requests : q # r => OpFits(q)' /\ BuildsOnMeant(q)'
  BY <1>6, <1>7, NoWrite
<1>9. ASSUME NEW n \in 0..Len(linked)
      PROVE  ShareOf(linked', op', n) = ShareOf(linked, op, n)
  <2>1. n = 0 \/ n \in 1..Len(linked)
    BY <1>3
  <2> QED
    BY <1>3, <2>1 DEF ShareOf
<1>10. basis[r] \in 0..Len(linked) /\ read[r].share = ShareOf(linked, op, basis[r])
  BY <1>2, <1>3, <1>7 DEF AnswerFits
<1>11. LinksInOrder'
  <2>1. ASSUME NEW i \in 1..Len(linked)
        PROVE  LET w == linked'[i]
               IN  /\ op'[w] \in Links /\ step'[w] = "done" /\ basis'[w] < i
                   /\ op'[w] = "share" => ShareOf(linked', op', basis'[w]) = NoToken
    <3> DEFINE w == linked[i]
    <3>1. /\ op[w] \in Links /\ step[w] = "done" /\ basis[w] < i
          /\ op[w] = "share" => ShareOf(linked, op, basis[w]) = NoToken
      BY DEF DocInv, LinksInOrder
    <3>2. w \in Requests /\ w # r
      BY <1>4
    <3>3. basis[w] \in 0..Len(linked)
      BY <1>2, <1>3, <3>1, <3>2
    <3> QED
      BY <1>1, <1>3, <1>9, <3>1, <3>2, <3>3
  <2>2. /\ op'[r] \in Links /\ step'[r] = "done" /\ basis'[r] < Len(linked) + 1
        /\ op'[r] = "share" => ShareOf(linked', op', basis'[r]) = NoToken
    BY <1>1, <1>3, <1>9, <1>10 DEF Links
  <2>3. \A i, j \in 1..Len(linked') : linked'[i] = linked'[j] => i = j
    BY <1>3, <1>4 DEF DocInv, LinksInOrder
  <2>4. doc'.share = ShareOf(linked', op', Len(linked'))
    BY <1>3 DEF ShareOf
  <2>5. ASSUME NEW i \in 1..Len(linked')
        PROVE  LET w == linked'[i]
               IN  /\ op'[w] \in Links /\ step'[w] = "done" /\ basis'[w] < i
                   /\ op'[w] = "share" => ShareOf(linked', op', basis'[w]) = NoToken
    <3>1. CASE i \in 1..Len(linked)
      BY <2>1, <3>1
    <3>2. CASE i = Len(linked) + 1
      BY <1>3, <2>2, <3>2
    <3> QED
      BY <1>3, <3>1, <3>2
  <2> QED
    BY <2>3, <2>4, <2>5 DEF LinksInOrder
<1>12. \A q \in Requests : Linked(q) => Linked(q)'
  <2>1. 1..Len(linked) \subseteq 1..Len(linked')
    BY <1>3
  <2> QED
    BY <1>3, <2>1 DEF Linked
<1>13. Linked(r)'
  <2>1. Len(linked) + 1 \in 1..Len(linked')
    BY <1>3
  <2> QED
    BY <1>3, <2>1 DEF Linked
<1>14. ASSUME NEW q \in Requests, q # r
       PROVE  AnswerFits(q)'
  <2>1. AnswerFits(q)
    BY DEF DocInv, Fits
  <2>2. op[q] \in Links => basis[q] \in 0..Len(linked)
    BY <1>2, <1>3, <2>1 DEF AnswerFits
  <2>3. op'[q] \in Links => /\ basis'[q] <= Len(linked')
                            /\ read'[q].share = ShareOf(linked', op', basis'[q])
    BY <1>3, <1>9, <2>1, <2>2 DEF AnswerFits
  <2> QED
    BY <1>1, <1>5, <1>12, <1>14, <2>1, <2>3 DEF AnswerFits
<1>15. AnswerFits(r)'
  <2>1. basis'[r] <= Len(linked') /\ read'[r].share = ShareOf(linked', op', basis'[r])
    BY <1>3, <1>9, <1>10
  <2>2. token[r] = NoToken
    BY <1>7 DEF AnswerFits
  <2> QED
    BY <1>1, <1>5, <1>13, <2>1, <2>2 DEF AnswerFits
<1>16. OpFits(r)' /\ BuildsOnMeant(r)'
  BY <1>1, <1>7 DEF OpFits, BuildsOnMeant, Builds
<1> QED
  BY <1>6, <1>8, <1>11, <1>14, <1>15, <1>16 DEF DocInv, Fits

LEMMA shareKeeps ==
  ASSUME DocInv, NEW r \in Requests, share(r)
  PROVE  DocInv'
<1>1. /\ step[r] = "write" /\ op[r] = "share" /\ Goto(r, "done")
      /\ UNCHANGED <<history, op, screen, read, copies, writes, basis, seen>>
  BY DEF share
<1>2. CASE read[r].share # NoToken
  <2>1. token' = [token EXCEPT ![r] = read[r].share] /\ UNCHANGED <<doc, linked>>
    BY <1>2 DEF share
  <2>2. step' \in [Requests -> {"idle", "editing", "write", "done", "failed"}]
    BY <1>1, Went
  <2>3. read[r].share \in Requests \cup {NoToken} /\ token \in [Requests -> Requests \cup {NoToken}]
    BY DEF DocInv, DocTypes, Rows
  <2>4. /\ token' \in [Requests -> Requests \cup {NoToken}] /\ token'[r] = read[r].share
        /\ \A q \in Requests : q # r => token'[q] = token[q]
    BY <2>1, <2>3
  <2>5. DocTypes'
    BY <1>1, <2>1, <2>2, <2>4 DEF DocInv, DocTypes
  <2> QED
    BY <1>1, <2>1, <2>4, <2>5, EndsKeep
<1>3. CASE read[r].share = NoToken
  <2>1. /\ doc' = [doc EXCEPT !.share = r] /\ linked' = Append(linked, r)
        /\ token' = [token EXCEPT ![r] = r]
    BY <1>3 DEF share
  <2>2. /\ doc' \in Rows /\ doc'.content = doc.content /\ doc'.version = doc.version
        /\ doc'.share = r
    BY <2>1 DEF DocInv, DocTypes, Rows
  <2> QED
    BY <1>1, <1>3, <2>1, <2>2, LinkWriteKeeps DEF Links
<1> QED
  BY <1>2, <1>3

LEMMA unshareKeeps ==
  ASSUME DocInv, NEW r \in Requests, unshare(r)
  PROVE  DocInv'
<1>1. /\ step[r] = "write" /\ op[r] = "unshare" /\ Goto(r, "done")
      /\ UNCHANGED <<history, op, screen, read, token, copies, writes, basis, seen>>
  BY DEF unshare
<1>2. CASE read[r].share = NoToken
  <2>1. UNCHANGED <<doc, linked>>
    BY <1>2 DEF unshare
  <2>2. step' \in [Requests -> {"idle", "editing", "write", "done", "failed"}]
    BY <1>1, Went
  <2>3. DocTypes'
    BY <1>1, <2>1, <2>2 DEF DocInv, DocTypes
  <2> QED
    BY <1>1, <1>2, <2>1, <2>3, EndsKeep
<1>3. CASE read[r].share # NoToken
  <2>1. doc' = [doc EXCEPT !.share = NoToken] /\ linked' = Append(linked, r)
    BY <1>3 DEF unshare
  <2>2. /\ doc' \in Rows /\ doc'.content = doc.content /\ doc'.version = doc.version
        /\ doc'.share = NoToken
    BY <2>1 DEF DocInv, DocTypes, Rows
  <2>3. token' = [token EXCEPT ![r] = token[r]]
    BY <1>1 DEF DocInv, DocTypes
  <2> QED
    BY <1>1, <1>3, <2>1, <2>2, <2>3, LinkWriteKeeps DEF Links
<1> QED
  BY <1>2, <1>3

LEMMA applyEditKeeps ==
  ASSUME DocInv, NEW r \in Requests, applyEdit(r)
  PROVE  DocInv'
<1> DEFINE n == Len(writes)
<1>1. /\ step[r] = "write" /\ op[r] \in Edits /\ history' = history \cup {Snapshot(r)}
      /\ doc' = [doc EXCEPT !.content = NextContent(r), !.version = Bump(r)]
      /\ writes' = Append(writes, r) /\ Goto(r, "done")
      /\ UNCHANGED <<op, screen, read, token, copies, basis, seen, linked>>
  BY DEF applyEdit
<1>2. /\ step' \in [Requests -> {"idle", "editing", "write", "done", "failed"}]
      /\ step'[r] = "done" /\ \A q \in Requests : q # r => step'[q] = step[q]
  BY <1>1, Went
<1>3. /\ writes \in Seq(Requests) /\ basis \in [Requests -> Nat] /\ seen \in [Requests -> Nat]
      /\ read \in [Requests -> Rows] /\ screen \in [Requests -> Contents]
      /\ op \in [Requests -> Ops \cup {"none"}] /\ doc \in Rows
  BY DEF DocInv, DocTypes
<1>4. /\ writes' \in Seq(Requests) /\ Len(writes') = n + 1 /\ n \in Nat
      /\ \A i \in 1..n : writes'[i] = writes[i]
      /\ writes'[n + 1] = r
      /\ \A i \in 1..Len(writes') : i \in 1..n \/ i = n + 1
  BY <1>1, <1>3, Appended
<1>5. \A i \in 1..n : writes[i] \in Requests /\ writes[i] # r
  BY <1>1, NotYetAWriter
<1>6. doc.version = n + 1
  BY Current
<1>7. /\ \A q \in Requests : read[q].version = seen[q] + 1 /\ seen[q] <= n
      /\ OpFits(r) /\ AnswerFits(r) /\ BuildsOnMeant(r)
  BY DEF DocInv, VersionsCount, Fits
<1>8. basis[r] <= seen[r] /\ basis[r] \in Nat /\ seen[r] \in Nat
  BY <1>1, <1>3, <1>7 DEF OpFits
<1>9. /\ NextContent(r) \in Contents
      /\ NextContent(r).text = (IF op[r] \in Setters("text") THEN r ELSE Base(r).text)
      /\ NextContent(r).price = (IF op[r] \in Setters("price") THEN r ELSE Base(r).price)
  <2>1. screen[r] \in Contents /\ read[r].content \in Contents
    BY <1>3 DEF Rows
  <2>2. CASE op[r] = "save"
    BY <2>1, <2>2 DEF NextContent, Contents, Authors, Setters, Base
  <2>3. CASE op[r] = "tone"
    BY <2>1, <2>3 DEF NextContent, Contents, Authors, Setters, Base
  <2>4. CASE op[r] = "pricing"
    BY <2>1, <2>4 DEF NextContent, Contents, Authors, Setters, Base
  <2> QED
    BY <1>1, <2>2, <2>3, <2>4 DEF Edits
<1>10. /\ doc' \in Rows /\ doc'.content = NextContent(r) /\ doc'.version = n + 2
       /\ doc'.share = doc.share
  <2>1. Bump(r) = n + 2 /\ Bump(r) \in Nat
    BY <1>4, <1>6 DEF Bump
  <2> QED
    BY <1>1, <1>3, <1>9, <2>1 DEF Rows
<1>11. /\ Snapshot(r) \in [by : Requests, version : Nat, content : Contents]
       /\ Snapshot(r).by = r
  BY <1>3 DEF Snapshot, Rows
<1>12. DocTypes' /\ OthersKeep(r)
  BY <1>1, <1>2, <1>4, <1>10, <1>11 DEF DocInv, DocTypes, OthersKeep
<1>13. WritesInOrder'
  <2>1. ASSUME NEW i \in 1..Len(writes')
        PROVE  LET w == writes'[i]
               IN  op'[w] \in Edits /\ step'[w] = "done" /\ basis'[w] <= seen'[w] /\ seen'[w] < i
    <3>1. CASE i \in 1..n
      <4>1. LET w == writes[i]
            IN  op[w] \in Edits /\ step[w] = "done" /\ basis[w] <= seen[w] /\ seen[w] < i
        BY <3>1 DEF DocInv, WritesInOrder
      <4> QED
        BY <1>1, <1>2, <1>4, <1>5, <3>1, <4>1
    <3>2. CASE i = n + 1
      BY <1>1, <1>2, <1>4, <1>7, <1>8, <3>2
    <3> QED
      BY <1>4, <3>1, <3>2
  <2>2. \A i, j \in 1..Len(writes') : writes'[i] = writes'[j] => i = j
    BY <1>4, <1>5 DEF DocInv, WritesInOrder
  <2> QED
    BY <2>1, <2>2 DEF WritesInOrder
<1>14. VersionsCount'
  <2>1. history = {Snapshot(writes[i]) : i \in 1..n} /\ IsFiniteSet(history)
        /\ Cardinality(history) = n
    BY DEF DocInv, VersionsCount
  <2>2. \A x : Snapshot(x) = [by |-> x, version |-> read[x].version, content |-> read[x].content]
    BY DEF Snapshot
  <2>3. Snapshot(r) \notin history
    BY <1>5, <1>11, <2>1 DEF Snapshot
  <2>4. \A i \in 1..Len(writes') : Snapshot(writes[i])' = Snapshot(writes'[i])
    BY <1>1 DEF Snapshot
  <2>5. 1..Len(writes') = 1..n \cup {n + 1}
    BY <1>4
  <2>6. history' = {Snapshot(writes'[i]) : i \in 1..Len(writes')}
    <3>1. \A i \in 1..n : Snapshot(writes'[i]) = Snapshot(writes[i])
      BY <1>4
    <3>2. history = {Snapshot(writes'[i]) : i \in 1..n}
      BY <2>1, <3>1
    <3>3. Snapshot(r) = Snapshot(writes'[n + 1])
      BY <1>4
    <3> QED
      BY <1>1, <2>5, <3>2, <3>3
  <2>7. history' = {Snapshot(writes[i])' : i \in 1..Len(writes')}
    BY <2>4, <2>6
  <2>8. IsFiniteSet(history') /\ Cardinality(history') = Len(writes')
    <3>1. /\ IsFiniteSet(history \cup {Snapshot(r)})
          /\ Cardinality(history \cup {Snapshot(r)}) = Cardinality(history) + 1
      BY <2>1, <2>3, FS_AddElement
    <3> QED
      BY <1>1, <1>4, <2>1, <3>1
  <2>9. \A q \in Requests : read'[q].version = seen'[q] + 1 /\ seen'[q] <= Len(writes')
    BY <1>1, <1>3, <1>4, <1>7
  <2> QED
    BY <1>4, <1>10, <2>7, <2>8, <2>9 DEF VersionsCount
<1>15. ASSUME NEW content, NEW m \in 0..n
       PROVE  Holds(content, writes', op', basis', m) <=> Holds(content, writes, op, basis, m)
  <2>1. \A i \in 1..m : /\ writes'[i] = writes[i] /\ op'[writes[i]] = op[writes[i]]
                        /\ basis'[writes[i]] = basis[writes[i]]
    BY <1>1, <1>4
  <2>2. m \in Nat
    BY <1>4
  <2> QED
    BY <2>1, <2>2, PrefixDecides
<1>16. Holds(doc'.content, writes', op', basis', Len(writes'))
  <2> SUFFICES ASSUME Unraced(writes', basis', n + 1)
               PROVE  /\ Last("text", doc'.content.text, writes', op', n + 1)
                      /\ Last("price", doc'.content.price, writes', op', n + 1)
    BY <1>4 DEF Holds
  <2>1. basis[r] = n /\ Unraced(writes', basis', n)
    BY <1>1, <1>4 DEF Unraced
  <2>2. Holds(Base(r), writes', op', basis', n)
    <3>1. n \in 0..n
      BY <1>4
    <3> QED
      BY <1>1, <1>7, <1>15, <2>1, <3>1 DEF BuildsOnMeant, Builds
  <2>3. /\ Last("text", Base(r).text, writes', op', n)
        /\ Last("price", Base(r).price, writes', op', n)
    BY <2>1, <2>2 DEF Holds
  <2>4. op' = op
    BY <1>1
  <2>5. Last("text", doc'.content.text, writes', op', n + 1)
    BY <1>4, <1>9, <1>10, <2>3, <2>4, LastWrite
  <2>6. Last("price", doc'.content.price, writes', op', n + 1)
    BY <1>4, <1>9, <1>10, <2>3, <2>4, LastWrite
  <2> QED
    BY <2>5, <2>6
<1>17. ASSUME NEW q \in Requests, q # r
       PROVE  OpFits(q)' /\ BuildsOnMeant(q)'
  <2>1. OpFits(q) /\ BuildsOnMeant(q)
    BY DEF DocInv, Fits
  <2>2. OpFits(q)'
    BY <1>1, <1>2, <1>3, <1>4, <1>17, <2>1 DEF OpFits
  <2>3. ASSUME Builds(q)
        PROVE  Holds(Base(q), writes', op', basis', basis[q])
    <3>1. basis[q] \in 0..n
      <4>1. basis[q] \in Nat /\ seen[q] \in Nat /\ seen[q] <= n /\ n \in Nat
        BY <1>3, <1>4, <1>7
      <4>2. basis[q] <= n \/ basis[q] <= seen[q]
        BY <2>1, <2>3 DEF Builds, OpFits
      <4> QED
        BY <4>1, <4>2
    <3> QED
      BY <1>15, <2>1, <2>3, <3>1 DEF BuildsOnMeant
  <2>4. BuildsOnMeant(q)'
    BY <1>1, <1>2, <1>17, <2>3 DEF BuildsOnMeant, Builds, Base
  <2> QED
    BY <2>2, <2>4
<1>18. LinksInOrder' /\ \A q \in Requests : q # r => AnswerFits(q)'
  BY <1>1, <1>10, <1>12, NoLink
<1>19. OpFits(r)' /\ BuildsOnMeant(r)'
  BY <1>1, <1>2, <1>7 DEF OpFits, BuildsOnMeant, Builds
<1>20. AnswerFits(r)'
  BY <1>1, <1>7 DEF AnswerFits, Linked, Edits, Links
<1> QED
  BY <1>12, <1>13, <1>14, <1>16, <1>17, <1>18, <1>19, <1>20 DEF DocInv, Fits

-----------------------------------------------------------------------------
(* The theorems *)

LEMMA DocInvStarts == Init => DocInv
<1> SUFFICES ASSUME Init PROVE DocInv
  OBVIOUS
<1>1. /\ doc = Start /\ history = {} /\ op = [r \in Requests |-> "none"]
      /\ step = [r \in Requests |-> "idle"] /\ screen = [r \in Requests |-> Start.content]
      /\ read = [r \in Requests |-> Start] /\ token = [r \in Requests |-> NoToken]
      /\ copies = {} /\ writes = <<>> /\ basis = [r \in Requests |-> 0]
      /\ seen = [r \in Requests |-> 0] /\ linked = <<>>
  BY DEF Init
<1>2. Len(writes) = 0 /\ Len(linked) = 0 /\ 1..0 = {}
  BY <1>1
<1>3. /\ Start \in Rows /\ Start.content \in Contents /\ Start.version = 1
      /\ Start.share = NoToken
  BY DEF Start, Rows, Contents, Authors
<1>4. DocTypes
  BY <1>1, <1>3 DEF DocTypes
<1>5. WritesInOrder
  BY <1>2 DEF WritesInOrder
<1>6. VersionsCount
  <2>1. IsFiniteSet(history) /\ Cardinality(history) = 0
    BY <1>1, FS_EmptySet
  <2>2. history = {Snapshot(writes[i]) : i \in 1..Len(writes)}
    BY <1>1, <1>2
  <2>3. doc.version = 1 /\ \A r \in Requests : read[r].version = 1 /\ seen[r] = 0
    BY <1>1, <1>3
  <2> QED
    BY <1>2, <2>1, <2>2, <2>3 DEF VersionsCount
<1>7. LinksInOrder
  BY <1>1, <1>2, <1>3 DEF LinksInOrder, ShareOf
<1>8. Holds(doc.content, writes, op, basis, Len(writes))
  BY <1>1, <1>2 DEF Holds, Last, Start
<1>9. \A r \in Requests : Fits(r)
  BY <1>1, <1>2 DEF Fits, OpFits, AnswerFits, BuildsOnMeant, Builds, Edits, Links
<1> QED
  BY <1>4, <1>5, <1>6, <1>7, <1>8, <1>9 DEF DocInv

LEMMA DocInvKept == DocInv /\ [Next]_vars => DocInv'
<1> SUFFICES ASSUME DocInv, [Next]_vars PROVE DocInv'
  OBVIOUS
<1>1. CASE UNCHANGED vars
  <2>1. UNCHANGED <<doc, history, op, step, screen, read, token, copies, writes, basis, seen, linked>>
    BY <1>1 DEF vars
  <2>2. DocTypes' /\ WritesInOrder' /\ LinksInOrder'
    BY <2>1 DEF DocInv, DocTypes, WritesInOrder, LinksInOrder
  <2>3. VersionsCount'
    BY <2>1 DEF DocInv, VersionsCount, Snapshot
  <2>4. Holds(doc.content, writes, op, basis, Len(writes))'
    BY <2>1 DEF DocInv
  <2>5. \A r \in Requests : Fits(r)'
    BY <2>1 DEF DocInv, Fits, OpFits, AnswerFits, Linked, BuildsOnMeant, Builds, Base
  <2> QED
    BY <2>2, <2>3, <2>4, <2>5 DEF DocInv
<1>2. CASE Next
  <2>1. PICK r \in Requests :
          \/ OpenEditor(r) \/ SaveReads(r) \/ applyEdit(r) \/ Rename(r) \/ duplicate(r)
          \/ share(r) \/ unshare(r) \/ Fail(r)
          \/ \E o \in Ops \ {"save"} : getOne(r, o)
    BY <1>2 DEF Next
  <2> QED
    BY <2>1, OpenEditorKeeps, SaveReadsKeeps, applyEditKeeps, RenameKeeps, duplicateKeeps,
       shareKeeps, unshareKeeps, FailKeeps, getOneKeeps
<1> QED
  BY <1>1, <1>2

(* Whatever the order of the reads and the writes, the history, the versions,  *)
(* the links and the content fit together as the writes say (update,           *)
(* applyAdjustment, share and unshare of DocumentsService).                    *)
THEOREM DocumentHolds == Spec => []DocInv
<1>1. Init => DocInv
  BY DocInvStarts
<1>2. DocInv /\ [Next]_vars => DocInv'
  BY DocInvKept
<1> QED
  BY <1>1, <1>2, PTL DEF Spec

LEMMA TypesHold == DocInv => TypeOK
<1> SUFFICES ASSUME DocInv PROVE TypeOK
  OBVIOUS
<1>1. Cardinality(history) = Len(writes) /\ doc.version = Len(writes) + 1
  BY Zenon DEF DocInv, VersionsCount
<1>2. Len(writes) \in Nat
  BY Current
<1>3. doc.version = 1 + Cardinality(history)
  BY <1>1, <1>2
<1> QED
  BY <1>3 DEF DocInv, DocTypes, TypeOK

(* Every row keeps its type, and the version of the document is one more than  *)
(* the rows of its history, for any number of edits at once: the snapshot and  *)
(* the increment go into one transaction.                                      *)
THEOREM TypeCorrect == Spec => []TypeOK
BY TypesHold, DocumentHolds, PTL

LEMMA Place ==
  ASSUME NEW S, NEW seq \in Seq(S), NEW i \in 1..Len(seq),
         \A j, k \in 1..Len(seq) : seq[j] = seq[k] => j = k
  PROVE  PlaceIn(seq, seq[i]) = i
<1>1. DOMAIN seq = 1..Len(seq)
  OBVIOUS
<1>2. PlaceIn(seq, seq[i]) \in DOMAIN seq /\ seq[PlaceIn(seq, seq[i])] = seq[i]
  BY <1>1 DEF PlaceIn
<1> QED
  BY <1>1, <1>2

LEMMA NumbersInOrder == DocInv => HistoryOrdered
<1> SUFFICES ASSUME DocInv, NEW a \in history, NEW b \in history, a.version >= b.version
             PROVE  seen[b.by] < PlaceIn(writes, a.by)
  BY DEF HistoryOrdered
<1>1. /\ history = {Snapshot(writes[i]) : i \in 1..Len(writes)}
      /\ \A r \in Requests : read[r].version = seen[r] + 1
  BY DEF DocInv, VersionsCount
<1>2. /\ writes \in Seq(Requests) /\ seen \in [Requests -> Nat]
      /\ \A i \in 1..Len(writes) : writes[i] \in Requests
  BY DEF DocInv, DocTypes
<1>3. PICK i \in 1..Len(writes) : a = Snapshot(writes[i])
  BY <1>1
<1>4. PICK j \in 1..Len(writes) : b = Snapshot(writes[j])
  BY <1>1
<1>5. /\ a.by = writes[i] /\ a.version = seen[writes[i]] + 1
      /\ b.by = writes[j] /\ b.version = seen[writes[j]] + 1
  BY <1>1, <1>2, <1>3, <1>4 DEF Snapshot
<1>6. /\ seen[writes[i]] < i
      /\ \A k, m \in 1..Len(writes) : writes[k] = writes[m] => k = m
  BY DEF DocInv, WritesInOrder
<1>7. PlaceIn(writes, writes[i]) = i
  BY <1>2, <1>6, Place
<1>8. seen[writes[i]] \in Nat /\ seen[writes[j]] \in Nat
  BY <1>2
<1> QED
  BY <1>5, <1>6, <1>7, <1>8

(* Two history rows are numbered in the order of the writes, unless neither    *)
(* request saw the other's write when it read the document.                    *)
THEOREM HistoryIsOrdered == Spec => []HistoryOrdered
BY NumbersInOrder, DocumentHolds, PTL

\* A link once stored is the document's until the next link writer, which, if it is
\* a share, had looked for a token before.
LEMMA NextLinkWriter ==
  ASSUME DocInv, NEW i \in 1..Len(linked), op[linked[i]] = "share", doc.share # linked[i]
  PROVE  /\ i + 1 \in 1..Len(linked) /\ ShareOf(linked, op, i) = linked[i]
         /\ \/ op[linked[i + 1]] = "unshare"
            \/ /\ op[linked[i + 1]] = "share" /\ linked[i + 1] # linked[i]
               /\ basis[linked[i + 1]] < PlaceIn(linked, linked[i])
<1>1. /\ linked \in Seq(Requests) /\ basis \in [Requests -> Nat]
      /\ \A j \in 1..Len(linked) : linked[j] \in Requests
  BY DEF DocInv, DocTypes
<1>2. Len(linked) \in Nat
  BY <1>1
<1>3. ShareOf(linked, op, i) = linked[i]
  BY DEF ShareOf
<1>4. doc.share = ShareOf(linked, op, Len(linked))
  BY Current
<1>5. i + 1 \in 1..Len(linked)
  <2>1. i # Len(linked)
    BY <1>3, <1>4
  <2> QED
    BY <1>2, <2>1
<1>6. /\ op[linked[i + 1]] \in Links /\ basis[linked[i + 1]] < i + 1
      /\ op[linked[i + 1]] = "share" => ShareOf(linked, op, basis[linked[i + 1]]) = NoToken
      /\ \A j, k \in 1..Len(linked) : linked[j] = linked[k] => j = k
  BY <1>5 DEF DocInv, LinksInOrder
<1>7. PlaceIn(linked, linked[i]) = i
  BY <1>1, <1>6, Place
<1>8. linked[i + 1] # linked[i]
  BY <1>2, <1>5, <1>6
<1>9. op[linked[i + 1]] = "share" => basis[linked[i + 1]] < i
  <2>1. linked[i] # NoToken
    BY <1>1, DocumentAssumption DEF Authors
  <2>2. basis[linked[i + 1]] \in Nat
    BY <1>1, <1>5
  <2>3. op[linked[i + 1]] = "share" => basis[linked[i + 1]] # i
    BY <1>3, <1>6, <2>1
  <2> QED
    BY <1>2, <1>6, <2>2, <2>3
<1> QED
  BY <1>3, <1>5, <1>6, <1>7, <1>8, <1>9 DEF Links

LEMMA LinksLast == DocInv => LinksStayAlive
<1> SUFFICES ASSUME DocInv, NEW r \in Requests, token[r] # NoToken, doc.share # token[r]
             PROVE  \E i \in basis[r] + 1 .. Len(linked) :
                      \/ op[linked[i]] = "unshare"
                      \/ linked[i] # r /\ basis[linked[i]] < PlaceIn(linked, token[r])
  BY DEF LinksStayAlive
<1>1. /\ basis[r] \in Nat /\ Len(linked) \in Nat
      /\ \A j \in 1..Len(linked) : linked[j] \in Requests
  BY DEF DocInv, DocTypes
<1>2. /\ op[r] = "share" /\ step[r] = "done" /\ basis[r] <= Len(linked)
      /\ read[r].share = ShareOf(linked, op, basis[r])
      /\ token[r] = read[r].share \/ (token[r] = r /\ Linked(r))
  BY DEF DocInv, Fits, AnswerFits, Links
<1>3. /\ \A i \in 1..Len(linked) :
           /\ basis[linked[i]] < i
           /\ op[linked[i]] = "share" => ShareOf(linked, op, basis[linked[i]]) = NoToken
      /\ \A j, k \in 1..Len(linked) : linked[j] = linked[k] => j = k
  BY DEF DocInv, LinksInOrder
<1>4. CASE token[r] = read[r].share
  <2> DEFINE b == basis[r]
  <2>1. b # 0 /\ op[linked[b]] = "share" /\ token[r] = linked[b]
    BY <1>2, <1>4 DEF ShareOf
  <2>2. b \in 1..Len(linked)
    BY <1>1, <1>2, <2>1
  <2>3. /\ b + 1 \in 1..Len(linked)
        /\ \/ op[linked[b + 1]] = "unshare"
           \/ /\ op[linked[b + 1]] = "share" /\ linked[b + 1] # linked[b]
              /\ basis[linked[b + 1]] < PlaceIn(linked, linked[b])
    BY <2>1, <2>2, NextLinkWriter
  <2>4. linked[b + 1] # r
    BY <1>2, <1>3, <1>4, <2>3
  <2>5. b + 1 \in b + 1 .. Len(linked)
    BY <1>1, <2>3
  <2> QED
    BY <2>1, <2>3, <2>4, <2>5
<1>5. CASE token[r] = r /\ Linked(r)
  <2>1. PICK i \in 1..Len(linked) : linked[i] = r
    BY <1>5 DEF Linked
  <2>2. /\ i + 1 \in 1..Len(linked)
        /\ \/ op[linked[i + 1]] = "unshare"
           \/ /\ op[linked[i + 1]] = "share" /\ linked[i + 1] # linked[i]
              /\ basis[linked[i + 1]] < PlaceIn(linked, linked[i])
    BY <1>2, <1>5, <2>1, NextLinkWriter
  <2>3. i + 1 \in basis[r] + 1 .. Len(linked)
    BY <1>1, <1>3, <2>1, <2>2
  <2> QED
    BY <1>5, <2>1, <2>2, <2>3
<1> QED
  BY <1>2, <1>4, <1>5

LEMMA LinksDie == DocInv => UnshareRevokes
<1> SUFFICES ASSUME DocInv, NEW r \in Requests,
                    op[r] = "unshare", step[r] = "done", read[r].share # NoToken
             PROVE  doc.share # read[r].share
  BY DEF UnshareRevokes
<1>1. basis[r] \in Nat /\ Len(linked) \in Nat
  BY DEF DocInv, DocTypes
<1>2. read[r].share = ShareOf(linked, op, basis[r]) /\ Linked(r)
  BY DEF DocInv, Fits, AnswerFits, Links
<1>3. PICK i \in 1..Len(linked) : linked[i] = r
  BY <1>2 DEF Linked
<1>4. /\ basis[r] < i
      /\ \A j, k \in 1..Len(linked) : linked[j] = linked[k] => j = k
  BY <1>3 DEF DocInv, LinksInOrder
<1>5. basis[r] # 0 /\ read[r].share = linked[basis[r]]
  BY <1>2 DEF ShareOf
<1>6. doc.share = ShareOf(linked, op, Len(linked))
  BY Current
<1>7. basis[r] \in 1..Len(linked) /\ Len(linked) \in 1..Len(linked) /\ basis[r] # Len(linked)
  BY <1>1, <1>3, <1>4, <1>5
<1>8. linked[Len(linked)] # linked[basis[r]]
  BY <1>4, <1>7
<1> QED
  BY <1>2, <1>5, <1>6, <1>8 DEF ShareOf

(* A link that share answered is the document's until an unshare or a share    *)
(* that raced it; a link that an unshare has found and answered is dead.       *)
THEOREM LinksLive == Spec => []LinksFollowAnswers
<1>1. DocInv => LinksFollowAnswers
  BY LinksLast, LinksDie DEF LinksFollowAnswers
<1> QED
  BY <1>1, DocumentHolds, PTL

\* Last is a relation; there is one writer that it relates to the field.
LEMMA LastIsLastTo ==
  ASSUME DocInv, NEW field \in {"text", "price"}, NEW who,
         Last(field, who, writes, op, Len(writes))
  PROVE  who = LastTo(field)
<1> DEFINE meant == {i \in DOMAIN writes :
                       op[writes[i]] \in IF field = "text" THEN {"save", "tone"} ELSE {"pricing"}}
<1>1. DOMAIN writes = 1..Len(writes) /\ Len(writes) \in Nat
  BY DEF DocInv, DocTypes
<1>2. \A i : i \in meant <=> i \in 1..Len(writes) /\ op[writes[i]] \in Setters(field)
  BY <1>1 DEF Setters
<1>3. LastTo(field) = IF meant = {} THEN Original
                      ELSE writes[CHOOSE i \in meant : \A j \in meant : j <= i]
  BY DEF LastTo
<1> HIDE DEF meant
<1>4. CASE who = Original /\ \A i \in 1..Len(writes) : op[writes[i]] \notin Setters(field)
  BY <1>2, <1>3, <1>4
<1>5. ASSUME NEW i \in 1..Len(writes), who = writes[i], op[writes[i]] \in Setters(field),
             \A j \in 1..Len(writes) : j > i => op[writes[j]] \notin Setters(field)
      PROVE  who = LastTo(field)
  <2>1. i \in meant /\ meant # {}
    BY <1>2, <1>5
  <2>2. \A j \in meant : j <= i /\ j \in Nat
    BY <1>1, <1>2, <1>5
  <2>3. (CHOOSE k \in meant : \A j \in meant : j <= k) = i
    <3>1. \A k \in meant : (\A j \in meant : j <= k) => k = i
      BY <2>1, <2>2
    <3> QED
      BY <2>1, <2>2, <3>1
  <2> QED
    BY <1>3, <1>5, <2>1, <2>3
<1> QED
  BY <1>4, <1>5 DEF Last

LEMMA OnlyRacesLose == DocInv => EditsLostOnlyToRaces
<1> SUFFICES ASSUME DocInv, NothingRaced
             PROVE  /\ \A field \in {"text", "price"} : doc.content[field] = LastTo(field)
                    /\ {h.version : h \in history} = 1 .. doc.version - 1
  BY DEF EditsLostOnlyToRaces
<1>1. /\ DOMAIN writes = 1..Len(writes) /\ Len(writes) \in Nat
      /\ \A i \in 1..Len(writes) : writes[i] \in Requests
      /\ seen \in [Requests -> Nat] /\ basis \in [Requests -> Nat]
  BY DEF DocInv, DocTypes
<1>2. \A i \in 1..Len(writes) : basis[writes[i]] = i - 1
  BY <1>1 DEF NothingRaced
<1>3. \A field \in {"text", "price"} : doc.content[field] = LastTo(field)
  <2>1. /\ Last("text", doc.content.text, writes, op, Len(writes))
        /\ Last("price", doc.content.price, writes, op, Len(writes))
    BY <1>2 DEF DocInv, Holds, Unraced
  <2> QED
    BY <2>1, LastIsLastTo
<1>4. {h.version : h \in history} = 1 .. doc.version - 1
  <2>1. \A i \in 1..Len(writes) : Snapshot(writes[i]).version = i
    <3> TAKE i \in 1..Len(writes)
    <3>1. basis[writes[i]] <= seen[writes[i]] /\ seen[writes[i]] < i
      BY DEF DocInv, WritesInOrder
    <3>2. Snapshot(writes[i]).version = seen[writes[i]] + 1
      BY <1>1 DEF DocInv, VersionsCount, Snapshot
    <3>3. seen[writes[i]] \in Nat
      BY <1>1
    <3> QED
      BY <1>2, <3>1, <3>2, <3>3
  <2>2. history = {Snapshot(writes[i]) : i \in 1..Len(writes)}
    BY Zenon DEF DocInv, VersionsCount
  <2>3. {h.version : h \in history} = {i : i \in 1..Len(writes)}
    BY <2>1, <2>2
  <2>4. doc.version - 1 = Len(writes)
    BY <1>1, Current
  <2> QED
    BY <2>3, <2>4
<1> QED
  BY <1>3, <1>4

(* An edit is lost only to a race: with none, both fields hold what was last   *)
(* meant for them, and the history the content of every earlier version.       *)
THEOREM EditsLost == Spec => []EditsLostOnlyToRaces
BY OnlyRacesLose, DocumentHolds, PTL
==============================================================================
