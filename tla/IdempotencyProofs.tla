-------------------------- MODULE IdempotencyProofs --------------------------
(***************************************************************************)
(* Idempotency, for every set of requests, organisations and keys.         *)
(***************************************************************************)
EXTENDS Idempotency, TLAPS

\* A request answered with its own execution left its row completed with its
\* response, and a completed row was completed by such a request.
CompletedRows ==
  /\ \A r \in Requests : stage[r] = "ok" /\ target[r] # NoRow => entry[target[r]] = Completed(r)
  /\ \A w \in Rows : entry[w].status = "completed" =>
       \E r \in Requests : stage[r] = "ok" /\ target[r] = w /\ entry[w] = Completed(r)

\* What the table promises, as an inductive invariant: who may touch a row, and
\* what a completed row says.
TableInv == TypeOK /\ ClaimExclusive /\ CompletedRows /\ ReplayFaithful

LEMMA InitTable == Init => TableInv
<1> SUFFICES ASSUME Init PROVE TableInv
  OBVIOUS
<1>1. TypeOK
  BY DEF Init, TypeOK, Entries, Absent, Stages
<1>2. ClaimExclusive /\ CompletedRows /\ ReplayFaithful
  BY DEF Init, ClaimExclusive, Owns, CompletedRows, ReplayFaithful, Absent
<1> QED
  BY <1>1, <1>2 DEF TableInv

LEMMA TypeStep == TypeOK /\ [Next]_vars => TypeOK'
<1> SUFFICES ASSUME TypeOK, [Next]_vars PROVE TypeOK'
  OBVIOUS
<1> USE IdempotencyAssumption DEF TypeOK, Entries, Stages, MoveTo
<1>1. ASSUME NEW r \in Requests, NEW w \in Rows, Claim(r, w)
      PROVE  TypeOK'
  BY <1>1 DEF Claim, Pending
<1>2. ASSUME NEW r \in Requests, PassThrough(r) \/ ClaimFails(r) \/ Conflict(r) \/ LookupFails(r)
                                 \/ CompleteFails(r) \/ UnclaimFails(r)
      PROVE  TypeOK'
  BY <1>2 DEF PassThrough, ClaimFails, Conflict, LookupFails, CompleteFails, UnclaimFails
<1>3. ASSUME NEW r \in Requests, Replay(r) \/ HandlerReturns(r) \/ HandlerThrows(r)
      PROVE  TypeOK'
  BY <1>3 DEF Replay, HandlerReturns, HandlerThrows
<1>4. ASSUME NEW r \in Requests, Complete(r) \/ Unclaim(r)
      PROVE  TypeOK'
  BY <1>4 DEF Complete, Unclaim, Completed, Absent
<1>5. ASSUME NEW S \in SUBSET Requests, Crash(S)
      PROVE  TypeOK'
  BY <1>5 DEF Crash
<1>6. CASE UNCHANGED vars
  BY <1>6 DEF vars
<1> QED
  BY <1>1, <1>2, <1>3, <1>4, <1>5, <1>6 DEF Next

\* A claim succeeds only on a row nobody owns, and an owner is the only one who
\* may complete or delete it.
LEMMA ExclusiveStep == TypeOK /\ ClaimExclusive /\ [Next]_vars => ClaimExclusive'
<1> SUFFICES ASSUME TypeOK, ClaimExclusive, [Next]_vars PROVE ClaimExclusive'
  OBVIOUS
<1> USE IdempotencyAssumption DEF TypeOK, ClaimExclusive, Owns, MoveTo
<1>1. ASSUME NEW r \in Requests, NEW w \in Rows, Claim(r, w)
      PROVE  ClaimExclusive'
  BY <1>1 DEF Claim, Pending
<1>2. ASSUME NEW r \in Requests, PassThrough(r) \/ ClaimFails(r) \/ Conflict(r) \/ LookupFails(r)
                                 \/ CompleteFails(r) \/ UnclaimFails(r)
      PROVE  ClaimExclusive'
  BY <1>2 DEF PassThrough, ClaimFails, Conflict, LookupFails, CompleteFails, UnclaimFails
<1>3. ASSUME NEW r \in Requests, Replay(r) \/ HandlerReturns(r) \/ HandlerThrows(r)
      PROVE  ClaimExclusive'
  BY <1>3 DEF Replay, HandlerReturns, HandlerThrows
<1>4. ASSUME NEW r \in Requests, Complete(r)
      PROVE  ClaimExclusive'
  BY <1>4 DEF Complete, Completed, Pending
<1>5. ASSUME NEW r \in Requests, Unclaim(r)
      PROVE  ClaimExclusive'
  BY <1>5 DEF Unclaim, Absent, Pending
<1>6. ASSUME NEW S \in SUBSET Requests, Crash(S)
      PROVE  ClaimExclusive'
  BY <1>6 DEF Crash, Finished
<1>7. CASE UNCHANGED vars
  BY <1>7 DEF vars
<1> QED
  BY <1>1, <1>2, <1>3, <1>4, <1>5, <1>6, <1>7 DEF Next

LEMMA CompletedStep == TableInv /\ [Next]_vars => CompletedRows'
<1> SUFFICES ASSUME TypeOK, ClaimExclusive, CompletedRows, [Next]_vars PROVE CompletedRows'
  BY DEF TableInv
<1> USE IdempotencyAssumption DEF TypeOK, ClaimExclusive, Owns, CompletedRows, MoveTo
<1>1. ASSUME NEW r \in Requests, NEW w \in Rows, Claim(r, w)
      PROVE  CompletedRows'
  <2>1. \A q \in Requests : stage'[q] = "ok" =>
          q # r /\ stage[q] = "ok" /\ target'[q] = target[q]
    BY <1>1 DEF Claim
  <2>2. \A q \in Requests : stage[q] = "ok" => stage'[q] = "ok" /\ target'[q] = target[q]
    BY <1>1 DEF Claim
  <2>3. \A v \in Rows : entry[v].status # "absent" => entry'[v] = entry[v]
    BY <1>1 DEF Claim
  <2>4. \A v \in Rows : entry'[v].status = "completed" => entry'[v] = entry[v]
    BY <1>1 DEF Claim, Pending
  <2>5. \A q \in Requests : stage'[q] = "ok" /\ target'[q] # NoRow => entry'[target'[q]] = Completed(q)
    BY <2>1, <2>3 DEF Completed
  <2> QED
    BY <2>2, <2>4, <2>5
<1>2. ASSUME NEW r \in Requests, PassThrough(r) \/ ClaimFails(r) \/ Conflict(r) \/ LookupFails(r)
                                 \/ CompleteFails(r) \/ UnclaimFails(r)
      PROVE  CompletedRows'
  BY <1>2 DEF PassThrough, ClaimFails, Conflict, LookupFails, CompleteFails, UnclaimFails
<1>3. ASSUME NEW r \in Requests, Replay(r) \/ HandlerReturns(r) \/ HandlerThrows(r)
      PROVE  CompletedRows'
  BY <1>3 DEF Replay, HandlerReturns, HandlerThrows
<1>4. ASSUME NEW r \in Requests, Complete(r)
      PROVE  CompletedRows'
  BY <1>4 DEF Complete, Completed, Pending
<1>5. ASSUME NEW r \in Requests, Unclaim(r)
      PROVE  CompletedRows'
  <2>1. /\ target[r] \in Rows /\ entry[target[r]] = Pending
        /\ target' = target /\ entry' = [entry EXCEPT ![target[r]] = Absent]
        /\ \A q \in Requests : stage'[q] = "ok" <=> stage[q] = "ok"
    BY <1>5 DEF Unclaim
  <2>2. ASSUME NEW q \in Requests, stage[q] = "ok", target[q] = target[r]
        PROVE  FALSE
    <3>1. target[q] # NoRow
      BY <2>1, <2>2
    <3>2. entry[target[q]] = Completed(q)
      BY <2>2, <3>1
    <3>3. Completed(q) = Pending
      BY <2>1, <2>2, <3>2
    <3> QED
      BY <3>3 DEF Completed, Pending
  <2>3. \A w \in Rows : entry'[w].status = "completed" => w # target[r] /\ entry'[w] = entry[w]
    BY <2>1 DEF Absent
  <2>4. \A q \in Requests : stage[q] = "ok" /\ target[q] # NoRow => entry'[target[q]] = Completed(q)
    BY <2>1, <2>2
  <2> HIDE DEF CompletedRows
  <2>5. \A w \in Rows : entry[w].status = "completed" =>
          \E q \in Requests : stage[q] = "ok" /\ target[q] = w /\ entry[w] = Completed(q)
    BY DEF CompletedRows
  <2>6. \A w \in Rows : entry'[w].status = "completed" =>
          \E q \in Requests : stage'[q] = "ok" /\ target'[q] = w /\ entry'[w] = Completed(q)
    BY <2>1, <2>3, <2>5
  <2> QED
    BY <2>1, <2>4, <2>6 DEF CompletedRows, Completed
<1>6. ASSUME NEW S \in SUBSET Requests, Crash(S)
      PROVE  CompletedRows'
  BY <1>6 DEF Crash, Finished
<1>7. CASE UNCHANGED vars
  BY <1>7 DEF vars
<1> QED
  BY <1>1, <1>2, <1>3, <1>4, <1>5, <1>6, <1>7 DEF Next

LEMMA ReplayStep == TableInv /\ [Next]_vars => ReplayFaithful'
<1> SUFFICES ASSUME TypeOK, CompletedRows, ReplayFaithful, [Next]_vars PROVE ReplayFaithful'
  BY DEF TableInv
<1> USE IdempotencyAssumption DEF TypeOK, CompletedRows, ReplayFaithful, MoveTo, Completed
<1>1. ASSUME NEW r \in Requests, NEW w \in Rows, Claim(r, w)
      PROVE  ReplayFaithful'
  BY <1>1 DEF Claim, Pending
<1>2. ASSUME NEW r \in Requests, PassThrough(r) \/ ClaimFails(r) \/ Conflict(r) \/ LookupFails(r)
                                 \/ CompleteFails(r) \/ UnclaimFails(r)
      PROVE  ReplayFaithful'
  BY <1>2 DEF PassThrough, ClaimFails, Conflict, LookupFails, CompleteFails, UnclaimFails
<1>3. ASSUME NEW r \in Requests, Replay(r) \/ HandlerReturns(r) \/ HandlerThrows(r)
      PROVE  ReplayFaithful'
  BY <1>3 DEF Replay, HandlerReturns, HandlerThrows
<1>4. ASSUME NEW r \in Requests, Complete(r)
      PROVE  ReplayFaithful'
  BY <1>4 DEF Complete, Completed, Pending
<1>5. ASSUME NEW r \in Requests, Unclaim(r)
      PROVE  ReplayFaithful'
  BY <1>5 DEF Unclaim, Absent, Pending
<1>6. ASSUME NEW S \in SUBSET Requests, Crash(S)
      PROVE  ReplayFaithful'
  BY <1>6 DEF Crash, Finished
<1>7. CASE UNCHANGED vars
  BY <1>7 DEF vars
<1> QED
  BY <1>1, <1>2, <1>3, <1>4, <1>5, <1>6, <1>7 DEF Next

LEMMA TableStep == TableInv /\ [Next]_vars => TableInv'
BY TypeStep, ExclusiveStep, CompletedStep, ReplayStep DEF TableInv

THEOREM TableSafe == Spec => []TableInv
<1>1. Init => TableInv
  BY InitTable
<1> QED
  BY <1>1, TableStep, PTL DEF Spec

\* Every variable keeps its type, and a request that looks a row up or settles one has one.
THEOREM TypeCorrect == Spec => []TypeOK
<1>1. TableInv => TypeOK
  BY DEF TableInv
<1> QED
  BY <1>1, TableSafe, PTL

\* At most one request owns a key's row at any time, however claims, failures,
\* deletions and crashes interleave.
THEOREM OneOwner == Spec => []ClaimExclusive
<1>1. TableInv => ClaimExclusive
  BY DEF TableInv
<1> QED
  BY <1>1, TableSafe, PTL

\* Every replay hands out the response of a successful request with the same key.
THEOREM ReplaysAreFaithful == Spec => []ReplayFaithful
<1>1. TableInv => ReplayFaithful
  BY DEF TableInv
<1> QED
  BY <1>1, TableSafe, PTL

\* No two requests with the same key are both answered with their own execution.
THEOREM OneOriginal == Spec => []OneOriginalPerKey
<1>1. TableInv => OneOriginalPerKey
  <2> SUFFICES ASSUME TableInv, NEW r \in Requests, NEW q \in Requests,
                      stage[r] = "ok", stage[q] = "ok", target[r] = target[q], target[r] # NoRow
               PROVE  r = q
    BY DEF OneOriginalPerKey
  <2>1. Completed(r) = Completed(q)
    BY DEF TableInv, CompletedRows
  <2> QED
    BY <2>1 DEF Completed
<1> QED
  BY <1>1, TableSafe, PTL

\* A key's row has one owner at a time, and its key one executed answer in all.
THEOREM KeysAreOwnedOnce == Spec => []OneOwnerPerKey
<1>1. ClaimExclusive /\ OneOriginalPerKey <=> OneOwnerPerKey
  BY DEF OneOwnerPerKey
<1> QED
  BY <1>1, OneOwner, OneOriginal, PTL

\* A stored response is never deleted or replaced.
THEOREM ResponsesAreFinal == Spec => CompletedIsFinal
<1>1. TableInv /\ [Next]_vars =>
        [\A w \in Rows : entry[w].status = "completed" => entry'[w] = entry[w]]_vars
  <2> SUFFICES ASSUME TypeOK, ClaimExclusive, [Next]_vars,
                      NEW w \in Rows, entry[w].status = "completed"
               PROVE  entry'[w] = entry[w]
    BY DEF TableInv
  <2>1. \A r \in Requests : ~ Owns(r, w)
    BY DEF ClaimExclusive, Pending
  <2>2. ASSUME NEW r \in Requests, NEW v \in Rows, Claim(r, v)
        PROVE  entry'[w] = entry[w]
    BY <2>2 DEF Claim, TypeOK
  <2>3. ASSUME NEW r \in Requests, Complete(r) \/ Unclaim(r)
        PROVE  entry'[w] = entry[w]
    BY <2>1, <2>3 DEF Complete, Unclaim, Owns, TypeOK
  <2>4. ASSUME ~ \E r \in Requests : Complete(r) \/ Unclaim(r),
               ~ \E r \in Requests, v \in Rows : Claim(r, v)
        PROVE  entry' = entry
    BY <2>4 DEF Next, vars, PassThrough, ClaimFails, Replay, Conflict, LookupFails, HandlerReturns,
       HandlerThrows, CompleteFails, UnclaimFails, Crash
  <2> QED
    BY <2>2, <2>3, <2>4
<1> QED
  BY <1>1, TableSafe, PTL DEF Spec, CompletedIsFinal
==============================================================================
