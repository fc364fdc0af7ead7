------------------------------ MODULE Sessions -------------------------------
(***************************************************************************)
(* The sessions of one user: AuthService.login with its lockout, refresh   *)
(* with rotation and reuse detection, logout and logout-all, as requests   *)
(* that run side by side, one action per database statement.  A request    *)
(* issues at most one refresh token, so the token carries its name; First  *)
(* is the token the user already holds.  The membership row that refresh   *)
(* looks up is never deleted by the server, so that lookup always finds it.*)
(***************************************************************************)
EXTENDS Naturals, FiniteSets

CONSTANTS
  Requests,         \* the requests that may be served, each once
  First,            \* the refresh token held at the start
  NoToken,
  MAX_FAILED_LOGINS

Tokens == Requests \cup {First}

ASSUME SessionsAssumption ==
  /\ IsFiniteSet(Requests)
  /\ First \notin Requests
  /\ NoToken \notin Tokens
  /\ MAX_FAILED_LOGINS \in Nat \ {0}

VARIABLES
  row,         \* [Tokens -> RefreshToken row; the three revocations set revokedAt alike]
  expired,     \* tokens past expiresAt, revoked ones too
  replacedBy,  \* [Tokens -> RefreshToken.replacedById]
  failed,      \* User.failedLoginCount
  locked,      \* User.lockedUntil: "never", "ahead", or "past"
  step,        \* [Requests -> next statement, or how the request ended]
  presented,   \* [Requests -> token presented, NoToken for a login]
  read,        \* [Requests -> the failedLoginCount and lockedUntil a login read]
  wrong,       \* history: passwords found wrong
  atSweep,     \* history: tokens issued before the last revoke-all
  inFlight     \* history: requests that had claimed their token before it

tokenVars == <<row, expired, replacedBy>>
lockVars  == <<failed, locked, read, wrong>>
history   == <<atSweep, inFlight>>
vars == <<row, expired, replacedBy, failed, locked, step, presented, read, wrong,
          atSweep, inFlight>>

Revoked == {"rotated", "loggedOut", "swept"}
Final   == {"ok", "refused", "reuse", "loggedOut", "dead"}

Init ==
  /\ row = [t \in Tokens |-> IF t = First THEN "active" ELSE "absent"]
  /\ expired = {}
  /\ replacedBy = [t \in Tokens |-> NoToken]
  /\ failed = 0
  /\ locked = "never"
  /\ step = [r \in Requests |-> "idle"]
  /\ presented = [r \in Requests |-> NoToken]
  /\ read = [r \in Requests |-> [failed |-> 0, locked |-> "never"]]
  /\ wrong = 0
  /\ atSweep = {}
  /\ inFlight = {}

Goto(r, s) == step' = [step EXCEPT ![r] = s]

\* Tokens some client holds: those of requests that have been answered.
Held == {First} \cup {r \in Requests : step[r] = "ok"}

-----------------------------------------------------------------------------
(* login *)

LoginReads(r) ==
  /\ step[r] = "idle"
  /\ read' = [read EXCEPT ![r] = [failed |-> failed, locked |-> locked]]
  /\ Goto(r, IF locked = "ahead" THEN "refused" ELSE "compare")
  /\ UNCHANGED <<tokenVars, failed, locked, wrong, presented, history>>

\* Defect: the lock does not start the count afresh.
CountOn(n) ==
  [failed |-> n + 1, locked |-> IF n + 1 >= MAX_FAILED_LOGINS THEN "ahead" ELSE locked]

\* Defect: the account is locked one attempt early.
CountEarly(n) ==
  IF n + 2 >= MAX_FAILED_LOGINS THEN [failed |-> 0, locked |-> "ahead"]
  ELSE [failed |-> n + 1, locked |-> locked]

\* What a failed login that read n writes; the lock it does not mention stays.
AfterFailure(n) ==
  IF n + 1 >= MAX_FAILED_LOGINS THEN [failed |-> 0, locked |-> "ahead"]
  ELSE [failed |-> n + 1, locked |-> locked]

\* The count is written from the row read before the password was compared;
\* the write is best effort.
recordFailedLogin(r) ==
  /\ step[r] = "compare"
  /\ wrong' = wrong + 1
  /\ \/ UNCHANGED <<failed, locked>>
     \/ LET after == AfterFailure(read[r].failed)
        IN  failed' = after.failed /\ locked' = after.locked
  /\ Goto(r, "refused")
  /\ UNCHANGED <<tokenVars, presented, read, history>>

LoginSucceeds(r) ==
  /\ step[r] = "compare"
  /\ IF read[r].failed > 0 \/ read[r].locked # "never"
     THEN failed' = 0 /\ locked' = "never"
     ELSE UNCHANGED <<failed, locked>>
  /\ Goto(r, "issue")
  /\ UNCHANGED <<tokenVars, presented, read, wrong, history>>

LockoutEnds ==
  /\ locked = "ahead"
  /\ locked' = "past"
  /\ UNCHANGED <<tokenVars, failed, read, wrong, step, presented, history>>

-----------------------------------------------------------------------------
(* refresh *)

\* The token's own expiry is checked first (jwt.verify), and is the one of its row.
RefreshFinds(r, t) ==
  /\ step[r] = "idle"
  /\ presented' = [presented EXCEPT ![r] = t]
  /\ Goto(r, IF t \in expired THEN "refused"
             ELSE IF row[t] \in Revoked THEN "sweep" ELSE "claim")
  /\ UNCHANGED <<tokenVars, lockVars, history>>

\* Defect: the claim names the token and forgets revokedAt: null.
ClaimByToken(r) ==
  /\ step[r] = "claim"
  /\ row' = [row EXCEPT ![presented[r]] = "rotated"]
  /\ Goto(r, "issue")
  /\ UNCHANGED <<expired, replacedBy, lockVars, presented, history>>

\* updateMany where revokedAt is null: one winner, and the loser is taken for reuse.
Claim(r) ==
  /\ step[r] = "claim"
  /\ IF row[presented[r]] = "active"
     THEN row' = [row EXCEPT ![presented[r]] = "rotated"] /\ Goto(r, "issue")
     ELSE UNCHANGED row /\ Goto(r, "sweep")
  /\ UNCHANGED <<expired, replacedBy, lockVars, presented, history>>

issueTokens(r) ==
  /\ step[r] = "issue"
  /\ row' = [row EXCEPT ![r] = "active"]
  /\ Goto(r, IF presented[r] = NoToken THEN "ok" ELSE "link")
  /\ UNCHANGED <<expired, replacedBy, lockVars, presented, history>>

LinkReplacement(r) ==
  /\ step[r] = "link"
  /\ replacedBy' = [replacedBy EXCEPT ![presented[r]] = r]
  /\ Goto(r, "ok")
  /\ UNCHANGED <<row, expired, lockVars, presented, history>>

-----------------------------------------------------------------------------
(* revocation *)

\* Defect: a revoke-all that names the token presented instead of the user.
revokeOnlyPresented(r) ==
  /\ row' = [t \in Tokens |-> IF t = presented[r] /\ row[t] = "active" THEN "swept" ELSE row[t]]
  /\ atSweep' = {t \in Tokens : row[t] # "absent"}
  /\ inFlight' = {q \in Requests : step[q] = "issue"}
  /\ UNCHANGED <<expired, replacedBy, lockVars>>

revokeAllForUser(r) ==
  /\ row' = [t \in Tokens |-> IF row[t] = "active" THEN "swept" ELSE row[t]]
  /\ atSweep' = {t \in Tokens : row[t] # "absent"}
  /\ inFlight' = {q \in Requests : step[q] = "issue"}
  /\ UNCHANGED <<expired, replacedBy, lockVars>>

ReuseDetected(r) ==
  /\ step[r] = "sweep"
  /\ revokeAllForUser(r)
  /\ Goto(r, "reuse")
  /\ UNCHANGED presented

LogoutAll(r) ==
  /\ step[r] = "idle"
  /\ revokeAllForUser(r)
  /\ Goto(r, "loggedOut")
  /\ UNCHANGED presented

\* A failing statement is swallowed: the answer is the same.
Logout(r, t) ==
  /\ step[r] = "idle"
  /\ presented' = [presented EXCEPT ![r] = t]
  /\ \/ UNCHANGED row
     \/ row[t] = "active" /\ row' = [row EXCEPT ![t] = "loggedOut"]
  /\ Goto(r, "loggedOut")
  /\ UNCHANGED <<expired, replacedBy, lockVars, history>>

TokenExpires(t) ==
  /\ row[t] # "absent" /\ t \notin expired
  /\ expired' = expired \cup {t}
  /\ UNCHANGED <<row, replacedBy, lockVars, step, presented, history>>

\* The process dies, or a statement fails, with the request half done.
Abandon(r) ==
  /\ step[r] \notin Final \cup {"idle"}
  /\ Goto(r, "dead")
  /\ UNCHANGED <<tokenVars, lockVars, presented, history>>

Next ==
  \/ LockoutEnds
  \/ \E t \in Tokens : TokenExpires(t)
  \/ \E r \in Requests :
       \/ LoginReads(r) \/ recordFailedLogin(r) \/ LoginSucceeds(r)
       \/ Claim(r) \/ issueTokens(r) \/ LinkReplacement(r)
       \/ ReuseDetected(r) \/ LogoutAll(r) \/ Abandon(r)
       \/ \E t \in Held : RefreshFinds(r, t) \/ Logout(r, t)

Spec == Init /\ [][Next]_vars
-----------------------------------------------------------------------------
TypeOK ==
  /\ row \in [Tokens -> Revoked \cup {"absent", "active"}]
  /\ expired \subseteq Tokens
  /\ replacedBy \in [Tokens -> Requests \cup {NoToken}]
  /\ failed \in 0 .. MAX_FAILED_LOGINS - 1
  /\ locked \in {"never", "ahead", "past"}
  /\ step \in [Requests -> Final \cup {"idle", "compare", "claim", "issue", "link", "sweep"}]
  /\ presented \in [Requests -> Tokens \cup {NoToken}]
  /\ read \in [Requests -> [failed : 0 .. MAX_FAILED_LOGINS - 1, locked : {"never", "ahead", "past"}]]
  /\ wrong \in Nat
  /\ atSweep \subseteq Tokens /\ inFlight \subseteq Requests

\* The request r has exchanged the token it presented.
Exchanged(r) ==
  presented[r] # NoToken /\ (step[r] = "issue" \/ row[r] # "absent")

(* A refresh token is exchanged at most once, never after a logout or a       *)
(* revoke-all reached it, and replacedById names the one request that did.    *)
ExchangedOnce ==
  \A r \in Requests :
    /\ Exchanged(r) =>
         /\ row[presented[r]] = "rotated"
         /\ \A q \in Requests \ {r} : Exchanged(q) => presented[q] # presented[r]
    /\ \A t \in Tokens : replacedBy[t] = r => presented[r] = t /\ row[r] # "absent"

(* What a revoke-all leaves: a token that is alive and was obtained with one   *)
(* issued before the revoke-all belongs to a refresh that had already claimed. *)
SweepSparesOnlyRaces ==
  \A r \in Requests :
    row[r] = "active" /\ presented[r] \in atSweep => r \in inFlight

(* The stored count, and the lock, are backed by that many wrong passwords,    *)
(* however the reads and writes of parallel logins interleave.                 *)
LockNeedsFailures ==
  /\ failed <= wrong
  /\ locked = "ahead" => wrong >= MAX_FAILED_LOGINS
==============================================================================
