---------------------------- MODULE SessionsProofs ----------------------------
(***************************************************************************)
(* Rotation, revocation and lockout, for any number of requests and any    *)
(* threshold.  SessionInv adds to the properties what they rest on: when   *)
(* in its life a request has issued its token, that a token once swept     *)
(* never comes back, and that a count read was backed by failures.         *)
(***************************************************************************)
EXTENDS Sessions, TLAPS

\* A request has issued its token only from the statement after the insert on, and
\* holds a token to refresh before it claims or links one; a login presents none.
IssuedLate ==
  \A r \in Requests :
    /\ row[r] # "absent" => step[r] \in {"link", "ok", "dead"}
    /\ step[r] = "link" => row[r] # "absent" /\ presented[r] # NoToken
    /\ step[r] = "claim" => presented[r] # NoToken
    /\ step[r] \in {"idle", "compare"} => presented[r] = NoToken

\* What existed at the last revoke-all is revoked for good, and whoever is about to
\* issue a successor to one of these tokens had claimed it by then.
SweptForGood ==
  /\ \A t \in atSweep : row[t] \in Revoked
  /\ \A r \in Requests : step[r] = "issue" /\ presented[r] \in atSweep => r \in inFlight

\* Whatever count a login read, that many passwords had been wrong.
CountsBacked == \A r \in Requests : read[r].failed <= wrong

SweepInv == SweptForGood /\ SweepSparesOnlyRaces
LockInv  == CountsBacked /\ LockNeedsFailures

SessionInv == TypeOK /\ IssuedLate /\ ExchangedOnce /\ SweepInv /\ LockInv

-----------------------------------------------------------------------------
LEMMA InitSessions == Init => SessionInv
<1> SUFFICES ASSUME Init PROVE SessionInv
  OBVIOUS
<1> USE SessionsAssumption DEF Init, Tokens, Revoked, Final
<1>1. TypeOK
  BY DEF TypeOK
<1>2. IssuedLate
  BY DEF IssuedLate
<1>3. ExchangedOnce
  BY DEF ExchangedOnce, Exchanged
<1>4. SweepInv
  BY DEF SweepInv, SweptForGood, SweepSparesOnlyRaces
<1>5. LockInv
  BY DEF LockInv, CountsBacked, LockNeedsFailures
<1> QED
  BY <1>1, <1>2, <1>3, <1>4, <1>5 DEF SessionInv

\* Types.
LEMMA TypesStep == TypeOK /\ [Next]_vars => TypeOK'
<1> SUFFICES ASSUME TypeOK, [Next]_vars PROVE TypeOK'
  OBVIOUS
<1> USE SessionsAssumption DEF TypeOK, Tokens, Revoked, Final, Goto, tokenVars, lockVars,
                               history
<1>1. CASE UNCHANGED vars
  BY <1>1 DEF vars
<1>2. CASE LockoutEnds
  BY <1>2 DEF LockoutEnds
<1>3. ASSUME NEW t \in Tokens, TokenExpires(t) PROVE TypeOK'
  BY <1>3 DEF TokenExpires
<1>4. ASSUME NEW r \in Requests, LoginReads(r) PROVE TypeOK'
  BY <1>4 DEF LoginReads
<1>5. ASSUME NEW r \in Requests, recordFailedLogin(r) PROVE TypeOK'
  <2>1. read[r].failed \in 0 .. MAX_FAILED_LOGINS - 1 /\ wrong' \in Nat
    BY <1>5 DEF recordFailedLogin
  <2>2. failed' \in 0 .. MAX_FAILED_LOGINS - 1 /\ locked' \in {"never", "ahead", "past"}
    BY <1>5, <2>1 DEF recordFailedLogin, AfterFailure
  <2> QED
    BY <1>5, <2>1, <2>2 DEF recordFailedLogin
<1>6. ASSUME NEW r \in Requests, LoginSucceeds(r) PROVE TypeOK'
  BY <1>6 DEF LoginSucceeds
<1>7. ASSUME NEW r \in Requests, Claim(r) PROVE TypeOK'
  BY <1>7 DEF Claim
<1>8. ASSUME NEW r \in Requests, issueTokens(r) PROVE TypeOK'
  BY <1>8 DEF issueTokens
<1>9. ASSUME NEW r \in Requests, LinkReplacement(r) PROVE TypeOK'
  BY <1>9 DEF LinkReplacement
<1>10. ASSUME NEW r \in Requests, revokeAllForUser(r),
              step' = [step EXCEPT ![r] = "reuse"] \/ step' = [step EXCEPT ![r] = "loggedOut"],
              UNCHANGED presented
       PROVE  TypeOK'
  BY <1>10 DEF revokeAllForUser
<1>11. ASSUME NEW r \in Requests, Abandon(r) PROVE TypeOK'
  BY <1>11 DEF Abandon
<1>12. ASSUME NEW r \in Requests, NEW t \in Held, RefreshFinds(r, t) PROVE TypeOK'
  BY <1>12 DEF RefreshFinds, Held
<1>13. ASSUME NEW r \in Requests, NEW t \in Held, Logout(r, t) PROVE TypeOK'
  BY <1>13 DEF Logout, Held
<1> QED
  BY <1>1, <1>2, <1>3, <1>4, <1>5, <1>6, <1>7, <1>8, <1>9, <1>10, <1>11, <1>12, <1>13
     DEF Next, ReuseDetected, LogoutAll

\* A request issues once, and nothing leads back to the states before.
LEMMA IssuedLateStep ==
  TypeOK /\ IssuedLate /\ [Next]_vars => IssuedLate'
<1> SUFFICES ASSUME TypeOK, IssuedLate, [Next]_vars PROVE IssuedLate'
  OBVIOUS
<1> USE SessionsAssumption DEF TypeOK, Tokens, Revoked, Final, Goto, tokenVars, lockVars,
                               history, IssuedLate
<1>1. CASE UNCHANGED vars
  BY <1>1 DEF vars
<1>2. CASE LockoutEnds
  BY <1>2 DEF LockoutEnds
<1>3. ASSUME NEW t \in Tokens, TokenExpires(t) PROVE IssuedLate'
  BY <1>3 DEF TokenExpires
<1>4. ASSUME NEW r \in Requests, LoginReads(r) PROVE IssuedLate'
  BY <1>4 DEF LoginReads
<1>5. ASSUME NEW r \in Requests, recordFailedLogin(r) PROVE IssuedLate'
  BY <1>5 DEF recordFailedLogin
<1>6. ASSUME NEW r \in Requests, LoginSucceeds(r) PROVE IssuedLate'
  BY <1>6 DEF LoginSucceeds
<1>7. ASSUME NEW r \in Requests, Claim(r) PROVE IssuedLate'
  BY <1>7 DEF Claim
<1>8. ASSUME NEW r \in Requests, issueTokens(r) PROVE IssuedLate'
  BY <1>8 DEF issueTokens
<1>9. ASSUME NEW r \in Requests, LinkReplacement(r) PROVE IssuedLate'
  BY <1>9 DEF LinkReplacement
<1>10. ASSUME NEW r \in Requests, ReuseDetected(r) \/ LogoutAll(r) PROVE IssuedLate'
  BY <1>10 DEF ReuseDetected, LogoutAll, revokeAllForUser
<1>11. ASSUME NEW r \in Requests, Abandon(r) PROVE IssuedLate'
  BY <1>11 DEF Abandon
<1>12. ASSUME NEW r \in Requests, NEW t \in Held, RefreshFinds(r, t) PROVE IssuedLate'
  BY <1>12 DEF RefreshFinds, Held
<1>13. ASSUME NEW r \in Requests, NEW t \in Held, Logout(r, t) PROVE IssuedLate'
  BY <1>13 DEF Logout, Held
<1> QED
  BY <1>1, <1>2, <1>3, <1>4, <1>5, <1>6, <1>7, <1>8, <1>9, <1>10, <1>11, <1>12, <1>13 DEF Next

\* Rotation: the claim finds the token active, which no token already exchanged is.
LEMMA ExchangeStep ==
  TypeOK /\ IssuedLate /\ ExchangedOnce /\ [Next]_vars => ExchangedOnce'
<1> SUFFICES ASSUME TypeOK, IssuedLate, ExchangedOnce, [Next]_vars PROVE ExchangedOnce'
  OBVIOUS
<1> USE SessionsAssumption DEF TypeOK, Tokens, Revoked, Final, Goto, tokenVars, lockVars,
                               history, IssuedLate, ExchangedOnce, Exchanged
<1>1. CASE UNCHANGED vars
  BY <1>1 DEF vars
<1>2. CASE LockoutEnds
  BY <1>2 DEF LockoutEnds
<1>3. ASSUME NEW t \in Tokens, TokenExpires(t) PROVE ExchangedOnce'
  BY <1>3 DEF TokenExpires
<1>4. ASSUME NEW r \in Requests, LoginReads(r) PROVE ExchangedOnce'
  BY <1>4 DEF LoginReads
<1>5. ASSUME NEW r \in Requests, recordFailedLogin(r) PROVE ExchangedOnce'
  BY <1>5 DEF recordFailedLogin
<1>6. ASSUME NEW r \in Requests, LoginSucceeds(r) PROVE ExchangedOnce'
  BY <1>6 DEF LoginSucceeds
<1>7. ASSUME NEW r \in Requests, Claim(r) PROVE ExchangedOnce'
  BY <1>7 DEF Claim
<1>8. ASSUME NEW r \in Requests, issueTokens(r) PROVE ExchangedOnce'
  BY <1>8 DEF issueTokens
<1>9. ASSUME NEW r \in Requests, LinkReplacement(r) PROVE ExchangedOnce'
  BY <1>9 DEF LinkReplacement
<1>10. ASSUME NEW r \in Requests, ReuseDetected(r) \/ LogoutAll(r) PROVE ExchangedOnce'
  BY <1>10 DEF ReuseDetected, LogoutAll, revokeAllForUser
<1>11. ASSUME NEW r \in Requests, Abandon(r) PROVE ExchangedOnce'
  BY <1>11 DEF Abandon
<1>12. ASSUME NEW r \in Requests, NEW t \in Held, RefreshFinds(r, t) PROVE ExchangedOnce'
  BY <1>12 DEF RefreshFinds, Held
<1>13. ASSUME NEW r \in Requests, NEW t \in Held, Logout(r, t) PROVE ExchangedOnce'
  BY <1>13 DEF Logout, Held
<1> QED
  BY <1>1, <1>2, <1>3, <1>4, <1>5, <1>6, <1>7, <1>8, <1>9, <1>10, <1>11, <1>12, <1>13 DEF Next

\* Revocation: the sweep leaves nothing active, and what it revoked cannot be claimed.
LEMMA SweepStep ==
  TypeOK /\ IssuedLate /\ SweepInv /\ [Next]_vars => SweepInv'
<1> SUFFICES ASSUME TypeOK, IssuedLate, SweepInv, [Next]_vars PROVE SweepInv'
  OBVIOUS
<1> USE SessionsAssumption DEF TypeOK, Tokens, Revoked, Final, Goto, tokenVars, lockVars,
                               history, IssuedLate, SweepInv, SweptForGood, SweepSparesOnlyRaces
<1>1. CASE UNCHANGED vars
  BY <1>1 DEF vars
<1>2. CASE LockoutEnds
  BY <1>2 DEF LockoutEnds
<1>3. ASSUME NEW t \in Tokens, TokenExpires(t) PROVE SweepInv'
  BY <1>3 DEF TokenExpires
<1>4. ASSUME NEW r \in Requests, LoginReads(r) PROVE SweepInv'
  BY <1>4 DEF LoginReads
<1>5. ASSUME NEW r \in Requests, recordFailedLogin(r) PROVE SweepInv'
  BY <1>5 DEF recordFailedLogin
<1>6. ASSUME NEW r \in Requests, LoginSucceeds(r) PROVE SweepInv'
  BY <1>6 DEF LoginSucceeds
<1>7. ASSUME NEW r \in Requests, Claim(r) PROVE SweepInv'
  BY <1>7 DEF Claim
<1>8. ASSUME NEW r \in Requests, issueTokens(r) PROVE SweepInv'
  BY <1>8 DEF issueTokens
<1>9. ASSUME NEW r \in Requests, LinkReplacement(r) PROVE SweepInv'
  BY <1>9 DEF LinkReplacement
<1>10. ASSUME NEW r \in Requests, ReuseDetected(r) \/ LogoutAll(r) PROVE SweepInv'
  BY <1>10 DEF ReuseDetected, LogoutAll, revokeAllForUser
<1>11. ASSUME NEW r \in Requests, Abandon(r) PROVE SweepInv'
  BY <1>11 DEF Abandon
<1>12. ASSUME NEW r \in Requests, NEW t \in Held, RefreshFinds(r, t) PROVE SweepInv'
  BY <1>12 DEF RefreshFinds, Held
<1>13. ASSUME NEW r \in Requests, NEW t \in Held, Logout(r, t) PROVE SweepInv'
  BY <1>13 DEF Logout, Held
<1> QED
  BY <1>1, <1>2, <1>3, <1>4, <1>5, <1>6, <1>7, <1>8, <1>9, <1>10, <1>11, <1>12, <1>13 DEF Next

\* Lockout: the count written is one more than a count read, for one more failure.
LEMMA LockoutStep ==
  TypeOK /\ LockInv /\ [Next]_vars => LockInv'
<1> SUFFICES ASSUME TypeOK, LockInv, [Next]_vars PROVE LockInv'
  OBVIOUS
<1> USE SessionsAssumption DEF TypeOK, Tokens, Revoked, Final, Goto, tokenVars, lockVars,
                               history, LockInv, CountsBacked, LockNeedsFailures, AfterFailure
<1>1. CASE UNCHANGED vars
  BY <1>1 DEF vars
<1>2. CASE LockoutEnds
  BY <1>2 DEF LockoutEnds
<1>3. ASSUME NEW t \in Tokens, TokenExpires(t) PROVE LockInv'
  BY <1>3 DEF TokenExpires
<1>4. ASSUME NEW r \in Requests, LoginReads(r) PROVE LockInv'
  BY <1>4 DEF LoginReads
<1>5. ASSUME NEW r \in Requests, recordFailedLogin(r) PROVE LockInv'
  BY <1>5 DEF recordFailedLogin
<1>6. ASSUME NEW r \in Requests, LoginSucceeds(r) PROVE LockInv'
  BY <1>6 DEF LoginSucceeds
<1>7. ASSUME NEW r \in Requests, Claim(r) PROVE LockInv'
  BY <1>7 DEF Claim
<1>8. ASSUME NEW r \in Requests, issueTokens(r) PROVE LockInv'
  BY <1>8 DEF issueTokens
<1>9. ASSUME NEW r \in Requests, LinkReplacement(r) PROVE LockInv'
  BY <1>9 DEF LinkReplacement
<1>10. ASSUME NEW r \in Requests, ReuseDetected(r) \/ LogoutAll(r) PROVE LockInv'
  BY <1>10 DEF ReuseDetected, LogoutAll, revokeAllForUser
<1>11. ASSUME NEW r \in Requests, Abandon(r) PROVE LockInv'
  BY <1>11 DEF Abandon
<1>12. ASSUME NEW r \in Requests, NEW t \in Held, RefreshFinds(r, t) PROVE LockInv'
  BY <1>12 DEF RefreshFinds, Held
<1>13. ASSUME NEW r \in Requests, NEW t \in Held, Logout(r, t) PROVE LockInv'
  BY <1>13 DEF Logout, Held
<1> QED
  BY <1>1, <1>2, <1>3, <1>4, <1>5, <1>6, <1>7, <1>8, <1>9, <1>10, <1>11, <1>12, <1>13 DEF Next

LEMMA SessionsStep == SessionInv /\ [Next]_vars => SessionInv'
BY TypesStep, IssuedLateStep, ExchangeStep, SweepStep, LockoutStep DEF SessionInv

LEMMA SessionsInvariant == Spec => []SessionInv
<1>1. Init => SessionInv
  BY InitSessions
<1>2. SessionInv /\ [Next]_vars => SessionInv'
  BY SessionsStep
<1> QED
  BY <1>1, <1>2, PTL DEF Spec

-----------------------------------------------------------------------------
(* Every reachable state of the sessions is well typed: in particular the     *)
(* stored count stays below the threshold at which a failure locks.           *)
THEOREM SessionsTypeCorrect == Spec => []TypeOK
BY SessionsInvariant, PTL DEF SessionInv

(* refresh exchanges a token at most once, whatever else runs beside it, and  *)
(* never one that a logout or a revoke-all reached.                           *)
THEOREM TokensAreExchangedOnce == Spec => []ExchangedOnce
BY SessionsInvariant, PTL DEF SessionInv

(* After revokeAllForUser no session obtained with an older token is alive,   *)
(* but those whose refresh had claimed it and not yet inserted the successor. *)
THEOREM SweepsReachAllButRaces == Spec => []SweepSparesOnlyRaces
BY SessionsInvariant, PTL DEF SessionInv, SweepInv

(* An account is locked only after MAX_FAILED_LOGINS wrong passwords, however *)
(* parallel logins overwrite each other's count.                              *)
THEOREM LocksAreEarned == Spec => []LockNeedsFailures
BY SessionsInvariant, PTL DEF SessionInv, LockInv
==============================================================================
