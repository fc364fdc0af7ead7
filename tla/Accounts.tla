------------------------------ MODULE Accounts -------------------------------
(***************************************************************************)
(* How one e-mail address gets its account, its verified flag, its Stripe  *)
(* customer and its plan: signup, the card-first trial claim, resend and   *)
(* verify, checkout, and the subscription events that the inbox drains     *)
(* (WebhookInbox models the queue itself; here a queued event is looked up *)
(* and applied at any later time, in any order, and once more by a drain   *)
(* whose claim has timed out).  One action per database transaction or     *)
(* Stripe call.                                                            *)
(*                                                                         *)
(* Each trial session has a customer of its own, and any number of them    *)
(* may be paid for; a checkout that finds no customer creates the one      *)
(* named after its request.  No subscription of either carries metadata:   *)
(* the code puts orgId on the customer and on the checkout session, never  *)
(* on the subscription.                                                    *)
(***************************************************************************)
EXTENDS Naturals, FiniteSets, Sequences

CONSTANTS
  Requests,   \* the requests that may be served, each once
  Trials,     \* the card-first trial sessions of the address, and their customers
  Nobody,
  MaxSent     \* bound: subscription events that Stripe sends

Customers == Requests \cup Trials
\* A subscription begins, a checkout's or a trial's; a trial's may end.
Ended == Trials \X {"ended"}
SubEvents == Customers \cup Ended

ASSUME AccountsAssumption ==
  /\ IsFiniteSet(Requests)
  /\ Trials \cap Requests = {} /\ Nobody \notin Customers /\ Ended \cap Customers = {}
  /\ Requests \cap {"absent", "signup"} = {}
  /\ MaxSent \in Nat

VARIABLES
  account,      \* "absent", "signup", or the claim that provisioned it
  verified,     \* User.emailVerifiedAt is set
  customer,     \* Org.stripeCustomerId
  plan,         \* Org.plan
  event,        \* [SubEvents -> where the event is on its way from Stripe to the plan]
  link,         \* [Requests -> the verification link the request issued]
  kind, step,   \* [Requests -> operation; next statement or answer]
  live,         \* [Requests -> links that issueForUser found unconsumed]
  earlier,      \* history: [Requests -> links that existed by then]
  trial,        \* [Requests -> the trial session that a claim names]
  bought,       \* [Requests -> the customer of the checkout session]
  slow,         \* events that a drain still holds after another has taken them over
  sent,         \* history: the events in the order Stripe sent them
  overwritten,  \* history: customers that a later write replaced
  raced,        \* history: customers stored while another request was about to store one
  calm          \* history: events applied while no other was on its way

accountVars == <<account, verified>>
orgVars     == <<customer, plan>>
linkVars    == <<link, live, earlier>>
stripeVars  == <<event, slow, sent, calm>>
buyVars     == <<bought, overwritten, raced>>
vars == <<account, verified, customer, plan, event, link, kind, step, live, earlier, trial,
          bought, slow, sent, overwritten, raced, calm>>

Final == {"ok", "refused", "failed"}

Init ==
  /\ account \in {"absent", "signup"}
  /\ verified = FALSE
  /\ customer = Nobody
  /\ plan = "free"
  /\ event = [e \in SubEvents |-> "unsent"]
  /\ link = [r \in Requests |-> "none"]
  /\ kind = [r \in Requests |-> "none"]
  /\ step = [r \in Requests |-> "idle"]
  /\ live = [r \in Requests |-> {}]
  /\ earlier = [r \in Requests |-> {}]
  /\ trial = [r \in Requests |-> Nobody]
  /\ bought = [r \in Requests |-> Nobody]
  /\ slow = {}
  /\ sent = <<>>
  /\ overwritten = {}
  /\ raced = {}
  /\ calm = {}

Goto(r, s) == step' = [step EXCEPT ![r] = s]
Start(r, k, s) ==
  /\ step[r] = "idle"
  /\ kind' = [kind EXCEPT ![r] = k]
  /\ Goto(r, s)

\* Somebody can hold a session: by the password of the signup, or a claim's answer.
LoggedIn ==
  account = "signup" \/ \E r \in Requests : kind[r] = "claim" /\ step[r] = "ok"

-----------------------------------------------------------------------------
(* signup and e-mail verification *)

Signup(r) ==
  /\ Start(r, "signup", IF account = "absent" THEN "provision" ELSE "refused")
  /\ UNCHANGED <<accountVars, orgVars, stripeVars, linkVars, trial, buyVars>>

\* Defect: emailHash is not unique.
provisionAgain(r) ==
  /\ step[r] = "provision"
  /\ account' = IF kind[r] = "signup" THEN "signup" ELSE r
  /\ Goto(r, IF kind[r] = "signup" THEN "issue" ELSE "link")
  /\ UNCHANGED <<verified, orgVars, stripeVars, linkVars, kind, trial, buyVars>>

\* User, Org, Membership and Profile in one transaction; emailHash is unique.
provisionAccount(r) ==
  /\ step[r] = "provision"
  /\ IF account = "absent"
     THEN /\ account' = IF kind[r] = "signup" THEN "signup" ELSE r
          /\ Goto(r, IF kind[r] = "signup" THEN "issue" ELSE "link")
     ELSE UNCHANGED account /\ Goto(r, "failed")
  /\ UNCHANGED <<verified, orgVars, stripeVars, linkVars, kind, trial, buyVars>>

Resend(r) ==
  /\ LoggedIn
  /\ Start(r, "resend", IF verified THEN "ok" ELSE "issue")
  /\ UNCHANGED <<accountVars, orgVars, stripeVars, linkVars, trial, buyVars>>

\* The transaction's updateMany sees the links committed so far.
IssueReads(r) ==
  /\ step[r] = "issue"
  /\ live' = [live EXCEPT ![r] = {q \in Requests : link[q] = "live"}]
  /\ earlier' = [earlier EXCEPT ![r] = {q \in Requests : link[q] # "none"}]
  /\ Goto(r, "commit")
  /\ UNCHANGED <<accountVars, orgVars, stripeVars, link, kind, trial, buyVars>>

\* Defect: the links issued before stay valid.
IssueKeepsOld(r) ==
  /\ step[r] = "commit"
  /\ link' = [link EXCEPT ![r] = "live"]
  /\ Goto(r, "ok")
  /\ UNCHANGED <<accountVars, orgVars, stripeVars, live, earlier, kind, trial, buyVars>>

\* The e-mail goes out after the commit; when that fails, a resend answers an error
\* and a signup goes on.
IssueCommits(r) ==
  /\ step[r] = "commit"
  /\ link' = [q \in Requests |-> IF q = r THEN "live"
                                 ELSE IF q \in live[r] THEN "consumed" ELSE link[q]]
  /\ Goto(r, "ok") \/ (kind[r] = "resend" /\ Goto(r, "failed"))
  /\ UNCHANGED <<accountVars, orgVars, stripeVars, live, earlier, kind, trial, buyVars>>

\* The issue fails: a signup goes on without it, a resend answers an error.
IssueFails(r) ==
  /\ step[r] = "commit"
  /\ Goto(r, IF kind[r] = "signup" THEN "ok" ELSE "failed")
  /\ UNCHANGED <<accountVars, orgVars, stripeVars, linkVars, kind, trial, buyVars>>

\* The link followed is kept in live: a verification issues none.
VerifyReads(r, q) ==
  /\ link[q] # "none"
  /\ Start(r, "verify", IF link[q] = "live" THEN "consume" ELSE "refused")
  /\ live' = [live EXCEPT ![r] = {q}]
  /\ UNCHANGED <<accountVars, orgVars, stripeVars, link, earlier, trial, buyVars>>

VerifyCommits(r) ==
  /\ step[r] = "consume"
  /\ link' = [q \in Requests |-> IF q \in live[r] THEN "consumed" ELSE link[q]]
  /\ verified' = TRUE
  /\ Goto(r, "ok")
  /\ UNCHANGED <<account, orgVars, stripeVars, live, earlier, kind, trial, buyVars>>

LinkExpires(r) ==
  /\ link[r] = "live"
  /\ link' = [link EXCEPT ![r] = "expired"]
  /\ UNCHANGED <<accountVars, orgVars, stripeVars, live, earlier, kind, step, trial, buyVars>>

-----------------------------------------------------------------------------
(* the card-first trial *)

\* A session is complete once its subscription has begun.
Complete(t) == event[t] # "unsent"

\* retrieve and the lookup by e-mail; the account found is logged in as it is, whoever
\* made it and whichever session is claimed.
ClaimTrial(r, t) ==
  /\ Start(r, "claim", IF ~ Complete(t) THEN "refused"
                       ELSE IF account # "absent" THEN "ok" ELSE "provision")
  /\ trial' = [trial EXCEPT ![r] = t]
  /\ UNCHANGED <<accountVars, orgVars, stripeVars, linkVars, buyVars>>

\* stripeCustomerId becomes c, whatever the row holds by now.
Store(r, c) ==
  /\ customer' = c
  /\ overwritten' = overwritten \cup ({customer} \ {Nobody, c})
  /\ raced' = IF \E q \in Requests \ {r} : step[q] \in {"link", "customer"}
              THEN raced \cup {c} ELSE raced

\* One transaction: emailVerifiedAt, stripeCustomerId, the plan, the Subscription.
\* The plan is starter whatever the subscription's status was when retrieved.
LinkTrial(r) ==
  /\ step[r] = "link"
  /\ verified' = TRUE
  /\ Store(r, trial[r])
  /\ plan' = "starter"
  /\ Goto(r, "ok")
  /\ UNCHANGED <<account, stripeVars, linkVars, kind, trial, bought>>

-----------------------------------------------------------------------------
(* checkout, and Stripe's events *)

\* Defect: a customer is created for every checkout.
CheckoutAnew(r) ==
  /\ LoggedIn
  /\ Start(r, "checkout", "customer")
  /\ UNCHANGED <<accountVars, orgVars, stripeVars, linkVars, trial, buyVars>>

Checkout(r) ==
  /\ LoggedIn
  /\ Start(r, "checkout", IF customer = Nobody THEN "customer" ELSE "ok")
  /\ bought' = [bought EXCEPT ![r] = customer]
  /\ UNCHANGED <<accountVars, orgVars, stripeVars, linkVars, trial, overwritten, raced>>

\* ensureCustomer writes the customer that it has created.
StoreCustomer(r) ==
  /\ step[r] = "customer"
  /\ Store(r, r)
  /\ bought' = [bought EXCEPT ![r] = r]
  /\ Goto(r, "ok")
  /\ UNCHANGED <<accountVars, plan, stripeVars, linkVars, kind, trial>>

Abandon(r) ==
  /\ step[r] \notin Final \cup {"idle"}
  /\ Goto(r, "failed")
  /\ UNCHANGED <<accountVars, orgVars, stripeVars, linkVars, kind, trial, buyVars>>

\* A visitor completes a hosted page, or a trial's subscription is cancelled.
StripeSends(e) ==
  /\ event[e] = "unsent"
  /\ Len(sent) < MaxSent
  /\ \/ e \in Trials
     \/ e \in Ended /\ Complete(e[1])
     \/ e \in Requests /\ kind[e] = "checkout" /\ step[e] = "ok"
  /\ event' = [event EXCEPT ![e] = "queued"]
  /\ sent' = Append(sent, e)
  /\ UNCHANGED <<accountVars, orgVars, linkVars, kind, step, trial, buyVars, slow, calm>>

CustomerOf(e) == IF e \in Requests THEN bought[e] ELSE IF e \in Ended THEN e[1] ELSE e

\* Defect: an event is bound whoever its customer is.
BindAnyone(e) ==
  /\ event[e] = "queued"
  /\ event' = [event EXCEPT ![e] = "bound"]
  /\ UNCHANGED <<accountVars, orgVars, linkVars, kind, step, trial, buyVars, slow, sent, calm>>

\* No organisation has the customer: the event is marked processed without effect.
Bind(e) ==
  /\ event[e] = "queued"
  /\ event' = [event EXCEPT ![e] = IF CustomerOf(e) = customer THEN "bound" ELSE "dropped"]
  /\ UNCHANGED <<accountVars, orgVars, linkVars, kind, step, trial, buyVars, slow, sent, calm>>

PlanOf(e) == IF e \in Ended THEN "free" ELSE IF e \in Trials THEN "starter" ELSE "professional"

Pending == {e \in SubEvents : event[e] \in {"queued", "bound"}} \cup slow

ApplyEvent(e) ==
  /\ event[e] = "bound"
  /\ event' = [event EXCEPT ![e] = "done"]
  /\ plan' = PlanOf(e)
  /\ calm' = IF Pending = {e} /\ slow = {} THEN calm \cup {e} ELSE calm
  /\ UNCHANGED <<accountVars, customer, linkVars, kind, step, trial, buyVars, slow, sent>>

\* What was applied is not marked done, because the mark fails or the drain dies: the
\* row is claimed again, and processEvent does not look for its marker.
ApplyAgain(e) ==
  /\ event[e] = "bound"
  /\ event' = [event EXCEPT ![e] = "queued"]
  /\ plan' = PlanOf(e)
  /\ UNCHANGED <<accountVars, customer, linkVars, kind, step, trial, buyVars, slow, sent, calm>>

\* A statement fails, or the drain dies: the row is claimed again later.
ApplyFails(e) ==
  /\ event[e] = "bound"
  /\ event' = [event EXCEPT ![e] = "queued"]
  /\ UNCHANGED <<accountVars, orgVars, linkVars, kind, step, trial, buyVars, slow, sent, calm>>

\* The claim times out while its drain is slow and not dead (STUCK_AFTER_MS).
TakeOver(e) ==
  /\ event[e] = "bound" /\ e \notin slow
  /\ slow' = slow \cup {e}
  /\ event' = [event EXCEPT ![e] = "queued"]
  /\ UNCHANGED <<accountVars, orgVars, linkVars, kind, step, trial, buyVars, sent, calm>>

ApplyLate(e) ==
  /\ e \in slow
  /\ slow' = slow \ {e}
  /\ plan' = PlanOf(e)
  /\ UNCHANGED <<accountVars, customer, event, linkVars, kind, step, trial, buyVars, sent, calm>>

Next ==
  \/ \E e \in SubEvents : \/ StripeSends(e) \/ Bind(e) \/ ApplyEvent(e) \/ ApplyAgain(e)
                         \/ ApplyFails(e) \/ TakeOver(e) \/ ApplyLate(e)
  \/ \E r \in Requests :
       \/ Signup(r) \/ provisionAccount(r) \/ Resend(r) \/ IssueReads(r) \/ IssueCommits(r)
       \/ IssueFails(r) \/ VerifyCommits(r) \/ LinkExpires(r)
       \/ LinkTrial(r) \/ Checkout(r) \/ StoreCustomer(r) \/ Abandon(r)
       \/ \E t \in Trials : ClaimTrial(r, t)
       \/ \E q \in Requests : VerifyReads(r, q)

Spec == Init /\ [][Next]_vars
-----------------------------------------------------------------------------
(* Types; and a claim about to link its customer has provisioned the account. *)
TypeOK ==
  /\ account \in {"absent", "signup"} \cup Requests
  /\ verified \in BOOLEAN
  /\ customer \in Customers \cup {Nobody}
  /\ plan \in {"free", "starter", "professional"}
  /\ event \in [SubEvents -> {"unsent", "queued", "bound", "done", "dropped"}]
  /\ link \in [Requests -> {"none", "live", "consumed", "expired"}]
  /\ kind \in [Requests -> {"none", "signup", "claim", "resend", "verify", "checkout"}]
  /\ step \in [Requests -> Final \cup {"idle", "provision", "issue", "commit", "consume",
                                       "link", "customer"}]
  /\ live \in [Requests -> SUBSET Requests] /\ earlier \in [Requests -> SUBSET Requests]
  /\ trial \in [Requests -> Trials \cup {Nobody}]
  /\ bought \in [Requests -> Customers \cup {Nobody}]
  /\ overwritten \subseteq Customers /\ raced \subseteq Customers
  /\ sent \in Seq(SubEvents)
  /\ slow \subseteq SubEvents /\ calm \subseteq SubEvents
  /\ \A r \in Requests : step[r] = "link" => account = r

(* Two verification links are alive together only if neither existed when the  *)
(* other's transaction looked for the links to invalidate.                     *)
LiveLinksOverlapped ==
  \A q, r \in Requests :
    q # r /\ link[q] = "live" /\ link[r] = "live" => q \notin earlier[r] /\ r \notin earlier[q]

(* A stored Stripe customer is written over only by a request that was between *)
(* reading the organisation and writing its own customer when that one was     *)
(* stored: by no later checkout, no repeated claim, and no claim of another    *)
(* paid session for the address.                                               *)
CustomersStay == overwritten \subseteq raced

(* Once the newest event of the linked customer was applied with no other on   *)
(* its way, the plan is the one it carries, whatever was drained before it,    *)
(* dropped, overwritten or linked since.                                       *)
PlanFollowsNewest ==
  LET mine   == {i \in DOMAIN sent : CustomerOf(sent[i]) = customer}
      newest == CHOOSE i \in mine : \A j \in mine : j <= i
  IN  mine # {} /\ sent[newest] \in calm /\ event[sent[newest]] = "done"
        => plan = PlanOf(sent[newest])
==============================================================================
