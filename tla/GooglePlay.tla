----------------------------- MODULE GooglePlay -----------------------------
(***************************************************************************)
(* Membership paid through Google Play, and the community an account is     *)
(* bound to.  A verified purchase becomes an entitlement that waits for the *)
(* community (paid_pending_binding); binding the community finalises it.    *)
(* A purchase is acknowledged to Google after it is durable; a request that *)
(* is cut off before that is made again by the client.                      *)
(***************************************************************************)
EXTENDS Entitlements

CONSTANTS
    Owners,             \* the accounts with is_owner
    Communities,
    Madrid,             \* the community whose commitment grants a free membership
    Tokens,             \* purchase tokens
    Requests,           \* requests in flight at once
    Idle,               \* no request
    Period, GrantPeriod,    \* the length of a purchase, and of the free membership
    MaxTime             \* bound: the clock stops here

GooglePlayAssumption ==
    /\ Owners \subseteq Accounts /\ {Period, GrantPeriod} \subseteq Nat \ {0}
    /\ MaxTime \in Nat

VARIABLES
    actors,             \* actors: community, eligibility and commitment of an account
    purchaseLinks,      \* google_play_purchase_links: the account of a token
    google,             \* external: what Google says of a purchase
    requests            \* each request's captured time and place in its code

vars == <<now, membership, actors, purchaseLinks, google, requests>>
rows == <<membership, actors, purchaseLinks>>

Init ==
    /\ now = 0
    /\ entitlement = [a \in Accounts |-> NoRow] /\ sourceEvents = {}
    /\ actors = [a \in Accounts |->
         [community |-> "none", verifiedAt |-> Null, committed |-> FALSE]]
    /\ purchaseLinks = [t \in Tokens |-> "none"]
    /\ google = [t \in Tokens |-> [expiry |-> Null, acknowledged |-> FALSE]]
    /\ requests = [r \in Requests |-> Idle]

Tick == now < MaxTime /\ now' = now + 1 /\ UNCHANGED <<rows, google, requests>>

In(r, step) == requests[r] # Idle /\ requests[r].step = step
Goto(r, step) == requests' = [requests EXCEPT ![r].step = step]
End(r) == requests' = [requests EXCEPT ![r] = Idle]

Start(r, step, a, what) ==
    /\ requests[r] = Idle
    /\ requests' = [requests EXCEPT ![r] =
         [step |-> step, account |-> a, what |-> what, at |-> now, until |-> Null]]
    /\ UNCHANGED <<now, rows, google>>

Lose(r) == requests[r] # Idle /\ End(r) /\ UNCHANGED <<now, rows, google>>

Purchase(t) ==
    /\ google[t].expiry = Null
    /\ google' = [google EXCEPT ![t].expiry = now + Period]
    /\ UNCHANGED <<now, rows, requests>>

(***************************************************************************)
(* verifyAndProvisionGooglePlayPurchase.                                    *)
(***************************************************************************)
SubmitPurchase(r, a, t) == google[t].expiry # Null /\ Start(r, "verify", a, t)

VerifyGooglePlayPurchase(r) ==
    /\ In(r, "verify")
    /\ LET expiry == google[requests[r].what].expiry IN
       IF expiry > requests[r].at /\ expiry > now    \* Google says it is active
       THEN requests' = [requests EXCEPT ![r].step = "provision", ![r].until = expiry]
       ELSE End(r)
    /\ UNCHANGED <<now, rows, google>>

ProvisionEvent(r) ==
    Event("google_play", <<"purchase", requests[r].what, "">>,
          "provision_paid_pending_binding", requests[r].account, requests[r].at,
          requests[r].until, "none")

\* Mutant: a purchase made during a membership waits for a community again.
ProvisionOverMembership(r) ==
    IF \/ requests[r].until <= requests[r].at
       \/ purchaseLinks[requests[r].what] # "none"
    THEN "rejected" ELSE "applied"

ProvisionVerdict(r) ==
    IF \/ requests[r].until <= requests[r].at
       \/ purchaseLinks[requests[r].what] # "none"
       \/ entitlement[requests[r].account].status \notin {"inactive", "expired"}
    THEN "rejected" ELSE "applied"

Provisioned(r) ==
    [NoRow EXCEPT !.status = "paid_pending_binding", !.source = "google_play",
                  !.accessUntil = requests[r].until]

ProvisionOutcome(r) ==
    IF Recorded(ProvisionEvent(r)) # {} THEN Outcome(ProvisionEvent(r))
    ELSE ProvisionVerdict(r)

\* isDurableProvisionSuccess.
DurableProvision(r) == ProvisionOutcome(r) \in {"applied", "replayed"}

RunProvisionInTransaction(r) ==
    /\ In(r, "provision")
    /\ IF Recorded(ProvisionEvent(r)) # {} THEN UNCHANGED rows
       ELSE /\ Record(ProvisionEvent(r), ProvisionVerdict(r))
            /\ IF ProvisionVerdict(r) = "applied"
               THEN /\ Save(requests[r].account, Provisioned(r), requests[r].at)
                    /\ purchaseLinks' =
                         [purchaseLinks EXCEPT ![requests[r].what] = requests[r].account]
               ELSE UNCHANGED <<entitlement, purchaseLinks>>
            /\ UNCHANGED actors
    /\ IF DurableProvision(r) THEN Goto(r, "acknowledge") ELSE End(r)
    /\ UNCHANGED <<now, google>>

\* Google may acknowledge and the answer be lost; the client then makes the request again.
AcknowledgeSubscription(r) ==
    /\ In(r, "acknowledge")
    /\ google' = [google EXCEPT ![requests[r].what].acknowledged = TRUE]
    /\ End(r)
    /\ UNCHANGED <<now, rows>>

(***************************************************************************)
(* PUT /v1/account/eligibility: the binding in a transaction, then the      *)
(* finalisation, which reads without locks before its own transaction.      *)
(***************************************************************************)
SubmitEligibility(r, a, c) == Start(r, "bind", a, c)

Bound(actor, c, at) == [actor EXCEPT !.community = c, !.verifiedAt = at]

BindLocalEligibilityInTransaction(r) ==
    /\ In(r, "bind")
    /\ LET a == requests[r].account
           c == requests[r].what
           free == actors[a].community = "none"
           same == actors[a].community = c
       IN \/ /\ free \/ (~same /\ a \in Owners)
             /\ actors' = [actors EXCEPT ![a] = Bound(actors[a], c, requests[r].at)]
             /\ Goto(r, "finalizing")
          \/ /\ same /\ actors[a].verifiedAt # Null
             /\ Goto(r, "finalizing") /\ UNCHANGED actors
          \/ /\ ~free /\ IF same THEN actors[a].verifiedAt = Null ELSE a \notin Owners
             /\ End(r) /\ UNCHANGED actors
    /\ UNCHANGED <<now, membership, purchaseLinks, google>>

MaybeFinalizePaidPendingBinding(r) ==
    /\ In(r, "finalizing")
    /\ LET a == requests[r].account IN
       IF /\ actors[a].community = requests[r].what /\ actors[a].verifiedAt # Null
          /\ entitlement[a].status = "paid_pending_binding"
       THEN requests' = [requests EXCEPT ![r].step = "finalize",
                                         ![r].until = entitlement[a].accessUntil]
       ELSE End(r)
    /\ UNCHANGED <<now, rows, google>>

FinalizeEvent(r) ==
    Event("google_play", <<"finalize", requests[r].account, requests[r].what>>,
          "finalize_paid_pending_binding", requests[r].account, requests[r].at,
          requests[r].until, "none")

FinalizePaidPendingBindingMembership(r) ==
    /\ In(r, "finalize")
    /\ Transition(FinalizeEvent(r)) /\ End(r)
    /\ UNCHANGED <<now, actors, purchaseLinks, google>>

(***************************************************************************)
(* PUT /v1/account/community-commitment: one transaction, at the time that  *)
(* the request captured before it.                                          *)
(***************************************************************************)
\* Mutant: only what Stripe bills counts as paid access.
OnlyStripeBlocks(a, at) ==
    EffectiveStatus(entitlement[a], at) \in {"active", "cancelling"} /\ entitlement[a].source = "stripe"

IsPaidAccessBlockingEdit(a, at) == EffectiveStatus(entitlement[a], at) \in {"active", "cancelling"}

Committed(a, c) == actors[a].committed /\ actors[a].community = c

ShouldGrantMadridPilotAccess(a) ==
    /\ entitlement[a].source \notin {"stripe", "google_play"}
    /\ entitlement[a].status \in {"inactive", "expired"}

MadridGrant(a, at) ==
    Event("admin", <<"madrid", a, at + GrantPeriod>>, "activate", a, at, at + GrantPeriod, "none")

RecordCommunityCommitment(a, c, at) ==
    /\ Committed(a, c) \/ ~IsPaidAccessBlockingEdit(a, at)
    /\ actors' = [actors EXCEPT ![a].community = c, ![a].committed = TRUE]
    /\ IF c = Madrid /\ ShouldGrantMadridPilotAccess(a)
       THEN Transition(MadridGrant(a, at)) ELSE UNCHANGED membership
    /\ UNCHANGED <<now, purchaseLinks, google, requests>>

\* The job of StripeBilling.tla, its steps taken at once.
ReconcileExpiredMembership(a) ==
    /\ entitlement[a].status \in {"active", "cancelling"}
    /\ entitlement[a].accessUntil <= now
    /\ Transition(Event("stripe", <<"reconcile", a, entitlement[a].accessUntil>>,
                        "expire", a, now, Null, "none"))
    /\ UNCHANGED <<now, actors, purchaseLinks, google, requests>>

Next ==
    \/ Tick
    \/ \E t \in Tokens : Purchase(t)
    \/ \E r \in Requests :
        \/ \E a \in Accounts, t \in Tokens : SubmitPurchase(r, a, t)
        \/ \E a \in Accounts, c \in Communities : SubmitEligibility(r, a, c)
        \/ Lose(r)
        \/ VerifyGooglePlayPurchase(r)
        \/ RunProvisionInTransaction(r)
        \/ AcknowledgeSubscription(r)
        \/ BindLocalEligibilityInTransaction(r)
        \/ MaybeFinalizePaidPendingBinding(r)
        \/ FinalizePaidPendingBindingMembership(r)
    \/ \E a \in Accounts, c \in Communities, at \in 0..now : RecordCommunityCommitment(a, c, at)
    \/ \E a \in Accounts : ReconcileExpiredMembership(a)

Spec == Init /\ [][Next]_vars

-----------------------------------------------------------------------------
(* Properties.                                                             *)

Times == 0 .. MaxTime + Period + GrantPeriod

\* Rows of google_play_purchase_links.
LinkRows == [Tokens -> Accounts \cup {"none"}]

\* Rows have their types.
TypeOK ==
    /\ \A a \in Accounts :
        /\ entitlement[a].status \in
             {"inactive", "paid_pending_binding", "active", "expired"}
        /\ entitlement[a].accessUntil \in Times \cup {Null}
        /\ actors[a].community \in Communities \cup {"none"}
        /\ actors[a].verifiedAt \in Times \cup {Null}
    /\ purchaseLinks \in LinkRows

\* A purchase that belongs to an account is acknowledged by a request of that account:
\* whoever else presents the token, at the same moment or later, is refused.
OnlyTheOwnerAcknowledges ==
    \A r \in Requests :
        In(r, "acknowledge") /\ purchaseLinks[requests[r].what] # "none"
            => purchaseLinks[requests[r].what] = requests[r].account

\* membership-foundation.v1.json, googlePlayPurchaseAcknowledgement.neverWhen: a
\* rejected purchase is not acknowledged, so that Google gives the money back.
AcknowledgedIsDurable ==
    \A t \in Tokens : google[t].acknowledged => purchaseLinks[t] # "none"

\* The community a paying member acts in does not move under her, by whichever of
\* the two routes, and whatever she had asked for before she paid.
CommunityStays ==
    \A a \in Accounts \ Owners :
        CanParticipate(a) /\ actors[a].community # "none"
            => actors'[a].community = actors[a].community

\* routes/google-play.ts: the client can retry, which replays and acknowledges: a
\* request for a purchase that its account owns is never refused.
RetryIsReplayed ==
    \A r \in Requests :
        In(r, "provision") /\ purchaseLinks[requests[r].what] = requests[r].account
            => DurableProvision(r)

\* membership-foundation.v1.json, finalizePaidPendingBinding.rejectsWhen: the only
\* reasons for which a finalisation is refused.
FinalisationFailsOnlyAsDocumented ==
    \A r \in Requests :
        (/\ In(r, "finalize") /\ requests[r].at = now
         /\ entitlement[requests[r].account].status = "paid_pending_binding"
         /\ entitlement[requests[r].account].accessUntil > now
         /\ entitlement[requests[r].account].accessUntil = requests[r].until)
            => Outcome(FinalizeEvent(r)) \in {"applied", "replayed"}

\* bind-service.ts: set-once for those who are not owners.
EligibilityIsSetOnce ==
    [][\A a \in Accounts \ Owners :
        actors[a].verifiedAt # Null => actors'[a].community = actors[a].community]_vars
=============================================================================
