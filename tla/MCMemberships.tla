--------------------------- MODULE MCMemberships ----------------------------
(* Memberships paid through Stripe, paid through Google Play and granted by  *)
(* operators, for TLC.  All three change the same rows by the transitions of *)
(* Entitlements, and the properties ask the same of each; `part` chooses     *)
(* whose requests run.                                                       *)
EXTENDS Entitlements, TLC

CONSTANTS a1, a2, s1, s2, r1, r2, k1, k2, t1, Idle

MCAccounts == {a1, a2}
BeforeAllTimes == -1
Two == {r1, r2}
Alike == Permutations(Two) \cup Permutations({k1, k2})

VARIABLES
    part,
    link, customers, attempts, stripe, sent, jobs,      \* StripeBilling
    actors, purchaseLinks, google, requests,            \* GooglePlay
    audits, cohort, answers                             \* AdminGrants

stripeRows == <<link, customers, attempts, stripe, sent, jobs>>
googleRows == <<actors, purchaseLinks, google>>
grantRows == <<audits, cohort, answers>>
vars == <<part, now, membership, stripeRows, googleRows, grantRows, requests>>

\* Two subscriptions of one account.
Subscriptions == INSTANCE StripeBilling WITH
    Accounts <- {a1}, Sessions <- {s1, s2}, Workers <- Two,
    Period <- 2, MaxTime <- 3, MaxEvents <- 3, MaxDeliveries <- 1, MaxCustomers <- 1

\* Events of one subscription that are delivered twice.
Deliveries == INSTANCE StripeBilling WITH
    Accounts <- {a1}, Sessions <- {s1}, Workers <- Two,
    Period <- 2, MaxTime <- 3, MaxEvents <- 3, MaxDeliveries <- 2, MaxCustomers <- 1

\* One buyer, two communities.
Binding == INSTANCE GooglePlay WITH
    Accounts <- {a1}, Owners <- {}, Communities <- {"here", "there"}, Madrid <- "there",
    Tokens <- {t1}, Requests <- Two, Period <- 1, GrantPeriod <- 2, MaxTime <- 1

\* One purchase that two accounts present.
Owning == INSTANCE GooglePlay WITH
    Accounts <- {a1, a2}, Owners <- {a2}, Communities <- {"here"}, Madrid <- "here",
    Tokens <- {t1}, Requests <- Two, Period <- 2, GrantPeriod <- 1, MaxTime <- 0

Granting == INSTANCE AdminGrants WITH
    Accounts <- {a1}, Keys <- {k1, k2}, Requests <- Two, Period <- 2, MaxTime <- 1, MaxUntil <- 2

\* Bound: the ledger's entries of operators and provider.
MaxChanges == 2

ASSUME /\ Subscriptions!StripeAssumption
       /\ Deliveries!StripeAssumption /\ Binding!GooglePlayAssumption
       /\ Owning!GooglePlayAssumption /\ Granting!AdminGrantsAssumption

-----------------------------------------------------------------------------
(* The variables of the parts that do not run have a constant value.         *)

NoStripe == /\ link = 0 /\ customers = 0 /\ attempts = 0
            /\ stripe = 0 /\ sent = 0 /\ jobs = 0
NoGoogle == actors = 0 /\ purchaseLinks = 0 /\ google = 0
NoGrants == audits = 0 /\ cohort = 0 /\ answers = 0

Init ==
    \/ part = "subscriptions" /\ Subscriptions!Init /\ NoGoogle /\ NoGrants /\ requests = 0
    \/ part = "deliveries" /\ Deliveries!Init /\ NoGoogle /\ NoGrants /\ requests = 0
    \/ part = "binding" /\ Binding!Init /\ NoStripe /\ NoGrants
    \/ part = "owning" /\ Owning!Init /\ NoStripe /\ NoGrants
    \/ part = "granting" /\ Granting!Init /\ NoStripe /\ NoGoogle

Next ==
    /\ UNCHANGED part
    /\ \/ /\ part = "subscriptions" /\ Subscriptions!Next
          /\ UNCHANGED <<googleRows, grantRows, requests>>
       \/ /\ part = "deliveries" /\ Deliveries!Next
          /\ UNCHANGED <<googleRows, grantRows, requests>>
       \/ part = "binding" /\ Binding!Next /\ UNCHANGED <<stripeRows, grantRows>>
       \/ part = "owning" /\ Owning!Next /\ UNCHANGED <<stripeRows, grantRows>>
       \/ /\ part = "granting" /\ Granting!Next /\ Cardinality(sourceEvents') <= MaxChanges
          /\ UNCHANGED <<stripeRows, googleRows>>

Spec == Init /\ [][Next]_vars

-----------------------------------------------------------------------------
(* Properties besides those of Entitlements.                                 *)

\* What each route owes to the others.  (Rows have their types.)  Access reaches no
\* further than what Stripe has sold; only its owner acknowledges a purchase; every
\* audit record is of one change that the ledger knows; and the community that a
\* paying member acts in does not move, whatever was asked for before she paid.
RoutesKeepTheirRules ==
    /\ [](/\ part = "subscriptions" =>
             Subscriptions!TypeOK /\ Subscriptions!AccessStaysWithinAPeriod
          /\ part = "deliveries" => Deliveries!TypeOK /\ Deliveries!AccessStaysWithinAPeriod
          /\ part = "binding" => Binding!TypeOK
          /\ part = "owning" => Owning!TypeOK /\ Owning!OnlyTheOwnerAcknowledges
          /\ part = "granting" => Granting!TypeOK /\ Granting!AuditsAreOfChanges)
    /\ [][/\ part = "binding" => Binding!CommunityStays
          /\ part = "owning" => Owning!CommunityStays]_vars

\* test/platform.api.test.ts:842: a grant "must not overwrite Stripe".
GrantsSpareProviders == [][part = "granting" => Granting!GrantsSpareProviders]_vars
=============================================================================
