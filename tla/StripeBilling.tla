--------------------------- MODULE StripeBilling ----------------------------
(***************************************************************************)
(* Membership paid through Stripe.  Checkout asks Stripe for a session; a   *)
(* paid session is a subscription; Stripe reports what happens to it in     *)
(* events that arrive late, twice and in any order.  A webhook request      *)
(* reads the clock when it begins and keeps that time; the job that expires *)
(* elapsed memberships works next to them.  Each request may be cut off     *)
(* between two of its steps.                                                *)
(***************************************************************************)
EXTENDS Entitlements, Sequences

CONSTANTS
    Sessions,           \* checkout sessions, each the subscription it may become
    Workers,            \* webhook requests and reconcile jobs in flight at once
    Idle,               \* no request
    Period,             \* the length of a subscription period
    MaxTime,            \* bound: the clock stops here
    MaxEvents,          \* bound: events Stripe sends
    MaxDeliveries,      \* bound: how often an event is delivered
    MaxCustomers        \* bound: customers created at Stripe

StripeAssumption ==
    /\ Period \in Nat \ {0}
    /\ {MaxTime, MaxEvents, MaxDeliveries, MaxCustomers} \subseteq Nat

VARIABLES
    link,               \* stripe_customer_links: each account's customer, 0 if none
    customers,          \* external: the number of customers Stripe has
    attempts,           \* stripe_checkout_attempts: a session's row
    stripe,             \* external: the sessions and subscriptions at Stripe
    sent,               \* external: the events of Stripe, with the deliveries left
    jobs                \* the requests in flight

billing == <<link, customers, attempts>>
external == <<stripe, sent>>
vars == <<now, membership, billing, external, jobs>>

NoSession == [state |-> "none", account |-> Idle, end |-> 0, cancel |-> FALSE]

Init ==
    /\ now = 0
    /\ entitlement = [a \in Accounts |-> NoRow] /\ sourceEvents = {}
    /\ link = [a \in Accounts |-> 0] /\ customers = 0
    /\ attempts = [s \in Sessions |-> "none"]
    /\ stripe = [s \in Sessions |-> NoSession] /\ sent = <<>>
    /\ jobs = [w \in Workers |-> Idle]

Tick == now < MaxTime /\ now' = now + 1 /\ UNCHANGED <<membership, billing, external, jobs>>

(***************************************************************************)
(* Checkout.                                                                *)
(***************************************************************************)
\* The customer is created inside the transaction that inserts the link.
EnsureStripeCustomerLink(a) ==
    /\ link[a] = 0 /\ customers < MaxCustomers
    /\ customers' = customers + 1
    /\ \/ link' = [link EXCEPT ![a] = customers']
       \/ UNCHANGED link                \* the transaction fails after Stripe's answer
    /\ UNCHANGED <<now, membership, attempts, external, jobs>>

Live(s) == stripe[s].state \in {"active", "past_due"}

\* retrieveSubscription of the entitlement's subscription answers that it is active.
Confirmed(row) ==
    row.subscription \in Sessions /\ stripe[row.subscription].state = "active"

\* When Stripe does not answer the checkout is allowed.
CheckoutAllowed(a, reachable) ==
    LET row == entitlement[a] IN
    /\ row.status # "active"
    /\ ~(row.status = "cancelling" /\ row.accessUntil > now)
    /\ ~(/\ row.source = "stripe" /\ row.status # "expired"
         /\ reachable /\ Confirmed(row))

CreateCheckoutSession(a, s) ==
    /\ link[a] # 0 /\ stripe[s].state = "none"
    /\ \E reachable \in BOOLEAN : CheckoutAllowed(a, reachable)
    /\ \/ /\ attempts' = [attempts EXCEPT ![s] = "open"]
          /\ stripe' = [stripe EXCEPT ![s].state = "open", ![s].account = a]
       \/ /\ stripe' = [stripe EXCEPT ![s].state = "lost", ![s].account = a]
          /\ UNCHANGED attempts         \* the transaction fails after Stripe's answer
    /\ UNCHANGED <<now, membership, link, customers, sent, jobs>>

(***************************************************************************)
(* Stripe, as the code relies on it.                                        *)
(***************************************************************************)
StripeEvent(s, type) ==
    [type |-> type, session |-> s, cancel |-> stripe'[s].cancel, left |-> MaxDeliveries]

Emit(s, types) ==
    /\ Len(sent) + Len(types) <= MaxEvents
    /\ sent' = sent \o [i \in DOMAIN types |-> StripeEvent(s, types[i])]

At(s, state, end, cancel) ==
    stripe' = [stripe EXCEPT ![s].state = state, ![s].end = end, ![s].cancel = cancel]

Pay(s) ==
    /\ stripe[s].state = "open" /\ At(s, "active", now + Period, FALSE)
    /\ Emit(s, <<"checkout.session.completed", "invoice.paid">>)

PortalChange(s) ==
    /\ stripe[s].state = "active" /\ now < stripe[s].end
    /\ At(s, "active", stripe[s].end, ~stripe[s].cancel)
    /\ Emit(s, <<"customer.subscription.updated">>)

Renew(s) ==
    /\ stripe[s].state = "active" /\ ~stripe[s].cancel /\ now >= stripe[s].end
    /\ \/ At(s, "active", stripe[s].end + Period, FALSE) /\ Emit(s, <<"invoice.paid">>)
       \/ At(s, "past_due", stripe[s].end + Period, FALSE) /\ UNCHANGED sent

PayLate(s) ==
    /\ stripe[s].state = "past_due" /\ At(s, "active", stripe[s].end, FALSE)
    /\ Emit(s, <<"invoice.paid">>)

EndSubscription(s) ==
    /\ \/ stripe[s].state = "active" /\ stripe[s].cancel /\ now >= stripe[s].end
       \/ stripe[s].state = "past_due"
    /\ At(s, "canceled", stripe[s].end, stripe[s].cancel)
    /\ Emit(s, <<"customer.subscription.deleted">>)

Stripe ==
    /\ \E s \in Sessions :
        Pay(s) \/ PortalChange(s) \/ Renew(s) \/ PayLate(s) \/ EndSubscription(s)
    /\ UNCHANGED <<now, membership, billing, jobs>>

(***************************************************************************)
(* processStripeWebhookEvent.                                               *)
(***************************************************************************)
Start(w, step, n, until) ==
    jobs' = [jobs EXCEPT ![w] = [step |-> step, event |-> n, at |-> now, until |-> until]]

In(w, step) == jobs[w] # Idle /\ jobs[w].step = step
End(w) == jobs' = [jobs EXCEPT ![w] = Idle]
EventOf(w) == sent[jobs[w].event]
AccountOf(w) == stripe[EventOf(w).session].account

Receive(w) ==
    /\ jobs[w] = Idle
    /\ \E n \in DOMAIN sent :
        /\ sent[n].left > 0
        /\ sent' = [sent EXCEPT ![n].left = @ - 1]
        /\ Start(w, sent[n].type, n, 0)
    /\ UNCHANGED <<now, membership, billing, stripe>>

\* The request or the job is cut off; an event that was not answered comes again.
Lose(w) ==
    /\ jobs[w] # Idle /\ End(w)
    /\ UNCHANGED <<now, membership, billing, external>>

HandleCheckoutSessionCompleted(w) ==
    /\ In(w, "checkout.session.completed")
    /\ LET s == EventOf(w).session
           row == entitlement[AccountOf(w)]
       IN /\ IF row.version > 0 /\ row.subscription # s
             THEN Save(AccountOf(w), [row EXCEPT !.subscription = s], jobs[w].at)
             ELSE UNCHANGED entitlement
          /\ attempts' = [attempts EXCEPT ![s] = IF @ = "none" THEN @ ELSE "completed"]
    /\ End(w)
    /\ UNCHANGED <<now, sourceEvents, link, customers, external>>

\* The current period end that retrieveSubscription answers with.
CurrentPeriodEnd(w) == stripe[EventOf(w).session].end

HandleInvoicePaid(w) ==
    /\ In(w, "invoice.paid")
    /\ jobs' = [jobs EXCEPT ![w].step = "activate", ![w].until = CurrentPeriodEnd(w)]
    /\ UNCHANGED <<now, membership, billing, external>>

StripeTransition(w, type, until) ==
    /\ Transition(Event("stripe", <<"event", jobs[w].event>>, type, AccountOf(w),
                        jobs[w].at, until, EventOf(w).session))
    /\ End(w)
    /\ UNCHANGED <<now, billing, external>>

ActivateMembership(w) ==
    In(w, "activate") /\ StripeTransition(w, "activate", jobs[w].until)

\* The snapshot in the event decides, at the time the request began.
HandleSubscriptionUpdated(w) ==
    /\ In(w, "customer.subscription.updated")
    /\ StripeTransition(w, IF EventOf(w).cancel THEN "schedule_cancellation"
                                                ELSE "reactivate", Null)

\* Reads the entitlement in a transaction of its own, then expires it or leaves it.
HandleSubscriptionDeleted(w) ==
    /\ In(w, "customer.subscription.deleted")
    /\ LET row == entitlement[AccountOf(w)] IN
       IF row.accessUntil # Null /\ row.accessUntil <= jobs[w].at
       THEN jobs' = [jobs EXCEPT ![w].step = "expire"]
       ELSE End(w)
    /\ UNCHANGED <<now, membership, billing, external>>

ExpireMembership(w) == In(w, "expire") /\ StripeTransition(w, "expire", Null)

(***************************************************************************)
(* reconcileExpiredMemberships: one candidate of a batch.                   *)
(***************************************************************************)
Elapsed(a) ==
    /\ entitlement[a].status \in {"active", "cancelling"}
    /\ entitlement[a].accessUntil <= now

FindExpiredMembershipCandidate(w, a) ==
    /\ jobs[w] = Idle /\ Elapsed(a)
    /\ jobs' = [jobs EXCEPT ![w] =
         [step |-> "reconcile", account |-> a, at |-> now,
          until |-> entitlement[a].accessUntil]]
    /\ UNCHANGED <<now, membership, billing, external>>

\* Mutant: the job's event names the account only.
OneReconcileEventForEver(w) == <<"reconcile", 0>>

ReconcileEventId(w) == <<"reconcile", jobs[w].account, jobs[w].until>>

ReconcileExpiredMembership(w) ==
    /\ In(w, "reconcile")
    /\ Transition(Event("stripe", ReconcileEventId(w), "expire",
                        jobs[w].account, jobs[w].at, Null, "none"))
    /\ End(w)
    /\ UNCHANGED <<now, billing, external>>

Webhook(w) ==
    \/ HandleCheckoutSessionCompleted(w)
    \/ HandleInvoicePaid(w)
    \/ ActivateMembership(w)
    \/ HandleSubscriptionUpdated(w)
    \/ HandleSubscriptionDeleted(w)
    \/ ExpireMembership(w)
    \/ ReconcileExpiredMembership(w)

Next ==
    \/ Tick
    \/ \E a \in Accounts : EnsureStripeCustomerLink(a)
    \/ \E a \in Accounts, s \in Sessions : CreateCheckoutSession(a, s)
    \/ Stripe
    \/ \E w \in Workers : Receive(w) \/ Lose(w) \/ Webhook(w)
    \/ \E w \in Workers, a \in Accounts : FindExpiredMembershipCandidate(w, a)

Spec == Init /\ [][Next]_vars

-----------------------------------------------------------------------------
(* Properties.                                                             *)

Times == 0 .. MaxTime + 2 * Period

\* Rows of stripe_checkout_attempts and stripe_customer_links.
AttemptRows == [Sessions -> {"none", "open", "completed"}]
LinkRows == [Accounts -> 0 .. customers]

\* Rows have their types.
TypeOK ==
    /\ now \in 0 .. MaxTime
    /\ \A a \in Accounts :
        /\ entitlement[a].status \in {"inactive", "active", "cancelling", "expired"}
        /\ entitlement[a].accessUntil \in Times \cup {Null}
        /\ entitlement[a].subscription \in Sessions \cup {"none"}
    /\ attempts \in AttemptRows /\ link \in LinkRows

\* However late, often and out of order invoice.paid arrives, access reaches no
\* further than a period Stripe has opened for this account.
AccessStaysWithinAPeriod ==
    \A a \in Accounts : entitlement[a].accessUntil # Null =>
        \E s \in Sessions :
            stripe[s].account = a /\ entitlement[a].accessUntil <= stripe[s].end

\* checkout-service.ts: an existing active subscription blocks a checkout.
LiveSubscriptionBlocksCheckout ==
    [][\A s \in Sessions : stripe[s].state = "none" /\ stripe'[s].state = "open"
        => ~\E t \in Sessions : Live(t) /\ stripe[t].account = stripe'[s].account]_vars

\* checkout-service.ts: the attempt's row is there before Stripe is called, so that
\* a partial failure can be reconciled.
EverySessionHasItsAttempt ==
    \A s \in Sessions : stripe[s].state # "none" => attempts[s] # "none"

\* customer-service.ts: a retry after a partial failure returns the same customer.
RetriesKeepTheCustomer == customers <= 1

\* README: schedule_cancellation for a superseded state is stale.  An event is
\* superseded when a later one of the same subscription has been processed.
SupersededCancellationIsStale ==
    [][\A e \in sourceEvents' \ sourceEvents :
        e.in.type = "schedule_cancellation" /\ e.result = "applied" =>
            ~\E f \in sourceEvents :
                /\ f.in.type = "reactivate" /\ f.in.subscription = e.in.subscription
                /\ f.in.id[2] > e.in.id[2]]_vars
=============================================================================
