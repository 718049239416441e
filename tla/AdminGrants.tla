---------------------------- MODULE AdminGrants -----------------------------
(***************************************************************************)
(* Memberships that operators grant, extend and cancel.  A handler reads    *)
(* the ledger and the entitlement without locks, decides, asks for a        *)
(* transition, and then writes the audit record and the cohort, each by     *)
(* itself; other operators, the provider and the expiry job come between.   *)
(***************************************************************************)
EXTENDS Entitlements, Sequences

CONSTANTS
    Keys,               \* idempotency keys
    Requests, Idle,     \* requests in flight, and the absence of one
    Period,             \* of what the provider sells
    MaxTime, MaxUntil   \* bounds: the clock, and the ends an operator asks for

AdminGrantsAssumption ==
    Period \in Nat \ {0} /\ {MaxTime, MaxUntil} \subseteq Nat

VARIABLES
    audits,             \* platform_audit_events of memberships
    cohort,             \* pilot_cohort_members: the grant of each account, or "none"
    requests,
    answers             \* what each request was told last

vars == <<now, membership, audits, cohort, requests, answers>>

Operations == {"grant", "extend", "cancel"}
ProviderSources == {"stripe", "google_play"}

Init ==
    /\ now = 0
    /\ entitlement = [a \in Accounts |-> NoRow] /\ sourceEvents = {}
    /\ audits = <<>> /\ cohort = [a \in Accounts |-> "none"]
    /\ requests = [r \in Requests |-> Idle] /\ answers = [r \in Requests |-> "none"]

Tick == now < MaxTime /\ now' = now + 1 /\ UNCHANGED <<membership, audits, cohort, requests, answers>>

-----------------------------------------------------------------------------
(* What else happens to the entitlements.                                  *)

Others == UNCHANGED <<now, audits, cohort, requests, answers>>

\* A checkout of this account is completed.
ProviderActivates(a) ==
    LET in == Event("stripe", <<"checkout", a, now>>, "activate", a, now, now + Period, "sub") IN
    /\ Recorded(in) = {} /\ Verdict(entitlement[a], in) = "applied"
    /\ Transition(in) /\ Others

ReconcileExpiredMembership(a) ==
    LET row == entitlement[a]
        in == Event("stripe", <<"reconcile", a, row.accessUntil>>, "expire", a, now, Null, "none") IN
    /\ row.status \in {"active", "cancelling"} /\ row.accessUntil <= now
    /\ Transition(in) /\ Others

-----------------------------------------------------------------------------
(* The three handlers.                                                     *)

In(r, step) == requests[r] # Idle /\ requests[r].step = step
Op(r, op) == requests[r].op = op
Target(r) == requests[r].account
Row(r) == entitlement[Target(r)]

\* The request as the ledger knows it.
Ledgered(r) ==
    Event("admin", <<requests[r].op, requests[r].key, 0>>,
          IF Op(r, "cancel") THEN "schedule_cancellation" ELSE "activate",
          Target(r), requests[r].at, requests[r].until, "none")

Answer(r, what) ==
    /\ requests' = [requests EXCEPT ![r] = Idle]
    /\ answers' = [answers EXCEPT ![r] = what]
Goto(r, step) == requests' = [requests EXCEPT ![r].step = step] /\ UNCHANGED answers

\* Reads the ledger for its key.
Begin(r) ==
    \E op \in Operations, a \in Accounts, key \in Keys, until \in 1..MaxUntil, tagged \in BOOLEAN :
        /\ requests[r] = Idle /\ answers[r] \in {"none", "refused"}
        /\ op = "cancel" => until = 1
        /\ op # "grant" => ~tagged
        /\ requests' = [requests EXCEPT ![r] =
             [step |-> "decide", op |-> op, account |-> a, key |-> key, at |-> now,
              until |-> IF op = "cancel" THEN Null ELSE until, tagged |-> tagged,
              known |-> {e.result : e \in {f \in sourceEvents :
                            f.in.source = "admin" /\ f.in.id = <<op, key, 0>>}},
              before |-> NoRow]]
        /\ answers' = [answers EXCEPT ![r] = "none"]
        /\ UNCHANGED <<now, membership, audits, cohort>>

\* assertGrantEligible and assertAdminActive.
Allowed(op, row, until) ==
    CASE op = "grant" -> row = NoRow \/ (row.status \in {"inactive", "expired"} /\ row.source = "admin")
      [] op = "extend" -> row.source = "admin" /\ row.status = "active" /\ until > row.accessUntil
      [] op = "cancel" -> row.source = "admin" /\ row.status = "active"

\* The answer to a key that the ledger knows.
Repeated(r) ==
    IF /\ requests[r].known = {"applied"}
       /\ Row(r).source \notin ProviderSources
       /\ Op(r, "cancel") \/ Row(r).accessUntil = requests[r].until
    THEN Answer(r, "unchanged") ELSE Answer(r, "refused")

\* Reads the entitlement and decides.
Decide(r) ==
    /\ In(r, "decide")
    /\ IF requests[r].known # {} THEN Repeated(r)
       ELSE IF ~Allowed(requests[r].op, Row(r), requests[r].until) THEN Answer(r, "refused")
       ELSE /\ requests' = [requests EXCEPT ![r].step = "transition", ![r].before = Row(r)]
            /\ UNCHANGED answers
    /\ UNCHANGED <<now, membership, audits, cohort>>

\* activateMembership or scheduleMembershipCancellation.
Change(r) ==
    LET outcome == Outcome(Ledgered(r)) IN
    /\ In(r, "transition")
    /\ Transition(Ledgered(r))
    /\ CASE outcome = "applied" -> Goto(r, "audit")
         [] outcome = "replayed" -> IF requests[r].tagged THEN Goto(r, "cohort")
                                    ELSE Answer(r, "unchanged")
         [] OTHER -> Answer(r, "refused")
    /\ UNCHANGED <<now, audits, cohort>>

WriteMembershipAudit(r) ==
    /\ In(r, "audit")
    /\ audits' = Append(audits, [event |-> Ledgered(r), before |-> requests[r].before.version])
    /\ IF requests[r].tagged THEN Goto(r, "cohort") ELSE Answer(r, "changed")
    /\ UNCHANGED <<now, membership, cohort>>

\* Looked up, then inserted; the key of the table refuses a second row.
TagCohort(r) ==
    /\ In(r, "cohort")
    /\ cohort' = IF cohort[Target(r)] = "none"
                 THEN [cohort EXCEPT ![Target(r)] = requests[r].key] ELSE cohort
    /\ Answer(r, "changed")
    /\ UNCHANGED <<now, membership, audits>>

\* The server is killed, or the database cannot be reached.
Lose(r) == requests[r] # Idle /\ Answer(r, "none") /\ UNCHANGED <<now, membership, audits, cohort>>

Next ==
    \/ Tick
    \/ \E a \in Accounts : ProviderActivates(a) \/ ReconcileExpiredMembership(a)
    \/ \E r \in Requests :
        Begin(r) \/ Decide(r) \/ Change(r) \/ WriteMembershipAudit(r) \/ TagCohort(r) \/ Lose(r)

Spec == Init /\ [][Next]_vars

-----------------------------------------------------------------------------
(* Properties.                                                             *)

\* Rows of pilot_cohort_members: the key whose grant tagged the account.
CohortRows == [Accounts -> Keys \cup {"none"}]

\* Type invariant: a row's fields belong to its status.
TypeOK ==
    /\ cohort \in CohortRows
    /\ \A a \in Accounts : LET row == entitlement[a] IN
        /\ row.status \in {"inactive", "active", "cancelling", "expired"}
        /\ row.status \in {"active", "cancelling"} => row.expiredAt = Null /\ row.accessUntil > 0
        /\ row.status = "expired" <=> row.expiredAt # Null
        /\ row.cancelAtPeriodEnd <=> row.status = "cancelling"

\* Every audit record is of a change that the ledger knows as applied, and no
\* change has two, however often and however closely it is retried.
AuditsAreOfChanges ==
    /\ \A i \in DOMAIN audits :
         \E e \in sourceEvents : e.in = audits[i].event /\ e.result = "applied"
    /\ \A i, j \in DOMAIN audits : audits[i].event.id = audits[j].event.id => i = j

\* membership/madrid-pilot-access.ts:12: the tag of the pilot cohort is "written
\* alongside the admin entitlement grant": who has it was granted a membership.
CohortWasGranted ==
    \A a \in Accounts : cohort[a] # "none" =>
        \E e \in sourceEvents : e.in.id = <<"grant", cohort[a], 0>> /\ e.result = "applied"

\* platform/services/memberships.ts:357: "Extended accessUntil must be strictly
\* later than the current accessUntil"; not even earlier than that of an admin grant.
ExtensionsNeverShorten ==
    [][\A r \in Requests :
         In(r, "transition") /\ In(r, "audit")' /\ Op(r, "extend") /\ Row(r).source = "admin"
            => Row(r).accessUntil <= requests[r].until]_vars

\* test/platform.api.test.ts:842: a grant "must not overwrite Stripe".
GrantsSpareProviders ==
    \A r \in Requests :
       In(r, "transition") /\ In(r, "audit")' /\ Op(r, "grant")
          => Row(r).source \notin ProviderSources

\* "Idempotency key reuse must repeat the original grant accessUntil": one that
\* does is not refused.
RepeatedGrantsAreAccepted ==
    [][\A r \in Requests :
         /\ In(r, "decide") /\ Op(r, "grant") /\ answers'[r] = "refused"
         /\ requests'[r] = Idle /\ requests[r].known = {"applied"}
         /\ Row(r).source = "admin"
         => \A e \in sourceEvents :
              e.in.id = Ledgered(r).id => e.in.accessUntil # requests[r].until]_vars
=============================================================================
