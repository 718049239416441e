---------------------------- MODULE Entitlements ----------------------------
(***************************************************************************)
(* The membership entitlement of an account and the internal transitions    *)
(* that change it.  Every transition is one transaction that holds the      *)
(* account row; it first looks its source event up in the ledger, so that   *)
(* an event is answered by the ledger when it comes again.  The payload     *)
(* hash of an event is the event itself: two are equal when their canonical *)
(* fields are.  No handler closes an account or suspends an entitlement:    *)
(* these two branches of the transitions are left out.                      *)
(***************************************************************************)
EXTENDS Integers, FiniteSets

CONSTANTS
    Accounts,
    Null                \* the SQL null of a timestamp, before every time

ASSUME NullAssumption == Null \in Int /\ Null < 0

VARIABLES
    now,                \* the clock
    entitlement,        \* membership_entitlements: the row of each account
    sourceEvents        \* membership_source_events: the ledger

membership == <<entitlement, sourceEvents>>

\* The row of an account that has none: status and version as the code defaults them.
NoRow == [status |-> "inactive", accessUntil |-> Null, cancelAtPeriodEnd |-> FALSE,
          source |-> "none", subscription |-> "none", activatedAt |-> Null,
          cancellationRequestedAt |-> Null, expiredAt |-> Null,
          updatedAt |-> Null, version |-> 0]

Event(source, id, type, account, effectiveAt, accessUntil, subscription) ==
    [source |-> source, id |-> id, type |-> type, account |-> account,
     effectiveAt |-> effectiveAt, accessUntil |-> accessUntil,
     subscription |-> subscription]

(***************************************************************************)
(* validate and apply of each transition.                                   *)
(***************************************************************************)
\* Mutant: an activation may shorten an active membership.
ActivateUnordered(row, in) ==
    IF in.accessUntil <= in.effectiveAt THEN "rejected"
    ELSE IF row.status \in {"active", "inactive", "expired", "cancelling"}
    THEN "applied"
    ELSE "rejected"

ActivateVerdict(row, in) ==
    IF in.accessUntil <= in.effectiveAt THEN "rejected"
    ELSE IF row.status = "active"
    THEN IF \/ in.accessUntil < row.accessUntil
            \/ in.effectiveAt < row.updatedAt
         THEN "stale" ELSE "applied"
    ELSE IF row.status \in {"inactive", "expired", "cancelling"} THEN "applied"
    ELSE "rejected"

\* Mutant: an activation leaves the mark of an earlier expiry.
ActivatedStillExpired(row, in) ==
    [row EXCEPT !.status = "active", !.accessUntil = in.accessUntil,
                !.cancelAtPeriodEnd = FALSE, !.source = in.source,
                !.activatedAt = in.effectiveAt, !.cancellationRequestedAt = Null,
                !.subscription = IF in.subscription # "none" THEN in.subscription
                                 ELSE row.subscription]

Activated(row, in) ==
    [row EXCEPT !.status = "active", !.accessUntil = in.accessUntil,
                !.cancelAtPeriodEnd = FALSE, !.source = in.source,
                !.activatedAt = in.effectiveAt, !.cancellationRequestedAt = Null,
                !.expiredAt = Null,
                !.subscription = IF in.subscription # "none" THEN in.subscription
                                 ELSE row.subscription]

ScheduleVerdict(row, in) ==
    IF row.status # "active" \/ in.effectiveAt >= row.accessUntil THEN "rejected"
    ELSE IF in.effectiveAt < row.cancellationRequestedAt THEN "stale"
    ELSE "applied"

Scheduled(row, in) ==
    [row EXCEPT !.status = "cancelling", !.cancelAtPeriodEnd = TRUE,
                !.cancellationRequestedAt = in.effectiveAt, !.expiredAt = Null]

ReactivateVerdict(row, in) ==
    IF row.status # "cancelling" \/ in.effectiveAt >= row.accessUntil THEN "rejected"
    ELSE IF in.effectiveAt < row.cancellationRequestedAt THEN "stale"
    ELSE "applied"

Reactivated(row) ==
    [row EXCEPT !.status = "active", !.cancelAtPeriodEnd = FALSE,
                !.cancellationRequestedAt = Null, !.expiredAt = Null]

ExpireVerdict(row, in) ==
    IF \/ row.status \notin {"active", "cancelling"}
       \/ in.effectiveAt < row.accessUntil
    THEN "rejected"
    ELSE IF in.effectiveAt < row.expiredAt THEN "stale"
    ELSE "applied"

Expired(row, in) ==
    [row EXCEPT !.status = "expired", !.cancelAtPeriodEnd = FALSE,
                !.cancellationRequestedAt = Null, !.expiredAt = in.effectiveAt]

FinalizeVerdict(row, in) ==
    IF /\ row.status = "paid_pending_binding"
       /\ row.accessUntil > in.effectiveAt
       /\ in.accessUntil = row.accessUntil
    THEN "applied" ELSE "rejected"

Finalized(row, in) ==
    [row EXCEPT !.status = "active", !.activatedAt = in.effectiveAt]

Verdict(row, in) ==
    CASE in.type = "activate" -> ActivateVerdict(row, in)
      [] in.type = "schedule_cancellation" -> ScheduleVerdict(row, in)
      [] in.type = "reactivate" -> ReactivateVerdict(row, in)
      [] in.type = "expire" -> ExpireVerdict(row, in)
      [] in.type = "finalize_paid_pending_binding" -> FinalizeVerdict(row, in)

Mutation(row, in) ==
    CASE in.type = "activate" -> Activated(row, in)
      [] in.type = "schedule_cancellation" -> Scheduled(row, in)
      [] in.type = "reactivate" -> Reactivated(row)
      [] in.type = "expire" -> Expired(row, in)
      [] in.type = "finalize_paid_pending_binding" -> Finalized(row, in)

(***************************************************************************)
(* runTransitionInTransaction.                                              *)
(***************************************************************************)
\* Mutant: an event that the ledger knows is applied again.
LookUpNothing(in) == {}

\* The ledger's entries for the event: at most one, (source, id) is unique.
Recorded(in) == {e \in sourceEvents : e.in.source = in.source /\ e.in.id = in.id}

\* The outcome of an event now: what the ledger says of it, or its verdict.
Outcome(in) ==
    IF Recorded(in) # {}
    THEN IF \E e \in Recorded(in) : e.in = in THEN "replayed" ELSE "rejected"
    ELSE Verdict(entitlement[in.account], in)

Save(account, row, at) ==
    entitlement' = [entitlement EXCEPT ![account] =
        [row EXCEPT !.updatedAt = at, !.version = entitlement[account].version + 1]]

Record(in, result) ==
    sourceEvents' = sourceEvents \cup {[in |-> in, result |-> result]}

Transition(in) ==
    LET row == entitlement[in.account] IN
    IF Recorded(in) # {} THEN UNCHANGED membership
    ELSE /\ Record(in, Verdict(row, in))
         /\ IF Verdict(row, in) = "applied"
            THEN Save(in.account, Mutation(row, in), in.effectiveAt)
            ELSE UNCHANGED entitlement

(***************************************************************************)
(* resolveEffectiveMembershipStatus, and the access of an account that has  *)
(* a session, an actor and a community commitment.                          *)
(***************************************************************************)
EffectiveStatus(row, at) ==
    IF row.accessUntil # Null /\ at >= row.accessUntil THEN "expired"
    ELSE row.status

CanParticipate(account) ==
    EffectiveStatus(entitlement[account], now) \in {"active", "cancelling"}

-----------------------------------------------------------------------------
(* Properties, whichever provider or operator asks for the transitions.     *)

\* membership_entitlements_state_invariants.
StateInvariants(row) ==
    /\ row.status = "inactive" => row.accessUntil = Null /\ ~row.cancelAtPeriodEnd
    /\ row.status = "active" =>
        /\ row.accessUntil # Null /\ row.activatedAt # Null
        /\ ~row.cancelAtPeriodEnd /\ row.expiredAt = Null
    /\ row.status = "cancelling" =>
        /\ row.accessUntil # Null /\ row.cancellationRequestedAt # Null
        /\ row.cancelAtPeriodEnd /\ row.expiredAt = Null
    /\ row.status = "expired" =>
        /\ row.accessUntil # Null /\ row.expiredAt # Null /\ ~row.cancelAtPeriodEnd
    /\ row.status = "paid_pending_binding" =>
        /\ row.accessUntil # Null /\ ~row.cancelAtPeriodEnd
        /\ {row.activatedAt, row.cancellationRequestedAt, row.expiredAt} = {Null}

\* Every row the transitions write satisfies the CHECK of membership_entitlements
\* (state_invariants), so that no update fails on it: an active or cancelling
\* membership carries no mark of an earlier cancellation or expiry.  And the ledger
\* has one entry of each source and identity.
RecordsAgree ==
    /\ \A a \in DOMAIN entitlement : StateInvariants(entitlement[a])
    /\ \A e, f \in sourceEvents :
         e.in.source = f.in.source /\ e.in.id = f.in.id => e = f

\* A step that changes the status or the time of a row is the first that the ledger
\* knows of its event.
MovesOnce ==
    \A a \in DOMAIN entitlement :
        \/ /\ entitlement'[a].status = entitlement[a].status
           /\ entitlement'[a].accessUntil = entitlement[a].accessUntil
        \/ \E e \in sourceEvents' \ sourceEvents :
            /\ e.in.account = a /\ e.result = "applied"
            /\ ~\E f \in sourceEvents : f.in.source = e.in.source /\ f.in.id = e.in.id

\* Whoever sends an event, however often, it moves a membership once.
EventsMoveOnce == [][MovesOnce]_<<now, membership>>

Phase(row) ==
    CASE row.status = "active" -> "member"
      [] row.status = "cancelling" -> "leaving"
      [] row.status = "paid_pending_binding" -> "waiting"
      [] OTHER -> "outside"

\* An account without a row has none of these rights.
RowOf(a) == IF a \in DOMAIN entitlement THEN entitlement[a] ELSE NoRow

Promised == INSTANCE MembershipPromise WITH
    time <- now,
    phase <- [a \in Accounts |-> Phase(RowOf(a))],
    paidUntil <- [a \in Accounts |-> RowOf(a).accessUntil]

\* The rows, whoever changes them, keep the promise of a membership: while it runs
\* its time does not shrink, it ends when that time is over, no decision taken
\* before the transaction ends it sooner, and binding gives what was paid for.
KeepsThePromise == Promised!Promise
=============================================================================
