-------------------------- MODULE MembershipProofs --------------------------
(***************************************************************************)
(* What holds of the memberships of all accounts, whether Stripe, Google    *)
(* Play or an operator changes them, for any number of accounts, requests,  *)
(* subscriptions and purchases, all periods and times.  Each of the three   *)
(* is shown to take only steps of one form; the theorems about memberships  *)
(* follow from that form.                                                   *)
(***************************************************************************)
EXTENDS Entitlements, SequenceTheorems, TLAPS

CONSTANTS
    Requests, Idle, Period, MaxTime,
    Sessions, Workers, MaxEvents, MaxDeliveries, MaxCustomers,  \* StripeBilling
    Owners, Communities, Madrid, Tokens, GrantPeriod,           \* GooglePlay
    Keys, MaxUntil                                              \* AdminGrants

VARIABLES
    link, customers, attempts, stripe, sent, jobs,      \* StripeBilling
    actors, purchaseLinks, google, requests,            \* GooglePlay
    audits, cohort, answers                             \* AdminGrants, and requests

SendersAssumption == {Period, GrantPeriod} \subseteq Nat /\ MaxDeliveries \in Nat

Billing == INSTANCE StripeBilling
Play == INSTANCE GooglePlay
Grants == INSTANCE AdminGrants

-----------------------------------------------------------------------------
(* Rows, and what may happen to one.                                       *)

Statuses == {"inactive", "paid_pending_binding", "active", "cancelling", "expired"}
Types == {"activate", "schedule_cancellation", "reactivate", "expire",
          "finalize_paid_pending_binding"}
Sources == {"none", "stripe", "google_play", "admin"}
Names == Sessions \cup {"none", "sub"}

Rows == [status : Statuses, accessUntil : Int, cancelAtPeriodEnd : BOOLEAN,
         source : Sources, subscription : Names, activatedAt : Int,
         cancellationRequestedAt : Int, expiredAt : Int, updatedAt : Int, version : Nat]

\* A reactivation keeps the time of the activation, so that whoever leaves has one.
RowHolds(row) ==
    /\ row \in Rows /\ StateInvariants(row)
    /\ row.status = "cancelling" => row.activatedAt # Null

\* An event that a request may ask for: it has captured its time before.
Asked(in) ==
    /\ in.account \in Accounts /\ in.type \in Types
    /\ in.effectiveAt \in Nat /\ in.effectiveAt <= now
    /\ in.accessUntil \in Int /\ in.subscription \in Names /\ in.source \in Sources

Same(old, new) == new.status = old.status /\ new.accessUntil = old.accessUntil

\* The moves of MembershipPromise, of one account.
Moved(old, new) ==
    \/ Phase(old) = "outside" /\ Phase(new) \in {"waiting", "member"}
    \/ Phase(old) = "waiting" /\ Phase(new) = "member" /\ new.accessUntil = old.accessUntil
    \/ Phase(old) = "leaving" /\ Phase(new) = "member"
    \/ Phase(old) = "member" /\ Phase(new) = "member" /\ new.accessUntil >= old.accessUntil
    \/ Phase(old) = "member" /\ Phase(new) = "leaving" /\ new.accessUntil = old.accessUntil
    \/ /\ Phase(old) \in {"member", "leaving"} /\ Phase(new) = "outside"
       /\ new.accessUntil = old.accessUntil /\ old.accessUntil <= now

Saved(row, at, v) == [row EXCEPT !.updatedAt = at, !.version = v]

LEMMA NullIsEarly == Null \in Int /\ \A t \in Nat : t # Null /\ Null < t
BY NullAssumption

\* The statuses that matter to the promise.
LEMMA PhaseOf ==
    ASSUME NEW row
    PROVE  /\ Phase(row) = "member" <=> row.status = "active"
           /\ Phase(row) = "leaving" <=> row.status = "cancelling"
           /\ Phase(row) = "waiting" <=> row.status = "paid_pending_binding"
           /\ Phase(row) \in {"member", "leaving", "waiting", "outside"}
BY DEF Phase

\* Saving stamps a row and touches nothing that a promise or a CHECK is about.
LEMMA SavedIs ==
    ASSUME NEW row \in Rows, NEW at \in Int, NEW v \in Nat
    PROVE  /\ Saved(row, at, v) \in Rows
           /\ RowHolds(row) => RowHolds(Saved(row, at, v))
           /\ \A old : Moved(old, row) => Moved(old, Saved(row, at, v))
           /\ Same(row, Saved(row, at, v))
<1> DEFINE new == Saved(row, at, v)
<1>1. /\ new \in Rows /\ new.status = row.status /\ new.accessUntil = row.accessUntil
      /\ new.activatedAt = row.activatedAt /\ new.expiredAt = row.expiredAt
      /\ new.cancellationRequestedAt = row.cancellationRequestedAt
      /\ new.cancelAtPeriodEnd = row.cancelAtPeriodEnd
  BY DEF Saved, Rows
<1> HIDE DEF new
<1>2. Phase(new) = Phase(row)
  BY <1>1 DEF Phase
<1> QED BY <1>1, <1>2 DEF RowHolds, StateInvariants, Moved, Same, new

\* An event that is applied writes a row that its CHECK accepts, by a promised move.
LEMMA AppliedMoves ==
    ASSUME NEW row, RowHolds(row), NEW in, Asked(in), now \in Nat,
           Verdict(row, in) = "applied"
    PROVE  RowHolds(Mutation(row, in)) /\ Moved(row, Mutation(row, in))
<1> DEFINE new == Mutation(row, in)
<1> HIDE DEF new
<1>1. row \in Rows /\ in.effectiveAt \in Nat /\ in.accessUntil \in Int /\ in.subscription \in Names
      /\ in.source \in Sources /\ in.effectiveAt <= now /\ in.type \in Types
  BY DEF RowHolds, Asked
<1>t. row \in Rows /\ in.effectiveAt \in Int /\ in.accessUntil \in Int
      /\ in.subscription \in Names /\ in.source \in Sources /\ Null \in Int
  BY <1>1, NullIsEarly
<1>2. CASE in.type = "activate"
  <2>1. /\ in.accessUntil > in.effectiveAt
        /\ row.status \in {"active", "inactive", "expired", "cancelling"}
        /\ row.status = "active" => in.accessUntil >= row.accessUntil
    BY <1>1, <1>2 DEF Verdict, ActivateVerdict, Rows
  <2>2. new = Activated(row, in)
    BY <1>2 DEF new, Mutation
  <2>3. /\ new \in Rows /\ new.status = "active" /\ new.accessUntil = in.accessUntil
        /\ new.activatedAt = in.effectiveAt /\ new.expiredAt = Null /\ new.cancelAtPeriodEnd = FALSE
    BY <1>t, <2>2 DEF Activated, Rows, Statuses
  <2>4. RowHolds(new)
    BY <1>1, <2>1, <2>3, NullIsEarly DEF RowHolds, StateInvariants
  <2> QED BY <2>1, <2>3, <2>4, PhaseOf DEF Moved, new
<1>3. CASE in.type = "schedule_cancellation"
  <2>1. row.status = "active" /\ new = Scheduled(row, in)
    BY <1>3 DEF new, Verdict, ScheduleVerdict, Mutation
  <2>2. /\ new \in Rows /\ new.status = "cancelling" /\ new.accessUntil = row.accessUntil
        /\ new.activatedAt = row.activatedAt /\ new.expiredAt = Null /\ new.cancelAtPeriodEnd = TRUE
        /\ new.cancellationRequestedAt = in.effectiveAt
    BY <1>t, <2>1 DEF Scheduled, Rows, Statuses
  <2>3. RowHolds(new)
    BY <1>1, <2>1, <2>2, NullIsEarly DEF RowHolds, StateInvariants
  <2> QED BY <2>1, <2>2, <2>3, PhaseOf DEF Moved, new
<1>4. CASE in.type = "reactivate"
  <2>1. row.status = "cancelling" /\ new = Reactivated(row)
    BY <1>4 DEF new, Verdict, ReactivateVerdict, Mutation
  <2>2. /\ new \in Rows /\ new.status = "active" /\ new.accessUntil = row.accessUntil
        /\ new.activatedAt = row.activatedAt /\ new.expiredAt = Null /\ new.cancelAtPeriodEnd = FALSE
    BY <1>t, <2>1 DEF Reactivated, Rows, Statuses
  <2>3. RowHolds(new)
    BY <1>1, <2>1, <2>2 DEF RowHolds, StateInvariants
  <2> QED BY <2>1, <2>2, <2>3, PhaseOf DEF Moved, new
<1>5. CASE in.type = "expire"
  <2>1. /\ row.status \in {"active", "cancelling"} /\ row.accessUntil <= in.effectiveAt
        /\ new = Expired(row, in)
    BY <1>1, <1>5 DEF new, Verdict, ExpireVerdict, Mutation, Rows
  <2>2. /\ new \in Rows /\ new.status = "expired" /\ new.accessUntil = row.accessUntil
        /\ new.expiredAt = in.effectiveAt /\ new.cancelAtPeriodEnd = FALSE
    BY <1>t, <2>1 DEF Expired, Rows, Statuses
  <2>3. RowHolds(new)
    BY <1>1, <2>1, <2>2, NullIsEarly DEF RowHolds, StateInvariants
  <2>4. Phase(new) = "outside" /\ row.accessUntil <= now
    BY <1>1, <2>1, <2>2, PhaseOf DEF Rows
  <2> QED BY <2>1, <2>2, <2>3, <2>4, PhaseOf DEF Moved, new
<1>6. CASE in.type = "finalize_paid_pending_binding"
  <2>1. row.status = "paid_pending_binding" /\ new = Finalized(row, in)
    BY <1>6 DEF new, Verdict, FinalizeVerdict, Mutation
  <2>2. /\ new \in Rows /\ new.status = "active" /\ new.accessUntil = row.accessUntil
        /\ new.activatedAt = in.effectiveAt /\ new.expiredAt = row.expiredAt
        /\ new.cancelAtPeriodEnd = row.cancelAtPeriodEnd
    BY <1>t, <2>1 DEF Finalized, Rows, Statuses
  <2>3. RowHolds(new)
    BY <1>1, <2>1, <2>2, NullIsEarly DEF RowHolds, StateInvariants
  <2> QED BY <2>1, <2>2, <2>3, PhaseOf DEF Moved, new
<1> QED BY <1>1, <1>2, <1>3, <1>4, <1>5, <1>6 DEF Types, new
-----------------------------------------------------------------------------
(* What a step may do to the memberships, whoever takes it.                *)

Tables ==
    /\ now \in Nat
    /\ entitlement \in [Accounts -> Rows]
    /\ \A a \in Accounts : RowHolds(entitlement[a])
    /\ RecordsAgree

\* The row of one account is replaced; every other stays.
Written(a, new) ==
    /\ a \in Accounts /\ RowHolds(new)
    /\ entitlement' = [entitlement EXCEPT ![a] = new]

\* Time passes; a row is stamped; or an event that the ledger did not know is recorded,
\* and if it is applied it moves the row of its account as promised.
Waits == UNCHANGED membership /\ now' \in Nat /\ now' >= now
Stamps ==
    /\ UNCHANGED <<now, sourceEvents>>
    /\ \E a \in Accounts : Written(a, entitlement'[a]) /\ Same(entitlement[a], entitlement'[a])
Records ==
    /\ UNCHANGED now
    /\ \E e \in sourceEvents' :
        /\ sourceEvents' = sourceEvents \cup {e} /\ Recorded(e.in) = {}
        /\ \/ UNCHANGED entitlement
           \/ LET a == e.in.account IN
              /\ e.result = "applied" /\ Written(a, entitlement'[a])
              /\ Moved(entitlement[a], entitlement'[a])

MembershipStep == Waits \/ Stamps \/ Records

LEMMA SaveWrites ==
    ASSUME Tables, NEW a \in Accounts, NEW row, RowHolds(row), NEW at \in Int, Save(a, row, at)
    PROVE  /\ Written(a, entitlement'[a]) /\ entitlement'[a] \in Rows
           /\ \A old : Moved(old, row) => Moved(old, entitlement'[a])
           /\ Same(row, entitlement'[a])
<1> DEFINE v == entitlement[a].version + 1
<1>1. v \in Nat
  BY DEF Tables, Rows
<1>2. entitlement' = [entitlement EXCEPT ![a] = Saved(row, at, v)] /\ row \in Rows
  BY DEF Save, Saved, RowHolds
<1>3. entitlement'[a] = Saved(row, at, v)
  BY <1>2 DEF Tables
<1> QED BY <1>1, <1>2, <1>3, SavedIs DEF Written

\* A transition of an event that may be asked for is such a step.
LEMMA TransitionSteps ==
    ASSUME Tables, NEW in, Asked(in), Transition(in), UNCHANGED now
    PROVE  MembershipStep
<1>0. in.account \in Accounts /\ in.effectiveAt \in Int /\ now \in Nat /\ now' >= now
      /\ RowHolds(entitlement[in.account])
  BY DEF Asked, Tables
<1>1. CASE Recorded(in) # {}
  BY <1>0, <1>1 DEF Transition, MembershipStep, Waits, membership
<1>2. CASE Recorded(in) = {}
  <2> DEFINE row == entitlement[in.account]
             e == [in |-> in, result |-> Verdict(row, in)]
  <2>1. /\ sourceEvents' = sourceEvents \cup {e} /\ e \in sourceEvents'
        /\ e.in = in /\ e.result = Verdict(row, in)
    BY <1>2 DEF Transition, Record
  <2>2. CASE Verdict(row, in) # "applied"
    BY <1>2, <2>1, <2>2 DEF Transition, MembershipStep, Records
  <2>3. CASE Verdict(row, in) = "applied"
    <3>1. RowHolds(Mutation(row, in)) /\ Moved(row, Mutation(row, in))
      BY <1>0, <2>3, AppliedMoves
    <3>2. Save(in.account, Mutation(row, in), in.effectiveAt)
      BY <1>2, <2>3 DEF Transition
    <3>3. Written(in.account, entitlement'[in.account]) /\ Moved(row, entitlement'[in.account])
      BY <1>0, <3>1, <3>2, SaveWrites
    <3> QED BY <1>2, <2>1, <2>3, <3>3 DEF MembershipStep, Records
  <2> QED BY <2>2, <2>3
<1> QED BY <1>1, <1>2

-----------------------------------------------------------------------------
(* What follows from steps of that form.                                   *)

LEMMA WrittenKeeps ==
    ASSUME Tables, NEW a, Written(a, entitlement'[a])
    PROVE  /\ entitlement' \in [Accounts -> Rows] /\ a \in Accounts
           /\ \A b \in Accounts : RowHolds(entitlement'[b])
           /\ \A b \in Accounts \ {a} : entitlement'[b] = entitlement[b]
BY DEF Tables, Written, RowHolds

LEMMA TablesStay ==
    ASSUME Tables, MembershipStep
    PROVE  Tables'
<1>1. DOMAIN entitlement = Accounts /\ \A a \in Accounts : StateInvariants(entitlement[a])
  BY DEF Tables, RowHolds
<1>2. CASE Waits
  BY <1>2 DEF Waits, Tables, membership, RecordsAgree, StateInvariants, RowHolds
<1>3. CASE Stamps
  <2>1. /\ entitlement' \in [Accounts -> Rows] /\ UNCHANGED <<now, sourceEvents>>
        /\ \A b \in Accounts : RowHolds(entitlement'[b])
    BY <1>3, WrittenKeeps DEF Stamps
  <2> QED BY <2>1 DEF Tables, RecordsAgree, RowHolds, StateInvariants
<1>4. CASE Records
  <2>1. PICK e \in sourceEvents' :
          /\ sourceEvents' = sourceEvents \cup {e} /\ Recorded(e.in) = {}
          /\ UNCHANGED entitlement \/ Written(e.in.account, entitlement'[e.in.account])
    BY <1>4 DEF Records
  <2>2. /\ entitlement' \in [Accounts -> Rows] /\ UNCHANGED now
        /\ \A b \in Accounts : RowHolds(entitlement'[b])
    BY <1>4, <2>1, WrittenKeeps DEF Records, Tables
  <2>3. \A f, g \in sourceEvents' :
          f.in.source = g.in.source /\ f.in.id = g.in.id => f = g
    BY <2>1 DEF Tables, RecordsAgree, Recorded
  <2> QED BY <2>2, <2>3 DEF Tables, RecordsAgree, RowHolds, StateInvariants
<1> QED BY <1>2, <1>3, <1>4 DEF MembershipStep

LEMMA StepMovesOnce ==
    ASSUME Tables, MembershipStep
    PROVE  MovesOnce
<1>1. DOMAIN entitlement = Accounts
  BY DEF Tables
<1>2. CASE Waits
  BY <1>2 DEF Waits, membership, MovesOnce
<1>3. CASE Stamps
  BY <1>1, <1>3, WrittenKeeps DEF Stamps, MovesOnce, Same
<1>4. CASE Records
  <2>1. PICK e \in sourceEvents' :
          /\ sourceEvents' = sourceEvents \cup {e} /\ Recorded(e.in) = {}
          /\ \/ UNCHANGED entitlement
             \/ Written(e.in.account, entitlement'[e.in.account]) /\ e.result = "applied"
    BY <1>4 DEF Records
  <2>2. /\ e \in sourceEvents' \ sourceEvents
        /\ ~\E f \in sourceEvents : f.in.source = e.in.source /\ f.in.id = e.in.id
    BY <2>1 DEF Recorded
  <2> QED BY <1>1, <2>1, <2>2, WrittenKeeps DEF MovesOnce
<1> QED BY <1>2, <1>3, <1>4 DEF MembershipStep

-----------------------------------------------------------------------------
(* The promise.                                                            *)

phases == [a \in Accounts |-> Phase(RowOf(a))]
times == [a \in Accounts |-> RowOf(a).accessUntil]

LEMMA PromisedRows ==
    ASSUME Tables
    PROVE  /\ phases = [a \in Accounts |-> Phase(entitlement[a])]
           /\ times = [a \in Accounts |-> entitlement[a].accessUntil]
           /\ \A a \in Accounts : RowOf(a) = entitlement[a]
BY DEF Tables, RowOf, phases, times

\* Replacing a row replaces one phase and one time.
LEMMA OnePromise ==
    ASSUME Tables, Tables', NEW a, Written(a, entitlement'[a])
    PROVE  /\ phases' = [phases EXCEPT ![a] = Phase(entitlement'[a])]
           /\ \A b \in Accounts \ {a} : times'[b] = times[b]
           /\ times'[a] = entitlement'[a].accessUntil
           /\ entitlement'[a].accessUntil = entitlement[a].accessUntil => times' = times
<1>1. /\ phases = [b \in Accounts |-> Phase(entitlement[b])]
      /\ phases' = [b \in Accounts |-> Phase(entitlement'[b])]
      /\ times = [b \in Accounts |-> entitlement[b].accessUntil]
      /\ times' = [b \in Accounts |-> entitlement'[b].accessUntil]
  <2>1. Tables => phases = [b \in Accounts |-> Phase(entitlement[b])]
                  /\ times = [b \in Accounts |-> entitlement[b].accessUntil]
    BY PromisedRows
  <2>2. Tables' => phases' = [b \in Accounts |-> Phase(entitlement[b])']
                   /\ times' = [b \in Accounts |-> entitlement'[b].accessUntil]
    BY DEF Tables, RowOf, phases, times
  <2>3. \A b : Phase(entitlement[b])' = Phase(entitlement'[b])
    BY DEF Phase
  <2> QED BY <2>1, <2>2, <2>3
<1>2. a \in Accounts /\ \A b \in Accounts \ {a} : entitlement'[b] = entitlement[b]
  BY WrittenKeeps
<1> QED BY <1>1, <1>2

LEMMA StepIsPromised ==
    ASSUME Tables, MembershipStep
    PROVE  [Promised!PromiseNext]_(Promised!promiseVars)
<1> USE DEF Promised!promiseVars
<1>1. Tables'
  BY TablesStay
<1>2. CASE Waits
  <2>1. phases' = phases /\ times' = times
    BY <1>2 DEF Waits, membership, phases, times, RowOf, Phase
  <2>2. now' > now => Promised!Pass
    BY <2>1 DEF Promised!Pass, phases, times
  <2>3. ~ (now' > now) => now' = now
    BY <1>2 DEF Waits, Tables
  <2> QED BY <2>1, <2>2, <2>3 DEF Promised!PromiseNext, phases, times
<1>3. ASSUME NEW a, Written(a, entitlement'[a]), Same(entitlement[a], entitlement'[a]), UNCHANGED now
      PROVE  UNCHANGED <<now, phases, times>>
  <2>1. Phase(entitlement'[a]) = Phase(entitlement[a]) /\ phases[a] = Phase(entitlement[a])
        /\ phases \in [Accounts -> {"member", "leaving", "waiting", "outside"}]
    BY <1>3, PromisedRows, PhaseOf DEF Same, Phase, Written
  <2> QED BY <1>1, <1>3, <2>1, OnePromise DEF Same
<1>4. CASE Stamps
  BY <1>3, <1>4 DEF Stamps, phases, times
<1>5. ASSUME NEW a, Written(a, entitlement'[a]), Moved(entitlement[a], entitlement'[a]), UNCHANGED now
      PROVE  Promised!PromiseNext
  <2> DEFINE old == Phase(entitlement[a])
             new == Phase(entitlement'[a])
  <2>1. /\ a \in Accounts /\ phases[a] = old /\ times[a] = entitlement[a].accessUntil
        /\ phases \in [Accounts -> {"member", "leaving", "waiting", "outside"}]
    BY <1>5, PromisedRows, PhaseOf DEF Written
  <2>2. /\ phases' = [phases EXCEPT ![a] = new] /\ times'[a] = entitlement'[a].accessUntil
        /\ \A b \in Accounts \ {a} : times'[b] = times[b]
        /\ entitlement'[a].accessUntil = entitlement[a].accessUntil => times' = times
    BY <1>1, <1>5, OnePromise
  <2> HIDE DEF old, new
  <2>3. \A from, to : phases[a] = from /\ new = to => Promised!Enter(a, from, to)
    BY <1>5, <2>2 DEF Promised!Enter, phases
  <2>4. \/ Promised!Buy(a) \/ Promised!Bind(a) \/ Promised!Join(a) \/ Promised!Return(a)
        \/ Promised!Extend(a) \/ Promised!Leave(a) \/ Promised!End(a)
    <3>1. CASE old = "outside" /\ new \in {"waiting", "member"}
      BY <2>1, <2>3, <3>1 DEF Promised!Buy, Promised!Join
    <3>2. CASE old = "waiting" /\ new = "member" /\ times' = times
      BY <2>1, <2>3, <3>2 DEF Promised!Bind, times
    <3>3. CASE old = "leaving" /\ new = "member"
      BY <2>1, <2>3, <3>3 DEF Promised!Return
    <3>4. CASE old = "member" /\ new = "member" /\ times'[a] >= times[a]
      <4>1. phases' = phases
        BY <2>1, <2>2, <3>4
      <4> QED BY <1>5, <2>1, <3>4, <4>1 DEF Promised!Extend, phases, times
    <3>5. CASE old = "member" /\ new = "leaving" /\ times' = times
      BY <2>1, <2>3, <3>5 DEF Promised!Leave, times
    <3>6. CASE old \in {"member", "leaving"} /\ new = "outside" /\ times' = times /\ times[a] <= now
      BY <2>1, <2>3, <3>6 DEF Promised!End, times
    <3> QED BY <1>5, <2>1, <2>2, <3>1, <3>2, <3>3, <3>4, <3>5, <3>6 DEF Moved, old, new
  <2> QED BY <2>1, <2>2, <2>4 DEF Promised!PromiseNext, times
<1>6. CASE Records
  <2>1. \/ UNCHANGED <<now, entitlement>>
        \/ \E a : Written(a, entitlement'[a]) /\ Moved(entitlement[a], entitlement'[a])
    BY <1>6 DEF Records
  <2>2. CASE UNCHANGED <<now, entitlement>>
    BY <2>2 DEF phases, times, RowOf, Phase
  <2> QED BY <1>5, <1>6, <2>1, <2>2 DEF Records
<1> QED BY <1>2, <1>4, <1>6 DEF MembershipStep
-----------------------------------------------------------------------------
(* Stripe, Google Play and the operators use these transitions.             *)

LEMMA BillingAgrees ==
    /\ \A in : Billing!Transition(in) <=> Transition(in)
    /\ \A a, row, at : Billing!Save(a, row, at) <=> Save(a, row, at)
    /\ \A in : Billing!Recorded(in) = Recorded(in)
    /\ \A in, result : Billing!Record(in, result) <=> Record(in, result)
    /\ Billing!NoRow = NoRow
BY DEF Transition, Billing!Transition, Save, Billing!Save, Recorded, Billing!Recorded, Record, Billing!Record, NoRow, Billing!NoRow, Verdict, Billing!Verdict, Mutation, Billing!Mutation, membership, Billing!membership,
       ActivateVerdict, Billing!ActivateVerdict, ScheduleVerdict, Billing!ScheduleVerdict, ReactivateVerdict, Billing!ReactivateVerdict, ExpireVerdict, Billing!ExpireVerdict, FinalizeVerdict, Billing!FinalizeVerdict,
       Activated, Billing!Activated, Scheduled, Billing!Scheduled, Reactivated, Billing!Reactivated, Expired, Billing!Expired, Finalized, Billing!Finalized

LEMMA PlayAgrees ==
    /\ \A in : Play!Transition(in) <=> Transition(in)
    /\ \A a, row, at : Play!Save(a, row, at) <=> Save(a, row, at)
    /\ \A in : Play!Recorded(in) = Recorded(in)
    /\ \A in, result : Play!Record(in, result) <=> Record(in, result)
    /\ Play!NoRow = NoRow
BY DEF Transition, Play!Transition, Save, Play!Save, Recorded, Play!Recorded, Record, Play!Record, NoRow, Play!NoRow, Verdict, Play!Verdict, Mutation, Play!Mutation, membership, Play!membership,
       ActivateVerdict, Play!ActivateVerdict, ScheduleVerdict, Play!ScheduleVerdict, ReactivateVerdict, Play!ReactivateVerdict, ExpireVerdict, Play!ExpireVerdict, FinalizeVerdict, Play!FinalizeVerdict,
       Activated, Play!Activated, Scheduled, Play!Scheduled, Reactivated, Play!Reactivated, Expired, Play!Expired, Finalized, Play!Finalized

LEMMA GrantsAgrees ==
    /\ \A in : Grants!Transition(in) <=> Transition(in)
    /\ \A a, row, at : Grants!Save(a, row, at) <=> Save(a, row, at)
    /\ \A in : Grants!Recorded(in) = Recorded(in)
    /\ \A in, result : Grants!Record(in, result) <=> Record(in, result)
    /\ Grants!NoRow = NoRow
BY DEF Transition, Grants!Transition, Save, Grants!Save, Recorded, Grants!Recorded, Record, Grants!Record, NoRow, Grants!NoRow, Verdict, Grants!Verdict, Mutation, Grants!Mutation, membership, Grants!membership,
       ActivateVerdict, Grants!ActivateVerdict, ScheduleVerdict, Grants!ScheduleVerdict, ReactivateVerdict, Grants!ReactivateVerdict, ExpireVerdict, Grants!ExpireVerdict, FinalizeVerdict, Grants!FinalizeVerdict,
       Activated, Grants!Activated, Scheduled, Grants!Scheduled, Reactivated, Grants!Reactivated, Expired, Grants!Expired, Finalized, Grants!Finalized

-----------------------------------------------------------------------------
(* Stripe.                                                                 *)

\* The sessions that a checkout has opened, and what Stripe reports of them.
Sold == {s \in Sessions : stripe[s].state # "none"}
Kinds == {"checkout.session.completed", "invoice.paid", "customer.subscription.updated",
          "customer.subscription.deleted"}
SessionStates == {"none", "open", "lost", "active", "past_due", "canceled"}
SessionRows == [state : SessionStates, account : Accounts \cup {Idle}, end : Int, cancel : BOOLEAN]
Reports == [type : Kinds, session : Sold, cancel : BOOLEAN, left : Int]

WebhookRows == [step : Kinds \cup {"activate", "expire"}, event : Nat, at : Nat, until : Int]
ReconcileRows == [step : {"reconcile"}, account : Accounts, at : Nat, until : Int]

\* A request has captured its time, and a webhook works on an event that was sent.
JobHolds(job) ==
    /\ job.at <= now
    /\ job \in WebhookRows \cup ReconcileRows
    /\ job \in WebhookRows => job.event \in DOMAIN sent

BillingHolds ==
    /\ stripe \in [Sessions -> SessionRows]
    /\ \A s \in Sold : stripe[s].account \in Accounts
    /\ sent \in Seq(Reports)
    /\ jobs \in [Workers -> WebhookRows \cup ReconcileRows \cup {Idle}]
    /\ \A w \in Workers : jobs[w] # Idle => JobHolds(jobs[w])

LEMMA JobKinds ==
    ASSUME NEW job, JobHolds(job)
    PROVE  /\ job.at \in Nat /\ job.until \in Int
           /\ job.step = "reconcile" => job \in ReconcileRows
           /\ job.step # "reconcile" => job \in WebhookRows /\ job.event \in DOMAIN sent
BY DEF JobHolds, WebhookRows, ReconcileRows, Kinds

\* While sessions are only added and changed, a sequence of reports stays one.
LEMMA ReportsGrow ==
    ASSUME Sold \subseteq Sold'
    PROVE  Seq(Reports) \subseteq Seq(Reports')
<1>1. Reports \subseteq Reports'
  BY DEF Reports
<1> QED BY <1>1, SeqDef

\* The requests of a step that works for one of them.
LEMMA JobsStay ==
    ASSUME BillingHolds, NEW w \in Workers, NEW new, now' = now,
           jobs' = [jobs EXCEPT ![w] = new], DOMAIN sent \subseteq DOMAIN sent',
           new = Idle \/ JobHolds(new)'
    PROVE  /\ jobs' \in [Workers -> WebhookRows \cup ReconcileRows \cup {Idle}]
           /\ \A v \in Workers : jobs'[v] # Idle => JobHolds(jobs[v])'
<1>1. new \in WebhookRows \cup ReconcileRows \cup {Idle}
  BY DEF JobHolds, WebhookRows, ReconcileRows
<1>2. \A v \in Workers : jobs'[v] = IF v = w THEN new ELSE jobs[v]
  BY DEF BillingHolds
<1>3. \A v \in Workers : jobs[v] # Idle => JobHolds(jobs[v])
  BY DEF BillingHolds
<1> QED BY <1>1, <1>2, <1>3 DEF BillingHolds, JobHolds, WebhookRows, ReconcileRows

\* A step that moves no membership, changes no session or report, and starts, moves or
\* ends at most one request.
LEMMA BillingWaits ==
    ASSUME BillingHolds, now \in Nat, UNCHANGED <<membership, stripe, sent>>,
           \/ UNCHANGED jobs /\ now' \in {now, now + 1}
           \/ UNCHANGED now /\ \E w \in Workers : \E new :
                jobs' = [jobs EXCEPT ![w] = new] /\ (new = Idle \/ JobHolds(new))
    PROVE  MembershipStep /\ BillingHolds'
<1>1. MembershipStep
  BY DEF MembershipStep, Waits
<1>2. Sold' = Sold /\ Reports' = Reports
  BY DEF Sold, Reports
<1>3. CASE UNCHANGED jobs /\ now' \in {now, now + 1}
  <2>1. ASSUME NEW w \in Workers, jobs[w] # Idle  PROVE  JobHolds(jobs[w])'
    <3>1. JobHolds(jobs[w]) /\ jobs[w].at \in Nat
      BY <2>1, JobKinds DEF BillingHolds
    <3> QED BY <1>3, <3>1 DEF JobHolds
  <2> QED BY <1>1, <1>2, <1>3, <2>1 DEF BillingHolds
<1>4. CASE UNCHANGED now /\ \E w \in Workers : \E new :
             jobs' = [jobs EXCEPT ![w] = new] /\ (new = Idle \/ JobHolds(new))
  <2>0. PICK w \in Workers : \E new : jobs' = [jobs EXCEPT ![w] = new] /\ (new = Idle \/ JobHolds(new))
    BY <1>4
  <2>1. PICK new : jobs' = [jobs EXCEPT ![w] = new] /\ (new = Idle \/ JobHolds(new))
    BY <2>0
  <2>2. new = Idle \/ JobHolds(new)'
    BY <1>4, <2>1 DEF JobHolds
  <2> QED BY <1>1, <1>2, <1>4, <2>1, <2>2, JobsStay DEF BillingHolds
<1> QED BY <1>1, <1>3, <1>4

\* Stripe sells, renews and ends subscriptions and reports it.
LEMMA StripeReports ==
    ASSUME BillingHolds, SendersAssumption, now \in Nat, Billing!Stripe
    PROVE  MembershipStep /\ BillingHolds'
<1>0. UNCHANGED <<now, membership, jobs>>
  BY DEF Billing!Stripe, Billing!membership, membership
<1>1. PICK s \in Sessions : \/ Billing!Pay(s) \/ Billing!PortalChange(s) \/ Billing!Renew(s)
                            \/ Billing!PayLate(s) \/ Billing!EndSubscription(s)
  BY DEF Billing!Stripe
<1> DEFINE Moves == \E state \in SessionStates, end \in Int, cancel \in BOOLEAN :
                       state # "none" /\ Billing!At(s, state, end, cancel)
           Emits == \E types \in Seq(Kinds) : Billing!Emit(s, types)
<1>2. s \in Sold /\ Moves /\ (UNCHANGED sent \/ Emits)
  <2>a. \A state \in SessionStates, end \in Int, cancel \in BOOLEAN :
          state # "none" /\ Billing!At(s, state, end, cancel) => Moves
    BY Zenon
  <2>b. \A types \in Seq(Kinds) : Billing!Emit(s, types) => Emits
    BY Zenon
  <2>s. /\ "active" \in SessionStates /\ "past_due" \in SessionStates /\ "canceled" \in SessionStates
        /\ "active" # "none" /\ "past_due" # "none" /\ "canceled" # "none"
    BY DEF SessionStates
  <2> HIDE DEF Moves, Emits
  <2>1. stripe[s] \in SessionRows
    BY DEF BillingHolds
  <2>2. stripe[s].end \in Int /\ now + Period \in Int /\ stripe[s].end + Period \in Int
        /\ stripe[s].cancel \in BOOLEAN /\ (~stripe[s].cancel) \in BOOLEAN
    BY <2>1 DEF SessionRows, SendersAssumption
  <2>3. CASE Billing!Pay(s)
    <3>1. <<"checkout.session.completed", "invoice.paid">> \in Seq(Kinds)
      BY DEF Kinds
    <3>2. Moves /\ (UNCHANGED sent \/ Emits)
      BY <2>a, <2>b, <2>s, <2>2, <2>3, <3>1, Zenon DEF Billing!Pay
    <3> QED BY <2>3, <3>2 DEF Billing!Pay, Sold
  <2>4. CASE Billing!PortalChange(s)
    <3>1. <<"customer.subscription.updated">> \in Seq(Kinds)
      BY DEF Kinds
    <3>2. Moves /\ (UNCHANGED sent \/ Emits)
      BY <2>a, <2>b, <2>s, <2>2, <2>4, <3>1, Zenon DEF Billing!PortalChange
    <3> QED BY <2>4, <3>2 DEF Billing!PortalChange, Sold
  <2>5. CASE Billing!Renew(s)
    <3>1. <<"invoice.paid">> \in Seq(Kinds)
      BY DEF Kinds
    <3>2. Moves /\ (UNCHANGED sent \/ Emits)
      BY <2>a, <2>b, <2>s, <2>2, <2>5, <3>1, Zenon DEF Billing!Renew
    <3> QED BY <2>5, <3>2 DEF Billing!Renew, Sold
  <2>6. CASE Billing!PayLate(s)
    <3>1. <<"invoice.paid">> \in Seq(Kinds)
      BY DEF Kinds
    <3>2. Moves /\ (UNCHANGED sent \/ Emits)
      BY <2>a, <2>b, <2>s, <2>2, <2>6, <3>1, Zenon DEF Billing!PayLate
    <3> QED BY <2>6, <3>2 DEF Billing!PayLate, Sold
  <2>7. CASE Billing!EndSubscription(s)
    <3>1. <<"customer.subscription.deleted">> \in Seq(Kinds)
      BY DEF Kinds
    <3>2. Moves /\ (UNCHANGED sent \/ Emits)
      BY <2>a, <2>b, <2>s, <2>2, <2>7, <3>1, Zenon DEF Billing!EndSubscription
    <3> QED BY <2>7, <3>2 DEF Billing!EndSubscription, Sold
  <2> QED BY <1>1, <2>3, <2>4, <2>5, <2>6, <2>7
<1>3. PICK state \in SessionStates, end \in Int, cancel \in BOOLEAN : state # "none" /\ Billing!At(s, state, end, cancel)
  BY <1>2
<1>4. /\ stripe' \in [Sessions -> SessionRows] /\ stripe'[s].cancel \in BOOLEAN
      /\ \A t \in Sessions : stripe'[t].account = stripe[t].account
      /\ Sold' = Sold
  <2>1. \A t \in Sessions : stripe'[t] = IF t = s
          THEN [stripe[s] EXCEPT !.state = state, !.end = end, !.cancel = cancel] ELSE stripe[t]
    BY <1>3 DEF Billing!At, BillingHolds
  <2>2. stripe'[s] \in SessionRows /\ stripe'[s].state # "none" /\ stripe'[s].account = stripe[s].account
        /\ stripe'[s].cancel \in BOOLEAN
    BY <1>3, <2>1 DEF BillingHolds, SessionRows
  <2> QED BY <1>2, <1>3, <2>1, <2>2 DEF Billing!At, BillingHolds, Sold
<1>5. Reports' = Reports
  BY <1>4 DEF Reports
<1>6. sent' \in Seq(Reports) /\ DOMAIN sent \subseteq DOMAIN sent'
  <2>1. CASE Emits
    <3>1. PICK types \in Seq(Kinds) : Billing!Emit(s, types)
      BY <2>1
    <3> DEFINE new == [i \in DOMAIN types |-> Billing!StripeEvent(s, types[i])]
    <3>2. \A i \in DOMAIN types : Billing!StripeEvent(s, types[i]) \in Reports
      BY <1>2, <1>4 DEF Billing!StripeEvent, Reports, SendersAssumption
    <3>3. new \in Seq(Reports)
      BY <3>2, SeqDef
    <3>4. sent' = sent \o new
      BY <3>1 DEF Billing!Emit
    <3> HIDE DEF new
    <3> QED BY <3>3, <3>4 DEF BillingHolds
  <2> QED BY <1>2, <2>1 DEF BillingHolds
<1>7. \A w \in Workers : jobs'[w] # Idle => JobHolds(jobs[w])'
  BY <1>0, <1>6 DEF BillingHolds, JobHolds
<1>8. MembershipStep
  BY <1>0 DEF MembershipStep, Waits
<1> QED BY <1>0, <1>4, <1>5, <1>6, <1>7, <1>8 DEF BillingHolds, Sold

\* A checkout names a session at Stripe, of an account.
LEMMA CheckoutSteps ==
    ASSUME BillingHolds, now \in Nat, NEW a \in Accounts, NEW s \in Sessions,
           Billing!CreateCheckoutSession(a, s)
    PROVE  MembershipStep /\ BillingHolds'
<1>1. UNCHANGED <<now, membership, sent, jobs>> /\ stripe[s] \in SessionRows
  BY DEF Billing!CreateCheckoutSession, Billing!membership, membership, BillingHolds
<1>2. PICK state \in SessionStates :
        state # "none" /\ stripe' = [stripe EXCEPT ![s].state = state, ![s].account = a]
  <2>1. "open" \in SessionStates /\ "lost" \in SessionStates /\ "open" # "none" /\ "lost" # "none"
    BY DEF SessionStates
  <2> QED BY <2>1 DEF Billing!CreateCheckoutSession
<1>3. \A t \in Sessions : stripe'[t] = IF t = s
        THEN [stripe[s] EXCEPT !.state = state, !.account = a] ELSE stripe[t]
  BY <1>2 DEF BillingHolds
<1>4. stripe'[s] \in SessionRows /\ stripe'[s].state # "none" /\ stripe'[s].account = a
  <2>1. PICK old \in SessionRows : old = stripe[s]
    BY <1>1
  <2>2. stripe'[s] = [old EXCEPT !.state = state, !.account = a]
    BY <1>3, <2>1
  <2>3. LET new == [old EXCEPT !.state = state, !.account = a] IN
          new \in SessionRows /\ new.state = state /\ new.account = a
    BY <2>1 DEF SessionRows
  <2>4. state # "none"
    BY <1>2
  <2> QED BY <2>2, <2>3, <2>4
<1>5. Sold \subseteq Sold' /\ \A t \in Sold' : stripe'[t].account \in Accounts
  BY <1>3, <1>4 DEF Sold, BillingHolds
<1>6. stripe' \in [Sessions -> SessionRows]
  BY <1>2, <1>3, <1>4 DEF BillingHolds
<1>7. sent' \in Seq(Reports')
  BY <1>1, <1>5, ReportsGrow DEF BillingHolds
<1>8. MembershipStep
  BY <1>1 DEF MembershipStep, Waits
<1> QED BY <1>1, <1>5, <1>6, <1>7, <1>8 DEF BillingHolds, JobHolds

\* Requests arrive, are cut off, read and decide; a job finds a candidate.
LEMMA WebhookReads ==
    ASSUME BillingHolds, now \in Nat, NEW w \in Workers,
           \/ Billing!Receive(w) \/ Billing!Lose(w) \/ Billing!HandleInvoicePaid(w)
           \/ Billing!HandleSubscriptionDeleted(w)
           \/ \E a \in Accounts : Tables /\ Billing!FindExpiredMembershipCandidate(w, a)
    PROVE  MembershipStep /\ BillingHolds'
<1> USE DEF Billing!membership, membership, Billing!external, Billing!End
<1>1. CASE Billing!Receive(w)
  <2>1. PICK n \in DOMAIN sent :
          /\ sent' = [sent EXCEPT ![n].left = sent[n].left - 1]
          /\ jobs' = [jobs EXCEPT ![w] =
                [step |-> sent[n].type, event |-> n, at |-> now, until |-> 0]]
    BY <1>1 DEF Billing!Receive, Billing!Start
  <2>n. PICK new : new = [step |-> sent[n].type, event |-> n, at |-> now, until |-> 0]
    OBVIOUS
  <2>2. n \in 1..Len(sent) /\ Len(sent) \in Nat /\ sent[n] \in Reports /\ DOMAIN sent = 1..Len(sent)
    BY DEF BillingHolds
  <2>3. [sent[n] EXCEPT !.left = sent[n].left - 1] \in Reports
    BY <2>2 DEF Reports
  <2>4. sent' \in Seq(Reports) /\ DOMAIN sent' = DOMAIN sent
    BY <2>1, <2>2, <2>3, ExceptSeq DEF BillingHolds
  <2>5. new \in WebhookRows /\ new.at = now /\ new.event = n
    BY <2>2, <2>n DEF WebhookRows, Reports
  <2>6. JobHolds(new)'
    BY <1>1, <2>4, <2>5 DEF JobHolds, Billing!Receive
  <2>7. UNCHANGED <<now, stripe, membership>> /\ Sold' = Sold /\ Reports' = Reports
    BY <1>1 DEF Billing!Receive, Sold, Reports
  <2>8. MembershipStep
    BY <2>7 DEF MembershipStep, Waits
  <2>9. jobs' = [jobs EXCEPT ![w] = new]
    BY <2>1, <2>n
  <2> QED BY <2>4, <2>6, <2>7, <2>8, <2>9, JobsStay DEF BillingHolds
<1>2. CASE Billing!Lose(w)
  BY <1>2, BillingWaits DEF Billing!Lose
<1>3. CASE Billing!HandleInvoicePaid(w)
  <2> DEFINE end == stripe[sent[jobs[w].event].session].end
             new == [jobs[w] EXCEPT !.step = "activate", !.until = end]
  <2>1. JobHolds(jobs[w]) /\ jobs[w] \in WebhookRows /\ jobs[w].event \in DOMAIN sent
    BY <1>3, JobKinds DEF Billing!HandleInvoicePaid, Billing!In, BillingHolds
  <2>2. end \in Int
    <3>1. sent[jobs[w].event] \in Reports
      BY <2>1 DEF BillingHolds
    <3>2. sent[jobs[w].event].session \in Sessions
      BY <3>1 DEF Reports, Sold
    <3> QED BY <3>2 DEF BillingHolds, SessionRows
  <2>3. jobs' = [jobs EXCEPT ![w] = new] /\ UNCHANGED <<now, membership, stripe, sent>>
    BY <1>3 DEF Billing!HandleInvoicePaid, Billing!CurrentPeriodEnd, Billing!EventOf, BillingHolds
  <2> HIDE DEF end
  <2>4. new \in WebhookRows /\ new.event = jobs[w].event /\ new.at = jobs[w].at
    BY <2>1, <2>2 DEF WebhookRows
  <2> HIDE DEF new
  <2>5. JobHolds(new)
    BY <2>1, <2>4 DEF JobHolds
  <2> QED BY <2>3, <2>5, BillingWaits
<1>4. CASE Billing!HandleSubscriptionDeleted(w)
  <2> DEFINE new == [jobs[w] EXCEPT !.step = "expire"]
  <2>1. JobHolds(jobs[w]) /\ jobs[w] \in WebhookRows /\ jobs[w].event \in DOMAIN sent
    BY <1>4, JobKinds DEF Billing!HandleSubscriptionDeleted, Billing!In, BillingHolds
  <2>2. new \in WebhookRows /\ new.event = jobs[w].event /\ new.at = jobs[w].at
    BY <2>1 DEF WebhookRows
  <2>3. (jobs' = [jobs EXCEPT ![w] = new] \/ jobs' = [jobs EXCEPT ![w] = Idle])
        /\ UNCHANGED <<now, membership, stripe, sent>>
    BY <1>4 DEF Billing!HandleSubscriptionDeleted, BillingHolds
  <2> HIDE DEF new
  <2>4. JobHolds(new)
    BY <2>1, <2>2 DEF JobHolds
  <2> QED BY <2>3, <2>4, BillingWaits
<1>5. CASE \E a \in Accounts : Tables /\ Billing!FindExpiredMembershipCandidate(w, a)
  <2>1. PICK a \in Accounts : Tables /\ Billing!FindExpiredMembershipCandidate(w, a)
    BY <1>5
  <2> DEFINE new == [step |-> "reconcile", account |-> a, at |-> now,
                     until |-> entitlement[a].accessUntil]
  <2>2. new \in ReconcileRows /\ new \notin WebhookRows /\ new.at = now
    BY <2>1 DEF ReconcileRows, WebhookRows, Kinds, Tables, Rows
  <2>3. jobs' = [jobs EXCEPT ![w] = new] /\ UNCHANGED <<now, membership, stripe, sent>>
    BY <2>1 DEF Billing!FindExpiredMembershipCandidate
  <2> HIDE DEF new
  <2>4. JobHolds(new)
    BY <2>2 DEF JobHolds
  <2> QED BY <2>3, <2>4, BillingWaits
<1> QED BY <1>1, <1>2, <1>3, <1>4, <1>5

\* The events that the requests ask for.
LEMMA BillingAsks ==
    ASSUME BillingHolds, now \in Nat, NEW w \in Workers, jobs[w] # Idle,
           NEW type \in Types, NEW until \in Int, NEW id
    PROVE  /\ jobs[w].step # "reconcile" =>
                 Asked(Event("stripe", id, type, Billing!AccountOf(w), jobs[w].at, until,
                             Billing!EventOf(w).session))
           /\ jobs[w].step = "reconcile" =>
                 Asked(Event("stripe", id, type, jobs[w].account, jobs[w].at, until, "none"))
           /\ jobs[w].step # "reconcile" =>
                 Billing!EventOf(w).session \in Sessions /\ Billing!AccountOf(w) \in Accounts
<1>1. JobHolds(jobs[w]) /\ jobs[w].at \in Nat /\ jobs[w].at <= now
  BY JobKinds DEF BillingHolds, JobHolds
<1>2. CASE jobs[w].step = "reconcile"
  <2>1. jobs[w].account \in Accounts
    BY <1>1, <1>2, JobKinds DEF ReconcileRows
  <2> QED BY <1>1, <1>2, <2>1 DEF Asked, Event, Sources, Names
<1>3. CASE jobs[w].step # "reconcile"
  <2>1. jobs[w].event \in DOMAIN sent
    BY <1>1, <1>3, JobKinds
  <2>2. sent[jobs[w].event] \in Reports
    BY <2>1 DEF BillingHolds
  <2>3. /\ Billing!EventOf(w).session \in Sessions
        /\ Billing!AccountOf(w) \in Accounts
    BY <2>2 DEF Billing!EventOf, Billing!AccountOf, Reports, BillingHolds, Sold
  <2> QED BY <1>1, <1>3, <2>3 DEF Asked, Event, Sources, Names
<1> QED BY <1>2, <1>3

LEMMA JobEnds ==
    ASSUME BillingHolds, NEW w \in Workers, Billing!End(w), UNCHANGED <<now, stripe, sent>>
    PROVE  BillingHolds'
<1>1. jobs' = [jobs EXCEPT ![w] = Idle] /\ Sold' = Sold /\ Reports' = Reports
  BY DEF Billing!End, Sold, Reports
<1> QED BY <1>1, JobsStay DEF BillingHolds

\* The transactions of the webhook and of the job.
LEMMA WebhookWrites ==
    ASSUME BillingHolds, Tables, NEW w \in Workers,
           \/ Billing!HandleCheckoutSessionCompleted(w) \/ Billing!ActivateMembership(w)
           \/ Billing!HandleSubscriptionUpdated(w) \/ Billing!ExpireMembership(w)
           \/ Billing!ReconcileExpiredMembership(w)
    PROVE  MembershipStep /\ BillingHolds'
<1> USE DEF Billing!external
<1>0. now \in Nat /\ jobs[w] # Idle /\ BillingHolds'
  BY JobEnds DEF Tables, Billing!HandleCheckoutSessionCompleted, Billing!ActivateMembership,
       Billing!HandleSubscriptionUpdated, Billing!ExpireMembership,
       Billing!ReconcileExpiredMembership, Billing!StripeTransition, Billing!In
<1> SUFFICES MembershipStep
  BY <1>0
<1>1. CASE Billing!HandleCheckoutSessionCompleted(w)
  <2> DEFINE a == Billing!AccountOf(w)
             s == Billing!EventOf(w).session
             row == [entitlement[a] EXCEPT !.subscription = s]
  <2>1. a \in Accounts /\ s \in Sessions
    BY <1>0, <1>1, BillingAsks DEF Billing!HandleCheckoutSessionCompleted, Billing!In, Types
  <2>2. UNCHANGED <<now, sourceEvents>> /\ (UNCHANGED entitlement \/ Save(a, row, jobs[w].at))
    BY <1>1, BillingAgrees DEF Billing!HandleCheckoutSessionCompleted
  <2>3. jobs[w].at \in Int
    BY <1>0, JobKinds DEF BillingHolds
  <2>4. RowHolds(entitlement[a]) /\ entitlement[a] \in Rows
    BY <2>1 DEF Tables
  <2>5. RowHolds(row) /\ Same(entitlement[a], row)
    <3>1. \A old \in Rows, name \in Sessions :
            LET new == [old EXCEPT !.subscription = name] IN
            /\ new \in Rows /\ Same(old, new) /\ new.activatedAt = old.activatedAt
            /\ new.expiredAt = old.expiredAt /\ new.cancelAtPeriodEnd = old.cancelAtPeriodEnd
            /\ new.cancellationRequestedAt = old.cancellationRequestedAt
      BY DEF Rows, Names, Same
    <3> HIDE DEF a, s
    <3> QED BY <2>1, <2>4, <3>1 DEF RowHolds, StateInvariants, Same
  <2> HIDE DEF a, row
  <2>6. CASE Save(a, row, jobs[w].at)
    BY <2>1, <2>2, <2>3, <2>5, <2>6, SaveWrites DEF MembershipStep, Stamps, Same
  <2> QED BY <1>0, <2>2, <2>6 DEF MembershipStep, Waits, membership
<1>2. ASSUME NEW type \in Types, NEW until \in Int, Billing!StripeTransition(w, type, until),
             jobs[w].step # "reconcile"
      PROVE  MembershipStep
  <2> DEFINE in == Event("stripe", <<"event", jobs[w].event>>, type, Billing!AccountOf(w),
                         jobs[w].at, until, Billing!EventOf(w).session)
  <2>1. Asked(in)
    BY <1>0, <1>2, BillingAsks
  <2>2. Transition(in) /\ UNCHANGED now
    BY <1>2, BillingAgrees DEF Billing!StripeTransition, Billing!Event, Event
  <2> QED BY <2>1, <2>2, TransitionSteps
<1>3. CASE Billing!ActivateMembership(w)
  <2>1. jobs[w].until \in Int /\ jobs[w].step # "reconcile"
    BY <1>0, <1>3, JobKinds DEF BillingHolds, Billing!ActivateMembership, Billing!In
  <2> QED BY <1>0, <1>2, <1>3, <2>1 DEF Billing!ActivateMembership, Types
<1>4. CASE Billing!HandleSubscriptionUpdated(w)
  <2>1. jobs[w].step # "reconcile"
    BY <1>4 DEF Billing!HandleSubscriptionUpdated, Billing!In
  <2> QED BY <1>0, <1>2, <1>4, <2>1, NullIsEarly DEF Billing!HandleSubscriptionUpdated, Types
<1>5. CASE Billing!ExpireMembership(w)
  <2>1. jobs[w].step # "reconcile"
    BY <1>5 DEF Billing!ExpireMembership, Billing!In
  <2> QED BY <1>0, <1>2, <1>5, <2>1, NullIsEarly DEF Billing!ExpireMembership, Types
<1>6. CASE Billing!ReconcileExpiredMembership(w)
  <2> DEFINE in == Event("stripe", Billing!ReconcileEventId(w), "expire", jobs[w].account,
                         jobs[w].at, Null, "none")
  <2>1. Asked(in)
    BY <1>0, <1>6, BillingAsks, NullIsEarly DEF Billing!ReconcileExpiredMembership, Billing!In, Types
  <2>2. Transition(in) /\ UNCHANGED now
    BY <1>6, BillingAgrees DEF Billing!ReconcileExpiredMembership, Billing!Event, Event
  <2> QED BY <2>1, <2>2, TransitionSteps
<1> QED BY <1>0, <1>1, <1>3, <1>4, <1>5, <1>6

BillingInv == Tables /\ BillingHolds

LEMMA BillingSteps ==
    ASSUME SendersAssumption, BillingInv, [Billing!Next]_(Billing!vars)
    PROVE  MembershipStep /\ BillingInv'
<1>0. BillingHolds /\ Tables /\ now \in Nat
  BY DEF BillingInv, Tables
<1> SUFFICES MembershipStep /\ BillingHolds'
  BY <1>0, TablesStay DEF BillingInv
<1> USE DEF Billing!membership, membership, Billing!external, Billing!billing
<1>1. CASE UNCHANGED Billing!vars
  BY <1>0, <1>1, BillingWaits DEF Billing!vars
<1>2. CASE Billing!Tick
  BY <1>0, <1>2, BillingWaits DEF Billing!Tick
<1>3. CASE \E a \in Accounts : Billing!EnsureStripeCustomerLink(a)
  BY <1>0, <1>3, BillingWaits DEF Billing!EnsureStripeCustomerLink
<1>4. CASE \E a \in Accounts, s \in Sessions : Billing!CreateCheckoutSession(a, s)
  BY <1>0, <1>4, CheckoutSteps
<1>5. CASE Billing!Stripe
  BY <1>0, <1>5, StripeReports
<1>6. ASSUME NEW w \in Workers, Billing!Receive(w) \/ Billing!Lose(w) \/ Billing!Webhook(w)
      PROVE  MembershipStep /\ BillingHolds'
  BY <1>0, <1>6, WebhookReads, WebhookWrites DEF Billing!Webhook
<1>7. CASE \E w \in Workers, a \in Accounts : Billing!FindExpiredMembershipCandidate(w, a)
  BY <1>0, <1>7, WebhookReads
<1> QED BY <1>1, <1>2, <1>3, <1>4, <1>5, <1>6, <1>7 DEF Billing!Next

\* Nobody is a member at first.
LEMMA NobodyYet ==
    ASSUME now = 0, entitlement = [a \in Accounts |-> NoRow], sourceEvents = {}
    PROVE  Tables /\ Promised!PromiseInit
<1>1. NoRow \in Rows /\ RowHolds(NoRow) /\ Phase(NoRow) = "outside" /\ NoRow.accessUntil = Null
  BY NullIsEarly DEF NoRow, Rows, RowHolds, StateInvariants, Statuses, Sources, Names, Phase
<1>2. Tables
  BY <1>1 DEF Tables, RecordsAgree, RowHolds
<1>3. phases = [a \in Accounts |-> "outside"] /\ times \in [Accounts -> Int]
  BY <1>1, <1>2, PromisedRows, NullIsEarly
<1> QED BY <1>2, <1>3 DEF Promised!PromiseInit, phases, times

LEMMA BillingStarts ==
    ASSUME Billing!Init PROVE BillingInv /\ Promised!PromiseInit
<1>1. now = 0 /\ entitlement = [a \in Accounts |-> NoRow] /\ sourceEvents = {}
  BY DEF Billing!Init, Billing!NoRow, NoRow
<1>2. stripe \in [Sessions -> SessionRows] /\ Sold = {}
  BY DEF Billing!Init, Billing!NoSession, SessionRows, SessionStates, Sold
<1>3. BillingHolds
  BY <1>2 DEF Billing!Init, BillingHolds
<1> QED BY <1>1, <1>3, NobodyYet DEF BillingInv

-----------------------------------------------------------------------------
(* Google Play.                                                            *)

PlayRows ==
    [step : {"verify", "provision", "acknowledge"}, account : Accounts, what : Tokens,
     at : Nat, until : Int]
    \cup [step : {"bind", "finalizing", "finalize"}, account : Accounts, what : Communities,
          at : Nat, until : Int]

PlayHolds ==
    /\ google \in [Tokens -> [expiry : Int, acknowledged : BOOLEAN]]
    /\ requests \in [Requests -> PlayRows \cup {Idle}]
    /\ \A r \in Requests : requests[r] # Idle => requests[r] \in PlayRows /\ requests[r].at <= now

LEMMA PlayKinds ==
    ASSUME NEW q \in PlayRows
    PROVE  /\ q.account \in Accounts /\ q.at \in Nat /\ q.until \in Int
           /\ q.step = "verify" => q.what \in Tokens
           /\ \A step \in {"provision", "acknowledge"}, until \in Int :
                q.step \in {"verify", "provision"} =>
                   [q EXCEPT !.step = step, !.until = until] \in PlayRows
                   /\ [q EXCEPT !.step = step] \in PlayRows
           /\ \A step \in {"finalizing", "finalize"}, until \in Int :
                q.step \in {"bind", "finalizing"} =>
                   [q EXCEPT !.step = step, !.until = until] \in PlayRows
                   /\ [q EXCEPT !.step = step] \in PlayRows
           /\ \A step : [q EXCEPT !.step = step].at = q.at
           /\ \A step, until : [q EXCEPT !.step = step, !.until = until].at = q.at
BY DEF PlayRows

LEMMA PlayGoesOn ==
    ASSUME NEW q \in PlayRows, NEW step, NEW until \in Int,
           \/ q.step \in {"verify", "provision"} /\ step \in {"provision", "acknowledge"}
           \/ q.step \in {"bind", "finalizing"} /\ step \in {"finalizing", "finalize"}
    PROVE  LET new == [q EXCEPT !.step = step, !.until = until]
           IN  new \in PlayRows /\ new.at = q.at
BY DEF PlayRows

\* At most one request starts, moves or ends.
Serves(r, new) ==
    /\ r \in Requests /\ UNCHANGED now
    /\ requests' = [requests EXCEPT ![r] = new]
    /\ new = Idle \/ (new \in PlayRows /\ new.at <= now)

LEMMA PlayStays ==
    ASSUME PlayHolds, now \in Nat,
           google' \in [Tokens -> [expiry : Int, acknowledged : BOOLEAN]],
           \/ UNCHANGED requests /\ now' \in {now, now + 1}
           \/ \E r, new : Serves(r, new)
    PROVE  PlayHolds'
<1>1. CASE UNCHANGED requests /\ now' \in {now, now + 1}
  <2>1. ASSUME NEW r \in Requests, requests[r] # Idle
        PROVE  requests[r] \in PlayRows /\ requests[r].at <= now'
    <3>1. requests[r] \in PlayRows /\ requests[r].at <= now
      BY <2>1 DEF PlayHolds
    <3>2. requests[r].at \in Nat
      BY <3>1, PlayKinds
    <3> QED BY <1>1, <3>1, <3>2
  <2> QED BY <1>1, <2>1 DEF PlayHolds, PlayRows
<1>2. ASSUME NEW r, NEW new, Serves(r, new)
      PROVE  PlayHolds'
  <2>1. \A q \in Requests : requests'[q] = IF q = r THEN new ELSE requests[q]
    BY <1>2 DEF Serves, PlayHolds
  <2> QED BY <1>2, <2>1 DEF Serves, PlayHolds, PlayRows
<1> QED BY <1>1, <1>2

\* Requests arrive, are cut off, read and decide; Google sells and is told.
LEMMA PlayWaits ==
    ASSUME SendersAssumption, Tables, PlayHolds,
           \/ Play!Tick
           \/ \E t \in Tokens : Play!Purchase(t)
           \/ \E r \in Requests :
                \/ \E a \in Accounts, t \in Tokens : Play!SubmitPurchase(r, a, t)
                \/ \E a \in Accounts, c \in Communities : Play!SubmitEligibility(r, a, c)
                \/ Play!Lose(r) \/ Play!VerifyGooglePlayPurchase(r)
                \/ Play!AcknowledgeSubscription(r)
                \/ Play!BindLocalEligibilityInTransaction(r)
                \/ Play!MaybeFinalizePaidPendingBinding(r)
    PROVE  MembershipStep /\ PlayHolds'
<1> USE DEF Play!rows, Play!membership, membership
<1>0. now \in Nat /\ UNCHANGED membership /\ (now' = now \/ now' = now + 1)
  BY DEF Tables, Play!Tick, Play!Purchase, Play!SubmitPurchase, Play!SubmitEligibility, Play!Start,
     Play!Lose, Play!VerifyGooglePlayPurchase, Play!AcknowledgeSubscription,
     Play!BindLocalEligibilityInTransaction, Play!MaybeFinalizePaidPendingBinding
<1>1. MembershipStep
  BY <1>0 DEF MembershipStep, Waits
<1>a. google \in [Tokens -> [expiry : Int, acknowledged : BOOLEAN]]
  BY DEF PlayHolds
<1>2. CASE Play!Tick
  BY <1>0, <1>1, <1>2, <1>a, PlayStays DEF Play!Tick
<1>3. ASSUME NEW t \in Tokens, Play!Purchase(t)  PROVE  PlayHolds'
  <2>1. google' \in [Tokens -> [expiry : Int, acknowledged : BOOLEAN]]
    BY <1>0, <1>3, <1>a DEF Play!Purchase, SendersAssumption
  <2> QED BY <1>0, <1>3, <2>1, PlayStays DEF Play!Purchase
<1>4. ASSUME NEW r \in Requests, NEW a \in Accounts, NEW step, NEW what, Play!Start(r, step, a, what),
             [step |-> step, account |-> a, what |-> what, at |-> now, until |-> Null] \in PlayRows
      PROVE  PlayHolds'
  <2> DEFINE new == [step |-> step, account |-> a, what |-> what, at |-> now, until |-> Null]
  <2>1. new \in PlayRows /\ new.at <= now
    BY <1>0, <1>4
  <2>2. requests' = [requests EXCEPT ![r] = new] /\ UNCHANGED <<now, google>>
    BY <1>4 DEF Play!Start
  <2> HIDE DEF new
  <2>3. Serves(r, new)
    BY <2>1, <2>2 DEF Serves
  <2> QED BY <1>0, <1>a, <2>2, <2>3, PlayStays
<1>5. ASSUME NEW r \in Requests, requests' = [requests EXCEPT ![r] = Idle], UNCHANGED now,
             google' \in [Tokens -> [expiry : Int, acknowledged : BOOLEAN]]
      PROVE  PlayHolds'
  <2>1. Serves(r, Idle)
    BY <1>5 DEF Serves
  <2> QED BY <1>0, <1>5, <2>1, PlayStays
<1>6. ASSUME NEW r \in Requests, requests[r] # Idle, NEW new \in PlayRows, new.at = requests[r].at,
             requests' = [requests EXCEPT ![r] = new], UNCHANGED <<now, google>>
      PROVE  PlayHolds'
  <2>1. Serves(r, new)
    BY <1>6 DEF Serves, PlayHolds
  <2> QED BY <1>0, <1>6, <1>a, <2>1, PlayStays
<1>7. ASSUME NEW r \in Requests, Play!VerifyGooglePlayPurchase(r)
      PROVE  PlayHolds'
  <2> DEFINE q == requests[r]
             expiry == google[q.what].expiry
             new == [q EXCEPT !.step = "provision", !.until = expiry]
  <2>1. q \in PlayRows /\ q # Idle /\ q.step = "verify"
    BY <1>7 DEF Play!VerifyGooglePlayPurchase, Play!In, PlayHolds
  <2>2. expiry \in Int
    BY <1>a, <2>1, PlayKinds
  <2>3. UNCHANGED <<now, google>> /\ (requests' = [requests EXCEPT ![r] = new]
                                      \/ requests' = [requests EXCEPT ![r] = Idle])
    BY <1>7 DEF Play!VerifyGooglePlayPurchase, Play!End, PlayHolds
  <2> HIDE DEF expiry, q
  <2>4. new \in PlayRows /\ new.at = q.at
    BY <2>1, <2>2, PlayGoesOn
  <2> HIDE DEF new
  <2> QED BY <1>5, <1>6, <1>a, <2>1, <2>3, <2>4 DEF q
<1>8. ASSUME NEW r \in Requests, Play!AcknowledgeSubscription(r)
      PROVE  PlayHolds'
  <2>1. google' \in [Tokens -> [expiry : Int, acknowledged : BOOLEAN]]
    BY <1>8, <1>a DEF Play!AcknowledgeSubscription
  <2> QED BY <1>5, <1>8, <2>1 DEF Play!AcknowledgeSubscription, Play!End
<1>9. ASSUME NEW r \in Requests, Play!BindLocalEligibilityInTransaction(r)
      PROVE  PlayHolds'
  <2> DEFINE new == [requests[r] EXCEPT !.step = "finalizing"]
  <2>1. requests[r] \in PlayRows /\ requests[r] # Idle /\ requests[r].step = "bind"
    BY <1>9 DEF Play!BindLocalEligibilityInTransaction, Play!In, PlayHolds
  <2>2. new \in PlayRows /\ new.at = requests[r].at
    BY <2>1, PlayKinds
  <2>3. UNCHANGED <<now, google>> /\ (requests' = [requests EXCEPT ![r] = new]
                                      \/ requests' = [requests EXCEPT ![r] = Idle])
    BY <1>9 DEF Play!BindLocalEligibilityInTransaction, Play!End, Play!Goto, PlayHolds
  <2> HIDE DEF new
  <2> QED BY <1>5, <1>6, <1>a, <2>1, <2>2, <2>3
<1>10. ASSUME NEW r \in Requests, Play!MaybeFinalizePaidPendingBinding(r)
      PROVE  PlayHolds'
  <2> DEFINE q == requests[r]
             until == entitlement[q.account].accessUntil
             new == [q EXCEPT !.step = "finalize", !.until = until]
  <2>1. q \in PlayRows /\ q # Idle /\ q.step = "finalizing"
    BY <1>10 DEF Play!MaybeFinalizePaidPendingBinding, Play!In, PlayHolds
  <2>2. until \in Int
    BY <2>1, PlayKinds DEF Tables, Rows
  <2>3. UNCHANGED <<now, google>> /\ (requests' = [requests EXCEPT ![r] = new]
                                      \/ requests' = [requests EXCEPT ![r] = Idle])
    BY <1>10 DEF Play!MaybeFinalizePaidPendingBinding, Play!End, PlayHolds
  <2> HIDE DEF until, q
  <2>4. new \in PlayRows /\ new.at = q.at
    BY <2>1, <2>2, PlayGoesOn
  <2> HIDE DEF new
  <2> QED BY <1>5, <1>6, <1>a, <2>1, <2>3, <2>4 DEF q
<1>11. ASSUME NEW r \in Requests, Play!Lose(r)
       PROVE  PlayHolds'
  BY <1>5, <1>11, <1>a DEF Play!Lose, Play!End
<1>12. ASSUME NEW r \in Requests,
              \/ \E a \in Accounts, t \in Tokens : Play!SubmitPurchase(r, a, t)
              \/ \E a \in Accounts, c \in Communities : Play!SubmitEligibility(r, a, c)
       PROVE  PlayHolds'
  <2>1. ASSUME NEW a \in Accounts, NEW t \in Tokens, Play!SubmitPurchase(r, a, t)
        PROVE  PlayHolds'
    <3>1. Play!Start(r, "verify", a, t)
      BY <2>1 DEF Play!SubmitPurchase
    <3>2. [step |-> "verify", account |-> a, what |-> t, at |-> now, until |-> Null] \in PlayRows
      BY <1>0, NullIsEarly DEF PlayRows
    <3> QED BY <1>4, <3>1, <3>2
  <2>2. ASSUME NEW a \in Accounts, NEW c \in Communities, Play!SubmitEligibility(r, a, c)
        PROVE  PlayHolds'
    <3>1. Play!Start(r, "bind", a, c)
      BY <2>2 DEF Play!SubmitEligibility
    <3>2. [step |-> "bind", account |-> a, what |-> c, at |-> now, until |-> Null] \in PlayRows
      BY <1>0, NullIsEarly DEF PlayRows
    <3> QED BY <1>4, <3>1, <3>2
  <2> QED BY <1>12, <2>1, <2>2
<1> QED BY <1>1, <1>2, <1>3, <1>7, <1>8, <1>9, <1>10, <1>11, <1>12, Zenon

\* A verified purchase becomes a membership that waits.
LEMMA ProvisionSteps ==
    ASSUME Tables, PlayHolds, NEW r \in Requests, Play!RunProvisionInTransaction(r)
    PROVE  MembershipStep /\ PlayHolds'
<1> DEFINE q == requests[r]
           a == q.account
           row == entitlement[a]
           paid == Play!Provisioned(r)
           e == [in |-> Play!ProvisionEvent(r), result |-> Play!ProvisionVerdict(r)]
<1>1. /\ q \in PlayRows /\ q # Idle /\ q.step = "provision" /\ q.at <= now
      /\ UNCHANGED <<now, google>>
  BY DEF Play!RunProvisionInTransaction, Play!In, PlayHolds
<1>2. a \in Accounts /\ q.at \in Nat /\ q.until \in Int /\ now \in Nat /\ RowHolds(row)
  BY <1>1, PlayKinds DEF Tables
<1>3. PlayHolds'
  <2> DEFINE new == [q EXCEPT !.step = "acknowledge"]
  <2>1. new \in PlayRows /\ new.at = q.at
    BY <1>1, PlayKinds
  <2>2. requests' = [requests EXCEPT ![r] = new] \/ requests' = [requests EXCEPT ![r] = Idle]
    BY DEF Play!RunProvisionInTransaction, Play!End, Play!Goto, PlayHolds
  <2> HIDE DEF new
  <2>3. Serves(r, new) \/ Serves(r, Idle)
    BY <1>1, <2>1, <2>2 DEF Serves
  <2> QED BY <1>1, <1>2, <2>3, PlayStays DEF PlayHolds
<1>4. CASE Recorded(Play!ProvisionEvent(r)) # {}
  BY <1>1, <1>2, <1>3, <1>4, PlayAgrees
     DEF Play!RunProvisionInTransaction, Play!rows, Play!membership, membership, MembershipStep, Waits
<1>5. CASE Recorded(Play!ProvisionEvent(r)) = {}
  <2>1. /\ sourceEvents' = sourceEvents \cup {e} /\ e \in sourceEvents'
        /\ e.in = Play!ProvisionEvent(r) /\ e.result = Play!ProvisionVerdict(r)
        /\ e.in.account = a
    BY <1>5, PlayAgrees DEF Play!RunProvisionInTransaction, Record, Play!ProvisionEvent, Play!Event
  <2>2. CASE Play!ProvisionVerdict(r) # "applied"
    BY <1>1, <1>3, <1>5, <2>1, <2>2, PlayAgrees
       DEF Play!RunProvisionInTransaction, MembershipStep, Records
  <2>3. CASE Play!ProvisionVerdict(r) = "applied"
    <3>1. q.until > q.at /\ row.status \in {"inactive", "expired"}
      BY <1>2, <2>3 DEF Play!ProvisionVerdict
    <3>2. paid = [NoRow EXCEPT !.status = "paid_pending_binding", !.source = "google_play",
                               !.accessUntil = q.until]
      BY PlayAgrees DEF Play!Provisioned
    <3>3. RowHolds(paid) /\ paid.status = "paid_pending_binding"
      <4>1. /\ paid \in Rows /\ paid.status = "paid_pending_binding" /\ paid.accessUntil = q.until
            /\ paid.cancelAtPeriodEnd = FALSE /\ paid.activatedAt = Null
            /\ paid.cancellationRequestedAt = Null /\ paid.expiredAt = Null
        <5>1. NoRow \in Rows /\ NoRow.cancelAtPeriodEnd = FALSE /\ NoRow.activatedAt = Null
              /\ NoRow.cancellationRequestedAt = Null /\ NoRow.expiredAt = Null
          BY NullIsEarly DEF NoRow, Rows, Statuses, Sources, Names
        <5>2. "paid_pending_binding" \in Statuses /\ "google_play" \in Sources
          BY DEF Statuses, Sources
        <5> QED BY <1>2, <3>2, <5>1, <5>2 DEF Rows
      <4> HIDE DEF paid
      <4> QED BY <1>2, <3>1, <4>1, NullIsEarly DEF RowHolds, StateInvariants
    <3>4. Phase(row) = "outside" /\ Phase(paid) = "waiting"
      BY <1>2, <3>1, <3>3, PhaseOf
    <3>5. Save(a, paid, q.at)
      BY <1>5, <2>3, PlayAgrees DEF Play!RunProvisionInTransaction
    <3>6. Moved(row, paid)
      BY <3>4 DEF Moved
    <3> HIDE DEF paid, row
    <3>7. Written(a, entitlement'[a]) /\ Moved(row, entitlement'[a])
      BY <1>2, <3>3, <3>5, <3>6, SaveWrites
    <3> QED BY <1>1, <1>3, <1>5, <2>1, <2>3, <3>7 DEF MembershipStep, Records, row
  <2> QED BY <2>2, <2>3
<1> QED BY <1>4, <1>5

PlayInv == Tables /\ PlayHolds

LEMMA PlaySteps ==
    ASSUME SendersAssumption, PlayInv, [Play!Next]_(Play!vars)
    PROVE  MembershipStep /\ PlayInv'
<1>0. PlayHolds /\ Tables /\ now \in Nat
  BY DEF PlayInv, Tables
<1> SUFFICES MembershipStep /\ PlayHolds'
  BY <1>0, TablesStay DEF PlayInv
<1>a. google \in [Tokens -> [expiry : Int, acknowledged : BOOLEAN]]
  BY <1>0 DEF PlayHolds
<1>1. CASE UNCHANGED Play!vars
  BY <1>0, <1>1, <1>a, PlayStays DEF Play!vars, Play!membership, membership, MembershipStep, Waits
<1>2. ASSUME NEW r \in Requests, Play!FinalizePaidPendingBindingMembership(r)
      PROVE  MembershipStep /\ PlayHolds'
  <2>1. requests[r] \in PlayRows /\ requests[r].at <= now
    BY <1>0, <1>2 DEF Play!FinalizePaidPendingBindingMembership, Play!In, PlayHolds
  <2>2. Asked(Play!FinalizeEvent(r))
    BY <2>1, PlayKinds DEF Play!FinalizeEvent, Play!Event, Asked, Types, Sources, Names
  <2>3. Transition(Play!FinalizeEvent(r)) /\ UNCHANGED <<now, google>> /\ Play!End(r)
    BY <1>2, PlayAgrees DEF Play!FinalizePaidPendingBindingMembership
  <2>4. Serves(r, Idle)
    BY <2>3 DEF Serves, Play!End
  <2> QED BY <1>0, <1>a, <2>2, <2>3, <2>4, TransitionSteps, PlayStays
<1>3. ASSUME NEW a \in Accounts, NEW c \in Communities, NEW at \in 0..now,
             Play!RecordCommunityCommitment(a, c, at)
      PROVE  MembershipStep /\ PlayHolds'
  <2>1. Asked(Play!MadridGrant(a, at))
    BY <1>0 DEF Play!MadridGrant, Play!Event, Asked, Types, Sources, Names, SendersAssumption
  <2>2. /\ UNCHANGED <<now, google, requests>>
        /\ Transition(Play!MadridGrant(a, at)) \/ UNCHANGED membership
    BY <1>3, PlayAgrees DEF Play!RecordCommunityCommitment, Play!membership, membership
  <2> QED BY <1>0, <1>a, <2>1, <2>2, TransitionSteps, PlayStays DEF MembershipStep, Waits
<1>4. ASSUME NEW a \in Accounts, Play!ReconcileExpiredMembership(a)
      PROVE  MembershipStep /\ PlayHolds'
  <2> DEFINE in == Event("stripe", <<"reconcile", a, entitlement[a].accessUntil>>,
                         "expire", a, now, Null, "none")
  <2>1. Asked(in)
    BY <1>0, NullIsEarly DEF Event, Asked, Types, Sources, Names
  <2>2. UNCHANGED <<now, google, requests>> /\ Transition(in)
    BY <1>4, PlayAgrees DEF Play!ReconcileExpiredMembership, Play!Event, Event
  <2> HIDE DEF in
  <2> QED BY <1>0, <1>a, <2>1, <2>2, TransitionSteps, PlayStays
<1>5. ASSUME NEW r \in Requests, Play!RunProvisionInTransaction(r)
      PROVE  MembershipStep /\ PlayHolds'
  BY <1>0, <1>5, ProvisionSteps
<1> QED BY <1>0, <1>1, <1>2, <1>3, <1>4, <1>5, PlayWaits DEF Play!Next

LEMMA PlayStarts ==
    ASSUME Play!Init PROVE PlayInv /\ Promised!PromiseInit
<1>1. now = 0 /\ entitlement = [a \in Accounts |-> NoRow] /\ sourceEvents = {}
  BY DEF Play!Init, Play!NoRow, NoRow
<1>2. PlayHolds
  BY NullIsEarly DEF Play!Init, PlayHolds
<1> QED BY <1>1, <1>2, NobodyYet DEF PlayInv

-----------------------------------------------------------------------------
(* Operators.                                                              *)

OperatorHolds(q) ==
    /\ {"account", "at", "until"} \subseteq DOMAIN q
    /\ q.account \in Accounts /\ q.at \in Nat /\ q.at <= now /\ q.until \in Int

GrantsHold ==
    /\ DOMAIN requests = Requests
    /\ \A r \in Requests : requests[r] # Idle => OperatorHolds(requests[r])

LEMMA GrantsStay ==
    ASSUME GrantsHold, NEW r \in Requests, NEW new, requests' = [requests EXCEPT ![r] = new],
           new = Idle \/ OperatorHolds(new), UNCHANGED now
    PROVE  GrantsHold'
<1>1. DOMAIN requests' = Requests
      /\ \A q \in Requests : requests'[q] = IF q = r THEN new ELSE requests[q]
  BY DEF GrantsHold
<1> QED BY <1>1 DEF GrantsHold, OperatorHolds

\* A request that goes on keeps what it asks for.
LEMMA OperatorGoesOn ==
    ASSUME NEW q, OperatorHolds(q), NEW step, NEW row
    PROVE  /\ OperatorHolds([q EXCEPT !.step = step])
           /\ OperatorHolds([q EXCEPT !.step = step, !.before = row])
BY DEF OperatorHolds

GrantsInv == Tables /\ GrantsHold

LEMMA GrantsSteps ==
    ASSUME SendersAssumption, GrantsInv, [Grants!Next]_(Grants!vars)
    PROVE  MembershipStep /\ GrantsInv'
<1>0. GrantsHold /\ Tables /\ now \in Nat /\ DOMAIN requests = Requests
  BY DEF GrantsInv, Tables, GrantsHold
<1> SUFFICES MembershipStep /\ GrantsHold'
  BY <1>0, TablesStay DEF GrantsInv
<1> USE DEF Grants!membership, membership
<1>1. CASE UNCHANGED <<membership, requests>> /\ now' \in {now, now + 1}
  <2>1. \A r \in Requests : OperatorHolds(requests[r]) => OperatorHolds(requests[r])'
    BY <1>0, <1>1 DEF OperatorHolds
  <2> QED BY <1>0, <1>1, <2>1 DEF MembershipStep, Waits, GrantsHold
<1>2. ASSUME NEW in, Asked(in), Transition(in), UNCHANGED <<now, requests>>
      PROVE  MembershipStep /\ GrantsHold'
  BY <1>0, <1>2, TransitionSteps DEF GrantsHold, OperatorHolds
<1>3. ASSUME NEW a \in Accounts, Grants!ProviderActivates(a)
      PROVE  MembershipStep /\ GrantsHold'
  <2> DEFINE in == Event("stripe", <<"checkout", a, now>>, "activate", a, now, now + Period, "sub")
  <2>1. Asked(in)
    BY <1>0 DEF Event, Asked, Types, Sources, Names, SendersAssumption
  <2>2. UNCHANGED <<now, requests>> /\ Transition(in)
    BY <1>3, GrantsAgrees DEF Grants!ProviderActivates, Grants!Others, Grants!Event, Event
  <2> QED BY <1>2, <2>1, <2>2
<1>4. ASSUME NEW a \in Accounts, Grants!ReconcileExpiredMembership(a)
      PROVE  MembershipStep /\ GrantsHold'
  <2> DEFINE in == Event("stripe", <<"reconcile", a, entitlement[a].accessUntil>>,
                         "expire", a, now, Null, "none")
  <2>1. Asked(in)
    BY <1>0, NullIsEarly DEF Event, Asked, Types, Sources, Names
  <2>2. UNCHANGED <<now, requests>> /\ Transition(in)
    BY <1>4, GrantsAgrees DEF Grants!ReconcileExpiredMembership, Grants!Others, Grants!Event, Event
  <2> QED BY <1>2, <2>1, <2>2
<1>5. ASSUME NEW r \in Requests, NEW new, requests' = [requests EXCEPT ![r] = new],
             new = Idle \/ OperatorHolds(new), UNCHANGED <<now, membership>>
      PROVE  MembershipStep /\ GrantsHold'
  <2>1. GrantsHold'
    BY <1>0, <1>5, GrantsStay
  <2> QED BY <1>0, <1>5, <2>1 DEF MembershipStep, Waits
<1>6. ASSUME NEW r \in Requests, Grants!Begin(r)
      PROVE  MembershipStep /\ GrantsHold'
  <2>1. PICK op \in Grants!Operations, a \in Accounts, key \in Keys, until \in 1..MaxUntil,
             tagged \in BOOLEAN :
        /\ requests[r] = Idle /\ answers[r] \in {"none", "refused"}
        /\ op = "cancel" => until = 1
        /\ op # "grant" => ~tagged
        /\ requests' = [requests EXCEPT ![r] =
             [step |-> "decide", op |-> op, account |-> a, key |-> key, at |-> now,
              until |-> IF op = "cancel" THEN Null ELSE until, tagged |-> tagged,
              known |-> {e.result : e \in {f \in sourceEvents :
                            f.in.source = "admin" /\ f.in.id = <<op, key, 0>>}},
              before |-> Grants!NoRow]]
        /\ answers' = [answers EXCEPT ![r] = "none"]
        /\ UNCHANGED <<now, Grants!membership, audits, cohort>>
    BY <1>6, Zenon DEF Grants!Begin
  <2>2. PICK known : known = {e.result : e \in {f \in sourceEvents :
                            f.in.source = "admin" /\ f.in.id = <<op, key, 0>>}}
    OBVIOUS
  <2> DEFINE new == [step |-> "decide", op |-> op, account |-> a, key |-> key, at |-> now,
              until |-> IF op = "cancel" THEN Null ELSE until, tagged |-> tagged,
              known |-> known, before |-> Grants!NoRow]
  <2>3. requests' = [requests EXCEPT ![r] = new] /\ UNCHANGED <<now, membership>>
    BY <2>1, <2>2
  <2>4. OperatorHolds(new)
    BY <1>0, NullIsEarly DEF OperatorHolds
  <2> HIDE DEF new
  <2> QED BY <1>5, <2>3, <2>4
<1>7. ASSUME NEW r \in Requests, requests[r] # Idle, UNCHANGED <<now, membership>>,
             \/ \E step, row : requests' = [requests EXCEPT ![r] =
                                  [requests[r] EXCEPT !.step = step, !.before = row]]
             \/ \E step : Grants!Goto(r, step)
             \/ \E what : Grants!Answer(r, what)
      PROVE  MembershipStep /\ GrantsHold'
  <2>1. OperatorHolds(requests[r])
    BY <1>0, <1>7 DEF GrantsHold
  <2>2. ASSUME NEW step, NEW row, requests' = [requests EXCEPT ![r] =
                                  [requests[r] EXCEPT !.step = step, !.before = row]]
        PROVE  MembershipStep /\ GrantsHold'
    BY <1>5, <1>7, <2>1, <2>2, OperatorGoesOn
  <2>3. ASSUME NEW step, Grants!Goto(r, step)
        PROVE  MembershipStep /\ GrantsHold'
    <3>1. requests' = [requests EXCEPT ![r] = [requests[r] EXCEPT !.step = step]]
      BY <1>0, <2>3 DEF Grants!Goto
    <3> QED BY <1>5, <1>7, <2>1, <3>1, OperatorGoesOn
  <2>4. ASSUME NEW what, Grants!Answer(r, what)
        PROVE  MembershipStep /\ GrantsHold'
    BY <1>5, <1>7, <2>4 DEF Grants!Answer
  <2> QED BY <1>7, <2>2, <2>3, <2>4
<1>8. ASSUME NEW r \in Requests,
             Grants!Decide(r) \/ Grants!WriteMembershipAudit(r) \/ Grants!TagCohort(r) \/ Grants!Lose(r)
      PROVE  MembershipStep /\ GrantsHold'
  <2>1. requests[r] # Idle /\ UNCHANGED <<now, membership>>
    BY <1>8 DEF Grants!Decide, Grants!WriteMembershipAudit, Grants!TagCohort, Grants!Lose, Grants!In
  <2>2. CASE Grants!Decide(r)
    <3>1. \/ Grants!Answer(r, "unchanged") \/ Grants!Answer(r, "refused")
          \/ requests' = [requests EXCEPT ![r] =
                 [requests[r] EXCEPT !.step = "transition", !.before = Grants!Row(r)]]
      BY <1>0, <2>2 DEF Grants!Decide, Grants!Repeated
    <3> QED BY <1>7, <2>1, <3>1
  <2>3. CASE Grants!WriteMembershipAudit(r)
    BY <1>7, <2>1, <2>3 DEF Grants!WriteMembershipAudit
  <2>4. CASE Grants!TagCohort(r)
    BY <1>7, <2>1, <2>4 DEF Grants!TagCohort
  <2>5. CASE Grants!Lose(r)
    BY <1>7, <2>1, <2>5 DEF Grants!Lose
  <2> QED BY <1>8, <2>2, <2>3, <2>4, <2>5
<1>9. ASSUME NEW r \in Requests, Grants!Change(r)
      PROVE  MembershipStep /\ GrantsHold'
  <2>1. OperatorHolds(requests[r])
    BY <1>0, <1>9 DEF Grants!Change, Grants!In, GrantsHold
  <2>2. Asked(Grants!Ledgered(r))
    BY <2>1 DEF Grants!Ledgered, Grants!Event, Grants!Target, Grants!Op, OperatorHolds, Asked,
       Types, Sources, Names
  <2>3. Transition(Grants!Ledgered(r)) /\ UNCHANGED now
    BY <1>9, GrantsAgrees DEF Grants!Change
  <2>4. PICK new : requests' = [requests EXCEPT ![r] = new] /\ (new = Idle \/ OperatorHolds(new))
    <3>1. (\E step : Grants!Goto(r, step)) \/ (\E what : Grants!Answer(r, what))
      BY <1>9 DEF Grants!Change
    <3>2. ASSUME NEW step, Grants!Goto(r, step)
          PROVE  requests' = [requests EXCEPT ![r] = [requests[r] EXCEPT !.step = step]]
      BY <1>0, <3>2 DEF Grants!Goto
    <3> QED BY <2>1, <3>1, <3>2, OperatorGoesOn DEF Grants!Answer
  <2> QED BY <1>0, <2>2, <2>3, <2>4, TransitionSteps, GrantsStay
<1>10. CASE UNCHANGED Grants!vars \/ Grants!Tick
  BY <1>1, <1>10 DEF Grants!vars, Grants!Tick
<1> QED BY <1>3, <1>4, <1>6, <1>8, <1>9, <1>10 DEF Grants!Next

LEMMA GrantsStart ==
    ASSUME Grants!Init PROVE GrantsInv /\ Promised!PromiseInit
<1>1. now = 0 /\ entitlement = [a \in Accounts |-> NoRow] /\ sourceEvents = {}
  BY DEF Grants!Init, Grants!NoRow, NoRow
<1>2. GrantsHold
  BY DEF Grants!Init, GrantsHold
<1> QED BY <1>1, <1>2, NobodyYet DEF GrantsInv

-----------------------------------------------------------------------------
(* The theorems.                                                           *)

Senders == Billing!Spec \/ Play!Spec \/ Grants!Spec

\* Whoever sends the events of memberships, every row always satisfies the CHECK of its
\* table, and the ledger has one entry of each source and identity.
THEOREM RecordsAlwaysAgree ==
    ASSUME SendersAssumption
    PROVE  Senders => []RecordsAgree
<1>1. (Billing!Init => BillingInv) /\ (BillingInv /\ [Billing!Next]_(Billing!vars) => BillingInv')
  BY BillingStarts, BillingSteps
<1>2. (Play!Init => PlayInv) /\ (PlayInv /\ [Play!Next]_(Play!vars) => PlayInv')
  BY PlayStarts, PlaySteps
<1>3. (Grants!Init => GrantsInv) /\ (GrantsInv /\ [Grants!Next]_(Grants!vars) => GrantsInv')
  BY GrantsStart, GrantsSteps
<1>4. BillingInv \/ PlayInv \/ GrantsInv => RecordsAgree
  BY DEF BillingInv, PlayInv, GrantsInv, Tables
<1> QED BY <1>1, <1>2, <1>3, <1>4, PTL DEF Senders, Billing!Spec, Play!Spec, Grants!Spec

\* However often and in whatever order the events come, each moves a membership once.
THEOREM EventsAlwaysMoveOnce ==
    ASSUME SendersAssumption
    PROVE  Senders => EventsMoveOnce
<1>1. /\ Billing!Init => BillingInv
      /\ BillingInv /\ [Billing!Next]_(Billing!vars) => BillingInv' /\ [MovesOnce]_<<now, membership>>
  BY BillingStarts, BillingSteps, StepMovesOnce DEF BillingInv
<1>2. /\ Play!Init => PlayInv
      /\ PlayInv /\ [Play!Next]_(Play!vars) => PlayInv' /\ [MovesOnce]_<<now, membership>>
  BY PlayStarts, PlaySteps, StepMovesOnce DEF PlayInv
<1>3. /\ Grants!Init => GrantsInv
      /\ GrantsInv /\ [Grants!Next]_(Grants!vars) => GrantsInv' /\ [MovesOnce]_<<now, membership>>
  BY GrantsStart, GrantsSteps, StepMovesOnce DEF GrantsInv
<1> QED BY <1>1, <1>2, <1>3, PTL
        DEF Senders, Billing!Spec, Play!Spec, Grants!Spec, EventsMoveOnce, MovesOnce

\* Stripe, Google Play and the operators implement the promise of a membership.
THEOREM PromiseIsKept ==
    ASSUME SendersAssumption
    PROVE  Senders => KeepsThePromise
<1>1. /\ Billing!Init => BillingInv /\ Promised!PromiseInit
      /\ BillingInv /\ [Billing!Next]_(Billing!vars) =>
           BillingInv' /\ [Promised!PromiseNext]_(Promised!promiseVars)
  BY BillingStarts, BillingSteps, StepIsPromised DEF BillingInv
<1>2. /\ Play!Init => PlayInv /\ Promised!PromiseInit
      /\ PlayInv /\ [Play!Next]_(Play!vars) =>
           PlayInv' /\ [Promised!PromiseNext]_(Promised!promiseVars)
  BY PlayStarts, PlaySteps, StepIsPromised DEF PlayInv
<1>3. /\ Grants!Init => GrantsInv /\ Promised!PromiseInit
      /\ GrantsInv /\ [Grants!Next]_(Grants!vars) =>
           GrantsInv' /\ [Promised!PromiseNext]_(Promised!promiseVars)
  BY GrantsStart, GrantsSteps, StepIsPromised DEF GrantsInv
<1> QED BY <1>1, <1>2, <1>3, PTL
        DEF Senders, Billing!Spec, Play!Spec, Grants!Spec, KeepsThePromise, Promised!Promise

-----------------------------------------------------------------------------
(* What each route owes to the others.                                     *)

LEMMA LedgerGrows ==
    ASSUME MembershipStep PROVE sourceEvents \subseteq sourceEvents'
BY DEF MembershipStep, Waits, Stamps, Records, membership

-----------------------------------------------------------------------------
(* Google Play: one owner of a purchase, one community.                    *)

\* The ledger knows who presented a token first.
Presented(events, t, a) ==
    \E e \in events :
        e.in.source = "google_play" /\ e.in.id = <<"purchase", t, "">> /\ e.in.account = a

ActorRows == [community : Communities \cup {"none"}, verifiedAt : Int, committed : BOOLEAN]

OwnersHold ==
    /\ actors \in [Accounts -> ActorRows]
    /\ purchaseLinks \in [Tokens -> Accounts \cup {"none"}]
    /\ \A t \in Tokens : purchaseLinks[t] # "none" => Presented(sourceEvents, t, purchaseLinks[t])
    /\ \A r \in Requests :
         Play!In(r, "acknowledge") => Presented(sourceEvents, requests[r].what, requests[r].account)

RouteInv == PlayInv /\ OwnersHold

LEMMA OwnersAcknowledge ==
    ASSUME RouteInv PROVE Play!OnlyTheOwnerAcknowledges
<1> SUFFICES ASSUME NEW r \in Requests, Play!In(r, "acknowledge"),
                    purchaseLinks[requests[r].what] # "none"
             PROVE  purchaseLinks[requests[r].what] = requests[r].account
  BY DEF Play!OnlyTheOwnerAcknowledges
<1>1. requests[r].what \in Tokens
  <2>1. requests[r] \in PlayRows /\ requests[r].step = "acknowledge"
    BY DEF RouteInv, PlayInv, PlayHolds, Play!In
  <2> QED BY <2>1 DEF PlayRows
<1>2. Presented(sourceEvents, requests[r].what, requests[r].account)
      /\ Presented(sourceEvents, requests[r].what, purchaseLinks[requests[r].what])
  BY <1>1 DEF RouteInv, OwnersHold
<1>3. \A e, f \in sourceEvents :
        e.in.source = f.in.source /\ e.in.id = f.in.id => e = f
  BY DEF RouteInv, PlayInv, Tables, RecordsAgree
<1> QED BY <1>2, <1>3 DEF Presented

\* A step that writes no link, and brings nobody to acknowledge.
LEMMA LinksStay ==
    ASSUME OwnersHold, sourceEvents \subseteq sourceEvents', UNCHANGED purchaseLinks,
           actors' \in [Accounts -> ActorRows],
           \A r \in Requests : Play!In(r, "acknowledge")' => requests'[r] = requests[r]
    PROVE  OwnersHold'
<1>1. \A t, a : Presented(sourceEvents, t, a) => Presented(sourceEvents', t, a)
  BY DEF Presented
<1> QED BY <1>1 DEF OwnersHold, Play!In

LEMMA ProvisionOwns ==
    ASSUME RouteInv, NEW r \in Requests, Play!RunProvisionInTransaction(r),
           sourceEvents \subseteq sourceEvents'
    PROVE  OwnersHold'
<1> DEFINE q == requests[r]
           in == Play!ProvisionEvent(r)
<1>1. /\ q \in PlayRows /\ q # Idle /\ q.step = "provision"
      /\ requests \in [Requests -> PlayRows \cup {Idle}]
      /\ purchaseLinks \in [Tokens -> Accounts \cup {"none"}]
  BY DEF RouteInv, PlayInv, PlayHolds, OwnersHold, Play!RunProvisionInTransaction, Play!In
<1>2. q.what \in Tokens /\ q.account \in Accounts
  BY <1>1 DEF PlayRows
<1>3. in.source = "google_play" /\ in.id = <<"purchase", q.what, "">> /\ in.account = q.account
  BY DEF Play!ProvisionEvent, Play!Event
<1>4. \A t, a : Presented(sourceEvents, t, a) => Presented(sourceEvents', t, a)
  BY DEF Presented
<1>5. actors' = actors
  BY DEF Play!RunProvisionInTransaction, Play!rows
<1>6. Play!Recorded(in) = {} => Presented(sourceEvents', q.what, q.account)
  <2>1. ASSUME Play!Recorded(in) = {}
        PROVE  \E e \in sourceEvents' : e.in = in
    <3> DEFINE e == [in |-> in, result |-> Play!ProvisionVerdict(r)]
    <3>1. e \in sourceEvents'
      BY <2>1 DEF Play!RunProvisionInTransaction, Play!Record
    <3>2. e.in = in
      OBVIOUS
    <3> QED BY <3>1, <3>2
  <2> QED BY <1>3, <2>1 DEF Presented
<1>7. Play!DurableProvision(r) => Presented(sourceEvents', q.what, q.account)
  <2>1. CASE Play!Recorded(in) # {}
    <3>1. Play!DurableProvision(r) => Play!Outcome(in) = "replayed"
      BY <2>1 DEF Play!DurableProvision, Play!ProvisionOutcome, Play!Outcome
    <3>2. Play!DurableProvision(r) => \E e \in sourceEvents : e.in = in
      BY <2>1, <3>1 DEF Play!Outcome, Play!Recorded
    <3> QED BY <1>3, <1>4, <3>2 DEF Presented
  <2> QED BY <1>6, <2>1
<1>8. \A t \in Tokens : purchaseLinks'[t] = purchaseLinks[t] \/ Presented(sourceEvents', t, purchaseLinks'[t])
  <2>1. CASE UNCHANGED purchaseLinks
    BY <2>1
  <2>2. CASE Play!Recorded(in) = {} /\ purchaseLinks' = [purchaseLinks EXCEPT ![q.what] = q.account]
    <3>1. PICK new : new = purchaseLinks'
      OBVIOUS
    <3>2. \A t \in Tokens : new[t] = IF t = q.what THEN q.account ELSE purchaseLinks[t]
      BY <1>1, <2>2, <3>1
    <3>3. Presented(sourceEvents', q.what, q.account)
      BY <1>6, <2>2
    <3> HIDE DEF q, in
    <3> QED BY <3>1, <3>2, <3>3
  <2> QED BY <2>1, <2>2 DEF Play!RunProvisionInTransaction, Play!rows
<1>9. purchaseLinks' \in [Tokens -> Accounts \cup {"none"}]
  BY <1>1, <1>2 DEF Play!RunProvisionInTransaction, Play!rows
<1>10. ASSUME NEW p \in Requests, Play!In(p, "acknowledge")'
       PROVE  Presented(sourceEvents', requests'[p].what, requests'[p].account)
  <2>1. CASE p # r
    <3>1. requests'[p] = requests[p]
      BY <1>1, <2>1 DEF Play!RunProvisionInTransaction, Play!Goto, Play!End
    <3> QED BY <1>4, <1>10, <3>1 DEF RouteInv, OwnersHold, Play!In
  <2>2. CASE p = r
    <3>1. requests'[r] # Idle
      BY <1>10, <2>2 DEF Play!In
    <3>2. Play!DurableProvision(r) /\ requests'[r] = [q EXCEPT !.step = "acknowledge"]
      BY <1>1, <3>1 DEF Play!RunProvisionInTransaction, Play!Goto, Play!End
    <3>3. requests'[r].what = q.what /\ requests'[r].account = q.account
      BY <1>1, <3>2 DEF PlayRows
    <3> QED BY <1>7, <2>2, <3>2, <3>3
  <2> QED BY <2>1, <2>2
<1>11. \A t \in Tokens : purchaseLinks'[t] # "none" => Presented(sourceEvents', t, purchaseLinks'[t])
  BY <1>4, <1>8 DEF RouteInv, OwnersHold
<1> QED BY <1>5, <1>9, <1>10, <1>11 DEF RouteInv, OwnersHold

\* The two routes that write a community.
LEMMA ActorsStay ==
    ASSUME RouteInv, [Play!Next]_(Play!vars)
    PROVE  actors' \in [Accounts -> ActorRows] /\ Play!CommunityStays
<1>1. actors \in [Accounts -> ActorRows]
  BY DEF RouteInv, OwnersHold
<1>2. CASE UNCHANGED actors
  BY <1>1, <1>2 DEF Play!CommunityStays
<1>3. ASSUME NEW r \in Requests, Play!BindLocalEligibilityInTransaction(r)
      PROVE  actors' \in [Accounts -> ActorRows] /\ Play!CommunityStays
  <2> DEFINE q == requests[r]
  <2>1. q \in PlayRows /\ q.step = "bind"
    BY <1>3 DEF Play!BindLocalEligibilityInTransaction, Play!In, RouteInv, PlayInv, PlayHolds
  <2>2. q.account \in Accounts /\ q.what \in Communities /\ q.at \in Nat
    BY <2>1 DEF PlayRows
  <2>3. CASE actors' = [actors EXCEPT ![q.account] = Play!Bound(actors[q.account], q.what, q.at)]
             /\ (actors[q.account].community = "none" \/ q.account \in Owners)
    <3>1. Play!Bound(actors[q.account], q.what, q.at) \in ActorRows
      <4>1. ASSUME NEW row \in ActorRows, NEW c \in Communities, NEW at \in Int
            PROVE  Play!Bound(row, c, at) \in ActorRows
        BY DEF Play!Bound, ActorRows
      <4>2. actors[q.account] \in ActorRows
        BY <1>1, <2>2
      <4> QED BY <2>2, <4>1, <4>2
    <3> DEFINE new == Play!Bound(actors[q.account], q.what, q.at)
    <3>2. actors' = [actors EXCEPT ![q.account] = new] /\ new \in ActorRows
      BY <2>3, <3>1
    <3> HIDE DEF new, q
    <3>3. actors' \in [Accounts -> ActorRows]
      BY <1>1, <2>2, <3>2
    <3>4. \A a \in Accounts : a # q.account => actors'[a] = actors[a]
      BY <1>1, <3>2
    <3> QED BY <2>3, <3>3, <3>4 DEF Play!CommunityStays
  <2> QED BY <1>2, <1>3, <2>3 DEF Play!BindLocalEligibilityInTransaction
<1>4. ASSUME NEW a \in Accounts, NEW c \in Communities, NEW at \in 0..now,
             Play!RecordCommunityCommitment(a, c, at)
      PROVE  actors' \in [Accounts -> ActorRows] /\ Play!CommunityStays
  <2>1. actors' = [actors EXCEPT ![a].community = c, ![a].committed = TRUE]
        /\ (actors[a].community = c \/ ~Play!CanParticipate(a))
    <3>0. entitlement[a].accessUntil \in Int /\ now \in Nat /\ at \in Nat /\ at <= now
      BY DEF RouteInv, PlayInv, Tables, Rows
    <3>1. ~Play!IsPaidAccessBlockingEdit(a, at) => ~Play!CanParticipate(a)
      BY <3>0 DEF Play!IsPaidAccessBlockingEdit, Play!CanParticipate, Play!EffectiveStatus
    <3> QED BY <1>4, <3>1 DEF Play!RecordCommunityCommitment, Play!Committed
  <2>2. \A b \in Accounts : actors'[b] = IF b = a
          THEN [actors[a] EXCEPT !.community = c, !.committed = TRUE] ELSE actors[b]
    BY <1>1, <2>1
  <2>3. \A row \in ActorRows : LET new == [row EXCEPT !.community = c, !.committed = TRUE] IN
          new \in ActorRows /\ new.community = c
    BY DEF ActorRows
  <2>4. actors' \in [Accounts -> ActorRows] /\ actors'[a].community = c
    <3>1. actors[a] \in ActorRows
      BY <1>1
    <3>2. actors'[a] \in ActorRows /\ actors'[a].community = c
      BY <2>2, <2>3, <3>1
    <3>3. DOMAIN actors' = Accounts /\ actors' = [b \in Accounts |-> actors'[b]]
      BY <1>1, <2>1
    <3> QED BY <1>1, <2>2, <3>2, <3>3
  <2> QED BY <2>1, <2>2, <2>4 DEF Play!CommunityStays
<1>5. \/ UNCHANGED actors
      \/ \E r \in Requests : Play!BindLocalEligibilityInTransaction(r)
      \/ \E a \in Accounts, c \in Communities, at \in 0..now : Play!RecordCommunityCommitment(a, c, at)
  BY DEF Play!Next, Play!vars, Play!rows, Play!Tick, Play!Purchase, Play!SubmitPurchase,
     Play!SubmitEligibility, Play!Start, Play!Lose, Play!VerifyGooglePlayPurchase,
     Play!RunProvisionInTransaction, Play!AcknowledgeSubscription,
     Play!MaybeFinalizePaidPendingBinding, Play!FinalizePaidPendingBindingMembership,
     Play!ReconcileExpiredMembership
<1> QED BY <1>2, <1>3, <1>4, <1>5

LEMMA RouteSteps ==
    ASSUME SendersAssumption, RouteInv, [Play!Next]_(Play!vars)
    PROVE  RouteInv' /\ Play!CommunityStays
<1>1. MembershipStep /\ PlayInv' /\ sourceEvents \subseteq sourceEvents'
  BY PlaySteps, LedgerGrows DEF RouteInv
<1>2. actors' \in [Accounts -> ActorRows] /\ Play!CommunityStays
  BY ActorsStay
<1>3. CASE \E r \in Requests : Play!RunProvisionInTransaction(r)
  BY <1>1, <1>2, <1>3, ProvisionOwns DEF RouteInv
<1>4. CASE UNCHANGED <<purchaseLinks, requests>>
  BY <1>1, <1>2, <1>4, LinksStay DEF RouteInv
<1>5. ASSUME NEW r \in Requests, UNCHANGED purchaseLinks, NEW new,
             requests' = [requests EXCEPT ![r] = new], new = Idle \/ new.step # "acknowledge"
      PROVE  RouteInv' /\ Play!CommunityStays
  <2>1. \A p \in Requests : requests'[p] = IF p = r THEN new ELSE requests[p]
    BY <1>5 DEF RouteInv, PlayInv, PlayHolds
  <2>2. \A p \in Requests : Play!In(p, "acknowledge")' => requests'[p] = requests[p]
    BY <1>5, <2>1 DEF Play!In
  <2> QED BY <1>1, <1>2, <1>5, <2>2, LinksStay DEF RouteInv
<1>6. ASSUME NEW r \in Requests, UNCHANGED purchaseLinks, requests[r] # Idle, NEW step,
             NEW until, step # "acknowledge",
             \/ requests' = [requests EXCEPT ![r].step = step]
             \/ requests' = [requests EXCEPT ![r].step = step, ![r].until = until]
      PROVE  RouteInv' /\ Play!CommunityStays
  <2>1. requests[r] \in PlayRows /\ DOMAIN requests = Requests
    BY <1>6 DEF RouteInv, PlayInv, PlayHolds
  <2>2. /\ [requests[r] EXCEPT !.step = step].step = step
        /\ [requests[r] EXCEPT !.step = step, !.until = until].step = step
    BY <2>1 DEF PlayRows
  <2>3. \/ requests' = [requests EXCEPT ![r] = [requests[r] EXCEPT !.step = step]]
        \/ requests' = [requests EXCEPT ![r] = [requests[r] EXCEPT !.step = step, !.until = until]]
    BY <1>6, <2>1
  <2> QED BY <1>5, <1>6, <2>2, <2>3
<1>7. ASSUME NEW r \in Requests,
             \/ \E a \in Accounts, t \in Tokens : Play!SubmitPurchase(r, a, t)
             \/ \E a \in Accounts, c \in Communities : Play!SubmitEligibility(r, a, c)
      PROVE  RouteInv' /\ Play!CommunityStays
  <2>1. PICK step, a, what : step # "acknowledge" /\ Play!Start(r, step, a, what)
    BY <1>7 DEF Play!SubmitPurchase, Play!SubmitEligibility
  <2> DEFINE new == [step |-> step, account |-> a, what |-> what, at |-> now, until |-> Null]
  <2>2. requests' = [requests EXCEPT ![r] = new] /\ UNCHANGED purchaseLinks /\ new.step = step
    BY <2>1 DEF Play!Start, Play!rows
  <2> HIDE DEF new
  <2> QED BY <1>5, <2>1, <2>2
<1>8. ASSUME NEW r \in Requests, Play!End(r), UNCHANGED purchaseLinks
      PROVE  RouteInv' /\ Play!CommunityStays
  BY <1>5, <1>8 DEF Play!End
<1>9. ASSUME NEW r \in Requests,
             \/ Play!VerifyGooglePlayPurchase(r) \/ Play!BindLocalEligibilityInTransaction(r)
             \/ Play!MaybeFinalizePaidPendingBinding(r)
      PROVE  RouteInv' /\ Play!CommunityStays
  <2>1. requests[r] # Idle /\ UNCHANGED purchaseLinks
    BY <1>9 DEF Play!VerifyGooglePlayPurchase, Play!BindLocalEligibilityInTransaction,
       Play!MaybeFinalizePaidPendingBinding, Play!In, Play!rows
  <2>2. \/ Play!End(r)
        \/ \E step, until : /\ step # "acknowledge"
                            /\ \/ requests' = [requests EXCEPT ![r].step = step]
                               \/ requests' = [requests EXCEPT ![r].step = step, ![r].until = until]
    BY <1>9 DEF Play!VerifyGooglePlayPurchase, Play!BindLocalEligibilityInTransaction,
       Play!MaybeFinalizePaidPendingBinding, Play!Goto
  <2> QED BY <1>6, <1>8, <2>1, <2>2
<1>10. ASSUME NEW r \in Requests,
             \/ Play!Lose(r) \/ Play!AcknowledgeSubscription(r)
             \/ Play!FinalizePaidPendingBindingMembership(r)
      PROVE  RouteInv' /\ Play!CommunityStays
  BY <1>8, <1>10 DEF Play!Lose, Play!AcknowledgeSubscription,
     Play!FinalizePaidPendingBindingMembership, Play!rows
<1>11. CASE \/ UNCHANGED Play!vars \/ Play!Tick \/ \E t \in Tokens : Play!Purchase(t)
            \/ \E a \in Accounts, c \in Communities, at \in 0..now : Play!RecordCommunityCommitment(a, c, at)
            \/ \E a \in Accounts : Play!ReconcileExpiredMembership(a)
  BY <1>4, <1>11 DEF Play!vars, Play!Tick, Play!Purchase, Play!RecordCommunityCommitment,
     Play!ReconcileExpiredMembership, Play!rows
<1> QED BY <1>3, <1>7, <1>9, <1>10, <1>11 DEF Play!Next

LEMMA RouteStarts ==
    ASSUME Play!Init PROVE RouteInv
<1>1. PlayInv
  BY PlayStarts
<1>2. [community |-> "none", verifiedAt |-> Null, committed |-> FALSE] \in ActorRows
  BY NullIsEarly DEF ActorRows
<1> QED BY <1>1, <1>2 DEF Play!Init, RouteInv, OwnersHold, Play!In

\* However two accounts race for one purchase, and however often a request for it is made
\* again, only the account that the purchase belongs to acknowledges it.
THEOREM OwnersAlwaysAcknowledge ==
    ASSUME SendersAssumption
    PROVE  Play!Spec => []Play!OnlyTheOwnerAcknowledges
<1>1. Play!Init => RouteInv
  BY RouteStarts
<1>2. RouteInv /\ [Play!Next]_(Play!vars) => RouteInv'
  BY RouteSteps
<1>3. RouteInv => Play!OnlyTheOwnerAcknowledges
  BY OwnersAcknowledge
<1> QED BY <1>1, <1>2, <1>3, PTL DEF Play!Spec

\* A paying member's community does not move, by either of the two routes, whatever was
\* asked for before the payment.
THEOREM CommunityAlwaysStays ==
    ASSUME SendersAssumption
    PROVE  Play!Spec => [][Play!CommunityStays]_(Play!vars)
<1>1. Play!Init => RouteInv
  BY RouteStarts
<1>2. RouteInv /\ [Play!Next]_(Play!vars) => RouteInv' /\ [Play!CommunityStays]_(Play!vars)
  BY RouteSteps
<1> QED BY <1>1, <1>2, PTL DEF Play!Spec

-----------------------------------------------------------------------------
(* Operators: an audit record for each change, and for nothing else.       *)

\* What a request asks for, as the ledger will know it.
Asks(q) ==
    Event("admin", <<q.op, q.key, 0>>, IF q.op = "cancel" THEN "schedule_cancellation" ELSE "activate",
          q.account, q.at, q.until, "none")

AdminEvents ==
    [source : {"admin"}, id : Grants!Operations \X Keys \X {0}, type : Types, account : Accounts,
     effectiveAt : Nat, accessUntil : Int, subscription : {"none"}]
AuditRows == [event : AdminEvents, before : Nat]

Applied(events, in) == \E e \in events : e.in = in /\ e.result = "applied"

OperatorAsks(q) ==
    /\ {"step", "op", "key", "account", "at", "until", "before"} \subseteq DOMAIN q
    /\ q.op \in Grants!Operations /\ q.key \in Keys /\ q.account \in Accounts
    /\ q.at \in Nat /\ q.until \in Int /\ q.before \in Rows

\* A change that was applied is yet to be recorded.
ToAudit(q) == q # Idle /\ q.step = "audit"

AuditsHold ==
    /\ audits \in Seq(AuditRows)
    /\ \A i \in DOMAIN audits : Applied(sourceEvents, audits[i].event)
    /\ \A i, j \in DOMAIN audits : audits[i].event.id = audits[j].event.id => i = j
    /\ \A r \in Requests : requests[r] # Idle => OperatorAsks(requests[r])
    /\ \A r \in Requests : ToAudit(requests[r]) =>
         /\ Applied(sourceEvents, Asks(requests[r]))
         /\ \A i \in DOMAIN audits : audits[i].event.id # Asks(requests[r]).id
    /\ \A r, p \in Requests : ToAudit(requests[r]) /\ ToAudit(requests[p])
         /\ Asks(requests[r]).id = Asks(requests[p]).id => r = p

AuditInv == GrantsInv /\ AuditsHold

LEMMA LedgeredIs ==
    ASSUME NEW r PROVE Grants!Ledgered(r) = Asks(requests[r])
BY DEF Grants!Ledgered, Grants!Event, Grants!Op, Grants!Target, Asks, Event

LEMMA AsksAre ==
    ASSUME NEW q, OperatorAsks(q)
    PROVE  Asks(q) \in AdminEvents /\ Asks(q).source = "admin"
<1>1. <<q.op, q.key, 0>> \in Grants!Operations \X Keys \X {0}
  BY DEF OperatorAsks
<1> QED BY <1>1 DEF OperatorAsks, Asks, AdminEvents, Event, Types

\* A request that goes on asks for the same.
LEMMA AskingGoesOn ==
    ASSUME NEW q, OperatorAsks(q), NEW step, NEW row \in Rows
    PROVE  /\ OperatorAsks([q EXCEPT !.step = step])
           /\ Asks([q EXCEPT !.step = step]) = Asks(q)
           /\ [q EXCEPT !.step = step].step = step
           /\ OperatorAsks([q EXCEPT !.step = step, !.before = row])
           /\ [q EXCEPT !.step = step, !.before = row].step = step
BY DEF OperatorAsks, Asks

LEMMA AppliedStays ==
    ASSUME sourceEvents \subseteq sourceEvents'
    PROVE  \A in : Applied(sourceEvents, in) => Applied(sourceEvents', in)
BY DEF Applied

\* Nobody comes to have something to record, and nothing is recorded.
LEMMA AuditsWait ==
    ASSUME AuditInv, sourceEvents \subseteq sourceEvents', UNCHANGED audits,
           \/ UNCHANGED requests
           \/ \E r \in Requests : \E new :
                /\ requests' = [requests EXCEPT ![r] = new]
                /\ new = Idle \/ (OperatorAsks(new) /\ ~ToAudit(new))
    PROVE  AuditsHold'
<1>1. CASE UNCHANGED requests
  BY <1>1, AppliedStays DEF AuditInv, AuditsHold
<1>2. ASSUME NEW r \in Requests, NEW new, requests' = [requests EXCEPT ![r] = new],
             new = Idle \/ (OperatorAsks(new) /\ ~ToAudit(new))
      PROVE  AuditsHold'
  <2>1. \A p \in Requests : requests'[p] = IF p = r THEN new ELSE requests[p]
    BY <1>2 DEF AuditInv, GrantsInv, GrantsHold
  <2>2. \A p \in Requests : ToAudit(requests'[p]) => requests'[p] = requests[p]
    BY <1>2, <2>1 DEF ToAudit
  <2>3. \A p \in Requests : requests'[p] # Idle => OperatorAsks(requests'[p])
    BY <1>2, <2>1 DEF AuditInv, AuditsHold
  <2>4. /\ audits' \in Seq(AuditRows)
        /\ \A i \in DOMAIN audits' : Applied(sourceEvents', audits'[i].event)
        /\ \A i, j \in DOMAIN audits' : audits'[i].event.id = audits'[j].event.id => i = j
    BY AppliedStays DEF AuditInv, AuditsHold
  <2>5. \A p \in Requests : ToAudit(requests'[p]) =>
          /\ Applied(sourceEvents', Asks(requests'[p]))
          /\ \A i \in DOMAIN audits' : audits'[i].event.id # Asks(requests'[p]).id
    BY <2>2, AppliedStays DEF AuditInv, AuditsHold
  <2>6. \A p, o \in Requests : ToAudit(requests'[p]) /\ ToAudit(requests'[o])
          /\ Asks(requests'[p]).id = Asks(requests'[o]).id => p = o
    BY <2>2 DEF AuditInv, AuditsHold
  <2> QED BY <2>3, <2>4, <2>5, <2>6 DEF AuditsHold
<1> QED BY <1>1, <1>2

\* A change that is applied is new to the ledger, so that no record is of it yet.
LEMMA ChangeIsNew ==
    ASSUME AuditInv, NEW r \in Requests, Grants!Change(r), sourceEvents \subseteq sourceEvents'
    PROVE  AuditsHold'
<1> DEFINE q == requests[r]
           new == [q EXCEPT !.step = "audit"]
<1>1. /\ OperatorAsks(q) /\ q # Idle /\ UNCHANGED audits
      /\ DOMAIN requests = Requests
      /\ Asks(q) \in AdminEvents /\ Asks(q).source = "admin"
  BY AsksAre DEF AuditInv, AuditsHold, GrantsInv, GrantsHold, Grants!Change, Grants!In
<1>2. CASE Grants!Outcome(Asks(q)) # "applied"
  <2>1. PICK after : requests' = [requests EXCEPT ![r] = after]
                     /\ (after = Idle \/ after = [q EXCEPT !.step = "cohort"])
    BY <1>1, <1>2, LedgeredIs DEF Grants!Change, Grants!Answer, Grants!Goto
  <2>2. after = Idle \/ (OperatorAsks(after) /\ ~ToAudit(after))
    <3>1. \A row \in Rows : [q EXCEPT !.step = "cohort"].step = "cohort"
                            /\ OperatorAsks([q EXCEPT !.step = "cohort"])
      BY <1>1, AskingGoesOn
    <3>2. q.before \in Rows
      BY <1>1 DEF OperatorAsks
    <3> HIDE DEF q
    <3> QED BY <2>1, <3>1, <3>2 DEF ToAudit
  <2> QED BY <1>1, <2>1, <2>2, AuditsWait
<1>3. CASE Grants!Outcome(Asks(q)) = "applied"
  <2>1. /\ requests' = [requests EXCEPT ![r] = new]
        /\ Transition(Asks(q))
    BY <1>1, <1>3, LedgeredIs, GrantsAgrees DEF Grants!Change, Grants!Goto
  <2>2. /\ OperatorAsks(new) /\ Asks(new) = Asks(q)
    <3>1. q.before \in Rows
      BY <1>1 DEF OperatorAsks
    <3> HIDE DEF q
    <3> QED BY <1>1, <3>1, AskingGoesOn
  <2>3. Recorded(Asks(q)) = {} /\ Verdict(entitlement[Asks(q).account], Asks(q)) = "applied"
    <3>1. Outcome(Asks(q)) = "applied"
      BY <1>3 DEF Outcome, Grants!Outcome, Recorded, Grants!Recorded, Verdict, Grants!Verdict,
         ActivateVerdict, Grants!ActivateVerdict, ScheduleVerdict, Grants!ScheduleVerdict,
         ReactivateVerdict, Grants!ReactivateVerdict, ExpireVerdict, Grants!ExpireVerdict,
         FinalizeVerdict, Grants!FinalizeVerdict
    <3> QED BY <3>1 DEF Outcome
  <2>4. Applied(sourceEvents', Asks(q))
    <3> DEFINE e == [in |-> Asks(q), result |-> "applied"]
    <3>1. e \in sourceEvents'
      BY <2>1, <2>3 DEF Transition, Record
    <3>2. e.in = Asks(q) /\ e.result = "applied"
      OBVIOUS
    <3> QED BY <3>1, <3>2 DEF Applied
  <2>5. \A in \in AdminEvents : Applied(sourceEvents, in) => in.id # Asks(q).id
    BY <1>1, <2>3 DEF Applied, Recorded, AdminEvents
  <2> HIDE DEF new
  <2>6. \A p \in Requests : requests'[p] = IF p = r THEN new ELSE requests[p]
    BY <1>1, <2>1
  <2>7. \A p \in Requests : ToAudit(requests[p]) =>
          Asks(requests[p]) \in AdminEvents /\ Asks(requests[p]).id # Asks(q).id
    BY <2>5, AsksAre DEF AuditInv, AuditsHold, ToAudit
  <2>8. \A i \in DOMAIN audits : audits[i].event.id # Asks(q).id
    <3>1. \A i \in DOMAIN audits : audits[i] \in AuditRows
      BY DEF AuditInv, AuditsHold
    <3> HIDE DEF q
    <3> QED BY <2>5, <3>1 DEF AuditInv, AuditsHold, AuditRows
  <2>9. \A p \in Requests : requests'[p] # Idle => OperatorAsks(requests'[p])
    BY <2>2, <2>6 DEF AuditInv, AuditsHold
  <2>10. /\ audits' \in Seq(AuditRows)
         /\ \A i \in DOMAIN audits' : Applied(sourceEvents', audits'[i].event)
         /\ \A i, j \in DOMAIN audits' : audits'[i].event.id = audits'[j].event.id => i = j
    BY <1>1, AppliedStays DEF AuditInv, AuditsHold
  <2> HIDE DEF q
  <2>11. \A p \in Requests : ToAudit(requests'[p]) =>
           /\ Applied(sourceEvents', Asks(requests'[p]))
           /\ \A i \in DOMAIN audits' : audits'[i].event.id # Asks(requests'[p]).id
    BY <1>1, <2>2, <2>4, <2>6, <2>8, AppliedStays DEF AuditInv, AuditsHold
  <2>12. \A p, o \in Requests : ToAudit(requests'[p]) /\ ToAudit(requests'[o])
           /\ Asks(requests'[p]).id = Asks(requests'[o]).id => p = o
    BY <2>2, <2>6, <2>7 DEF AuditInv, AuditsHold
  <2> QED BY <2>9, <2>10, <2>11, <2>12 DEF AuditsHold
<1> QED BY <1>2, <1>3

LEMMA RecordIsWritten ==
    ASSUME AuditInv, NEW r \in Requests, Grants!WriteMembershipAudit(r)
    PROVE  AuditsHold'
<1> DEFINE q == requests[r]
           record == [event |-> Asks(q), before |-> q.before.version]
<1>1. /\ OperatorAsks(q) /\ ToAudit(q) /\ UNCHANGED sourceEvents
      /\ DOMAIN requests = Requests /\ Asks(q) \in AdminEvents
  BY AsksAre DEF AuditInv, AuditsHold, GrantsInv, GrantsHold, Grants!WriteMembershipAudit, Grants!In,
     ToAudit, Grants!membership
<1>2. audits' = Append(audits, record)
  BY LedgeredIs DEF Grants!WriteMembershipAudit
<1>3. record \in AuditRows /\ record.event = Asks(q)
  <2>1. q.before.version \in Nat
    BY <1>1 DEF OperatorAsks, Rows
  <2> QED BY <1>1, <2>1 DEF AuditRows
<1>4. PICK after : requests' = [requests EXCEPT ![r] = after]
                   /\ (after = Idle \/ after = [q EXCEPT !.step = "cohort"])
  BY <1>1 DEF Grants!WriteMembershipAudit, Grants!Answer, Grants!Goto
<1>5. after = Idle \/ (OperatorAsks(after) /\ ~ToAudit(after))
  <2>1. \A row \in Rows : [q EXCEPT !.step = "cohort"].step = "cohort"
                          /\ OperatorAsks([q EXCEPT !.step = "cohort"])
    BY <1>1, AskingGoesOn
  <2>2. q.before \in Rows
    BY <1>1 DEF OperatorAsks
  <2> HIDE DEF q
  <2> QED BY <1>4, <2>1, <2>2 DEF ToAudit
<1>6. Applied(sourceEvents, Asks(q)) /\ \A i \in DOMAIN audits : audits[i].event.id # Asks(q).id
  BY <1>1 DEF AuditInv, AuditsHold
<1>7. \A p \in Requests : p # r /\ ToAudit(requests[p]) => Asks(requests[p]).id # Asks(q).id
  BY <1>1 DEF AuditInv, AuditsHold
<1>8. audits \in Seq(AuditRows)
  BY DEF AuditInv, AuditsHold
<1> HIDE DEF record
<1>9. /\ audits' \in Seq(AuditRows) /\ Len(audits) \in Nat
      /\ DOMAIN audits = 1..Len(audits) /\ DOMAIN audits' = 1..(Len(audits) + 1)
      /\ \A i \in DOMAIN audits : audits'[i] = audits[i]
      /\ audits'[Len(audits) + 1] = record
  BY <1>2, <1>3, <1>8
<1>10. \A i \in DOMAIN audits' : i \in DOMAIN audits \/ i = Len(audits) + 1
  BY <1>9
<1>11. \A p \in Requests : requests'[p] = IF p = r THEN after ELSE requests[p]
  BY <1>1, <1>4
<1>12. \A p \in Requests : requests'[p] # Idle => OperatorAsks(requests'[p])
  BY <1>5, <1>11 DEF AuditInv, AuditsHold
<1>13. \A p \in Requests : ToAudit(requests'[p]) => p # r /\ requests'[p] = requests[p]
  BY <1>5, <1>11 DEF ToAudit
<1> HIDE DEF q
<1>14. \A i \in DOMAIN audits' : Applied(sourceEvents, audits'[i].event)
  BY <1>3, <1>6, <1>9, <1>10 DEF AuditInv, AuditsHold
<1>15. \A i, j \in DOMAIN audits' : audits'[i].event.id = audits'[j].event.id => i = j
  BY <1>3, <1>6, <1>9, <1>10 DEF AuditInv, AuditsHold
<1>16. \A p \in Requests : ToAudit(requests'[p]) =>
         /\ Applied(sourceEvents, Asks(requests'[p]))
         /\ \A i \in DOMAIN audits' : audits'[i].event.id # Asks(requests'[p]).id
  BY <1>3, <1>7, <1>9, <1>10, <1>13 DEF AuditInv, AuditsHold
<1>17. \A p, o \in Requests : ToAudit(requests'[p]) /\ ToAudit(requests'[o])
         /\ Asks(requests'[p]).id = Asks(requests'[o]).id => p = o
  BY <1>13 DEF AuditInv, AuditsHold
<1> QED BY <1>1, <1>9, <1>12, <1>14, <1>15, <1>16, <1>17 DEF AuditsHold

LEMMA AuditSteps ==
    ASSUME SendersAssumption, AuditInv, [Grants!Next]_(Grants!vars)
    PROVE  AuditInv'
<1>1. GrantsInv' /\ sourceEvents \subseteq sourceEvents' /\ DOMAIN requests = Requests
  BY GrantsSteps, LedgerGrows DEF AuditInv, GrantsInv, GrantsHold
<1>2. CASE UNCHANGED <<audits, requests>>
  BY <1>1, <1>2, AuditsWait DEF AuditInv
<1>3. ASSUME NEW r \in Requests, UNCHANGED audits, NEW new, requests' = [requests EXCEPT ![r] = new],
             new = Idle \/ (OperatorAsks(new) /\ ~ToAudit(new))
      PROVE  AuditInv'
  BY <1>1, <1>3, AuditsWait DEF AuditInv
<1>4. ASSUME NEW r \in Requests, Grants!Change(r)
      PROVE  AuditInv'
  BY <1>1, <1>4, ChangeIsNew DEF AuditInv
<1>5. ASSUME NEW r \in Requests, Grants!WriteMembershipAudit(r)
      PROVE  AuditInv'
  BY <1>1, <1>5, RecordIsWritten DEF AuditInv
<1>6. ASSUME NEW r \in Requests, UNCHANGED audits, NEW what, Grants!Answer(r, what)
      PROVE  AuditInv'
  BY <1>3, <1>6 DEF Grants!Answer
<1>7. ASSUME NEW r \in Requests, Grants!Begin(r)
      PROVE  AuditInv'
  <2>1. PICK op \in Grants!Operations, a \in Accounts, key \in Keys, until \in 1..MaxUntil,
             tagged \in BOOLEAN :
        /\ requests[r] = Idle /\ answers[r] \in {"none", "refused"}
        /\ op = "cancel" => until = 1
        /\ op # "grant" => ~tagged
        /\ requests' = [requests EXCEPT ![r] =
             [step |-> "decide", op |-> op, account |-> a, key |-> key, at |-> now,
              until |-> IF op = "cancel" THEN Null ELSE until, tagged |-> tagged,
              known |-> {e.result : e \in {f \in sourceEvents :
                            f.in.source = "admin" /\ f.in.id = <<op, key, 0>>}},
              before |-> Grants!NoRow]]
        /\ answers' = [answers EXCEPT ![r] = "none"]
        /\ UNCHANGED <<now, Grants!membership, audits, cohort>>
    BY <1>7, Zenon DEF Grants!Begin
  <2>2. PICK known : known = {e.result : e \in {f \in sourceEvents :
                            f.in.source = "admin" /\ f.in.id = <<op, key, 0>>}}
    OBVIOUS
  <2> DEFINE new == [step |-> "decide", op |-> op, account |-> a, key |-> key, at |-> now,
              until |-> IF op = "cancel" THEN Null ELSE until, tagged |-> tagged,
              known |-> known, before |-> Grants!NoRow]
  <2>3. requests' = [requests EXCEPT ![r] = new] /\ UNCHANGED audits
    BY <2>1, <2>2
  <2>4. OperatorAsks(new) /\ new.step = "decide"
    <3>1. now \in Nat
      BY DEF AuditInv, GrantsInv, Tables
    <3>2. Grants!NoRow \in Rows
      BY GrantsAgrees, NullIsEarly DEF NoRow, Rows, Statuses, Sources, Names
    <3> QED BY <3>1, <3>2, NullIsEarly DEF OperatorAsks
  <2> HIDE DEF new
  <2> QED BY <1>3, <2>3, <2>4 DEF ToAudit
<1>8. ASSUME NEW r \in Requests, Grants!Decide(r)
      PROVE  AuditInv'
  <2>1. requests[r] # Idle /\ OperatorAsks(requests[r]) /\ UNCHANGED audits
    BY <1>8 DEF Grants!Decide, Grants!In, AuditInv, AuditsHold
  <2>2. Grants!Row(r) \in Rows
    BY <2>1 DEF Grants!Row, Grants!Target, OperatorAsks, AuditInv, GrantsInv, Tables
  <2>3. PICK row \in Rows : row = Grants!Row(r)
    BY <2>2
  <2> DEFINE new == [requests[r] EXCEPT !.step = "transition", !.before = row]
  <2>4. \/ Grants!Answer(r, "unchanged") \/ Grants!Answer(r, "refused")
        \/ requests' = [requests EXCEPT ![r] = new]
    BY <1>1, <1>8, <2>3 DEF Grants!Decide, Grants!Repeated
  <2>5. OperatorAsks(new) /\ new.step = "transition"
    BY <2>1, AskingGoesOn
  <2> HIDE DEF new
  <2> QED BY <1>3, <1>6, <2>1, <2>4, <2>5 DEF ToAudit
<1>9. ASSUME NEW r \in Requests, Grants!TagCohort(r) \/ Grants!Lose(r)
      PROVE  AuditInv'
  BY <1>6, <1>9 DEF Grants!TagCohort, Grants!Lose
<1>10. CASE UNCHANGED Grants!vars \/ Grants!Tick
            \/ \E a \in Accounts : Grants!ProviderActivates(a) \/ Grants!ReconcileExpiredMembership(a)
  BY <1>2, <1>10 DEF Grants!vars, Grants!Tick, Grants!ProviderActivates,
     Grants!ReconcileExpiredMembership, Grants!Others
<1> QED BY <1>4, <1>5, <1>7, <1>8, <1>9, <1>10 DEF Grants!Next

LEMMA AuditsStart ==
    ASSUME Grants!Init PROVE AuditInv
<1>1. GrantsInv
  BY GrantsStart
<1> QED BY <1>1 DEF Grants!Init, AuditInv, AuditsHold, ToAudit

\* However often and however closely operators repeat a request, a change that the ledger
\* knows as applied has at most one audit record, and every record is of such a change.
THEOREM AuditsAlwaysOfChanges ==
    ASSUME SendersAssumption
    PROVE  Grants!Spec => []Grants!AuditsAreOfChanges
<1>1. Grants!Init => AuditInv
  BY AuditsStart
<1>2. AuditInv /\ [Grants!Next]_(Grants!vars) => AuditInv'
  BY AuditSteps
<1>3. AuditInv => Grants!AuditsAreOfChanges
  BY DEF AuditInv, AuditsHold, Applied, Grants!AuditsAreOfChanges
<1> QED BY <1>1, <1>2, <1>3, PTL DEF Grants!Spec

-----------------------------------------------------------------------------
(* Stripe: access reaches no further than what was sold.                   *)

\* An account has been sold a period that ends at this time or later.
SoldUntil(sessions, a, end) ==
    \E s \in Sessions :
        sessions[s].state # "none" /\ sessions[s].account = a /\ end <= sessions[s].end

\* The session whose event a request is about to activate, and the end it read there.
Activating(job) == job # Idle /\ job.step = "activate"
Covers(sessions, events, job) ==
    /\ job.event \in DOMAIN events /\ events[job.event].session \in Sessions
    /\ job.until \in Int /\ job.until <= sessions[events[job.event].session].end

SalesHold ==
    /\ \A a \in Accounts : entitlement[a].accessUntil # Null =>
         SoldUntil(stripe, a, entitlement[a].accessUntil)
    /\ \A s \in Sessions : stripe[s].state \in {"none", "open"} => stripe[s].end = 0
    /\ \A w \in Workers : Activating(jobs[w]) => Covers(stripe, sent, jobs[w])

SalesInv == BillingInv /\ SalesHold

\* What was sold stays sold: accounts stay, ends only move on, and so do the reports.
SalesGrow ==
    /\ \A s \in Sold : stripe'[s].account = stripe[s].account /\ stripe'[s].state # "none"
    /\ \A s \in Sessions : stripe[s].end <= stripe'[s].end
    /\ \A s \in Sessions : stripe'[s].state \in {"none", "open"} => stripe'[s].end = 0
    /\ DOMAIN sent \subseteq DOMAIN sent'
    /\ \A n \in DOMAIN sent : sent'[n].session = sent[n].session

\* A step that gives no row an end that was not sold, and brings nobody to activate who
\* has not just read the end.
LEMMA SalesStay ==
    ASSUME SalesInv, BillingInv', SalesGrow,
           \A a \in Accounts : \/ entitlement'[a].accessUntil = entitlement[a].accessUntil
                               \/ SoldUntil(stripe, a, entitlement'[a].accessUntil),
           \A w \in Workers : Activating(jobs'[w]) =>
              jobs'[w] = jobs[w] \/ Covers(stripe, sent, jobs'[w])
    PROVE  SalesInv'
<1>1. /\ \A s \in Sessions : stripe[s].end \in Int /\ stripe'[s].end \in Int
      /\ \A a \in Accounts : entitlement'[a].accessUntil \in Int
  BY DEF SalesInv, BillingInv, BillingHolds, Tables, SessionRows, Rows
<1>2. \A a : \A end \in Int : SoldUntil(stripe, a, end) => SoldUntil(stripe', a, end)
  BY <1>1 DEF SoldUntil, SalesGrow, Sold
<1>3. \A job : Covers(stripe, sent, job) => Covers(stripe', sent', job)
  BY <1>1 DEF Covers, SalesGrow
<1>4. \A a \in Accounts : entitlement'[a].accessUntil # Null =>
        SoldUntil(stripe', a, entitlement'[a].accessUntil)
  BY <1>1, <1>2 DEF SalesInv, SalesHold
<1>5. \A w \in Workers : Activating(jobs'[w]) => Covers(stripe', sent', jobs'[w])
  BY <1>3 DEF SalesInv, SalesHold
<1> QED BY <1>4, <1>5 DEF SalesInv, SalesHold, SalesGrow

LEMMA NothingNewSold ==
    ASSUME SalesInv, UNCHANGED <<stripe, sent>>
    PROVE  SalesGrow
BY DEF SalesGrow, SalesInv, SalesHold, BillingInv, BillingHolds, SessionRows, Sold

\* Only an activation gives a row a new end: the one that was asked for.
LEMMA TransitionEnds ==
    ASSUME Tables, NEW in, Asked(in), Transition(in), NEW a \in Accounts
    PROVE  \/ entitlement'[a].accessUntil = entitlement[a].accessUntil
           \/ /\ in.type = "activate" /\ a = in.account
              /\ entitlement'[a].accessUntil = in.accessUntil
<1> DEFINE row == entitlement[in.account]
           v == row.version + 1
<1>1. CASE UNCHANGED entitlement
  BY <1>1
<1>2. CASE Save(in.account, Mutation(row, in), in.effectiveAt)
  <2>1. in.account \in Accounts /\ row \in Rows /\ in.type \in Types
    BY DEF Asked, Tables
  <2>2. entitlement' = [entitlement EXCEPT ![in.account] = Saved(Mutation(row, in), in.effectiveAt, v)]
    BY <1>2 DEF Save, Saved
  <2>3. \A new : new \in Rows => \A at, n : Saved(new, at, n).accessUntil = new.accessUntil
    BY DEF Saved, Rows
  <2>4. /\ Activated(row, in).accessUntil = in.accessUntil
        /\ Scheduled(row, in).accessUntil = row.accessUntil
        /\ Reactivated(row).accessUntil = row.accessUntil
        /\ Expired(row, in).accessUntil = row.accessUntil
        /\ Finalized(row, in).accessUntil = row.accessUntil
    BY <2>1 DEF Activated, Scheduled, Reactivated, Expired, Finalized, Rows
  <2>5. \/ Mutation(row, in).accessUntil = row.accessUntil
        \/ in.type = "activate" /\ Mutation(row, in).accessUntil = in.accessUntil
    BY <2>1, <2>4 DEF Mutation, Types
  <2>6. DOMAIN Mutation(row, in) = DOMAIN row
    BY <2>1 DEF Mutation, Types, Activated, Scheduled, Reactivated, Expired, Finalized
  <2>7. Saved(Mutation(row, in), in.effectiveAt, v).accessUntil = Mutation(row, in).accessUntil
    BY <2>1, <2>6 DEF Saved, Rows
  <2> HIDE DEF row, v
  <2>8. \A b \in Accounts : entitlement'[b] =
          IF b = in.account THEN Saved(Mutation(row, in), in.effectiveAt, v) ELSE entitlement[b]
    BY <2>1, <2>2 DEF Tables
  <2> QED BY <2>5, <2>7, <2>8 DEF row
<1> QED BY <1>1, <1>2 DEF Transition, membership

\* Stripe's steps.
LEMMA StripeSells ==
    ASSUME SendersAssumption, SalesInv, BillingInv', Billing!Stripe
    PROVE  SalesInv'
<1>0. now \in Nat /\ UNCHANGED <<membership, jobs>> /\ stripe \in [Sessions -> SessionRows]
  BY DEF SalesInv, BillingInv, BillingHolds, Tables, Billing!Stripe, Billing!membership, membership
<1>1. PICK s \in Sessions : \/ Billing!Pay(s) \/ Billing!PortalChange(s) \/ Billing!Renew(s)
                            \/ Billing!PayLate(s) \/ Billing!EndSubscription(s)
  BY DEF Billing!Stripe
<1> DEFINE Ends(end) == \/ end \in {stripe[s].end, stripe[s].end + Period}
                        \/ end = now + Period /\ stripe[s].end = 0
           Moves == \E state, end, cancel :
                      /\ Billing!At(s, state, end, cancel)
                      /\ state \notin {"none", "open"} /\ Ends(end)
           Past == {"active", "past_due", "canceled"}
<1>a. \A state \in Past : state \notin {"none", "open"}
  OBVIOUS
<1>b. ASSUME NEW state \in Past, NEW end, NEW cancel, Billing!At(s, state, end, cancel), Ends(end)
      PROVE  Moves
  <2>1. state \notin {"none", "open"}
    BY <1>a
  <2> HIDE DEF Ends
  <2> QED BY <1>b, <2>1, Zenon
<1>c. Ends(stripe[s].end) /\ Ends(stripe[s].end + Period)
      /\ (stripe[s].end = 0 => Ends(now + Period))
  OBVIOUS
<1>d. "active" \in Past /\ "past_due" \in Past /\ "canceled" \in Past
  OBVIOUS
<1>e. Moves
  <2> HIDE DEF Moves, Ends, Past
  <2>1. CASE Billing!Pay(s)
    <3>1. stripe[s].end = 0
      BY <2>1 DEF Billing!Pay, SalesInv, SalesHold
    <3> QED BY <1>b, <1>c, <1>d, <2>1, <3>1, Zenon DEF Billing!Pay
  <2>2. CASE Billing!PortalChange(s)
    BY <1>b, <1>c, <1>d, <2>2, Zenon DEF Billing!PortalChange
  <2>3. CASE Billing!Renew(s)
    BY <1>b, <1>c, <1>d, <2>3, Zenon DEF Billing!Renew
  <2>4. CASE Billing!PayLate(s)
    BY <1>b, <1>c, <1>d, <2>4, Zenon DEF Billing!PayLate
  <2>5. CASE Billing!EndSubscription(s)
    BY <1>b, <1>c, <1>d, <2>5, Zenon DEF Billing!EndSubscription
  <2> QED BY <1>1, <2>1, <2>2, <2>3, <2>4, <2>5
<1>2. PICK state, end, cancel :
        /\ Billing!At(s, state, end, cancel)
        /\ state \notin {"none", "open"} /\ Ends(end)
  BY <1>e, Zenon
<1>3. stripe[s].end \in Int /\ end \in Int /\ stripe[s].end <= end
  BY <1>0, <1>2 DEF SendersAssumption, SessionRows
<1>4. \A t \in Sessions : stripe'[t] = IF t = s
        THEN [stripe[s] EXCEPT !.state = state, !.end = end, !.cancel = cancel] ELSE stripe[t]
  BY <1>0, <1>2 DEF Billing!At
<1>5. stripe'[s].state = state /\ stripe'[s].end = end /\ stripe'[s].account = stripe[s].account
  BY <1>0, <1>4 DEF SessionRows
<1>6. \A t \in Sessions : stripe[t].end \in Int
  BY <1>0 DEF SessionRows
<1>7. DOMAIN sent \subseteq DOMAIN sent' /\ \A n \in DOMAIN sent : sent'[n] = sent[n]
  <2>1. sent \in Seq(Reports)
    BY DEF SalesInv, BillingInv, BillingHolds
  <2>2. UNCHANGED sent \/ \E types : Billing!Emit(s, types) /\ Len(types) \in Nat /\ DOMAIN types = 1..Len(types)
    <3>1. \A types : types = <<"checkout.session.completed", "invoice.paid">>
              \/ types = <<"customer.subscription.updated">> \/ types = <<"invoice.paid">>
              \/ types = <<"customer.subscription.deleted">>
            => Len(types) \in Nat /\ DOMAIN types = 1..Len(types)
      OBVIOUS
    <3> QED BY <1>1, <3>1 DEF Billing!Pay, Billing!PortalChange, Billing!Renew, Billing!PayLate,
               Billing!EndSubscription
  <2>3. ASSUME NEW types, Billing!Emit(s, types), Len(types) \in Nat, DOMAIN types = 1..Len(types)
        PROVE  DOMAIN sent \subseteq DOMAIN sent' /\ \A n \in DOMAIN sent : sent'[n] = sent[n]
    <3> DEFINE new == [i \in DOMAIN types |-> Billing!StripeEvent(s, types[i])]
    <3>1. new \in Seq({Billing!StripeEvent(s, types[i]) : i \in DOMAIN types})
      BY <2>3, SeqDef
    <3>2. sent' = sent \o new
      BY <2>3 DEF Billing!Emit
    <3> HIDE DEF new
    <3> QED BY <2>1, <3>1, <3>2
  <2> QED BY <2>2, <2>3
<1>8. SalesGrow
  BY <1>2, <1>3, <1>4, <1>5, <1>6, <1>7 DEF SalesGrow, Sold, SalesInv, SalesHold
<1> QED BY <1>0, <1>8, SalesStay DEF membership

LEMMA CheckoutSells ==
    ASSUME SalesInv, BillingInv', NEW a \in Accounts, NEW s \in Sessions,
           Billing!CreateCheckoutSession(a, s)
    PROVE  SalesInv'
<1>1. UNCHANGED <<membership, sent, jobs>> /\ stripe \in [Sessions -> SessionRows]
      /\ stripe[s].state = "none" /\ stripe[s].end = 0
  BY DEF SalesInv, SalesHold, BillingInv, BillingHolds, Billing!CreateCheckoutSession,
     Billing!membership, membership
<1>2. PICK state \in {"open", "lost"} :
        stripe' = [stripe EXCEPT ![s].state = state, ![s].account = a]
  BY DEF Billing!CreateCheckoutSession
<1>3. \A t \in Sessions : stripe'[t] = IF t = s
        THEN [stripe[s] EXCEPT !.state = state, !.account = a] ELSE stripe[t]
  BY <1>1, <1>2
<1>4. stripe'[s].end = 0
  BY <1>1, <1>3 DEF SessionRows
<1>5. \A t \in Sessions : stripe[t].end \in Int
  BY <1>1 DEF SessionRows
<1>6. SalesGrow
  BY <1>1, <1>3, <1>4, <1>5 DEF SalesGrow, Sold, SalesInv, SalesHold
<1> QED BY <1>1, <1>6, SalesStay DEF membership

\* A request arrives, is cut off, reads or decides.
LEMMA ReadsActivate ==
    ASSUME SalesInv, BillingInv', NEW w \in Workers,
           \/ Billing!Receive(w) \/ Billing!Lose(w) \/ Billing!HandleInvoicePaid(w)
           \/ Billing!HandleSubscriptionDeleted(w)
           \/ \E a \in Accounts : Billing!FindExpiredMembershipCandidate(w, a)
    PROVE  SalesInv'
<1> USE DEF Billing!external
<1>0. /\ UNCHANGED <<membership, stripe>> /\ BillingHolds
      /\ sent \in Seq(Reports) /\ DOMAIN jobs = Workers
  BY DEF SalesInv, BillingInv, BillingHolds, Billing!Receive, Billing!Lose, Billing!HandleInvoicePaid,
     Billing!HandleSubscriptionDeleted, Billing!FindExpiredMembershipCandidate, Billing!membership,
     membership
<1>1. SalesGrow
  <2>1. CASE Billing!Receive(w)
    <3>1. PICK n \in DOMAIN sent : sent' = [sent EXCEPT ![n].left = sent[n].left - 1]
      BY <2>1 DEF Billing!Receive
    <3>2. sent[n] \in Reports
      BY <1>0
    <3>3. DOMAIN sent' = DOMAIN sent /\ \A m \in DOMAIN sent : sent'[m].session = sent[m].session
      BY <3>1, <3>2 DEF Reports
    <3> QED BY <1>0, <3>3, NothingNewSold
            DEF SalesGrow, SalesInv, SalesHold, BillingInv, BillingHolds, SessionRows, Sold
  <2>2. CASE UNCHANGED sent
    BY <1>0, <2>2, NothingNewSold
  <2> QED BY <2>1, <2>2 DEF Billing!Lose, Billing!HandleInvoicePaid, Billing!HandleSubscriptionDeleted,
             Billing!FindExpiredMembershipCandidate
<1>2. ASSUME NEW new, jobs' = [jobs EXCEPT ![w] = new],
             Activating(new) => Covers(stripe, sent, new)
      PROVE  SalesInv'
  <2>1. \A v \in Workers : jobs'[v] = IF v = w THEN new ELSE jobs[v]
    BY <1>0, <1>2
  <2> QED BY <1>0, <1>1, <1>2, <2>1, SalesStay DEF membership
<1>3. CASE Billing!Receive(w)
  <2>1. PICK n \in DOMAIN sent : jobs' = [jobs EXCEPT ![w] =
                [step |-> sent[n].type, event |-> n, at |-> now, until |-> 0]]
    BY <1>3 DEF Billing!Receive, Billing!Start
  <2> DEFINE new == [step |-> sent[n].type, event |-> n, at |-> now, until |-> 0]
  <2>2. sent[n] \in Reports
    BY <1>0
  <2>3. new.step # "activate"
    BY <2>2 DEF Reports, Kinds
  <2>4. jobs' = [jobs EXCEPT ![w] = new]
    BY <2>1
  <2> HIDE DEF new
  <2> QED BY <1>2, <2>3, <2>4 DEF Activating
<1>4. CASE Billing!Lose(w)
  BY <1>2, <1>4 DEF Billing!Lose, Billing!End, Activating
<1>5. CASE Billing!HandleInvoicePaid(w)
  <2> DEFINE end == stripe[sent[jobs[w].event].session].end
             new == [jobs[w] EXCEPT !.step = "activate", !.until = end]
  <2>1. JobHolds(jobs[w]) /\ jobs[w] \in WebhookRows /\ jobs[w].event \in DOMAIN sent
    BY <1>0, <1>5, JobKinds DEF Billing!HandleInvoicePaid, Billing!In, BillingHolds
  <2>2. jobs' = [jobs EXCEPT ![w] = new]
    BY <1>0, <1>5 DEF Billing!HandleInvoicePaid, Billing!CurrentPeriodEnd, Billing!EventOf
  <2>3. sent[jobs[w].event] \in Reports
    BY <1>0, <2>1
  <2>4. sent[jobs[w].event].session \in Sessions
    BY <2>3 DEF Reports, Sold
  <2>5. end \in Int
    BY <2>4 DEF SalesInv, BillingInv, BillingHolds, SessionRows
  <2>6. new.event = jobs[w].event /\ new.until = end
    BY <2>1 DEF WebhookRows
  <2> HIDE DEF new
  <2>7. Covers(stripe, sent, new)
    BY <2>1, <2>4, <2>5, <2>6 DEF Covers
  <2> QED BY <1>2, <2>2, <2>7
<1>6. CASE Billing!HandleSubscriptionDeleted(w)
  <2> DEFINE new == [jobs[w] EXCEPT !.step = "expire"]
  <2>1. JobHolds(jobs[w]) /\ jobs[w] \in WebhookRows
    BY <1>0, <1>6, JobKinds DEF Billing!HandleSubscriptionDeleted, Billing!In, BillingHolds
  <2>2. new.step = "expire"
    BY <2>1 DEF WebhookRows
  <2>3. jobs' = [jobs EXCEPT ![w] = new] \/ jobs' = [jobs EXCEPT ![w] = Idle]
    BY <1>0, <1>6 DEF Billing!HandleSubscriptionDeleted, Billing!End
  <2> HIDE DEF new
  <2> QED BY <1>2, <2>2, <2>3 DEF Activating
<1>7. ASSUME NEW a \in Accounts, Billing!FindExpiredMembershipCandidate(w, a)
      PROVE  SalesInv'
  <2> DEFINE new == [step |-> "reconcile", account |-> a, at |-> now,
                     until |-> entitlement[a].accessUntil]
  <2>1. jobs' = [jobs EXCEPT ![w] = new] /\ new.step = "reconcile"
    BY <1>7 DEF Billing!FindExpiredMembershipCandidate
  <2> HIDE DEF new
  <2> QED BY <1>2, <2>1 DEF Activating
<1> QED BY <1>3, <1>4, <1>5, <1>6, <1>7

\* The transactions: a row gets the end that was read, or keeps the one it has.
LEMMA WritesWhatWasSold ==
    ASSUME SalesInv, BillingInv', NEW w \in Workers,
           \/ Billing!HandleCheckoutSessionCompleted(w) \/ Billing!ActivateMembership(w)
           \/ Billing!HandleSubscriptionUpdated(w) \/ Billing!ExpireMembership(w)
           \/ Billing!ReconcileExpiredMembership(w)
    PROVE  SalesInv'
<1> USE DEF Billing!external
<1>0. /\ BillingHolds /\ Tables /\ now \in Nat /\ jobs[w] # Idle
      /\ jobs' = [jobs EXCEPT ![w] = Idle] /\ UNCHANGED <<stripe, sent>>
  BY DEF SalesInv, BillingInv, Tables, Billing!HandleCheckoutSessionCompleted,
     Billing!ActivateMembership, Billing!HandleSubscriptionUpdated, Billing!ExpireMembership,
     Billing!ReconcileExpiredMembership, Billing!StripeTransition, Billing!In, Billing!End
<1>1. SalesGrow
  BY <1>0, NothingNewSold
<1>2. \A v \in Workers : Activating(jobs'[v]) => jobs'[v] = jobs[v]
  BY <1>0 DEF BillingHolds, Activating
<1> SUFFICES ASSUME NEW a \in Accounts
             PROVE  \/ entitlement'[a].accessUntil = entitlement[a].accessUntil
                    \/ SoldUntil(stripe, a, entitlement'[a].accessUntil)
  BY <1>1, <1>2, SalesStay
<1>3. CASE Billing!HandleCheckoutSessionCompleted(w)
  <2> DEFINE b == Billing!AccountOf(w)
             s == Billing!EventOf(w).session
             row == [entitlement[b] EXCEPT !.subscription = s]
  <2>1. b \in Accounts
    BY <1>0, <1>3, BillingAsks DEF Billing!HandleCheckoutSessionCompleted, Billing!In, Types
  <2>2. UNCHANGED entitlement \/ Save(b, row, jobs[w].at)
    BY <1>3, BillingAgrees DEF Billing!HandleCheckoutSessionCompleted
  <2>3. entitlement[b] \in Rows /\ entitlement \in [Accounts -> Rows]
    BY <1>0, <2>1 DEF Tables
  <2>4. [row EXCEPT !.updatedAt = jobs[w].at, !.version = entitlement[b].version + 1].accessUntil
          = entitlement[b].accessUntil
    BY <2>3 DEF Rows
  <2> HIDE DEF b, row
  <2> QED BY <2>1, <2>2, <2>3, <2>4 DEF Save
<1>4. ASSUME NEW type \in Types, NEW until \in Int, Billing!StripeTransition(w, type, until),
             jobs[w].step # "reconcile"
      PROVE  \/ entitlement'[a].accessUntil = entitlement[a].accessUntil
             \/ /\ type = "activate" /\ a = Billing!AccountOf(w)
                /\ entitlement'[a].accessUntil = until
  <2> DEFINE in == Event("stripe", <<"event", jobs[w].event>>, type, Billing!AccountOf(w),
                         jobs[w].at, until, Billing!EventOf(w).session)
  <2>1. Asked(in)
    BY <1>0, <1>4, BillingAsks
  <2>2. Transition(in)
    BY <1>4, BillingAgrees DEF Billing!StripeTransition, Billing!Event, Event
  <2>3. in.type = type /\ in.account = Billing!AccountOf(w) /\ in.accessUntil = until
    BY DEF Event
  <2> HIDE DEF in
  <2> QED BY <1>0, <2>1, <2>2, <2>3, TransitionEnds
<1>5. CASE Billing!ActivateMembership(w)
  <2>1. jobs[w].until \in Int /\ jobs[w].step # "reconcile" /\ Activating(jobs[w])
    BY <1>0, <1>5, JobKinds DEF BillingHolds, Billing!ActivateMembership, Billing!In, Activating
  <2>2. CASE entitlement'[a].accessUntil = entitlement[a].accessUntil
    BY <2>2
  <2>3. CASE a = Billing!AccountOf(w) /\ entitlement'[a].accessUntil = jobs[w].until
    <3> DEFINE s == sent[jobs[w].event].session
    <3>1. s \in Sessions /\ jobs[w].until <= stripe[s].end /\ jobs[w].event \in DOMAIN sent
      BY <2>1 DEF SalesInv, SalesHold, Covers
    <3>2. sent[jobs[w].event] \in Reports
      BY <1>0, <3>1 DEF BillingHolds
    <3>3. stripe[s].state # "none"
      BY <3>2 DEF Reports, Sold
    <3>4. Billing!AccountOf(w) = stripe[s].account
      BY DEF Billing!AccountOf, Billing!EventOf
    <3> QED BY <2>3, <3>1, <3>3, <3>4 DEF SoldUntil
  <2>4. Billing!StripeTransition(w, "activate", jobs[w].until) /\ "activate" \in Types
    BY <1>5 DEF Billing!ActivateMembership, Types
  <2> QED BY <1>4, <2>1, <2>2, <2>3, <2>4
<1>6. CASE Billing!HandleSubscriptionUpdated(w)
  <2>1. jobs[w].step # "reconcile"
    BY <1>6 DEF Billing!HandleSubscriptionUpdated, Billing!In
  <2>2. PICK type \in {"schedule_cancellation", "reactivate"} : Billing!StripeTransition(w, type, Null)
    BY <1>6 DEF Billing!HandleSubscriptionUpdated
  <2> QED BY <1>4, <2>1, <2>2, NullIsEarly DEF Types
<1>7. CASE Billing!ExpireMembership(w)
  <2>1. jobs[w].step # "reconcile" /\ Billing!StripeTransition(w, "expire", Null)
    BY <1>7 DEF Billing!ExpireMembership, Billing!In
  <2> QED BY <1>4, <2>1, NullIsEarly DEF Types
<1>8. CASE Billing!ReconcileExpiredMembership(w)
  <2> DEFINE in == Event("stripe", Billing!ReconcileEventId(w), "expire", jobs[w].account,
                         jobs[w].at, Null, "none")
  <2>1. Asked(in)
    BY <1>0, <1>8, BillingAsks, NullIsEarly DEF Billing!ReconcileExpiredMembership, Billing!In, Types
  <2>2. Transition(in) /\ in.type = "expire"
    BY <1>8, BillingAgrees DEF Billing!ReconcileExpiredMembership, Billing!Event, Event
  <2> HIDE DEF in
  <2> QED BY <1>0, <2>1, <2>2, TransitionEnds
<1> QED BY <1>3, <1>5, <1>6, <1>7, <1>8

LEMMA SalesSteps ==
    ASSUME SendersAssumption, SalesInv, [Billing!Next]_(Billing!vars)
    PROVE  SalesInv'
<1>0. BillingInv'
  BY BillingSteps DEF SalesInv
<1>1. CASE UNCHANGED <<membership, stripe, sent, jobs>>
  BY <1>0, <1>1, NothingNewSold, SalesStay DEF membership
<1>2. CASE UNCHANGED Billing!vars \/ Billing!Tick
           \/ \E a \in Accounts : Billing!EnsureStripeCustomerLink(a)
  BY <1>1, <1>2 DEF Billing!vars, Billing!Tick, Billing!EnsureStripeCustomerLink, Billing!membership,
     membership, Billing!external
<1>3. CASE \E a \in Accounts, s \in Sessions : Billing!CreateCheckoutSession(a, s)
  BY <1>0, <1>3, CheckoutSells
<1>4. CASE Billing!Stripe
  BY <1>0, <1>4, StripeSells
<1>5. ASSUME NEW w \in Workers, Billing!Receive(w) \/ Billing!Lose(w) \/ Billing!Webhook(w)
      PROVE  SalesInv'
  BY <1>0, <1>5, ReadsActivate, WritesWhatWasSold DEF Billing!Webhook
<1>6. ASSUME NEW w \in Workers, NEW a \in Accounts, Billing!FindExpiredMembershipCandidate(w, a)
      PROVE  SalesInv'
  BY <1>0, <1>6, ReadsActivate
<1> QED BY <1>2, <1>3, <1>4, <1>5, <1>6 DEF Billing!Next

LEMMA SalesStart ==
    ASSUME Billing!Init PROVE SalesInv
<1>1. BillingInv
  BY BillingStarts
<1>2. \A s \in Sessions : stripe[s].end = 0
  BY DEF Billing!Init, Billing!NoSession
<1>3. \A w \in Workers : ~Activating(jobs[w])
  BY DEF Billing!Init, Activating
<1>4. \A a \in Accounts : entitlement[a].accessUntil = Null
  BY DEF Billing!Init, Billing!NoRow
<1> QED BY <1>1, <1>2, <1>3, <1>4 DEF SalesInv, SalesHold

\* However late, often and out of order Stripe's events arrive, an account has access no
\* longer than a period that Stripe has opened for it.
THEOREM AccessIsAlwaysSold ==
    ASSUME SendersAssumption
    PROVE  Billing!Spec => []Billing!AccessStaysWithinAPeriod
<1>1. Billing!Init => SalesInv
  BY SalesStart
<1>2. SalesInv /\ [Billing!Next]_(Billing!vars) => SalesInv'
  BY SalesSteps
<1>3. SalesInv => Billing!AccessStaysWithinAPeriod
  BY DEF SalesInv, SalesHold, SoldUntil, Billing!AccessStaysWithinAPeriod
<1> QED BY <1>1, <1>2, <1>3, PTL DEF Billing!Spec
=============================================================================
