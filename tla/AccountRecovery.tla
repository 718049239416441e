-------------------------- MODULE AccountRecovery --------------------------
(***************************************************************************)
(* The recovery of one active account: a code by e-mail buys a recovery     *)
(* grant, the grant and a passkey ceremony buy a new passkey and close      *)
(* every other recovery and every session.  Requests use the time they read *)
(* when they began and interleave with one another and with a suspension of *)
(* the account; a transaction that holds the account row is one step.       *)
(***************************************************************************)
EXTENDS Naturals, Sequences, FiniteSets, OneTimeRows

CONSTANTS
    Requests,           \* requests in flight at once
    Idle,               \* no request
    CodeTTL,            \* ACCOUNT_RECOVERY_CODE_TTL_MINUTES
    MaxAttempts,        \* ACCOUNT_RECOVERY_MAX_ATTEMPTS
    GrantTTL,           \* ACCOUNT_RECOVERY_GRANT_TTL_MINUTES
    CeremonyTTL,        \* WEBAUTHN_CHALLENGE_TTL_MINUTES
    MaxTime,            \* bound: the clock stops here
    MaxCodes, MaxGrants, MaxCeremonies      \* bounds: rows of each table

RecoveryAssumption ==
    /\ {CodeTTL, GrantTTL, CeremonyTTL, MaxAttempts} \subseteq Nat \ {0}
    /\ {MaxTime, MaxCodes, MaxGrants, MaxCeremonies} \subseteq Nat
    /\ Idle \notin [op : STRING, at : STRING, now : Nat, id : Nat, ceremony : Nat]

VARIABLES
    clock,
    status,             \* the account's status
    passkeys,           \* passkeys registered by a recovery
    sessions,           \* whether a session opened before the last recovery is live
    challenges,         \* email_challenges with purpose recover_account
    grants,             \* recovery_grants
    ceremonies,         \* webauthn_challenges with purpose recover_register
    requests            \* each request's captured time and place in its code

tables == <<status, passkeys, sessions, challenges, grants, ceremonies>>
vars == <<clock, tables, requests>>

Init ==
    /\ clock = 0 /\ status = "active" /\ passkeys = 0 /\ sessions = TRUE
    /\ challenges = <<>> /\ grants = <<>> /\ ceremonies = <<>>
    /\ requests = [r \in Requests |-> Idle]

In(r, op, at) == requests[r] # Idle /\ requests[r].op = op /\ requests[r].at = at
Now(r) == requests[r].now
Goto(r, at) == requests' = [requests EXCEPT ![r].at = at]
End(r) == requests' = [requests EXCEPT ![r] = Idle]

Start(r, op, id, ceremony) ==
    /\ requests[r] = Idle
    /\ requests' = [requests EXCEPT ![r] =
         [op |-> op, at |-> "begun", now |-> clock, id |-> id, ceremony |-> ceremony]]
    /\ UNCHANGED <<clock, tables>>

Tick == clock < MaxTime /\ clock' = clock + 1 /\ UNCHANGED <<tables, requests>>

\* A request that is refused, throttled, a deadlock's victim or killed changes nothing more.
Refuse(r) == requests[r] # Idle /\ End(r) /\ UNCHANGED <<clock, tables>>

\* The sessions a suspension ends are those of Sessions.tla: here one stands for all.
SuspendAccount ==
    /\ status = "active" /\ status' = "suspended" /\ sessions' = FALSE
    /\ UNCHANGED <<clock, passkeys, challenges, grants, ceremonies, requests>>

ReactivateAccount ==
    /\ status = "suspended" /\ status' = "active"
    /\ UNCHANGED <<clock, passkeys, sessions, challenges, grants, ceremonies, requests>>

SignIn ==
    /\ status = "active" /\ sessions' = TRUE
    /\ UNCHANGED <<clock, status, passkeys, challenges, grants, ceremonies, requests>>

-----------------------------------------------------------------------------
(* POST /v1/account/recovery: no transaction, three statements.             *)

RequestAccountRecovery(r) == status = "active" /\ Start(r, "request", 0, 0)

RevokeActiveEmailChallenges(r) ==
    LET old == ToRevoke(challenges, "recover_account", Now(r), 0) IN
    /\ In(r, "request", "begun")
    /\ Revocable(challenges, old, Now(r))
    /\ challenges' = SetState(challenges, old, "revoked")
    /\ Goto(r, "create")
    /\ UNCHANGED <<clock, status, passkeys, sessions, grants, ceremonies>>

CreateEmailChallenge(r) ==
    /\ In(r, "request", "create") /\ Len(challenges) < MaxCodes
    /\ challenges' = Append(challenges, Row("recover_account", Now(r), CodeTTL))
    /\ End(r)
    /\ UNCHANGED <<clock, status, passkeys, sessions, grants, ceremonies>>

-----------------------------------------------------------------------------
(* POST /v1/account/recovery/verify-email: one transaction.                 *)

VerifyEmail(r) == \E c \in DOMAIN challenges : Start(r, "code", c, 0)

\* Mutant: the count of wrong codes is not looked at.
AcceptAnyAttempt(r) ==
    /\ In(r, "code", "begun") /\ status = "active"
    /\ Usable(challenges[requests[r].id], Now(r))

ChallengeAccepted(r) ==
    LET c == challenges[requests[r].id] IN
    /\ In(r, "code", "begun") /\ status = "active"
    /\ Usable(c, Now(r)) /\ c.tries < MaxAttempts

WrongCode(r) ==
    /\ ChallengeAccepted(r)
    /\ challenges' = [challenges EXCEPT ![requests[r].id].tries = @ + 1]
    /\ End(r)
    /\ UNCHANGED <<clock, status, passkeys, sessions, grants, ceremonies>>

\* Mutant: a second grant leaves the first one usable.
KeepOldGrants(now) == {}
SupersededGrants(now) == ToRevoke(grants, "account_recovery", now, 0)

VerifyRecoveryEmail(r) ==
    LET c == requests[r].id
        others == ToRevoke(challenges, "recover_account", Now(r), c)
        old == SupersededGrants(Now(r)) IN
    /\ ChallengeAccepted(r) /\ Len(grants) < MaxGrants
    /\ Revocable(challenges, others, Now(r)) /\ Revocable(grants, old, Now(r))
    /\ challenges' = SetState(SetState(challenges, {c}, "consumed"), others, "revoked")
    /\ grants' = Append(SetState(grants, old, "revoked"),
                        Row("account_recovery", Now(r), GrantTTL))
    /\ End(r)
    /\ UNCHANGED <<clock, status, passkeys, sessions, ceremonies>>

-----------------------------------------------------------------------------
(* The two passkey routes, authorised by the grant outside a transaction.   *)

ResolveAuthorizedRecovery(r) ==
    \E g \in DOMAIN grants, op \in {"options", "verify"}, k \in DOMAIN ceremonies \cup {0} :
        /\ Usable(grants[g], clock) /\ status = "active"
        /\ op = "options" <=> k = 0
        /\ op = "verify" => Usable(ceremonies[k], clock)
        /\ Start(r, op, g, k)

\* The fifth request of a grant's limit, and the fifth failure, revoke it.
RevokeThrottledGrant(r) ==
    /\ requests[r] # Idle /\ requests[r].op \in {"options", "verify"}
    /\ grants[requests[r].id].state = "active"
    /\ Revocable(grants, {requests[r].id}, Now(r))
    /\ grants' = SetState(grants, {requests[r].id}, "revoked")
    /\ End(r)
    /\ UNCHANGED <<clock, status, passkeys, sessions, challenges, ceremonies>>

\* The transaction looks at the account again, but not at the grant.
CreateRecoveryPasskeyRegistrationOptions(r) ==
    LET old == ToRevoke(ceremonies, "recover_register", Now(r), 0) IN
    /\ In(r, "options", "begun") /\ Len(ceremonies) < MaxCeremonies
    /\ status = "active"
    /\ Revocable(ceremonies, old, Now(r))
    /\ ceremonies' = Append(SetState(ceremonies, old, "revoked"),
                            Row("recover_register", Now(r), CeremonyTTL))
    /\ End(r)
    /\ UNCHANGED <<clock, status, passkeys, sessions, challenges, grants>>

Completable(r) ==
    /\ In(r, "verify", "begun") /\ status = "active"
    /\ Usable(grants[requests[r].id], Now(r))
    /\ Usable(ceremonies[requests[r].ceremony], Now(r))

CodesToClose(now) == ToRevoke(challenges, "recover_account", now, 0)

VerifyRecoveryPasskeyRegistration(r) ==
    LET g == requests[r].id
        k == requests[r].ceremony
        codes == CodesToClose(Now(r))
        others == ToRevoke(grants, "account_recovery", Now(r), g)
        old == ToRevoke(ceremonies, "recover_register", Now(r), k) IN
    /\ Completable(r)
    /\ Revocable(challenges, codes, Now(r)) /\ Revocable(grants, others, Now(r))
    /\ Revocable(ceremonies, old, Now(r))
    /\ passkeys' = passkeys + 1 /\ sessions' = FALSE
    /\ challenges' = SetState(challenges, codes, "revoked")
    /\ grants' = SetState(SetState(grants, {g}, "consumed"), others, "revoked")
    /\ ceremonies' = SetState(SetState(ceremonies, {k}, "consumed"), old, "revoked")
    /\ End(r)
    /\ UNCHANGED <<clock, status>>

-----------------------------------------------------------------------------
Next ==
    \/ Tick \/ SuspendAccount \/ ReactivateAccount \/ SignIn
    \/ \E r \in Requests :
        \/ Refuse(r)
        \/ RequestAccountRecovery(r) \/ RevokeActiveEmailChallenges(r) \/ CreateEmailChallenge(r)
        \/ VerifyEmail(r) \/ WrongCode(r) \/ VerifyRecoveryEmail(r)
        \/ ResolveAuthorizedRecovery(r) \/ RevokeThrottledGrant(r)
        \/ CreateRecoveryPasskeyRegistrationOptions(r) \/ VerifyRecoveryPasskeyRegistration(r)

Spec == Init /\ [][Next]_vars

-----------------------------------------------------------------------------
(* Properties.                                                             *)

Rows(purpose) ==
    [purpose : {purpose}, created : Nat, expires : Nat,
     state : {"active", "consumed", "revoked"}, tries : Nat]

\* The tables hold rows of their types, and no code is tried more often than allowed.
TypeOK ==
    /\ clock \in 0..MaxTime /\ passkeys \in Nat /\ sessions \in BOOLEAN
    /\ status \in {"active", "suspended"}
    /\ challenges \in Seq(Rows("recover_account"))
    /\ grants \in Seq(Rows("account_recovery"))
    /\ ceremonies \in Seq(Rows("recover_register"))
    /\ \A c \in DOMAIN challenges : challenges[c].tries <= MaxAttempts
    /\ \A r \in Requests : requests[r] = Idle \/ requests[r].now <= clock

Live(table) == {i \in DOMAIN table : Usable(table[i], clock)}
Consumed(table) == Cardinality({i \in DOMAIN table : table[i].state = "consumed"})

\* Every grant was bought with one code, and every passkey with one grant and one
\* ceremony, whatever requests run in between: nothing is spent twice
\* (verifyRecoveryEmail, verifyRecoveryPasskeyRegistration).
EveryStepIsPaidFor ==
    /\ Len(grants) = Consumed(challenges)
    /\ passkeys = Consumed(grants)
    /\ passkeys = Consumed(ceremonies)

\* Several codes may have been used, but only the newest grant and the newest
\* ceremony can be, so that the owner's latest recovery displaces any other.
OneLiveRecovery == Cardinality(Live(grants)) <= 1 /\ Cardinality(Live(ceremonies)) <= 1

\* A recovery closes the door behind it: at its commit no code sent before, no
\* grant, no ceremony and no session remains usable, although its time is old.
DoorsClose ==
    passkeys' # passkeys =>
        /\ Live(challenges)' = {} /\ Live(grants)' = {} /\ Live(ceremonies)' = {}
        /\ ~ sessions'
=============================================================================
