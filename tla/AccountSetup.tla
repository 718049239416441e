---------------------------- MODULE AccountSetup ----------------------------
(***************************************************************************)
(* The set-up of one member account: e-mail verification, initial password, *)
(* initial passkey.  Requests interleave statement by statement where the   *)
(* code runs without a transaction and are one step where row locks make    *)
(* them one.  Every request uses the time it read when it began, however    *)
(* late its statements run; a row may not be revoked before it was created, *)
(* so a late request can abort.                                             *)
(***************************************************************************)
EXTENDS Naturals, Sequences, FiniteSets, OneTimeRows

CONSTANTS
    Requests,           \* requests in flight at once
    Idle,               \* no request
    CodeTTL,            \* EMAIL_VERIFICATION_CODE_TTL_MINUTES
    Cooldown,           \* EMAIL_VERIFICATION_DELIVERY_COOLDOWN_SECONDS
    MaxAttempts,        \* EMAIL_VERIFICATION_MAX_ATTEMPTS
    GrantTTL,           \* SETUP_GRANT_TTL_MINUTES
    CeremonyTTL,        \* WEBAUTHN_CHALLENGE_TTL_MINUTES
    MaxTime,            \* bound: the clock stops here
    MaxCodes, MaxGrants, MaxCeremonies      \* bounds: rows of each table

SetupAssumption ==
    /\ {CodeTTL, GrantTTL, CeremonyTTL, MaxAttempts} \subseteq Nat \ {0}
    /\ {Cooldown, MaxTime, MaxCodes, MaxGrants, MaxCeremonies} \subseteq Nat
    /\ Idle \notin [op : STRING, at : STRING, now : Nat, id : Nat, ceremony : Nat]

VARIABLES
    clock,
    account,            \* the account row and what belongs to it
    challenges,         \* email_challenges, in order of insertion
    grants,             \* setup_grants
    ceremonies,         \* webauthn_challenges with purpose register
    requests            \* each request's captured time and place in its code

tables == <<account, challenges, grants, ceremonies>>
vars == <<clock, tables, requests>>

Purposes == {"verify_email", "initial_password_setup",
             "initial_passkey_registration", "register"}

\* The rows of the set-up's tables.
Rows == [purpose : Purposes, created : Nat, expires : Nat,
         state : {"active", "consumed", "revoked"}, tries : Nat]

RequiredStatus(purpose) ==
    IF purpose = "initial_password_setup" THEN "pending_password" ELSE "pending_passkey"

\* The grant still authorises its one step, as each transaction asks again.
Authorized(g, purpose, now) ==
    /\ g \in DOMAIN grants
    /\ grants[g].purpose = purpose /\ Usable(grants[g], now)
    /\ account.status = RequiredStatus(purpose)
    /\ account.verified

NoAccount == [status |-> "none", verified |-> FALSE, handle |-> FALSE,
              passwords |-> 0, passkeys |-> 0, actors |-> 0]

\* An account of the passwordless set-up that was live before passwords.
LegacyAccount == [NoAccount EXCEPT !.status = "pending_passkey", !.verified = TRUE]

Init ==
    /\ clock = 0
    /\ account \in {NoAccount, LegacyAccount}
    /\ challenges = <<>>
    /\ grants \in IF account = NoAccount THEN {<<>>}
                  ELSE {<<Row("initial_passkey_registration", 0, GrantTTL)>>}
    /\ ceremonies = <<>>
    /\ requests = [r \in Requests |-> Idle]

-----------------------------------------------------------------------------
(* Requests and their captured time.                                       *)

In(r, op, at) == requests[r] # Idle /\ requests[r].op = op /\ requests[r].at = at
Now(r) == requests[r].now
Goto(r, at) == requests' = [requests EXCEPT ![r].at = at]
End(r) == requests' = [requests EXCEPT ![r] = Idle]

Start(r, op, id, ceremony) ==
    /\ requests[r] = Idle
    /\ requests' = [requests EXCEPT ![r] =
         [op |-> op, at |-> "begun", now |-> clock, id |-> id, ceremony |-> ceremony]]
    /\ UNCHANGED <<clock, tables>>

Tick == clock < MaxTime /\ clock' = clock + 1 /\ UNCHANGED <<tables, requests>>

\* A request that is refused, throttled, disconnected or killed changes nothing more.
Refuse(r) == requests[r] # Idle /\ End(r) /\ UNCHANGED <<clock, tables>>

-----------------------------------------------------------------------------
(* POST /v1/auth/email/verification: no transaction, three statements.      *)

Pending(status) == status \in {"pending_email", "pending_password", "pending_passkey"}

RequestEmailVerification(r) == Start(r, "request", 0, 0)

\* The account row and its e-mail; a second creator finds the first one's row.
EnsurePendingEmailAccount(r) ==
    /\ In(r, "request", "begun") /\ account.status = "none"
    /\ account' = [account EXCEPT !.status = "pending_email"]
    /\ UNCHANGED <<clock, challenges, grants, ceremonies, requests>>

\* The latest code must be older than the cool-down.
LatestIsOld(now) ==
    \A i \in DOMAIN challenges : now >= challenges[i].created + Cooldown

FindLatestChallenge(r) ==
    /\ In(r, "request", "begun") /\ Pending(account.status)
    /\ LatestIsOld(Now(r))
    /\ Goto(r, "revoke")
    /\ UNCHANGED <<clock, tables>>

RevokeActiveEmailChallenges(r) ==
    LET old == ToRevoke(challenges, "verify_email", Now(r), 0) IN
    /\ In(r, "request", "revoke")
    /\ Revocable(challenges, old, Now(r))
    /\ challenges' = SetState(challenges, old, "revoked")
    /\ Goto(r, "create")
    /\ UNCHANGED <<clock, account, grants, ceremonies>>

CreateEmailChallenge(r) ==
    /\ In(r, "request", "create") /\ Len(challenges) < MaxCodes
    /\ challenges' = Append(challenges, Row("verify_email", Now(r), CodeTTL))
    /\ End(r)
    /\ UNCHANGED <<clock, account, grants, ceremonies>>

-----------------------------------------------------------------------------
(* POST /v1/auth/email/verification/complete: one transaction on the rows   *)
(* of the challenge, the account and its e-mail.                            *)

Complete(r) == \E c \in DOMAIN challenges : Start(r, "complete", c, 0)

\* Mutant: the count of wrong codes is not looked at.
AcceptAnyAttempt(r) ==
    LET c == challenges[requests[r].id] IN
    /\ In(r, "complete", "begun")
    /\ Usable(c, Now(r)) /\ Pending(account.status)
    /\ account.status = "pending_email" => ~account.verified

ChallengeAccepted(r) ==
    LET c == challenges[requests[r].id] IN
    /\ In(r, "complete", "begun")
    /\ Usable(c, Now(r)) /\ c.tries < MaxAttempts
    /\ Pending(account.status)
    /\ account.status = "pending_email" => ~account.verified

WrongCode(r) ==
    /\ ChallengeAccepted(r)
    /\ challenges' = [challenges EXCEPT ![requests[r].id].tries = @ + 1]
    /\ End(r)
    /\ UNCHANGED <<clock, account, grants, ceremonies>>

MissingRequiredPassword ==
    account.status = "pending_passkey" /\ account.passwords = 0

SetupPurpose ==
    IF account.status = "pending_passkey" /\ ~MissingRequiredPassword
    THEN "initial_passkey_registration" ELSE "initial_password_setup"

\* A passkey grant goes too when the account must first set a password.
SupersededGrants(now) ==
    ToRevoke(grants, SetupPurpose, now, 0) \cup
    (IF MissingRequiredPassword
     THEN ToRevoke(grants, "initial_passkey_registration", now, 0) ELSE {})

CompleteEmailVerification(r) ==
    LET c == requests[r].id
        others == ToRevoke(challenges, "verify_email", Now(r), c)
        old == SupersededGrants(Now(r)) IN
    /\ ChallengeAccepted(r) /\ Len(grants) < MaxGrants
    /\ Revocable(challenges, others, Now(r)) /\ Revocable(grants, old, Now(r))
    /\ challenges' = SetState(SetState(challenges, {c}, "consumed"), others, "revoked")
    /\ grants' = Append(SetState(grants, old, "revoked"),
                        Row(SetupPurpose, Now(r), GrantTTL))
    /\ account' = [account EXCEPT !.verified = TRUE,
         !.status = IF @ = "pending_email" \/ MissingRequiredPassword
                    THEN "pending_password" ELSE @]
    /\ End(r)
    /\ UNCHANGED <<clock, ceremonies>>

-----------------------------------------------------------------------------
(* POST /v1/auth/password/setup: resolve, hash, then one transaction.       *)

ResolveAuthorizedPasswordSetup(r) ==
    \E g \in DOMAIN grants :
        /\ Authorized(g, "initial_password_setup", clock)
        /\ Start(r, "password", g, 0)

\* The rate limit of a grant, counted elsewhere, revokes it.
RevokeThrottledGrant(r) ==
    /\ requests[r] # Idle /\ requests[r].op \in {"password", "options", "verify"}
    /\ requests[r].at = "begun" /\ grants[requests[r].id].state = "active"
    /\ grants' = SetState(grants, {requests[r].id}, "revoked")
    /\ End(r)
    /\ UNCHANGED <<clock, account, challenges, ceremonies>>

\* Mutant: the transaction does not look at the grant and the account again.
SetupPasswordUnchecked(r) ==
    LET g == requests[r].id IN
    /\ In(r, "password", "begun") /\ Len(grants) < MaxGrants
    /\ account' = [account EXCEPT !.passwords = @ + 1, !.status = "pending_passkey"]
    /\ grants' = Append(SetState(grants, {g}, "consumed"),
                        Row("initial_passkey_registration", Now(r), GrantTTL))
    /\ End(r)
    /\ UNCHANGED <<clock, challenges, ceremonies>>

CompleteInitialPasswordSetup(r) ==
    LET g == requests[r].id
        old == ToRevoke(grants, "initial_password_setup", Now(r), g) IN
    /\ In(r, "password", "begun") /\ Len(grants) < MaxGrants
    /\ Authorized(g, "initial_password_setup", Now(r))
    /\ account.passwords = 0
    /\ Revocable(grants, old, Now(r))
    /\ account' = [account EXCEPT !.passwords = 1, !.status = "pending_passkey"]
    /\ grants' = Append(SetState(SetState(grants, {g}, "consumed"), old, "revoked"),
                        Row("initial_passkey_registration", Now(r), GrantTTL))
    /\ End(r)
    /\ UNCHANGED <<clock, challenges, ceremonies>>

-----------------------------------------------------------------------------
(* POST /v1/auth/passkeys/registration/options and .../verify.              *)

ResolveAuthorizedSetup(r) ==
    \E g \in DOMAIN grants, op \in {"options", "verify"}, k \in DOMAIN ceremonies \cup {0} :
        /\ Authorized(g, "initial_passkey_registration", clock)
        /\ op = "options" <=> k = 0
        /\ op = "verify" => Usable(ceremonies[k], clock) /\ account.handle
        /\ Start(r, op, g, k)

\* Outside the transaction; a second caller keeps the first one's handle.
EnsureWebAuthnUserHandle(r) ==
    /\ In(r, "options", "begun")
    /\ account' = [account EXCEPT !.handle = TRUE]
    /\ Goto(r, "handle")
    /\ UNCHANGED <<clock, challenges, grants, ceremonies>>

CreatePasskeyRegistrationOptions(r) ==
    LET old == ToRevoke(ceremonies, "register", Now(r), 0) IN
    /\ In(r, "options", "handle") /\ Len(ceremonies) < MaxCeremonies
    /\ account.status = "pending_passkey"
    /\ Revocable(ceremonies, old, Now(r))
    /\ ceremonies' = Append(SetState(ceremonies, old, "revoked"),
                            Row("register", Now(r), CeremonyTTL))
    /\ End(r)
    /\ UNCHANGED <<clock, account, challenges, grants>>

\* Mutant: activation does not ask for a password (assertActiveRequirements).
ActivateWithoutPassword(r) ==
    LET g == requests[r].id
        k == requests[r].ceremony IN
    /\ In(r, "verify", "begun")
    /\ Authorized(g, "initial_passkey_registration", Now(r)) /\ account.handle
    /\ Usable(ceremonies[k], Now(r))
    /\ account' = [account EXCEPT !.passkeys = @ + 1, !.actors = @ + 1, !.status = "active"]
    /\ grants' = SetState(grants, {g}, "consumed")
    /\ ceremonies' = SetState(ceremonies, {k}, "consumed")
    /\ End(r)
    /\ UNCHANGED <<clock, challenges>>

VerifyPasskeyRegistration(r) ==
    LET g == requests[r].id
        k == requests[r].ceremony
        old == ToRevoke(ceremonies, "register", Now(r), k) IN
    /\ In(r, "verify", "begun")
    /\ Authorized(g, "initial_passkey_registration", Now(r)) /\ account.handle
    /\ Usable(ceremonies[k], Now(r))
    /\ account.passwords >= 1 /\ account.actors = 0
    /\ Revocable(ceremonies, old, Now(r))
    /\ account' = [account EXCEPT !.passkeys = @ + 1, !.actors = @ + 1, !.status = "active"]
    /\ grants' = SetState(grants, {g}, "consumed")
    /\ ceremonies' = SetState(SetState(ceremonies, {k}, "consumed"), old, "revoked")
    /\ End(r)
    /\ UNCHANGED <<clock, challenges>>

-----------------------------------------------------------------------------
Next ==
    \/ Tick
    \/ \E r \in Requests :
        \/ Refuse(r)
        \/ RequestEmailVerification(r) \/ EnsurePendingEmailAccount(r)
        \/ FindLatestChallenge(r) \/ RevokeActiveEmailChallenges(r) \/ CreateEmailChallenge(r)
        \/ Complete(r) \/ WrongCode(r) \/ CompleteEmailVerification(r)
        \/ ResolveAuthorizedPasswordSetup(r) \/ RevokeThrottledGrant(r)
        \/ CompleteInitialPasswordSetup(r)
        \/ ResolveAuthorizedSetup(r) \/ EnsureWebAuthnUserHandle(r)
        \/ CreatePasskeyRegistrationOptions(r) \/ VerifyPasskeyRegistration(r)

Spec == Init /\ [][Next]_vars

-----------------------------------------------------------------------------
(* Properties.                                                             *)

\* The tables hold rows of their types, and the counts are those of one member.
TypeOK ==
    /\ clock \in 0..MaxTime
    /\ account.status \in {"none", "pending_email", "pending_password", "pending_passkey", "active"}
    /\ {account.passwords, account.passkeys, account.actors} \subseteq Nat
    /\ {account.verified, account.handle} \subseteq BOOLEAN
    /\ {challenges, grants, ceremonies} \subseteq Seq(Rows)
    /\ \A c \in DOMAIN challenges : challenges[c].tries <= MaxAttempts
    /\ \A r \in Requests : requests[r] = Idle \/
         (requests[r].now <= clock /\ requests[r].ceremony \in 0..Len(ceremonies))

Consumed(table, purpose) ==
    Cardinality({i \in DOMAIN table :
        table[i].purpose = purpose /\ table[i].state = "consumed"})

\* Every password and every passkey of the set-up was paid for with one grant,
\* and every grant that was spent set one: no request spends a grant twice, and
\* none that fails half way keeps what it wrote (password-setup and
\* passkey-registration services, consumeSetupGrant).
StepsAreAuthorised ==
    /\ Consumed(grants, "initial_password_setup") = account.passwords
    /\ Consumed(grants, "initial_passkey_registration") = account.passkeys
    /\ account.passkeys = Consumed(ceremonies, "register")
    /\ account.passkeys = account.actors
    /\ account.passkeys = 1 <=> account.status = "active"

LiveGrants == {g \in DOMAIN grants : Usable(grants[g], clock)}

\* Whatever order codes, passwords and repairs arrive in, at most one grant can
\* still be used, and it is for the step the account is waiting for
\* (completeEmailVerification, completeInitialPasswordSetup).  Only a request
\* that outlives its own grant can leave one behind, on an active account.
OneLiveGrantForTheNextStep ==
    /\ Cardinality(LiveGrants) <= 1
    /\ \A g \in LiveGrants : account.status \in {RequiredStatus(grants[g].purpose), "active"}

\* At most one registration ceremony can be answered (createPasskeyRegistrationOptions).
OneLiveCeremony ==
    Cardinality({k \in DOMAIN ceremonies : Usable(ceremonies[k], clock)}) <= 1

\* A resend leaves one code that can be used (README.md:332).
OneLiveCode ==
    Cardinality({c \in DOMAIN challenges : Usable(challenges[c], clock)}) <= 1

\* The set-up refines the account's promises: the order of the steps, the
\* factors each step needs, and the one way back.
Factors ==
    (IF account.verified THEN {"email"} ELSE {}) \cup
    (IF account.passwords > 0 THEN {"password"} ELSE {}) \cup
    (IF account.handle THEN {"handle"} ELSE {}) \cup
    (IF account.passkeys > 0 THEN {"passkey"} ELSE {}) \cup
    (IF account.actors > 0 THEN {"actor"} ELSE {})

Lifecycle == INSTANCE AccountLifecycle WITH status <- account.status, factors <- Factors
ImplementsLifecycle == Lifecycle!Spec
=============================================================================
