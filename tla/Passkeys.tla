------------------------------ MODULE Passkeys ------------------------------
(* The passkeys of an account and the challenges their ceremonies answer:    *)
(* sign-in, reauthentication, adding, renaming and revoking.  A request      *)
(* takes its time, reads the challenge and the passkey and verifies what the *)
(* authenticator signed; its transaction comes later, and finds both as      *)
(* other requests have left them.  Of sessions there is only the member's    *)
(* current one, which a successful management ceremony replaces.             *)
EXTENDS Naturals, Sequences, FiniteSets

CONSTANTS
    Keys,        \* credential ids
    Counting,    \* those whose authenticator has a signature counter
    First,       \* the passkey of the set-up
    Requests, Idle,
    ChallengeTTL,     \* ..._CHALLENGE_TTL_MINUTES
    Backups,          \* bound: the backup states that are asserted
    MaxTime, MaxChallenges, MaxRenames, MaxSigned    \* bounds: clock, challenges, labels, counters

PasskeysAssumption ==
    /\ Counting \subseteq Keys /\ First \in Keys /\ Backups \subseteq BOOLEAN
    /\ ChallengeTTL \in Nat \ {0} /\ {MaxTime, MaxChallenges, MaxRenames, MaxSigned} \subseteq Nat

VARIABLES
    clock,
    credentials,  \* passkey_credentials: status, sign count, backup and label
    devices,      \* external: the counter of each authenticator
    challenges,   \* webauthn_challenges, in order of insertion
    session,      \* which session of the member is the current one
    requests,
    accepted      \* history: the assertions that were accepted

vars == <<clock, credentials, devices, challenges, session, requests, accepted>>

Purposes == {"signIn", "reauthenticate", "add"}

Init ==
    /\ clock = 0 /\ session = 1
    /\ credentials = [k \in Keys |->
           [status |-> IF k = First THEN "active" ELSE "none", count |-> 0,
            backed |-> FALSE, label |-> 0]]
    /\ devices = [k \in Keys |-> 0]
    /\ challenges = <<>> /\ accepted = <<>>
    /\ requests = [r \in Requests |-> Idle]

At(r, kind, at) == requests[r] # Idle /\ requests[r].kind = kind /\ requests[r].at = at
End(r) == requests' = [requests EXCEPT ![r] = Idle]
Active == {k \in Keys : credentials[k].status = "active"}
Others(k) == Active \ {k}

Begin(r, kind, at, c, k, n, backed) ==
    /\ requests[r] = Idle
    /\ requests' = [requests EXCEPT ![r] =
           [kind |-> kind, at |-> at, time |-> clock, session |-> session,
            challenge |-> c, key |-> k, count |-> n, backed |-> backed]]
    /\ UNCHANGED <<clock, credentials, challenges, session, accepted>>

Tick ==
    /\ clock < MaxTime /\ clock' = clock + 1
    /\ UNCHANGED <<credentials, devices, challenges, session, requests, accepted>>

\* Refused by a check, failed, or killed.
Refuse(r) ==
    /\ requests[r] # Idle /\ End(r)
    /\ UNCHANGED <<clock, credentials, devices, challenges, session, accepted>>

-----------------------------------------------------------------------------
(* Options: a challenge, which replaces the session's open ones.             *)

SignInOptions(r) ==
    /\ Begin(r, "signIn", "insert", 0, First, 0, FALSE) /\ UNCHANGED devices

ReauthenticationOptions(r) ==
    /\ Begin(r, "reauthenticate", "revoke", 0, First, 0, FALSE) /\ UNCHANGED devices

RegistrationOptions(r) ==
    /\ Begin(r, "add", "revoke", 0, First, 0, FALSE) /\ UNCHANGED devices

Open(c, time) == challenges[c].state = "open" /\ time < challenges[c].expires

\* The update does not see the challenges of transactions that are still open.
RevokeActiveChallenges(r) ==
    /\ requests[r] # Idle /\ requests[r].at = "revoke"
    /\ challenges' = [c \in DOMAIN challenges |->
           IF /\ challenges[c].purpose = requests[r].kind
              /\ challenges[c].session = requests[r].session /\ Open(c, requests[r].time)
           THEN [challenges[c] EXCEPT !.state = "revoked"] ELSE challenges[c]]
    /\ requests' = [requests EXCEPT ![r].at = "insert"]
    /\ UNCHANGED <<clock, credentials, devices, session, accepted>>

CreateWebAuthnChallenge(r) ==
    /\ requests[r] # Idle /\ requests[r].at = "insert" /\ Len(challenges) < MaxChallenges
    /\ challenges' = Append(challenges,
           [purpose |-> requests[r].kind, state |-> "open",
            session |-> IF requests[r].kind = "signIn" THEN 0 ELSE requests[r].session,
            expires |-> requests[r].time + ChallengeTTL])
    /\ End(r)
    /\ UNCHANGED <<clock, credentials, devices, session, accepted>>

-----------------------------------------------------------------------------
(* The authenticator signs, and the request arrives with what it signed.     *)

Sign(r, kind, c, k, backed) ==
    /\ credentials[k].status # "none" /\ devices[k] < MaxSigned
    /\ devices' = IF k \in Counting THEN [devices EXCEPT ![k] = @ + 1] ELSE devices
    /\ Begin(r, kind, "check", c, k, devices'[k], backed)

SignIn(r, c, k, backed) == Sign(r, "signIn", c, k, backed)
Reauthenticate(r, c, k, backed) == Sign(r, "reauthenticate", c, k, backed)

AddPasskey(r, c, k, backed) ==
    /\ credentials[k].status = "none"
    /\ Begin(r, "add", "check", c, k, devices[k], backed) /\ UNCHANGED devices

\* The challenge is of this purpose and, but for a sign-in, of this session.
BoundTo(r, c) ==
    /\ challenges[c].purpose = requests[r].kind
    /\ challenges[c].session \in {0, requests[r].session}

evaluateCounterPolicy(stored, new) == (stored = 0 /\ new = 0) \/ new > stored

resolveBackupState(stored, asserted) == stored \/ asserted

\* What is read before the transaction.
CheckAssertion(r) ==
    LET q == requests[r] IN
    /\ q # Idle /\ q.at = "check" /\ q.kind \in {"signIn", "reauthenticate"}
    /\ BoundTo(r, q.challenge) /\ Open(q.challenge, q.time)
    /\ q.key \in Active
    /\ evaluateCounterPolicy(credentials[q.key].count, q.count)
    /\ requests' = [requests EXCEPT ![r].at = "commit",
           ![r].backed = resolveBackupState(credentials[q.key].backed, q.backed)]
    /\ UNCHANGED <<clock, credentials, devices, challenges, session, accepted>>

CheckRegistration(r) ==
    /\ At(r, "add", "check")
    /\ BoundTo(r, requests[r].challenge) /\ Open(requests[r].challenge, requests[r].time)
    /\ requests' = [requests EXCEPT ![r].at = "commit"]
    /\ UNCHANGED <<clock, credentials, devices, challenges, session, accepted>>

-----------------------------------------------------------------------------
(* The transactions.                                                         *)

Consume(r) ==
    /\ Open(requests[r].challenge, requests[r].time)
    /\ challenges' = [challenges EXCEPT ![requests[r].challenge].state = "consumed"]

updatePasskeyAuthenticationState(r) ==
    /\ requests[r].key \in Active
    /\ credentials' = [credentials EXCEPT ![requests[r].key].count = requests[r].count,
                                          ![requests[r].key].backed = requests[r].backed]

Accept(r) ==
    /\ accepted' = Append(accepted, [kind |-> requests[r].kind, key |-> requests[r].key,
           challenge |-> requests[r].challenge, count |-> requests[r].count])
    /\ End(r)

\* A plausible bug: the counter is not looked at again under the lock.
SignInWithoutRecheck(r) ==
    /\ At(r, "signIn", "commit")
    /\ Consume(r) /\ updatePasskeyAuthenticationState(r) /\ Accept(r)
    /\ UNCHANGED <<clock, devices, session>>

\* The counter is evaluated again on the locked row; the backup state is not.
VerifyPasskeyAuthentication(r) ==
    /\ At(r, "signIn", "commit")
    /\ evaluateCounterPolicy(credentials[requests[r].key].count, requests[r].count)
    /\ Consume(r) /\ updatePasskeyAuthenticationState(r) /\ Accept(r)
    /\ UNCHANGED <<clock, devices, session>>

\* The session that the request was resolved with must still be the current one.
RotateSession(r) == requests[r].session = session /\ session' = session + 1

VerifyPasskeyReauthentication(r) ==
    /\ At(r, "reauthenticate", "commit")
    /\ Consume(r) /\ updatePasskeyAuthenticationState(r) /\ RotateSession(r) /\ Accept(r)
    /\ UNCHANGED <<clock, devices>>

\* The credential id is a unique key: a second row of it aborts the transaction.
VerifyManagedPasskeyRegistration(r) ==
    LET k == requests[r].key IN
    /\ At(r, "add", "commit")
    /\ credentials[k].status = "none"
    /\ credentials' = [credentials EXCEPT ![k] =
           [@ EXCEPT !.status = "active", !.count = requests[r].count, !.backed = requests[r].backed]]
    /\ Consume(r) /\ RotateSession(r) /\ Accept(r)
    /\ UNCHANGED <<clock, devices>>

-----------------------------------------------------------------------------
(* Labels and revocation.                                                    *)

RenamePasskey(r, k) ==
    /\ k \in Active
    /\ Begin(r, "rename", "update", 0, k, 0, FALSE) /\ UNCHANGED devices

updatePasskeyLabel(r) ==
    LET k == requests[r].key IN
    /\ At(r, "rename", "update") /\ k \in Active /\ credentials[k].label < MaxRenames
    /\ credentials' = [credentials EXCEPT ![k].label = @ + 1]
    /\ End(r)
    /\ UNCHANGED <<clock, devices, challenges, session, accepted>>

RevokePasskey(r, k) ==
    /\ k \in Active
    /\ Begin(r, "revoke", "commit", 0, k, 0, FALSE) /\ UNCHANGED devices

\* Not the last one of the account.
RevokeManagedPasskey(r) ==
    LET k == requests[r].key IN
    /\ At(r, "revoke", "commit") /\ k \in Active /\ Others(k) # {}
    /\ credentials' = [credentials EXCEPT ![k].status = "revoked"]
    /\ RotateSession(r) /\ End(r)
    /\ UNCHANGED <<clock, devices, challenges, accepted>>

Next ==
    \/ Tick
    \/ \E r \in Requests :
        \/ SignInOptions(r) \/ ReauthenticationOptions(r) \/ RegistrationOptions(r)
        \/ RevokeActiveChallenges(r) \/ CreateWebAuthnChallenge(r)
        \/ \E k \in Keys :
            \/ RenamePasskey(r, k) \/ RevokePasskey(r, k)
            \/ \E c \in DOMAIN challenges, backed \in Backups :
                \/ SignIn(r, c, k, backed) \/ Reauthenticate(r, c, k, backed)
                \/ AddPasskey(r, c, k, backed)
        \/ CheckAssertion(r) \/ CheckRegistration(r)
        \/ VerifyPasskeyAuthentication(r) \/ VerifyPasskeyReauthentication(r)
        \/ VerifyManagedPasskeyRegistration(r)
        \/ updatePasskeyLabel(r) \/ RevokeManagedPasskey(r) \/ Refuse(r)

Spec == Init /\ [][Next]_vars

-----------------------------------------------------------------------------
\* Rows of passkey_credentials and of webauthn_challenges.
CredentialRows == [Keys -> [status : {"none", "active", "revoked"}, count : Nat,
                            backed : BOOLEAN, label : Nat]]
ChallengeRows == [purpose : Purposes, state : {"open", "consumed", "revoked"},
                  session : Nat, expires : Nat]

(* Type correctness.                                                         *)
TypeOK ==
    /\ clock \in 0..MaxTime /\ session \in Nat
    /\ credentials \in CredentialRows /\ challenges \in Seq(ChallengeRows)
    /\ \A k \in Keys : credentials[k].count <= devices[k]

(* A challenge is answered once, whichever requests found it open together,  *)
(* and it is marked consumed exactly when a ceremony succeeded with it.      *)
ChallengesAreUsedOnce ==
    /\ \A i, j \in DOMAIN accepted :
        accepted[i].challenge = accepted[j].challenge => i = j
    /\ \A c \in DOMAIN challenges : challenges[c].state = "consumed" <=>
        \E i \in DOMAIN accepted : accepted[i].challenge = c

(* The account is never without a passkey, and a revoked one stays as it was *)
(* when it was revoked: no sign-in, no reauthentication and no renaming that *)
(* found it active before touches it after.                                  *)
RevokedStays ==
    /\ Active' # {}
    /\ \A k \in Keys : credentials[k].status = "revoked" => credentials'[k] = credentials[k]

(* No sign-in lowers the counter that it was checked against before its      *)
(* transaction: only a reauthentication may.                                 *)
SignInRaises ==
    \A k \in Keys : credentials'[k].count < credentials[k].count =>
        \E i \in DOMAIN accepted' : i > Len(accepted) /\ accepted'[i].kind = "reauthenticate"

(* "Repeated or decreasing positive counters are rejected".                  *)
CountsOnlyRise == [][\A k \in Keys : credentials'[k].count >= credentials[k].count]_vars

(* "backed_up is monotonic and never downgraded".  The new state is computed *)
(* from the row that was read before the transaction.                        *)
BackedUpIsMonotonic ==
    [][\A k \in Keys : credentials[k].backed => credentials'[k].backed]_vars
=============================================================================
