------------------------------ MODULE Sessions ------------------------------
(***************************************************************************)
(* The sessions of one account: sign-in, use, rotation, sign-out, change of *)
(* password, management of passkeys, recovery and suspension.               *)
(*                                                                          *)
(* A request resolves its session without locks, then works with the row it *)
(* read and the time it captured; only its last transaction, serialised by  *)
(* the row lock of the account, is one step.                                *)
(***************************************************************************)
EXTENDS Integers, Sequences, FiniteSets

CONSTANTS
    Keys, NoKey,        \* passkeys, and the absence of one
    FirstKey,           \* the passkey of the set-up
    Requests, Idle,     \* requests in flight, and the absence of one
    IdleTimeout,        \* SESSION_IDLE_TIMEOUT_MINUTES
    AbsoluteTimeout,    \* SESSION_ABSOLUTE_TIMEOUT_HOURS
    TouchInterval,      \* SESSION_TOUCH_MIN_INTERVAL_MS
    Freshness,          \* PASSKEY_FRESHNESS_MINUTES, SESSION_SENSITIVE_FRESHNESS_MINUTES
    CeremonyTTL,        \* MANAGE_PASSKEYS_CHALLENGE_TTL_MINUTES
    MaxTime, MaxSessions, MaxPasswords,     \* bounds: clock, rows, changes of password
    Operations          \* bound: the operations that are requested

SessionOperations == {"visit", "rotate", "logout", "logoutAll", "changePassword",
                      "options", "reauthenticate", "addPasskey", "revokePasskey"}
SignIns == {"passwordSignIn", "passkeySignIn"}
Revocations == {"recover", "suspend"}

\* A request in flight: what it resolved, captured and read; session 0 is none.
Request == [op : SessionOperations \cup SignIns \cup Revocations, at : {"touch", "begun"},
            now : Nat, session : Nat, key : Keys \cup {NoKey}, password : Nat, seen : Nat]

ASSUME SessionsAssumption ==
    /\ {IdleTimeout, AbsoluteTimeout, CeremonyTTL, MaxPasswords} \subseteq Nat \ {0}
    /\ {TouchInterval, Freshness, MaxTime, MaxSessions} \subseteq Nat
    /\ FirstKey \in Keys /\ NoKey \notin Keys /\ IsFiniteSet(Keys)
    /\ Idle \notin Request

VARIABLES
    clock,
    status,         \* accounts.status: active or suspended
    password,       \* which password credential is not revoked
    keys,           \* passkey_credentials
    sessions,       \* account_sessions, in order of insertion
    ceremonies,     \* open manage_passkeys challenges, each bound to a session
    requests

account == <<status, password, keys>>
vars == <<clock, account, sessions, ceremonies, requests>>

Never == -1

Session == [chain : Nat, created : Nat, seen : Nat, idle : Nat, until : Nat,
            fresh : Nat \cup {Never}, key : Keys \cup {NoKey},
            revoked : BOOLEAN,
            \* history: an end of all sessions came after its sign-in; its last
            \* proof of presence; the password it was opened with (0: none)
            ended : BOOLEAN, proof : Nat \cup {Never}, password : Nat]

Min2(a, b) == IF a < b THEN a ELSE b

ComputeIdleExpiresAt(at, until) == Min2(at + IdleTimeout, until)

IsSessionActive(s, now) == ~s.revoked /\ now < s.until /\ now < s.idle

ActiveKeys == {k \in Keys : keys[k] = "active"}

Init ==
    /\ clock = 0
    /\ status = "active" /\ password = 1
    /\ keys = [k \in Keys |-> IF k = FirstKey THEN "active" ELSE "none"]
    /\ sessions = <<>> /\ ceremonies = {}
    /\ requests = [r \in Requests |-> Idle]

-----------------------------------------------------------------------------
(* Requests.                                                               *)

In(r, op, at) == requests[r] # Idle /\ requests[r].op = op /\ requests[r].at = at
Now(r) == requests[r].now
Own(r) == requests[r].session
End(r) == requests' = [requests EXCEPT ![r] = Idle]

Begin(r, op, at, s, key) ==
    /\ requests[r] = Idle
    /\ requests' = [requests EXCEPT ![r] =
         [op |-> op, at |-> at, now |-> clock, session |-> s, key |-> key,
          password |-> IF op \in {"passwordSignIn", "changePassword"} THEN password ELSE 0,
          seen |-> IF at = "touch" THEN sessions[s].seen ELSE 0]]
    /\ UNCHANGED <<clock, account, sessions, ceremonies>>

Tick ==
    /\ clock < MaxTime /\ clock' = clock + 1
    /\ UNCHANGED <<account, sessions, ceremonies, requests>>

\* Refused, failed, aborted by the database, or killed: nothing more happens.
Refuse(r) ==
    /\ requests[r] # Idle /\ End(r)
    /\ UNCHANGED <<clock, account, sessions, ceremonies>>

\* resolveActiveSession, and touchAccountSession's first read of the row.
ResolveActiveSession(r) ==
    \E op \in SessionOperations \cap Operations, s \in DOMAIN sessions, key \in Keys :
        /\ op \notin {"reauthenticate", "addPasskey", "revokePasskey"} => key = FirstKey
        /\ IsSessionActive(sessions[s], clock) /\ status = "active"
        /\ LET untouched == clock - sessions[s].seen < TouchInterval IN
             /\ ~(op = "visit" /\ untouched)
             /\ Begin(r, op, IF untouched THEN "begun" ELSE "touch", s, key)

CaptureFirst == {"rotate", "logout", "logoutAll"}

\* touchAccountSession's update: what it writes was computed from the row it
\* read.  Some operations have captured the clock before; the others read it again.
TouchAccountSession(r) ==
    LET s == Own(r)
        seen == IF requests[r].seen < Now(r) THEN Now(r) ELSE requests[r].seen IN
    /\ requests[r] # Idle /\ requests[r].at = "touch"
    /\ IsSessionActive(sessions[s], Now(r))
    /\ sessions' = [sessions EXCEPT ![s].seen = seen,
                        ![s].idle = ComputeIdleExpiresAt(seen, sessions[s].until)]
    /\ requests' = [requests EXCEPT ![r] =
         IF requests[r].op = "visit" THEN Idle
         ELSE [requests[r] EXCEPT !.at = "begun", !.seen = 0,
                   !.now = IF requests[r].op \in CaptureFirst THEN Now(r) ELSE clock]]
    /\ UNCHANGED <<clock, account, ceremonies>>

-----------------------------------------------------------------------------
(* Sign-in.                                                                *)

BeginSignIn(r) ==
    \/ Begin(r, "passwordSignIn", "begun", 0, NoKey)
    \/ \E k \in ActiveKeys : Begin(r, "passkeySignIn", "begun", 0, k)

\* createAccountSession for an account that is active and has its credentials.
CreateAccountSession(r) ==
    /\ status = "active" /\ Len(sessions) < MaxSessions
    /\ sessions' = Append(sessions,
         [chain |-> Len(sessions) + 1, created |-> Now(r), seen |-> Now(r),
          idle |-> ComputeIdleExpiresAt(Now(r), Now(r) + AbsoluteTimeout),
          until |-> Now(r) + AbsoluteTimeout, fresh |-> Never,
          key |-> requests[r].key, revoked |-> FALSE, ended |-> FALSE, proof |-> Never,
          password |-> IF requests[r].key = NoKey THEN requests[r].password ELSE 0])
    /\ End(r)
    /\ UNCHANGED <<clock, account, ceremonies>>

\* Mutant: the transaction does not compare the credential it locked with the
\* one that was verified before it.
SignInWithoutRecheck(r) == In(r, "passwordSignIn", "begun") /\ CreateAccountSession(r)

\* The password that was verified is still the account's.
AuthenticateWithPassword(r) ==
    /\ In(r, "passwordSignIn", "begun")
    /\ requests[r].password = password
    /\ CreateAccountSession(r)

VerifyPasskeyAuthentication(r) ==
    /\ In(r, "passkeySignIn", "begun")
    /\ requests[r].key \in ActiveKeys
    /\ CreateAccountSession(r)

-----------------------------------------------------------------------------
(* Rotation and revocation of rows.                                        *)

\* CHECK (revoked_at >= created_at): a late request aborts on a younger session.
MayRevoke(rows, now) ==
    \A s \in DOMAIN rows : rows[s].revoked \/ rows[s].created <= now

RevokeMatching(rows, kept) ==
    [s \in DOMAIN rows |-> IF s = kept THEN rows[s] ELSE [rows[s] EXCEPT !.revoked = TRUE]]

\* history
Ended(rows, kept) == [s \in DOMAIN rows |-> [rows[s] EXCEPT !.ended = s # kept]]

\* The replacement keeps the chain's sign-in and absolute expiry.
Rotated(s, now, fresh, key) ==
    Append([sessions EXCEPT ![s].revoked = TRUE],
           [sessions[s] EXCEPT !.seen = now, !.fresh = fresh, !.key = key,
                !.revoked = FALSE, !.idle = ComputeIdleExpiresAt(now, sessions[s].until)])

\* Mutant: a session that was already rotated or revoked is replaced too.
AnyRotatable(s, now) == Len(sessions) < MaxSessions

Rotatable(s, now) == IsSessionActive(sessions[s], now) /\ Len(sessions) < MaxSessions

\* Mutant: every rotation counts as a proof of presence.
RotateAsFresh(r) ==
    LET s == Own(r) IN
    /\ In(r, "rotate", "begun") /\ Rotatable(s, Now(r))
    /\ sessions' = Rotated(s, Now(r), Now(r), sessions[s].key)
    /\ End(r)
    /\ UNCHANGED <<clock, account, ceremonies>>

RotateCurrentSession(r) ==
    LET s == Own(r) IN
    /\ In(r, "rotate", "begun") /\ Rotatable(s, Now(r))
    /\ sessions' = Rotated(s, Now(r), sessions[s].fresh, sessions[s].key)
    /\ End(r)
    /\ UNCHANGED <<clock, account, ceremonies>>

LogoutCurrentSession(r) ==
    /\ In(r, "logout", "begun")
    /\ sessions' = [sessions EXCEPT ![Own(r)].revoked = TRUE]
    /\ End(r)
    /\ UNCHANGED <<clock, account, ceremonies>>

LogoutAllSessions(r) ==
    /\ In(r, "logoutAll", "begun")
    /\ Now(r) - sessions[Own(r)].created <= Freshness
    /\ MayRevoke(sessions, Now(r))
    /\ sessions' = Ended(RevokeMatching(sessions, 0), 0)
    /\ End(r)
    /\ UNCHANGED <<clock, account, ceremonies>>

\* Rotate the request's session and revoke every other one.
KeepOnlyReplacement(r, fresh, key, proof, current) ==
    LET rows == Rotated(Own(r), Now(r), fresh, key)
        new == Len(rows)
        shown == IF rows[new].password = 0 THEN 0 ELSE current IN
    /\ Rotatable(Own(r), Now(r))
    /\ MayRevoke(rows, Now(r))
    /\ sessions' = Ended([RevokeMatching(rows, new) EXCEPT ![new].password = shown,
                                                         ![new].proof = proof], new)
    /\ End(r)

-----------------------------------------------------------------------------
(* Change of password.                                                     *)

ChangeAccountPassword(r) ==
    /\ In(r, "changePassword", "begun") /\ password < MaxPasswords
    /\ status = "active" /\ requests[r].password = password
    /\ password' = password + 1
    /\ KeepOnlyReplacement(r, Now(r), sessions[Own(r)].key, Now(r), password + 1)
    /\ UNCHANGED <<clock, status, keys, ceremonies>>

-----------------------------------------------------------------------------
(* Management of passkeys.                                                 *)

IsSessionFreshForManagement(s, now) ==
    sessions[s].fresh # Never /\ now <= sessions[s].fresh + Freshness

\* The new challenge replaces the session's open ones of the same purpose.
CreateOptions(r) ==
    \E purpose \in {"reauthenticate", "addPasskey"} :
        /\ In(r, "options", "begun") /\ status = "active"
        /\ purpose = "addPasskey" => IsSessionFreshForManagement(Own(r), Now(r))
        /\ ceremonies' =
             {c \in ceremonies : c.session # Own(r) \/ c.purpose # purpose \/ Now(r) >= c.expires}
             \cup {[session |-> Own(r), purpose |-> purpose, expires |-> Now(r) + CeremonyTTL]}
        /\ End(r)
        /\ UNCHANGED <<clock, account, sessions>>

\* Bound to the session it was created for, used once, before it expires.
ConsumeCeremony(r, purpose) ==
    \E c \in ceremonies :
        /\ c.session = Own(r) /\ c.purpose = purpose /\ Now(r) < c.expires
        /\ ceremonies' = ceremonies \ {c}

VerifyPasskeyReauthentication(r) ==
    LET s == Own(r) IN
    /\ In(r, "reauthenticate", "begun")
    /\ status = "active" /\ requests[r].key \in ActiveKeys
    /\ ConsumeCeremony(r, "reauthenticate")
    /\ Rotatable(s, Now(r))
    /\ LET rows == Rotated(s, Now(r), Now(r), requests[r].key) IN
         sessions' = [rows EXCEPT ![Len(rows)].proof = Now(r)]
    /\ End(r)
    /\ UNCHANGED <<clock, account>>

VerifyManagedPasskeyRegistration(r) ==
    LET s == Own(r) IN
    /\ In(r, "addPasskey", "begun")
    /\ IsSessionFreshForManagement(s, Now(r))
    /\ status = "active" /\ keys[requests[r].key] = "none"
    /\ ConsumeCeremony(r, "addPasskey")
    /\ keys' = [keys EXCEPT ![requests[r].key] = "active"]
    /\ KeepOnlyReplacement(r, sessions[s].fresh, sessions[s].key, sessions[s].proof, password)
    /\ UNCHANGED <<clock, status, password>>

\* revokePasskey: active, and not the final one of an active account.
RevocablePasskey(k) == k \in ActiveKeys /\ Cardinality(ActiveKeys) > 1

RevokeManagedPasskey(r) ==
    LET s == Own(r)
        fresh == IF sessions[s].key = NoKey THEN Never ELSE sessions[s].fresh IN
    /\ In(r, "revokePasskey", "begun")
    /\ IsSessionFreshForManagement(s, Now(r))
    /\ sessions[s].key # requests[r].key
    /\ status = "active" /\ RevocablePasskey(requests[r].key)
    /\ keys' = [keys EXCEPT ![requests[r].key] = "revoked"]
    /\ KeepOnlyReplacement(r, fresh, sessions[s].key, sessions[s].proof, password)
    /\ UNCHANGED <<clock, status, password, ceremonies>>

-----------------------------------------------------------------------------
(* Recovery, and the operators.                                            *)

BeginRevocation(r) ==
    \/ "recover" \in Operations
       /\ \E k \in Keys : keys[k] = "none" /\ Begin(r, "recover", "begun", 0, k)
    \/ "suspend" \in Operations /\ status = "active" /\ Begin(r, "suspend", "begun", 0, NoKey)

\* The last transaction of a recovery adds a passkey and revokes every session.
CompleteRecovery(r) ==
    /\ In(r, "recover", "begun") /\ status = "active" /\ keys[requests[r].key] = "none"
    /\ MayRevoke(sessions, Now(r))
    /\ keys' = [keys EXCEPT ![requests[r].key] = "active"]
    /\ sessions' = Ended(RevokeMatching(sessions, 0), 0)
    /\ End(r)
    /\ UNCHANGED <<clock, status, password, ceremonies>>

\* Mutant: the sessions of a suspended account are left to expire.
SuspendWithoutRevoking(r) ==
    /\ In(r, "suspend", "begun") /\ status = "active"
    /\ status' = "suspended" /\ sessions' = Ended(sessions, 0)
    /\ End(r)
    /\ UNCHANGED <<clock, password, keys, ceremonies>>

SuspendAccount(r) ==
    /\ In(r, "suspend", "begun") /\ status = "active"
    /\ MayRevoke(sessions, Now(r))
    /\ status' = "suspended"
    /\ sessions' = Ended(RevokeMatching(sessions, 0), 0)
    /\ End(r)
    /\ UNCHANGED <<clock, password, keys, ceremonies>>

ReactivateAccount ==
    /\ status = "suspended" /\ status' = "active"
    /\ UNCHANGED <<clock, password, keys, sessions, ceremonies, requests>>

-----------------------------------------------------------------------------
Next ==
    \/ Tick \/ ReactivateAccount
    \/ \E r \in Requests :
        \/ Refuse(r) \/ ResolveActiveSession(r) \/ TouchAccountSession(r)
        \/ BeginSignIn(r) \/ AuthenticateWithPassword(r) \/ VerifyPasskeyAuthentication(r)
        \/ RotateCurrentSession(r) \/ LogoutCurrentSession(r) \/ LogoutAllSessions(r)
        \/ ChangeAccountPassword(r) \/ CreateOptions(r)
        \/ VerifyPasskeyReauthentication(r) \/ VerifyManagedPasskeyRegistration(r)
        \/ RevokeManagedPasskey(r)
        \/ BeginRevocation(r) \/ CompleteRecovery(r) \/ SuspendAccount(r)

Spec == Init /\ [][Next]_vars

-----------------------------------------------------------------------------
(* Properties.                                                             *)

\* Type invariant; in it, the windows of every row are in order.
TypeOK ==
    /\ clock \in 0..MaxTime /\ status \in {"active", "suspended"}
    /\ password \in 1..MaxPasswords
    /\ keys \in [Keys -> {"none", "active", "revoked"}]
    /\ sessions \in Seq(Session)
    /\ \A s \in DOMAIN sessions :
         /\ sessions[s].created <= sessions[s].seen
         /\ sessions[s].idle <= sessions[s].until
    /\ \A c \in ceremonies : c.session \in DOMAIN sessions

Live == {s \in DOMAIN sessions : ~sessions[s].revoked}

\* Once all sessions were revoked (a suspension, a recovery, a new password, a
\* change of passkeys, a sign-out everywhere), no session that began before is
\* ever live again, whatever requests were under way (revokeMatchingSessions,
\* authenticateWithPassword's second look at the credential).
NothingOutlivesRevocation ==
    /\ status = "suspended" => Live = {}
    /\ \A s \in Live : ~sessions[s].ended

\* However many rotations of one session race, at most one replacement is live
\* (rotateAccountSessionTx), none lives past the chain's own end, and the
\* windows of every row stay in order.
OneLiveSessionPerSignIn ==
    /\ TypeOK
    /\ \A s, t \in Live : sessions[s].chain = sessions[t].chain => s = t
    /\ \A s \in DOMAIN sessions :
         sessions[s].until = sessions[sessions[s].chain].created + AbsoluteTimeout

\* The passkey that a live session was authenticated with is not revoked, the
\* password it was opened with is still the account's (unless the session
\* itself changed it), and an account never loses its last passkey, even when
\* sessions without a passkey manage them (authenticateWithPassword,
\* revokeManagedPasskey, revokePasskey).
SessionsHoldValidCredentials ==
    /\ \A s \in Live : /\ sessions[s].key # NoKey => sessions[s].key \in ActiveKeys
                       /\ sessions[s].password \in {0, password}
    /\ ActiveKeys # {}

\* Freshness is never older or younger than a real proof of presence made in
\* the same chain; activity and rotation do not renew it.
FreshnessIsEarned ==
    \A s \in DOMAIN sessions :
        sessions[s].fresh # Never => sessions[s].fresh = sessions[s].proof

\* last_seen_at never moves backward (assertAuthenticatedAtUnchangedByTouch).
LastSeenNeverMovesBack ==
    [][\A s \in DOMAIN sessions : sessions[s].seen <= sessions'[s].seen]_vars
=============================================================================
