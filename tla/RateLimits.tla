------------------------------ MODULE RateLimits ------------------------------
(* The persistent rate limits of the ceremonies, of membership and of billing: *)
(* town.ceremony_rate_limits holds one counter per subject and fixed window,   *)
(* and a request reads its counters, does its work and charges them in         *)
(* separate statements, so that several requests interleave.                   *)
(*                                                                             *)
(* A limiter lists the buckets it reads in the order it reads them, and when   *)
(* it charges them: before the work, or after it for some outcomes.  A bucket  *)
(* has a scope, which stands for one subject of it, and a window in quarters   *)
(* of an hour.  Getting or creating a row and reading it are one step: outside *)
(* a transaction the code reselects the row of a lost insert, inside one the   *)
(* request fails (Stop).                                                       *)
EXTENDS Integers, Sequences, FiniteSets, SequencesExt

CONSTANTS
    Requests,    \* requests in flight at once
    Offered,     \* the limiters whose operations are called
    DayLength,   \* quarters of an hour in a day (96 in the code)
    ShortLimit,  \* limit of a bucket whose window is shorter than a day
    DayLimit,    \* limit of a bucket whose window is a day
    MaxNow,      \* last quarter the clock reaches
    MaxBegun     \* requests made in all

RateConstants ==
    /\ IsFiniteSet(Requests) /\ Offered # {}
    /\ DayLength \in Nat /\ DayLength > 0 /\ DayLength % 2 = 0
    /\ {ShortLimit, DayLimit} \subseteq Nat \ {0}
    /\ {MaxNow, MaxBegun} \subseteq Nat

VARIABLES
    now,     \* the clock
    rows,    \* attempt_count of each bucket and window
    requests,
    spent,   \* what each bucket's window should have counted: work done that is charged to it
    lost,    \* charges never made, because the request stopped between its work and its charge
    begun    \* number of requests made

vars == <<now, rows, requests, spent, lost, begun>>

-----------------------------------------------------------------------------
(* The limiters.                                                             *)

Bucket(scope, window) == [scope |-> scope, window |-> window]
Quarter(scope) == Bucket(scope, 1)
HalfHour(scope) == Bucket(scope, 2)
Day(scope) == Bucket(scope, DayLength)

LimitOf(b) == IF b.window = DayLength THEN DayLimit ELSE ShortLimit

Limiter(reserved, counted, first, charges) ==
    [reserved |-> reserved, counted |-> counted, first |-> first, charges |-> charges]

\* Charged before the work, throttled or not.
ChargedFirst(counted) == Limiter(<<>>, counted, TRUE, {"throttled", "success", "failure"})
\* Charged when options were created, and when they were refused.
ChargedAfter(counted) == Limiter(<<>>, counted, FALSE, {"throttled", "success"})
\* Charged for a failed verification, and for a refused one.
ChargedOnFailure(counted) == Limiter(<<>>, counted, FALSE, {"throttled", "failure"})
\* The attempts at a code: inside the transaction, only a wrong code is charged.
ChargedInTransaction(counted) == Limiter(<<>>, counted, FALSE, {"failure"})

EmailVerificationRequest ==
    ChargedFirst(<<Quarter("request_email"), Day("request_email"), Quarter("request_ip"), Day("request_ip")>>)
EmailVerificationAttempt == ChargedInTransaction(<<HalfHour("attempt_email_ip"), Day("attempt_challenge")>>)
RecoveryRequest == ChargedFirst(<<Day("recovery_email"), Day("recovery_ip")>>)
RecoveryEmailAttempt == ChargedInTransaction(<<HalfHour("recovery_email_ip"), Day("recovery_challenge")>>)
RecoveryOptionsGrant == ChargedAfter(<<Day("recovery_options_grant")>>)
RecoveryVerificationGrant == ChargedOnFailure(<<Day("recovery_verification_grant")>>)
SetupOptionsGrant == ChargedAfter(<<Day("setup_options_grant")>>)
SetupVerificationGrant == ChargedOnFailure(<<Day("setup_verification_grant")>>)
PasswordSetupGrant == ChargedOnFailure(<<Day("password_setup_grant")>>)
PasskeyOptions == ChargedAfter(<<Quarter("passkey_ip"), Day("passkey_ip"), Quarter("passkey_client")>>)
PasskeyAssertion == ChargedOnFailure(<<HalfHour("assertion_credential"), HalfHour("assertion_ip")>>)
PasskeyInventory == ChargedAfter(<<Quarter("passkey_inventory")>>)
ManageReauthOptions == ChargedAfter(<<Quarter("reauthentication_options")>>)
ManageReauthVerify == ChargedOnFailure(<<Quarter("reauthentication_verify")>>)
ManageRegisterOptions == ChargedAfter(<<Quarter("registration_options")>>)
ManageRegisterVerify == ChargedOnFailure(<<Quarter("registration_verify")>>)
PasskeyRename == ChargedFirst(<<Day("passkey_rename")>>)
PasskeyRevoke == ChargedFirst(<<Day("passkey_revoke")>>)
PasswordSignIn ==
    Limiter(<<HalfHour("sign_in_ip")>>, <<HalfHour("sign_in_email")>>, FALSE, {"throttled", "success", "failure"})
PasswordChange == Limiter(<<HalfHour("password_change")>>, <<>>, FALSE, {})
MembershipInventory == ChargedFirst(<<Quarter("membership_inventory")>>)
LocalEligibilityBind == ChargedFirst(<<Quarter("local_eligibility")>>)
CommunityCommitmentWrite == ChargedFirst(<<Quarter("community_commitment")>>)
BillingCheckout == ChargedFirst(<<HalfHour("billing_checkout")>>)
BillingPortal == ChargedFirst(<<HalfHour("billing_portal")>>)
GooglePlayPurchase == ChargedFirst(<<HalfHour("google_play_purchase")>>)

Limiters == {
    EmailVerificationRequest, EmailVerificationAttempt, RecoveryRequest, RecoveryEmailAttempt,
    RecoveryOptionsGrant, RecoveryVerificationGrant, SetupOptionsGrant, SetupVerificationGrant,
    PasswordSetupGrant, PasskeyOptions, PasskeyAssertion, PasskeyInventory, ManageReauthOptions,
    ManageReauthVerify, ManageRegisterOptions, ManageRegisterVerify, PasskeyRename, PasskeyRevoke,
    PasswordSignIn, PasswordChange, MembershipInventory, LocalEligibilityBind,
    CommunityCommitmentWrite, BillingCheckout, BillingPortal, GooglePlayPurchase }

OfferedAreLimiters == Offered \subseteq Limiters

Buckets == UNION {ToSet(l.reserved \o l.counted) : l \in Offered}

-----------------------------------------------------------------------------
(* Windows and rows.                                                         *)

FloorWindowStart(time, b) == (time \div b.window) * b.window

\* The row a request counts in: that of the instant the request began.
Window(r, b) == FloorWindowStart(requests[r].time, b)
ChargedWindow(r, b) == Window(r, b)

CountInWindow(r, b) == rows[b][Window(r, b)]

AtRest == [at |-> "idle"]
In(r, place) == requests[r].at = place
Become(r, request) == requests' = [requests EXCEPT ![r] = request]
End(r) == Become(r, AtRest)

Init ==
    /\ now = 0
    /\ rows = [b \in Buckets |-> [t \in 0..MaxNow |-> 0]]
    /\ requests = [r \in Requests |-> AtRest]
    /\ spent = rows
    /\ lost = rows
    /\ begun = 0

\* A request reads the clock once.
Begin(r) ==
    /\ In(r, "idle") /\ begun < MaxBegun
    /\ \E l \in Offered :
           Become(r, [at |-> IF l.reserved # <<>> THEN "reserve" ELSE "check",
                      limiter |-> l, time |-> now, todo |-> l.counted, throttled |-> FALSE,
                      worked |-> FALSE])
    /\ begun' = begun + 1
    /\ UNCHANGED <<now, rows, spent, lost>>

HasRoomOffByOne(count, b) == count <= LimitOf(b)
HasRoom(count, b) == count < LimitOf(b)

\* INSERT ... ON CONFLICT DO UPDATE ... WHERE attempt_count < limit: one statement.
Reserve(r) ==
    /\ In(r, "reserve")
    /\ LET b == Head(requests[r].limiter.reserved)
       IN  IF HasRoom(CountInWindow(r, b), b)
           THEN /\ rows' = [rows EXCEPT ![b][Window(r, b)] = @ + 1]
                /\ Become(r, [requests[r] EXCEPT !.at = "check"])
           ELSE End(r) /\ UNCHANGED rows
    /\ UNCHANGED <<now, spent, lost, begun>>

\* The decision once every bucket is read, or one is found full.
Decided(r, throttled) ==
    LET q == requests[r]
    IN  IF throttled /\ "throttled" \notin q.limiter.charges
        THEN AtRest
        ELSE [q EXCEPT !.at = IF throttled \/ q.limiter.first THEN "charge" ELSE "work",
                       !.todo = q.limiter.counted, !.throttled = throttled]

IsThrottled(count, b) == count >= LimitOf(b)

\* One bucket is read; the others are left unread when it is full.
Check(r) ==
    /\ In(r, "check")
    /\ LET todo == requests[r].todo
       IN  IF todo = <<>> THEN Become(r, Decided(r, FALSE))
           ELSE IF IsThrottled(CountInWindow(r, Head(todo)), Head(todo)) THEN Become(r, Decided(r, TRUE))
           ELSE Become(r, [requests[r] EXCEPT !.todo = Tail(todo)])
    /\ UNCHANGED <<now, rows, spent, lost, begun>>

\* The service does what is limited: it succeeds or fails.
Work(r) ==
    /\ In(r, "work")
    /\ \E outcome \in {"success", "failure"} :
           LET q == requests[r]
               charged == outcome \in q.limiter.charges
               due == q.limiter.reserved \o IF charged THEN q.limiter.counted ELSE <<>>
           IN  /\ spent' = [b \in Buckets |->
                               IF b \in ToSet(due) THEN [spent[b] EXCEPT ![Window(r, b)] = @ + 1] ELSE spent[b]]
               /\ IF charged /\ ~ q.limiter.first
                  THEN Become(r, [q EXCEPT !.at = "charge", !.todo = q.limiter.counted, !.worked = TRUE])
                  ELSE End(r)
    /\ UNCHANGED <<now, rows, lost, begun>>

IncrementCeremonyRateLimit(count) == count + 1

\* One bucket is charged; after the last one the work follows, or the answer.
Charge(r) ==
    /\ In(r, "charge")
    /\ LET q == requests[r]
           b == Head(q.todo)
       IN  /\ rows' = [rows EXCEPT ![b][ChargedWindow(r, b)] = IncrementCeremonyRateLimit(@)]
           /\ CASE Len(q.todo) > 1                -> Become(r, [q EXCEPT !.todo = Tail(@)])
                [] Len(q.todo) = 1 /\ (q.throttled \/ q.worked) -> End(r)
                [] OTHER                          -> Become(r, [q EXCEPT !.at = "work"])
    /\ UNCHANGED <<now, spent, lost, begun>>

\* A request stops at an await: refused for another reason, its statement failed
\* (several callers swallow that), or the process died.
Stop(r) ==
    /\ ~ In(r, "idle")
    /\ LET q == requests[r]
           missing == IF In(r, "charge") /\ q.worked THEN ToSet(q.todo) ELSE {}
       IN  lost' = [b \in Buckets |->
                        IF b \in missing THEN [lost[b] EXCEPT ![Window(r, b)] = @ + 1] ELSE lost[b]]
    /\ End(r)
    /\ UNCHANGED <<now, rows, spent, begun>>

Tick == now < MaxNow /\ now' = now + 1 /\ UNCHANGED <<rows, requests, spent, lost, begun>>

Next ==
    \/ Tick
    \/ \E r \in Requests :
           Begin(r) \/ Reserve(r) \/ Check(r) \/ Work(r) \/ Charge(r) \/ Stop(r)

Spec == Init /\ [][Next]_vars

-----------------------------------------------------------------------------
\* Rows of ceremony_rate_limits, 0 where there is none.
CounterRows == [Buckets -> [0..MaxNow -> Nat]]

\* Only windows that have begun hold a count, and they begin on a multiple of their length.
TypeOK ==
    /\ now \in 0..MaxNow /\ rows \in CounterRows
    /\ \A b \in Buckets, t \in 0..MaxNow :
           /\ spent[b][t] \in Nat /\ lost[b][t] \in Nat
           /\ rows[b][t] > 0 => t % b.window = 0 /\ t <= now
    /\ \A r \in Requests :
           requests[r].at \in {"idle", "reserve", "check", "charge", "work"}
    /\ begun \in 0..MaxBegun

Reserved == UNION {ToSet(l.reserved) : l \in Offered}

\* A slot that is reserved is never exceeded, however many requests race: what
\* the reservation guards (Argon2 work) is done at most limit times in a window.
ReservedWithinLimit ==
    \A b \in Reserved, t \in 0..MaxNow : spent[b][t] <= LimitOf(b)

\* A limit that is checked first and charged later can be exceeded, but only by
\* the requests in flight at once and by those whose charge was never made.
OvershootIsBounded ==
    \A b \in Buckets \ Reserved, t \in 0..MaxNow :
        spent[b][t] <= LimitOf(b) - 1 + Cardinality(Requests) + lost[b][t]

\* The attempts that a bucket counts on the day that begins at t, numbered in each window.
Attempts(counts, t) ==
    UNION {{u} \X (1..counts[u]) : u \in {v \in 0..MaxNow : t <= v /\ v < t + DayLength}}

\* A request is charged to the windows of one instant, the shorter one first:
\* a day never counts an attempt that none of its quarters counts, even when
\* the clock passes midnight between two of the statements.
DayCoversItsQuarters ==
    \A d \in {b \in Buckets : b.window = DayLength} :
        Quarter(d.scope) \in Buckets =>
            \A t \in {u \in 0..MaxNow : u % DayLength = 0} :
                rows[d][t] <= Cardinality(Attempts(rows[Quarter(d.scope)], t))

\* The documented limits as exact ones: no window admits more than its limit.
LimitIsExact ==
    \A b \in Buckets, t \in 0..MaxNow : spent[b][t] <= LimitOf(b)
=============================================================================
