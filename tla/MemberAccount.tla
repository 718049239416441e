--------------------------- MODULE MemberAccount ---------------------------
(***************************************************************************)
(* The identity of one member: the set-up of the account, its recovery and  *)
(* its passkeys, and the rate limits on their requests.  The first three    *)
(* read one clock, the limits one of quarters of an hour.  They share tables *)
(* of codes, grants and challenges, but each selects the rows of its own    *)
(* purposes, so that each has its rows to itself.                           *)
(***************************************************************************)
EXTENDS Naturals, Sequences

CONSTANTS
    Requests, Idle,     \* requests in flight at once, of each part
    CodeTTL, Cooldown, MaxAttempts, GrantTTL, CeremonyTTL,
    Keys, Counting, First, ChallengeTTL, Backups,               \* Passkeys
    MaxTime, MaxCodes, MaxGrants, MaxCeremonies,                \* bounds
    MaxChallenges, MaxRenames, MaxSigned,                       \* bounds of Passkeys
    Offered, DayLength, ShortLimit, DayLimit,                   \* RateLimits
    MaxQuarter, MaxBegun                                        \* bounds of RateLimits

VARIABLES
    clock,
    account, setupCodes, setupGrants, setupCeremonies, setupRequests,
    status, passkeys, sessions,
    recoveryCodes, recoveryGrants, recoveryCeremonies, recoveryRequests,
    credentials, devices, session, accepted, challenges, passkeyRequests,
    quarter, counters, limitRequests, spent, lost, begun

setupRows == <<account, setupCodes, setupGrants, setupCeremonies, setupRequests>>
recoveryRows == <<status, passkeys, sessions, recoveryCodes, recoveryGrants,
                  recoveryCeremonies, recoveryRequests>>
passkeyRows == <<credentials, devices, session, accepted, challenges, passkeyRequests>>
memberVars == <<clock, setupRows, recoveryRows, passkeyRows>>
limitRows == <<quarter, counters, limitRequests, spent, lost, begun>>

Setup == INSTANCE AccountSetup WITH
    challenges <- setupCodes, grants <- setupGrants, ceremonies <- setupCeremonies,
    requests <- setupRequests

Recovery == INSTANCE AccountRecovery WITH
    challenges <- recoveryCodes, grants <- recoveryGrants, ceremonies <- recoveryCeremonies,
    requests <- recoveryRequests

Signing == INSTANCE Passkeys WITH requests <- passkeyRequests

Limits == INSTANCE RateLimits WITH
    MaxNow <- MaxQuarter, now <- quarter, rows <- counters, requests <- limitRequests

ASSUME MemberAssumption ==
    /\ Setup!SetupAssumption /\ Recovery!RecoveryAssumption /\ Signing!PasskeysAssumption
    /\ Limits!RateConstants /\ Limits!OfferedAreLimiters

MemberSpec == Setup!Spec /\ Recovery!Spec /\ Signing!Spec /\ Limits!Spec

-----------------------------------------------------------------------------
(* Properties.                                                             *)

\* What is used once is used once: every password, passkey, grant and session
\* was paid for with exactly one grant, code or challenge, although requests
\* read it before the transaction that spends it; and of the grants and
\* ceremonies of an account at most one can still be used, the one of the latest
\* request and for the step that is due.  (Every row has its type.)
NothingIsSpentTwice ==
    /\ Setup!TypeOK /\ Setup!StepsAreAuthorised
    /\ Setup!OneLiveGrantForTheNextStep /\ Setup!OneLiveCeremony
    /\ Recovery!TypeOK /\ Recovery!EveryStepIsPaidFor /\ Recovery!OneLiveRecovery
    /\ Signing!TypeOK /\ Signing!ChallengesAreUsedOnce

\* A recovery leaves no older code, grant, ceremony or session usable; a revoked
\* passkey is not touched again; no sign-in lowers a passkey's counter.
OldProofsOpenNothing ==
    [][Recovery!DoorsClose /\ Signing!RevokedStays /\ Signing!SignInRaises]_memberVars

\* Work behind a reserved slot keeps its limit; work that is charged later
\* exceeds it by the requests in flight and the lost charges at most; a day
\* counts no attempt that its quarters do not count.
LimitsHold ==
    /\ Limits!TypeOK /\ Limits!ReservedWithinLimit /\ Limits!OvershootIsBounded
    /\ Limits!DayCoversItsQuarters

\* The set-up refines AccountLifecycle.
ImplementsLifecycle == Setup!ImplementsLifecycle
=============================================================================
