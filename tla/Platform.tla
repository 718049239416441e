------------------------------ MODULE Platform ------------------------------
(***************************************************************************)
(* The platform console: the moderation of accounts and content, the        *)
(* operators themselves and the bootstrap of the first, the alerts, and the *)
(* tables that keep their newest rows.  The four share no row; requests for *)
(* one of them are no requests for another.                                 *)
(***************************************************************************)
EXTENDS BoundedLogs, Sequences

CONSTANTS
    Accounts, Requests, NoRequest,
    Owners, Operators, Signals, Submissions, Discussions, Author,       \* Moderation
    Proposals, Deliberations, Evidence, Reasons, Visible, MaxRecords,
    Candidate, FirstAdmin, Tool, NoRow,                                 \* PlatformOperators
    Components, Nobody, Throttle, MaxAge, MaxNow, MaxChanges, MaxLost   \* Monitoring

VARIABLES
    status, content, records, job,
    standing, factors, owner, operator, audits, script, tasks,
    now, provider, attested, samples, alerts, viewers, acks, changes, lost

moderationRows == <<status, content, records, job>>
operatorRows == <<standing, factors, owner, operator, audits, script, tasks>>
alertRows == <<now, provider, attested, samples, alerts, viewers, acks, changes, lost>>
platformVars == <<vars, moderationRows, operatorRows, alertRows>>

Moderating == INSTANCE Moderation WITH Idle <- NoRequest

Staffing == INSTANCE PlatformOperators WITH
    Idle <- NoRequest, status <- standing, job <- tasks

Watching == INSTANCE Monitoring WITH Viewers <- Requests

ASSUME PlatformAssumption ==
    /\ Moderating!ModerationAssumption
    /\ Staffing!OperatorsAssumption
    /\ Watching!MonitoringConstants

PlatformSpec == Spec /\ Moderating!Spec /\ Staffing!Spec /\ Watching!Spec

-----------------------------------------------------------------------------
(* Properties besides the bound of BoundedLogs.                              *)

\* The audit tells what became of every account and content, nobody moderates
\* while suspended, no row lock has two holders, and those of accounts are taken
\* in one order.  (Every row has its type, those of the other parts too.)
ModerationIsRecorded ==
    /\ TypeOK /\ Moderating!TypeOK /\ Staffing!TypeOK /\ Watching!TypeOK
    /\ Moderating!RecordsTellTheRows
    /\ Moderating!TheSuspendedDoNotModerate /\ Moderating!AccountModerationIsOrdered

\* What is over stays over: a revoked operator comes back by a grant alone, the
\* bootstrap ends with an account that is complete, and a resolved or
\* acknowledged alert stays so, by whatever late request it is written.
ClosedStaysClosed ==
    [][/\ Staffing!OnlyAGrantRestores /\ Staffing!BootstrapCompletes
       /\ Watching!ClosedStays]_platformVars
=============================================================================
