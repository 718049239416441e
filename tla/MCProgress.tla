----------------------------- MODULE MCProgress -----------------------------
(* What must eventually happen, for TLC: ballots, elapsed memberships, alerts *)
(* and requests behind a locked row.  As in the other composites `part`       *)
(* chooses which of the components runs.                                      *)
EXTENDS Integers, FiniteSets

CONSTANTS NoMandate, NoRequest

VARIABLES
    part, now,
    stage, cycle, opensAt, closesAt, transitions, events, clock, access,  \* CivicBallot
    confirmed, proposal, revisions, contributors, eligible, tokens, consumed, votes, pending,
    mandate,
    entitlement, sourceEvents, link, customers, attempts, stripe, sent, jobs,  \* StripeBilling
    provider, attested, samples, alerts, viewers, acks, changes, lost,         \* Monitoring
    photos, stored, signals, submitted, locks, requests, failed, begun         \* MemberSignals

ballotRows == <<stage, cycle, opensAt, closesAt, transitions, events, clock, access, confirmed,
    proposal, revisions, contributors, eligible, tokens, consumed, votes, pending, mandate>>
billingRows == <<entitlement, sourceEvents, link, customers, attempts, stripe, sent, jobs>>
watchRows == <<provider, attested, samples, alerts, viewers, acks, changes, lost>>
signalRows == <<photos, stored, signals, submitted, locks, requests, failed, begun>>
vars == <<part, now, ballotRows, billingRows, watchRows, signalRows>>

\* Both actors propose, vote and withdraw; the clock is long enough for two
\* failed quorums, and nobody's access changes.
Ballot == INSTANCE CivicBallot WITH
    None <- NoMandate, Actors <- {"a1", "a3"}, Volatile <- {},
    ConfirmationThreshold <- 1, ProposalThreshold <- 2, DeliberationThreshold <- 2,
    BallotQuorum <- 2, FreezeWindow <- 1, VotingWindow <- 1, MaxClock <- 4

Billing == INSTANCE StripeBilling WITH
    Idle <- NoRequest, Accounts <- {"a1"}, Sessions <- {"s1"}, Workers <- {"w1"},
    Null <- -1, Period <- 2, MaxTime <- 4, MaxEvents <- 3, MaxDeliveries <- 1, MaxCustomers <- 1

\* Two views that race, one of which may be cut off.
Watching == INSTANCE Monitoring WITH
    Viewers <- {"v1", "v2"}, Operators <- {}, Nobody <- NoRequest, Components <- {"email"},
    Throttle <- 1, MaxAge <- 0, MaxNow <- 1, MaxChanges <- 1, MaxLost <- 1

\* Two requests of one account, which wait for each other's lock.
Publishing == INSTANCE MemberSignals WITH
    Accounts <- {"a1"}, Photos <- {"p1"}, Requests <- {"r1", "r2"},
    DayLength <- 1, PhotoLife <- 1, Limit <- 1, MaxNow <- 1, MaxBegun <- 4

ASSUME /\ Billing!StripeAssumption
       /\ Watching!MonitoringConstants /\ Publishing!SignalConstants

-----------------------------------------------------------------------------

(* The variables of the parts that do not run have a constant value.         *)

NoBallot ==
    /\ stage = 0 /\ cycle = 0 /\ opensAt = 0 /\ closesAt = 0 /\ transitions = 0
    /\ events = 0 /\ clock = 0 /\ access = 0 /\ confirmed = 0 /\ proposal = 0
    /\ revisions = 0 /\ contributors = 0 /\ eligible = 0 /\ tokens = 0 /\ consumed = 0
    /\ votes = 0 /\ pending = 0 /\ mandate = 0
NoBilling ==
    /\ entitlement = 0 /\ sourceEvents = 0 /\ link = 0 /\ customers = 0 /\ attempts = 0
    /\ stripe = 0 /\ sent = 0 /\ jobs = 0
NoWatching ==
    /\ provider = 0 /\ attested = 0 /\ samples = 0 /\ alerts = 0 /\ viewers = 0 /\ acks = 0
    /\ changes = 0 /\ lost = 0
NoPublishing ==
    /\ photos = 0 /\ stored = 0 /\ signals = 0 /\ submitted = 0 /\ locks = 0 /\ requests = 0
    /\ failed = 0 /\ begun = 0

Init ==
    \/ /\ part = "ballot" /\ Ballot!Init /\ now = 0
       /\ NoBilling /\ NoWatching /\ NoPublishing
    \/ part = "billing" /\ Billing!Init /\ NoBallot /\ NoWatching /\ NoPublishing
    \/ part = "watching" /\ Watching!Init /\ NoBallot /\ NoBilling /\ NoPublishing
    \/ part = "publishing" /\ Publishing!Init /\ NoBallot /\ NoBilling /\ NoWatching

OfBallot(A) == part = "ballot" /\ A /\ UNCHANGED <<part, now, billingRows, watchRows, signalRows>>
OfBilling(A) == part = "billing" /\ A /\ UNCHANGED <<part, ballotRows, watchRows, signalRows>>
OfWatching(A) == part = "watching" /\ A /\ UNCHANGED <<part, ballotRows, billingRows, signalRows>>
OfPublishing(A) == part = "publishing" /\ A /\ UNCHANGED <<part, ballotRows, billingRows, watchRows>>

Next ==
    \/ OfBallot(Ballot!Next) \/ OfBilling(Billing!Next)
    \/ OfWatching(Watching!Next) \/ OfPublishing(Publishing!Next)

\* Each component's own fairness: time passes and somebody reads the process,
\* webhooks are answered and the job is run again and again, somebody looks at the
\* console, and a request that runs goes on.
Spec ==
    /\ Init /\ [][Next]_vars
    /\ WF_vars(OfBallot(Ballot!Tick))
    /\ WF_vars(OfBallot(Ballot!OpenVotingIfBallotPreparationElapsed({})))
    /\ WF_vars(OfBallot(Ballot!CloseVoting))
    /\ WF_vars(OfBilling(Billing!Webhook("w1")))
    /\ SF_vars(OfBilling(Billing!FindExpiredMembershipCandidate("w1", "a1")))
    /\ SF_vars(OfBilling(Billing!ReconcileExpiredMembership("w1")))
    /\ \A v \in {"v1", "v2"} :
        WF_vars(OfWatching(Watching!StepOf(v))) /\ WF_vars(OfWatching(Watching!ViewStatus(v)))
    /\ \A r \in {"r1", "r2"} : WF_vars(OfPublishing(Publishing!StepOf(r)))

-----------------------------------------------------------------------------
(* Properties.                                                               *)

\* A frozen ballot is decided, or its cycle is over: it never hangs in ballot
\* preparation or in voting.  (Two ballots can end within the bounded clock.)
InBallot(c) ==
    /\ part = "ballot" /\ cycle = c
    /\ stage \in {"ballot_preparation", "voting"} /\ closesAt <= 4
EveryBallotEnds == \A c \in 1..2 : InBallot(c) ~> (mandate # NoMandate \/ cycle > c)

\* The job that expires memberships finds every one whose time is over, however
\* often its webhooks race with it or it is cut off.
Overdue == part = "billing" /\ Billing!Elapsed("a1")
ElapsedMembershipsExpire == Overdue ~> ~Overdue

\* "Still sync alerts so a sudden failure is visible even when throttled": if
\* the console keeps being looked at, an alert of its present status is open for
\* an unhealthy component and none for a healthy one, whatever races opened it
\* twice and whichever request was cut off.  And every publication ends and
\* frees its account, however others wait for the row.
Busy(r) == part = "publishing" /\ requests[r].at # "idle"
WorkSettles ==
    /\ <>[](part = "watching" => Watching!Settled("email"))
    /\ \A r \in {"r1", "r2"} : Busy(r) ~> ~Busy(r)
=============================================================================
