------------------------- MODULE CivicContestation -------------------------
(***************************************************************************)
(* Contesting a mandate: who may, until when, and how an operator answers.  *)
(* The window is measured from the planned end of the voting, while the     *)
(* mandate exists only once some request has found the voting elapsed.      *)
(* The ballot itself (CivicBallot) is reduced to what a contestation reads. *)
(***************************************************************************)
EXTENDS Naturals, FiniteSets

CONSTANTS
    Actors, Requests,
    FreezeWindow, VotingWindow, ContestationWindow,     \* in ticks
    MaxCycle, MaxTime,      \* bounds: ballots and the clock
    Idle

ContestationAssumption ==
    /\ {FreezeWindow, VotingWindow, ContestationWindow, MaxCycle, MaxTime} \subseteq Nat
    /\ VotingWindow > 0

VARIABLES
    clock,
    stage, cycle, closesAt,     \* the civic_processes row
    quorate,                    \* enough votes are cast in this cycle
    eligible,                   \* civic_ballot_eligible_actors: <<actor, cycle>>
    contestation,               \* status of each actor's contestation, or "none"
    job,                        \* requests to contest and to resolve
    answer                      \* what the last request of each slot was told

ballot == <<stage, cycle, closesAt, quorate, eligible>>
vars == <<clock, ballot, contestation, job, answer>>

Outcomes == {"upheld", "rejected"}
MandateExists == stage = "mandate"

Init ==
    /\ clock = 0
    /\ stage = "deliberation" /\ cycle = 1 /\ closesAt = 0
    /\ quorate = FALSE /\ eligible = {}
    /\ contestation = [a \in Actors |-> "none"]
    /\ job = [r \in Requests |-> Idle]
    /\ answer = [r \in Requests |-> "none"]

Tick == clock < MaxTime /\ clock' = clock + 1 /\ UNCHANGED <<ballot, contestation, job, answer>>

-----------------------------------------------------------------------------
(* The ballot a contestation is about.                                     *)

\* The freeze plans the voting of this cycle.
Freeze ==
    /\ stage = "deliberation" /\ cycle <= MaxCycle
    /\ stage' = "ballot_preparation"
    /\ closesAt' = clock + FreezeWindow + VotingWindow
    /\ quorate' = FALSE
    /\ UNCHANGED <<clock, cycle, eligible, contestation, job, answer>>

\* The first reader after the freeze window opens the voting, for the members
\* who are eligible then.
OpeningDue == stage = "ballot_preparation" /\ clock >= closesAt - VotingWindow
ClosingDue == stage = "voting" /\ closesAt <= clock

OpenVotingIfBallotPreparationElapsed ==
    /\ OpeningDue
    /\ stage' = "voting"
    /\ \E S \in SUBSET Actors : eligible' = eligible \cup (S \X {cycle})

\* The first reader after the end closes it: a mandate, or another cycle.
CloseVotingWindowIfElapsed ==
    /\ ClosingDue
    /\ IF quorate THEN stage' = "mandate" /\ UNCHANGED cycle
       ELSE stage' = "deliberation" /\ cycle' = cycle + 1

\* Any other request that looks at the process.
ReadProcess ==
    /\ \/ OpenVotingIfBallotPreparationElapsed /\ UNCHANGED cycle
       \/ CloseVotingWindowIfElapsed /\ UNCHANGED eligible
    /\ UNCHANGED <<clock, closesAt, quorate, contestation, job, answer>>

Vote ==
    /\ stage = "voting" /\ clock < closesAt
    /\ \E a \in Actors : <<a, cycle>> \in eligible
    /\ quorate' = TRUE
    /\ UNCHANGED <<clock, stage, cycle, closesAt, eligible, contestation, job, answer>>

-----------------------------------------------------------------------------
(* A member contests.                                                      *)

In(r, kind, label) == job[r] # Idle /\ job[r].kind = kind /\ job[r].at = label
Goto(r, label) == job' = [job EXCEPT ![r].at = label] /\ UNCHANGED answer
Say(r, what) ==
    /\ job' = [job EXCEPT ![r] = Idle]
    /\ answer' = [answer EXCEPT ![r] = what]

\* visibleProcess: the stage is read, opened or closed if it has elapsed, and
\* read again.
Contest(r, a) ==
    /\ job[r] = Idle
    /\ \/ /\ OpenVotingIfBallotPreparationElapsed /\ UNCHANGED cycle
       \/ /\ CloseVotingWindowIfElapsed /\ UNCHANGED eligible
       \/ ~OpeningDue /\ ~ClosingDue /\ UNCHANGED <<stage, cycle, eligible>>
    /\ job' = [job EXCEPT ![r] = [kind |-> "contest", by |-> a, at |-> "check",
                                  found |-> stage, asked |-> clock]]
    /\ UNCHANGED <<clock, closesAt, quorate, contestation, answer>>

WindowClosed(at) == at > closesAt + ContestationWindow

\* Mutant: the eligible actors of any cycle.
AnyCycle(a) == \E c \in 1..cycle : <<a, c>> \in eligible

IsCivicBallotEligibleActor(a) == <<a, cycle>> \in eligible

\* The route's checks, in their order.
CheckContest(r) ==
    LET a == job[r].by IN
    /\ In(r, "contest", "check")
    /\ IF ~MandateExists THEN Say(r, "not_decided")
       ELSE IF WindowClosed(clock) THEN Say(r, "window_closed")
       ELSE IF ~IsCivicBallotEligibleActor(a) THEN Say(r, "not_eligible")
       ELSE IF contestation[a] # "none" THEN Say(r, "already_filed")
       ELSE Goto(r, "insert")
    /\ UNCHANGED <<clock, ballot, contestation>>

GuardAllows(a) == MandateExists /\ ~WindowClosed(clock) /\ IsCivicBallotEligibleActor(a)

\* The guard of the table and its unique key look once more.
InsertContestation(r) ==
    LET a == job[r].by IN
    /\ In(r, "contest", "insert")
    /\ IF GuardAllows(a) /\ contestation[a] = "none"
       THEN contestation' = [contestation EXCEPT ![a] = "pending"] /\ Say(r, "filed")
       ELSE UNCHANGED contestation /\ Say(r, "refused")
    /\ UNCHANGED <<clock, ballot>>

-----------------------------------------------------------------------------
(* An operator decides.                                                    *)

BeginResolve(r, a, outcome) ==
    /\ job[r] = Idle /\ contestation[a] = "pending"
    /\ job' = [job EXCEPT ![r] = [kind |-> "resolve", by |-> a, at |-> outcome,
                                  found |-> stage, asked |-> clock]]
    /\ UNCHANGED <<clock, ballot, contestation, answer>>

\* Mutant: the update does not look at the status.
ResolveAgain(r) ==
    LET a == job[r].by IN
    /\ job[r] # Idle /\ job[r].kind = "resolve"
    /\ contestation' = [contestation EXCEPT ![a] = job[r].at]
    /\ Say(r, "resolved")
    /\ UNCHANGED <<clock, ballot>>

ResolveCivicMandateContestation(r) ==
    LET a == job[r].by IN
    /\ job[r] # Idle /\ job[r].kind = "resolve"
    /\ IF contestation[a] = "pending"
       THEN contestation' = [contestation EXCEPT ![a] = job[r].at] /\ Say(r, "resolved")
       ELSE UNCHANGED contestation /\ Say(r, "unchanged")
    /\ UNCHANGED <<clock, ballot>>

Request(r) ==
    \/ \E a \in Actors : Contest(r, a) \/ \E outcome \in Outcomes : BeginResolve(r, a, outcome)
    \/ CheckContest(r) \/ InsertContestation(r) \/ ResolveCivicMandateContestation(r)

Next == Tick \/ Freeze \/ ReadProcess \/ Vote \/ \E r \in Requests : Request(r)

Spec == Init /\ [][Next]_vars

-----------------------------------------------------------------------------
(* What must hold.                                                         *)

\* "that review is not implemented yet, so every contestation reports status
\* pending for now" (the description of the route to contest).
EveryContestationReportsPending ==
    [][\A a \in Actors : contestation'[a] \in {"none", "pending"}]_contestation

\* Rows of civic_mandate_contestations: one of each actor at most.
ContestationRows == [Actors -> {"none", "pending"} \cup Outcomes]

\* Type invariant.
TypeOK ==
    /\ clock \in 0..MaxTime
    /\ stage \in {"deliberation", "ballot_preparation", "voting", "mandate"}
    /\ cycle \in 1..(MaxCycle + 1) /\ closesAt \in Nat /\ quorate \in BOOLEAN
    /\ eligible \subseteq Actors \X (1..(MaxCycle + 1))
    /\ contestation \in ContestationRows
    /\ \A r \in Requests :
         job[r] # Idle => job[r].by \in Actors /\ job[r].kind \in {"contest", "resolve"}

\* A contestation is about the ballot that decided: its filer could vote in
\* that cycle, whatever failed before it.
FilersCouldVote ==
    \A a \in Actors : contestation[a] # "none" => MandateExists /\ <<a, cycle>> \in eligible

\* "Upheld or rejected, once, permanently", whoever decides at the same time.
DecisionStays ==
    \A a \in Actors : contestation[a] \in Outcomes => contestation'[a] = contestation[a]

\* Nobody is told that nothing is decided when the voting is over: who asks
\* after its end finds a mandate, or the quorum was missed.  So the window
\* can be used although nothing else may have closed the voting.
NotTooEarly ==
    \A r \in Requests :
        /\ In(r, "contest", "check") /\ job'[r] = Idle /\ answer'[r] = "not_decided"
        /\ job[r].found = "voting"
        => ~(stage = "voting" /\ closesAt <= job[r].asked)
=============================================================================
