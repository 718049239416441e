---------------------------- MODULE CivicBallot ----------------------------
(***************************************************************************)
(* One civic process from its first confirmation to a decided mandate.     *)
(* Every action is one committed database transaction: the statement of a  *)
(* route together with the triggers that run inside it.  A vote request is *)
(* two actions, because its route reads the process in one transaction and *)
(* casts in a later one, and anything may be committed in between.         *)
(***************************************************************************)
EXTENDS CivicLedger, FiniteSets

CONSTANTS
    Actors,                 \* the civic actors of the process's community
    Volatile,               \* the actors whose access may change during a run
    ConfirmationThreshold,
    ProposalThreshold,
    DeliberationThreshold,
    BallotQuorum,
    FreezeWindow,           \* 10 minutes in the code
    VotingWindow,           \* 3 days in the code
    MaxClock,               \* bound on the clock of a run
    None                    \* SQL NULL

ASSUME ActorsAssumption == IsFiniteSet(Actors) /\ Volatile \subseteq Actors /\ None \notin Actors
ASSUME ThresholdAssumption ==
    {ConfirmationThreshold, ProposalThreshold, DeliberationThreshold, BallotQuorum}
        \subseteq Nat \ {0}
ASSUME WindowAssumption == FreezeWindow \in Nat /\ VotingWindow \in Nat /\ MaxClock \in Nat

VARIABLES
    stage, cycle, opensAt, closesAt,   \* the civic_processes row
    transitions, events,               \* the two ledgers
    clock,                             \* the time a request reads with now()
    access,                            \* what each actor may do at the moment
    confirmed,                         \* actors with a signal_confirmations row
    proposal,                          \* lifecycle of each author's civic_proposals row
    revisions,                         \* authors with a civic_proposal_revisions row
    contributors,                      \* authors of civic_deliberation_contributions
    eligible,                          \* civic_ballot_eligible_actors: <<actor, cycle>>
    tokens, consumed,                  \* civic_ballot_tokens: issued, with consumed_at set
    votes,                             \* civic_votes, with no link to the voter
    pending,                           \* vote requests between their read and their cast
    mandate                            \* the civic_mandates row

process == <<stage, cycle, opensAt, closesAt>>
ledgers == <<transitions, events>>
people == <<confirmed, contributors>>
drafts == <<proposal, revisions>>
ballot == <<eligible, tokens, consumed, votes, mandate>>
vars == <<process, ledgers, clock, access, people, drafts, ballot, pending>>

\* "participant": an active civic actor whose account may take part.
\* "lapsed": the actor row is active, the account may only read.
\* "inactive": the actor row is not active.
AccessLevels == {"participant", "lapsed", "inactive"}
Lifecycles == {"none", "published", "revised", "withdrawn", "frozen"}

Participant(a) == access[a] = "participant"
ActiveActors == {a \in Actors : access[a] # "inactive"}
Proposed == {a \in Actors : proposal[a] # "none"}
Frozen == {a \in Actors : proposal[a] = "frozen"}

VotesOf(c) == {v \in votes : v.cycle = c}
VotesFor(p, c) == {v \in votes : v.cycle = c /\ v.proposal = p}
ConsumedOf(c) == {t \in consumed : t[2] = c}
EligibleOf(c) == {a \in Actors : <<a, c>> \in eligible}

Init ==
    /\ stage = "confirmation" /\ cycle = 1
    /\ opensAt = None /\ closesAt = None
    /\ transitions = {} /\ events = {<<"process_created", 1>>}
    /\ clock = 0
    /\ access = [a \in Actors |-> "participant"]
    /\ confirmed = {} /\ contributors = {}
    /\ proposal = [a \in Actors |-> "none"] /\ revisions = {}
    /\ eligible = {} /\ tokens = {} /\ consumed = {} /\ votes = {}
    /\ pending = {}
    /\ mandate = None

-----------------------------------------------------------------------------
(* The part every stage transition shares: the ledger row first, and only  *)
(* if it was written the stage and the event.                              *)

Record(e) ==
    /\ transitions' = transitions \cup {Row(e, cycle)}
    /\ events' = events \cup {Event(e, cycle)}
    /\ stage' = e.to

NoTransition == UNCHANGED <<process, ledgers>>

\* One row more in a set that a trigger counts: the trigger advances the
\* process when the count is reached and the ledger accepts the row.
AdvanceWhen(reached, e) ==
    IF reached /\ KeyFree(transitions, e, cycle)
    THEN Record(e) /\ UNCHANGED <<cycle, opensAt, closesAt>>
    ELSE NoTransition

-----------------------------------------------------------------------------
(* Time and access, which the process does not control.                    *)

\* Until the first deadline is set no guard reads the clock, so it starts then.
Tick ==
    /\ clock < MaxClock
    /\ opensAt # None
    /\ clock' = clock + 1
    /\ UNCHANGED <<process, ledgers, access, people, drafts, ballot, pending>>

ChangeAccess(a) ==
    /\ a \in Volatile
    /\ \E level \in AccessLevels \ {access[a]} : access' = [access EXCEPT ![a] = level]
    /\ UNCHANGED <<process, ledgers, clock, people, drafts, ballot, pending>>

-----------------------------------------------------------------------------
(* Confirmation, proposals, deliberation.                                  *)

ConfirmSignal(a) ==
    /\ Participant(a)
    /\ stage = "confirmation"
    /\ a \notin confirmed
    /\ confirmed' = confirmed \cup {a}
    /\ AdvanceWhen(Cardinality(confirmed') >= ConfirmationThreshold, ConfirmationReached)
    /\ UNCHANGED <<clock, access, contributors, drafts, ballot, pending>>

\* The count takes in every row of the process, the withdrawn ones too.
InsertProposal(a) ==
    /\ Participant(a)
    /\ stage = "proposals"
    /\ proposal[a] = "none"
    /\ proposal' = [proposal EXCEPT ![a] = "published"]
    /\ AdvanceWhen(Cardinality(Proposed \cup {a}) >= ProposalThreshold, ProposalsReached)
    /\ UNCHANGED <<clock, access, people, revisions, ballot, pending>>

ReviseProposal(a) ==
    /\ Participant(a)
    /\ proposal[a] = "published"
    /\ stage = "proposals"
    /\ proposal' = [proposal EXCEPT ![a] = "revised"]
    /\ revisions' = revisions \cup {a}
    /\ UNCHANGED <<process, ledgers, clock, access, people, ballot, pending>>

\* Mutant: the guard of a frozen proposal is lost.
WithdrawFrozenProposal(a) ==
    /\ Participant(a)
    /\ proposal[a] \in {"published", "revised", "frozen"}
    /\ proposal' = [proposal EXCEPT ![a] = "withdrawn"]
    /\ UNCHANGED <<process, ledgers, clock, access, people, revisions, ballot, pending>>

\* No stage is asked for: only a frozen or withdrawn proposal refuses.
WithdrawProposal(a) ==
    /\ Participant(a)
    /\ proposal[a] \in {"published", "revised"}
    /\ proposal' = [proposal EXCEPT ![a] = "withdrawn"]
    /\ UNCHANGED <<process, ledgers, clock, access, people, revisions, ballot, pending>>

\* Mutant: the list of voters is written with the column's default cycle.
PrepareWithDefaultCycle ==
    /\ Record(DeliberationReached)
    /\ opensAt' = clock + FreezeWindow
    /\ closesAt' = clock + FreezeWindow + VotingWindow
    /\ proposal' = [p \in Actors |-> IF proposal[p] \in {"none", "withdrawn"}
                                     THEN proposal[p] ELSE "frozen"]
    /\ eligible' = eligible \cup (ActiveActors \X {1})
    /\ UNCHANGED cycle

\* Entering ballot preparation: deadlines, frozen ballot, list of voters.
PrepareBallot ==
    /\ Record(DeliberationReached)
    /\ opensAt' = clock + FreezeWindow
    /\ closesAt' = clock + FreezeWindow + VotingWindow
    /\ proposal' = [p \in Actors |-> IF proposal[p] \in {"none", "withdrawn"}
                                     THEN proposal[p] ELSE "frozen"]
    /\ eligible' = eligible \cup (ActiveActors \X {cycle})
    /\ UNCHANGED cycle

\* The authors of all cycles are counted, so a retry needs one contribution.
InsertContribution(a) ==
    /\ Participant(a)
    /\ stage = "deliberation"
    /\ Proposed # {}
    /\ contributors' = contributors \cup {a}
    /\ IF /\ Cardinality(contributors') >= DeliberationThreshold
          /\ KeyFree(transitions, DeliberationReached, cycle)
       THEN PrepareBallot
       ELSE NoTransition /\ UNCHANGED <<proposal, eligible>>
    /\ UNCHANGED <<clock, access, confirmed, revisions, tokens, consumed, votes, mandate, pending>>

-----------------------------------------------------------------------------
(* Voting.  Nothing is scheduled: a request that reads the process opens or *)
(* closes it when the deadline has passed.                                 *)

\* Mutant: tokens are minted for whoever is active when voting opens.
MintForActiveActors(requests) ==
    /\ stage = "ballot_preparation"
    /\ opensAt <= clock
    /\ KeyFree(transitions, BallotPrepared, cycle)
    /\ Record(BallotPrepared)
    /\ tokens' = tokens \cup (ActiveActors \X {cycle})
    /\ pending' = pending \cup (requests \X {cycle})
    /\ UNCHANGED <<cycle, opensAt, closesAt, clock, access, people, drafts,
                   eligible, consumed, votes, mandate>>

\* requests is the vote request whose own read opened the ballot, if any: it
\* goes on to cast, however late it opened.
OpenVotingIfBallotPreparationElapsed(requests) ==
    /\ stage = "ballot_preparation"
    /\ opensAt <= clock
    /\ KeyFree(transitions, BallotPrepared, cycle)
    /\ Record(BallotPrepared)
    /\ tokens' = tokens \cup (EligibleOf(cycle) \X {cycle})
    /\ pending' = pending \cup (requests \X {cycle})
    /\ UNCHANGED <<cycle, opensAt, closesAt, clock, access, people, drafts,
                   eligible, consumed, votes, mandate>>

\* A vote request has read the stage and the cycle, inside the window
\* (otherwise its read would have closed it), and the caller may take part.
RequestVote(a) ==
    /\ Participant(a)
    /\ stage = "voting"
    /\ clock < closesAt
    /\ Frozen # {}
    /\ pending' = pending \cup {<<a, cycle>>}
    /\ UNCHANGED <<process, ledgers, clock, access, people, drafts, ballot>>

\* Mutants: the guard forgets the stage; the guard forgets the cycle.
AcceptAfterClose(p, c) == c = cycle /\ proposal[p] = "frozen"
AcceptOldCycle(p, c) == stage = "voting" /\ proposal[p] = "frozen"

\* The guard of civic_votes: stage, cycle and frozen proposal, not the time.
VoteAccepted(p, c) == stage = "voting" /\ c = cycle /\ proposal[p] = "frozen"

\* Mutants: a consumed token is not refused; no token is asked for.
CastWithSpentToken(a, c, p) ==
    /\ <<a, c>> \in pending
    /\ <<a, c>> \in tokens
    /\ VoteAccepted(p, c)
    /\ consumed' = consumed \cup {<<a, c>>}
    /\ votes' = votes \cup {[id |-> Cardinality(votes) + 1, cycle |-> c, proposal |-> p]}
    /\ pending' = pending \ {<<a, c>>}
    /\ UNCHANGED <<process, ledgers, clock, access, people, drafts, eligible, tokens, mandate>>
CastWithoutToken(a, c, p) ==
    /\ <<a, c>> \in pending
    /\ <<a, c>> \notin consumed
    /\ VoteAccepted(p, c)
    /\ consumed' = consumed \cup {<<a, c>>}
    /\ votes' = votes \cup {[id |-> Cardinality(votes) + 1, cycle |-> c, proposal |-> p]}
    /\ pending' = pending \ {<<a, c>>}
    /\ UNCHANGED <<process, ledgers, clock, access, people, drafts, eligible, tokens, mandate>>

\* The token is consumed and the vote written in one statement.
CastVote(a, c, p) ==
    /\ <<a, c>> \in pending
    /\ <<a, c>> \in tokens \ consumed
    /\ VoteAccepted(p, c)
    /\ consumed' = consumed \cup {<<a, c>>}
    /\ votes' = votes \cup {[id |-> Cardinality(votes) + 1, cycle |-> c, proposal |-> p]}
    /\ pending' = pending \ {<<a, c>>}
    /\ UNCHANGED <<process, ledgers, clock, access, people, drafts, eligible, tokens, mandate>>

\* No token is left, or the guard raises and the statement is rolled back.
RefuseVote(a, c, p) ==
    /\ <<a, c>> \in pending
    /\ p \in Frozen
    /\ <<a, c>> \notin tokens \ consumed \/ ~VoteAccepted(p, c)
    /\ pending' = pending \ {<<a, c>>}
    /\ UNCHANGED <<process, ledgers, clock, access, people, drafts, ballot>>

\* The proposals at the top of the tally of a cycle.
Leaders(c) ==
    {p \in Actors : /\ VotesFor(p, c) # {}
                    /\ \A q \in Actors : Cardinality(VotesFor(q, c)) <= Cardinality(VotesFor(p, c))}

Winner(c) == IF Cardinality(Leaders(c)) = 1 THEN CHOOSE p \in Leaders(c) : TRUE ELSE None

WindowElapsed == stage = "voting" /\ closesAt <= clock

\* Mutant: the quorum failure does not open a new cycle.
ReturnWithinCycle ==
    /\ WindowElapsed
    /\ Cardinality(VotesOf(cycle)) < BallotQuorum
    /\ KeyFree(transitions, QuorumNotReached, cycle)
    /\ Record(QuorumNotReached)
    /\ UNCHANGED <<cycle, opensAt, closesAt, clock, access, people, drafts, ballot, pending>>

ReturnToDeliberation ==
    /\ WindowElapsed
    /\ Cardinality(VotesOf(cycle)) < BallotQuorum
    /\ KeyFree(transitions, QuorumNotReached, cycle)
    /\ Record(QuorumNotReached)
    /\ cycle' = cycle + 1
    /\ UNCHANGED <<opensAt, closesAt, clock, access, people, drafts, ballot, pending>>

DecidedMandate(c) ==
    [proposal |-> Winner(c),
     voteCount |-> LET top == CHOOSE p \in Leaders(c) : TRUE IN Cardinality(VotesFor(top, c)),
     totalVotes |-> Cardinality(VotesOf(c))]

\* Mutant: a tied ballot is left open.
DecideOnlyWithWinner ==
    /\ WindowElapsed
    /\ Cardinality(VotesOf(cycle)) >= BallotQuorum
    /\ Winner(cycle) # None
    /\ mandate' = DecidedMandate(cycle)
    /\ transitions' =
           transitions \cup {Row(VotingWindowClosed, cycle), Row(MandateDecided, cycle)}
    /\ events' = events \cup {Event(VotingWindowClosed, cycle), Event(MandateDecided, cycle)}
    /\ stage' = "action"
    /\ UNCHANGED <<cycle, opensAt, closesAt, clock, access, people, drafts,
                   eligible, tokens, consumed, votes, pending>>

\* With a single leader the same transaction goes on to action; a tie stays.
DecideMandate ==
    /\ WindowElapsed
    /\ Cardinality(VotesOf(cycle)) >= BallotQuorum
    /\ KeyFree(transitions, VotingWindowClosed, cycle)
    /\ mandate' = IF mandate = None THEN DecidedMandate(cycle) ELSE mandate
    /\ IF Winner(cycle) # None /\ KeyFree(transitions, MandateDecided, cycle)
       THEN /\ transitions' =
                  transitions \cup {Row(VotingWindowClosed, cycle), Row(MandateDecided, cycle)}
            /\ events' =
                  events \cup {Event(VotingWindowClosed, cycle), Event(MandateDecided, cycle)}
            /\ stage' = "action"
       ELSE Record(VotingWindowClosed)
    /\ UNCHANGED <<cycle, opensAt, closesAt, clock, access, people, drafts,
                   eligible, tokens, consumed, votes, pending>>

-----------------------------------------------------------------------------
OpenVoting ==
    \/ OpenVotingIfBallotPreparationElapsed({})
    \/ \E a \in Actors : /\ Participant(a)
                        /\ Frozen # {}
                        /\ OpenVotingIfBallotPreparationElapsed({a})

CloseVoting == ReturnToDeliberation \/ DecideMandate

Vote == \E t \in pending, p \in Actors : CastVote(t[1], t[2], p) \/ RefuseVote(t[1], t[2], p)

ActorStep(a) ==
    \/ ChangeAccess(a)
    \/ ConfirmSignal(a)
    \/ InsertProposal(a)
    \/ ReviseProposal(a)
    \/ WithdrawProposal(a)
    \/ InsertContribution(a)
    \/ RequestVote(a)

Next == Tick \/ OpenVoting \/ CloseVoting \/ Vote \/ \E a \in Actors : ActorStep(a)

Spec == Init /\ [][Next]_vars

-----------------------------------------------------------------------------
(* What must hold.                                                         *)

\* Rows of civic_proposals (one of each author), civic_ballot_eligible_actors,
\* civic_ballot_tokens, civic_votes and civic_mandates.
ProposalRows == [Actors -> Lifecycles]
SnapshotRows == Actors \X (Nat \ {0})
TokenRows == Actors \X (Nat \ {0})
VoteRows == [id : Nat, cycle : Nat \ {0}, proposal : Actors]
MandateRows == [proposal : Actors \cup {None}, voteCount : Nat, totalVotes : Nat]

\* Type invariant; in it, only a token that was issued is ever consumed.
TypeOK ==
    /\ stage \in Stages /\ cycle \in Nat \ {0}
    /\ opensAt \in Nat \cup {None} /\ closesAt \in Nat \cup {None}
    /\ transitions \subseteq Rows /\ events \subseteq Events
    /\ clock \in Nat
    /\ access \in [Actors -> AccessLevels]
    /\ confirmed \subseteq Actors /\ contributors \subseteq Actors
    /\ proposal \in ProposalRows /\ revisions \subseteq Actors
    /\ eligible \subseteq SnapshotRows /\ tokens \subseteq TokenRows
    /\ consumed \subseteq tokens
    /\ votes \subseteq VoteRows
    /\ pending \subseteq Actors \X (Nat \ {0})
    /\ mandate \in {None} \cup MandateRows

Moved(e, c) == ~KeyFree(transitions, e, c)
VotingClosed(c) == c < cycle \/ Rank[stage] > Rank["voting"]

\* The ledger's uniqueness key never blocks the process: whatever stage it
\* stands at, in whatever cycle, the row of every edge out of that stage is
\* still free (the key includes the cycle, and only a failed quorum reuses an
\* edge, in the next cycle).
LedgerNeverBlocks == \A e \in Edges : e.from = stage => KeyFree(transitions, e, cycle)

\* The timeline loses no move: ON CONFLICT DO NOTHING on the event ledger never
\* swallows the event of a transition, across cycles.
EveryMoveHasItsEvent == Cardinality(events) = 1 + Cardinality(transitions)

\* The votes of a cycle are exactly as many as the tokens consumed in it,
\* though nothing links the two: no vote without a token, no token spent for
\* nothing, whatever requests are refused or race.
OneVotePerToken == \A c \in 1..cycle : Cardinality(VotesOf(c)) = Cardinality(ConsumedOf(c))

\* The voters of a cycle are those listed when its ballot was frozen: tokens
\* exist for them and for nobody else, and only once voting has opened.
TokensFollowSnapshot ==
    \A c \in 1..cycle :
        {t \in tokens : t[2] = c} = IF Moved(BallotPrepared, c) THEN EligibleOf(c) \X {c} ELSE {}

\* A list of voters never changes after its freeze, whatever happens to the
\* actors and however many cycles follow.
SnapshotNeverChanges ==
    [][\A c \in 1..cycle : Moved(DeliberationReached, c) => EligibleOf(c)' = EligibleOf(c)]_vars

\* From the first freeze on, in every cycle, the ballot stays as it is: no
\* proposal is withdrawn from it, added to it or revised.
FrozenBallotImmutable ==
    [][Moved(DeliberationReached, 1) => Frozen' = Frozen /\ revisions' = revisions]_vars

\* The mandate counts every vote of the deciding cycle and no other: a quorum
\* was there, a winner has strictly the most votes and is on the frozen ballot,
\* and no winner means that two proposals are equal at the top.
MandateCountsEveryVote ==
    mandate # None =>
        /\ mandate.totalVotes = Cardinality(VotesOf(cycle))
        /\ mandate.totalVotes >= BallotQuorum
        /\ IF mandate.proposal # None
           THEN /\ mandate.proposal \in Frozen
                /\ \A q \in Actors \ {mandate.proposal} :
                       Cardinality(VotesFor(q, cycle)) < mandate.voteCount
           ELSE \E p, q \in Frozen :
                   /\ p # q
                   /\ Cardinality(VotesFor(p, cycle)) = Cardinality(VotesFor(q, cycle))
                   /\ Cardinality(VotesFor(p, cycle)) = mandate.voteCount

\* Once the voting of a cycle is closed its votes are final and so is the
\* mandate: a vote request that read the ballot before the close, or in an
\* earlier cycle, changes neither.
ClosedVotingIsFinal ==
    [][/\ \A c \in 1..cycle : VotingClosed(c) => VotesOf(c)' = VotesOf(c)
       /\ mandate # None => mandate' = mandate]_vars

\* The detailed process makes only the moves that the abstract one promises.
Promise == INSTANCE CivicStages
ImplementsStages == Promise!Spec

-----------------------------------------------------------------------------
(* What the documents and tests say, and the code does not do.             *)

\* docs: "CIVIC_PROPOSAL_THRESHOLD = 5 published proposals".  The trigger counts
\* withdrawn ones as well.
ThresholdIsOfPublishedProposals ==
    [][stage = "proposals" /\ stage' = "deliberation" =>
         Cardinality({a \in Actors : proposal'[a] \in {"published", "revised"}})
             >= ProposalThreshold]_vars

\* The eligible voter count of the ballot preview: the rows of every cycle.
CountCivicBallotEligibleActors == Cardinality(eligible)

\* A test expects the preview to count the voters of the frozen ballot.
PreviewCountsTheVoters ==
    stage \in {"ballot_preparation", "voting"} =>
        CountCivicBallotEligibleActors = Cardinality(EligibleOf(cycle))
=============================================================================
