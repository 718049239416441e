------------------------- MODULE CivicBallotProofs -------------------------
(***************************************************************************)
(* Theorems about CivicBallot, for every community, all thresholds and      *)
(* windows, and any number of ballot cycles.  The typing and the ledger     *)
(* come first; on them rest the voters, the frozen ballot and the closed    *)
(* vote, and last the mandate, which counts every vote of its ballot.       *)
(***************************************************************************)
EXTENDS CivicBallot, FiniteSetTheorems, WellFoundedInduction, TLAPS

\* Wherever the type invariant is expanded, so are the row types it names.
USE DEF ProposalRows, SnapshotRows, TokenRows, VoteRows, MandateRows

-----------------------------------------------------------------------------
(* The ledgers' rows.                                                      *)

\* A move along any edge writes a well-formed row and event and ends at a stage.
LEMMA EdgeTypes ==
    ASSUME NEW e \in Edges, NEW c \in Nat \ {0}
    PROVE  /\ Row(e, c) \in Rows
           /\ Event(e, c) \in Events
           /\ e.from \in Stages /\ e.to \in Stages
<1>1. LedgerCycle(e, c) \in Nat \ {0}
  BY DEF LedgerCycle
<1>2. e.from \in Stages /\ e.to \in Stages
  BY DEF Edges, CycleEdges, OneTimeEdges, Edge, Stages, ConfirmationReached, ProposalsReached,
         DeliberationReached, BallotPrepared, QuorumNotReached, VotingWindowClosed,
         MandateDecided, ActionMarkedReady, DeliveredReached, NotDeliveredReached
<1>3. Row(e, c) \in Rows
  BY <1>1 DEF Row, Rows
<1>4. Event(e, c) \in Events
  BY <1>1, <1>2 DEF Event, Events, EventOf
<1> QED BY <1>2, <1>3, <1>4

\* The edges of this module are edges of the ledger.
LEMMA BallotEdges ==
    /\ {ConfirmationReached, ProposalsReached, DeliberationReached, BallotPrepared,
        QuorumNotReached, VotingWindowClosed, MandateDecided} \subseteq Edges
    /\ ConfirmationReached.to = "proposals"
    /\ ProposalsReached.to = "deliberation"
    /\ DeliberationReached.to = "ballot_preparation"
    /\ BallotPrepared.to = "voting"
    /\ QuorumNotReached.to = "deliberation"
    /\ VotingWindowClosed.to = "mandate"
    /\ MandateDecided.to = "action"
  BY DEF Edges, CycleEdges, OneTimeEdges, Edge, ConfirmationReached, ProposalsReached,
         DeliberationReached, BallotPrepared, QuorumNotReached, VotingWindowClosed, MandateDecided

-----------------------------------------------------------------------------
(* Type correctness.  The counts of a trigger are numbers only because the *)
(* sets they count are finite, so finiteness is part of the invariant.     *)

Finite == IsFiniteSet(votes) /\ IsFiniteSet(consumed)
Typed == TypeOK /\ Finite

\* A recorded move keeps the ledgers and the stage well-formed.
LEMMA RecordTypes ==
    ASSUME TypeOK, NEW e \in Edges, Record(e)
    PROVE  transitions' \subseteq Rows /\ events' \subseteq Events /\ stage' \in Stages
  BY EdgeTypes DEF TypeOK, Record

\* The votes of a cycle, or for a proposal, are finitely many.
LEMMA TalliesAreNumbers ==
    ASSUME Finite, NEW c, NEW p
    PROVE  /\ Cardinality(VotesOf(c)) \in Nat
           /\ Cardinality(VotesFor(p, c)) \in Nat
<1>1. IsFiniteSet(VotesOf(c)) /\ IsFiniteSet(VotesFor(p, c))
  BY FS_Subset DEF Finite, VotesOf, VotesFor
<1> QED BY <1>1, FS_CardinalityType

LEMMA WinnerType ==
    ASSUME NEW c
    PROVE  Winner(c) \in Actors \cup {None}
<1>1. CASE Cardinality(Leaders(c)) = 1
  <2>1. Leaders(c) # {}
    BY <1>1, FS_EmptySet
  <2> QED BY <1>1, <2>1 DEF Winner, Leaders
<1>2. CASE Cardinality(Leaders(c)) # 1
  BY <1>2 DEF Winner
<1> QED BY <1>1, <1>2

LEMMA DecidedMandateType ==
    ASSUME Finite, NEW c
    PROVE  DecidedMandate(c)
               \in [proposal : Actors \cup {None}, voteCount : Nat, totalVotes : Nat]
<1> DEFINE top == CHOOSE p \in Leaders(c) : TRUE
<1>1. Cardinality(VotesFor(top, c)) \in Nat /\ Cardinality(VotesOf(c)) \in Nat
  BY TalliesAreNumbers
<1>2. Winner(c) \in Actors \cup {None}
  BY WinnerType
<1> QED BY <1>1, <1>2 DEF DecidedMandate

\* One step of an action of one actor keeps the types.
LEMMA ActorStepTyped ==
    ASSUME Typed, NEW a \in Actors, ActorStep(a)
    PROVE  Typed'
<1> USE DEF Typed, Finite
<1>1. CASE ChangeAccess(a)
  BY <1>1 DEF TypeOK, ChangeAccess, process, ledgers, people, drafts, ballot
<1>2. CASE ConfirmSignal(a)
  <2>1. transitions' \subseteq Rows /\ events' \subseteq Events /\ stage' \in Stages
    BY <1>2, RecordTypes, BallotEdges
       DEF TypeOK, ConfirmSignal, AdvanceWhen, NoTransition, process, ledgers
  <2> QED BY <1>2, <2>1 DEF TypeOK, ConfirmSignal, AdvanceWhen, NoTransition, Record,
                            process, ledgers, drafts, ballot
<1>3. CASE InsertProposal(a)
  <2>1. transitions' \subseteq Rows /\ events' \subseteq Events /\ stage' \in Stages
    BY <1>3, RecordTypes, BallotEdges
       DEF TypeOK, InsertProposal, AdvanceWhen, NoTransition, process, ledgers
  <2>2. proposal' \in [Actors -> Lifecycles]
    BY <1>3 DEF TypeOK, InsertProposal, Lifecycles
  <2> QED BY <1>3, <2>1, <2>2 DEF TypeOK, InsertProposal, AdvanceWhen, NoTransition, Record,
                                  process, ledgers, people, ballot
<1>4. CASE ReviseProposal(a)
  <2>1. proposal' \in [Actors -> Lifecycles]
    BY <1>4 DEF TypeOK, ReviseProposal, Lifecycles
  <2> QED BY <1>4, <2>1 DEF TypeOK, ReviseProposal, process, ledgers, people, ballot
<1>5. CASE WithdrawProposal(a)
  <2>1. proposal' \in [Actors -> Lifecycles]
    BY <1>5 DEF TypeOK, WithdrawProposal, Lifecycles
  <2> QED BY <1>5, <2>1 DEF TypeOK, WithdrawProposal, process, ledgers, people, ballot
<1>6. CASE InsertContribution(a)
  <2>1. CASE PrepareBallot
    <3>1. transitions' \subseteq Rows /\ events' \subseteq Events /\ stage' \in Stages
      BY <2>1, RecordTypes, BallotEdges DEF PrepareBallot
    <3>2. proposal' \in [Actors -> Lifecycles]
      BY <2>1 DEF TypeOK, PrepareBallot, Lifecycles
    <3>3. eligible' \subseteq Actors \X (Nat \ {0})
      BY <2>1 DEF TypeOK, PrepareBallot, ActiveActors
    <3>4. opensAt' \in Nat /\ closesAt' \in Nat /\ cycle' = cycle
      BY <2>1, WindowAssumption DEF TypeOK, PrepareBallot
    <3>5. contributors' \subseteq Actors
      BY <1>6 DEF TypeOK, InsertContribution
    <3> QED BY <1>6, <3>1, <3>2, <3>3, <3>4, <3>5 DEF TypeOK, InsertContribution
  <2>2. CASE NoTransition /\ UNCHANGED <<proposal, eligible>>
    BY <1>6, <2>2 DEF TypeOK, InsertContribution, NoTransition, process, ledgers
  <2> QED BY <1>6, <2>1, <2>2 DEF InsertContribution
<1>7. CASE RequestVote(a)
  BY <1>7 DEF TypeOK, RequestVote, process, ledgers, people, drafts, ballot
<1> QED BY <1>1, <1>2, <1>3, <1>4, <1>5, <1>6, <1>7 DEF ActorStep

\* Opening the ballot keeps the types, whichever request opens it.
LEMMA OpenTyped ==
    ASSUME Typed, NEW requests \in SUBSET Actors,
           OpenVotingIfBallotPreparationElapsed(requests)
    PROVE  Typed'
<1> USE DEF Typed, Finite, OpenVotingIfBallotPreparationElapsed
<1>1. transitions' \subseteq Rows /\ events' \subseteq Events /\ stage' \in Stages
  BY RecordTypes, BallotEdges
<1>2. tokens' \subseteq Actors \X (Nat \ {0}) /\ consumed' \subseteq tokens'
  BY DEF TypeOK, EligibleOf
<1>3. pending' \subseteq Actors \X (Nat \ {0})
  BY DEF TypeOK
<1> QED BY <1>1, <1>2, <1>3 DEF TypeOK, people, drafts

\* A vote that is cast or refused keeps the types.
LEMMA VoteTyped ==
    ASSUME Typed, NEW a \in Actors, NEW c \in Nat \ {0}, NEW p \in Actors,
           CastVote(a, c, p) \/ RefuseVote(a, c, p)
    PROVE  Typed'
<1> USE DEF Typed
<1>1. CASE CastVote(a, c, p)
  <2>1. Cardinality(votes) \in Nat
    BY FS_CardinalityType DEF Finite
  <2>2. Finite'
    BY <1>1, FS_AddElement DEF Finite, CastVote
  <2>3. votes' \subseteq [id : Nat, cycle : Nat \ {0}, proposal : Actors]
    BY <1>1, <2>1 DEF TypeOK, CastVote
  <2>4. consumed' \subseteq tokens' /\ tokens' = tokens
    BY <1>1 DEF TypeOK, CastVote
  <2>5. pending' \subseteq Actors \X (Nat \ {0})
    BY <1>1 DEF TypeOK, CastVote
  <2> QED BY <1>1, <2>2, <2>3, <2>4, <2>5 DEF TypeOK, CastVote, process, ledgers, people, drafts
<1>2. CASE RefuseVote(a, c, p)
  BY <1>2 DEF TypeOK, Finite, RefuseVote, process, ledgers, people, drafts, ballot
<1> QED BY <1>1, <1>2

\* Closing the ballot keeps the types, in each of its three outcomes.
LEMMA CloseTyped ==
    ASSUME Typed, CloseVoting
    PROVE  Typed'
<1> USE DEF Typed
<1>1. CASE ReturnToDeliberation
  <2>1. transitions' \subseteq Rows /\ events' \subseteq Events /\ stage' \in Stages
    BY <1>1, RecordTypes, BallotEdges DEF ReturnToDeliberation
  <2> QED BY <1>1, <2>1 DEF TypeOK, Finite, ReturnToDeliberation, people, drafts, ballot
<1>2. CASE DecideMandate
  <2>1. mandate' \in {None} \cup
          [proposal : Actors \cup {None}, voteCount : Nat, totalVotes : Nat]
    BY <1>2, DecidedMandateType DEF TypeOK, DecideMandate
  <2>2. transitions' \subseteq Rows /\ events' \subseteq Events /\ stage' \in Stages
    <3>1. CASE Record(VotingWindowClosed)
      BY <3>1, RecordTypes, BallotEdges
    <3>2. CASE /\ transitions' =
                     transitions \cup {Row(VotingWindowClosed, cycle), Row(MandateDecided, cycle)}
               /\ events' =
                     events \cup {Event(VotingWindowClosed, cycle), Event(MandateDecided, cycle)}
               /\ stage' = "action"
      <4>1. /\ {Row(VotingWindowClosed, cycle), Row(MandateDecided, cycle)} \subseteq Rows
            /\ {Event(VotingWindowClosed, cycle), Event(MandateDecided, cycle)} \subseteq Events
        BY EdgeTypes, BallotEdges DEF TypeOK
      <4> QED BY <3>2, <4>1 DEF TypeOK, Stages
    <3> QED BY <1>2, <3>1, <3>2 DEF DecideMandate
  <2> QED BY <1>2, <2>1, <2>2 DEF TypeOK, Finite, DecideMandate, people, drafts
<1> QED BY <1>1, <1>2 DEF CloseVoting

LEMMA InitTyped == Init => Typed
  BY FS_EmptySet, BallotEdges
     DEF Init, Typed, Finite, TypeOK, Stages, Events, AccessLevels, Lifecycles

LEMMA NextTyped ==
    ASSUME Typed, [Next]_vars
    PROVE  Typed'
<1>1. CASE Tick
  BY <1>1 DEF Typed, TypeOK, Finite, Tick, process, ledgers, people, drafts, ballot
<1>2. CASE OpenVoting
  BY <1>2, OpenTyped DEF OpenVoting
<1>3. CASE CloseVoting
  BY <1>3, CloseTyped
<1>4. CASE Vote
  <2>1. PICK t \in pending, p \in Actors : CastVote(t[1], t[2], p) \/ RefuseVote(t[1], t[2], p)
    BY <1>4 DEF Vote
  <2>2. t[1] \in Actors /\ t[2] \in Nat \ {0}
    BY <2>1 DEF Typed, TypeOK
  <2> QED BY <2>1, <2>2, VoteTyped
<1>5. CASE \E a \in Actors : ActorStep(a)
  BY <1>5, ActorStepTyped
<1>6. CASE UNCHANGED vars
  BY <1>6 DEF vars, Typed, TypeOK, Finite, process, ledgers, people, drafts, ballot
<1> QED BY <1>1, <1>2, <1>3, <1>4, <1>5, <1>6 DEF Next

\* Every reachable state of a ballot is well-typed and its tallies are finite.
THEOREM BallotTyped == Spec => []Typed
<1>1. Init => Typed
  BY InitTyped
<1>2. Typed /\ [Next]_vars => Typed'
  BY NextTyped
<1> QED BY <1>1, <1>2, PTL DEF Spec

\* The type invariant that the runs check holds for every community.
THEOREM BallotTypeCorrect == Spec => []TypeOK
<1>1. Typed => TypeOK
  BY DEF Typed
<1> QED BY <1>1, BallotTyped, PTL

-----------------------------------------------------------------------------
(* The ledger's key.  A row of the current cycle, or of an edge that is    *)
(* taken once, leaves from a stage the process has already passed; so the  *)
(* key of every edge out of the present stage is free.                     *)

Passed(r) == Rank[r.edge.from] < Rank[stage]
LedgerInv ==
    \A r \in transitions :
        r.cycle <= cycle /\ (r.cycle = cycle \/ r.edge \in OneTimeEdges => Passed(r))

\* Every edge but the return climbs in rank, and the edges of one pair of
\* stages are all written with the cycle or all without it.
LEMMA EdgeRanks ==
    /\ \A e \in Edges \ {QuorumNotReached} :
          Rank[e.from] \in Nat /\ Rank[e.to] \in Nat /\ Rank[e.from] < Rank[e.to]
    /\ QuorumNotReached \in CycleEdges
    /\ \A d, e \in Edges :
          d.from = e.from /\ d.to = e.to /\ e \in OneTimeEdges => d \in OneTimeEdges
    /\ \A e \in OneTimeEdges : Rank[e.from] < 4 => Rank[e.from] < 2
    /\ \A e \in {BallotPrepared, DeliberationReached, VotingWindowClosed, MandateDecided} :
          e \in CycleEdges /\ e \notin OneTimeEdges
    /\ QuorumNotReached \notin OneTimeEdges
    /\ Edges = CycleEdges \cup OneTimeEdges
  BY DEF Edges, CycleEdges, OneTimeEdges, Edge, Rank, ConfirmationReached, ProposalsReached,
         DeliberationReached, BallotPrepared, QuorumNotReached, VotingWindowClosed,
         MandateDecided, ActionMarkedReady, DeliveredReached, NotDeliveredReached

\* The stages each edge of this module joins.
LEMMA EdgeEnds ==
    /\ ConfirmationReached.from = "confirmation"
    /\ ProposalsReached.from = "proposals"
    /\ DeliberationReached.from = "deliberation"
    /\ BallotPrepared.from = "ballot_preparation"
    /\ QuorumNotReached.from = "voting"
    /\ VotingWindowClosed.from = "voting"
    /\ MandateDecided.from = "mandate"
    /\ QuorumNotReached \notin {ConfirmationReached, ProposalsReached, DeliberationReached,
                                BallotPrepared, VotingWindowClosed, MandateDecided}
  BY DEF Edge, ConfirmationReached, ProposalsReached, DeliberationReached, BallotPrepared,
         QuorumNotReached, VotingWindowClosed, MandateDecided

LEMMA FreeKey ==
    ASSUME TypeOK, LedgerInv
    PROVE  LedgerNeverBlocks
<1> SUFFICES ASSUME NEW e \in Edges, e.from = stage, NEW r \in transitions,
                    r.edge.from = e.from, r.edge.to = e.to, r.cycle = LedgerCycle(e, cycle)
             PROVE  FALSE
  BY DEF LedgerNeverBlocks, KeyFree
<1>1. r.edge \in Edges
  BY DEF TypeOK, Rows
<1>2. r.cycle = cycle \/ r.edge \in OneTimeEdges
  BY <1>1, EdgeRanks DEF LedgerCycle
<1>3. Rank[r.edge.from] < Rank[stage] /\ Rank[stage] \in Nat
  BY <1>2 DEF LedgerInv, Passed, TypeOK, Stages, Rank
<1> QED BY <1>3

\* A move forward leaves from the stage it records.
LEMMA ForwardKeepsLedger ==
    ASSUME TypeOK, LedgerInv, NEW e \in Edges \ {QuorumNotReached}, stage = e.from,
           Record(e), cycle' = cycle
    PROVE  LedgerInv'
<1>1. Rank[stage] \in Nat /\ Rank[stage'] \in Nat /\ Rank[stage] < Rank[stage']
  BY EdgeRanks DEF Record
<1> SUFFICES ASSUME NEW r \in transitions'
             PROVE  r.cycle <= cycle /\ (r.cycle = cycle \/ r.edge \in OneTimeEdges
                                           => Rank[r.edge.from] < Rank[stage'])
  BY DEF LedgerInv, Passed
<1>2. CASE r \in transitions
  <2>1. r.edge.from \in Stages
    BY <1>2, EdgeTypes DEF TypeOK, Rows
  <2>2. Rank[r.edge.from] \in Nat
    BY <2>1 DEF Stages, Rank
  <2> QED BY <1>1, <1>2, <2>2 DEF LedgerInv, Passed
<1>3. CASE r = Row(e, cycle)
  <2>1. r.edge = e /\ r.cycle = LedgerCycle(e, cycle)
    BY <1>3 DEF Row
  <2>2. r.cycle <= cycle
    BY <2>1 DEF LedgerCycle, TypeOK
  <2> QED BY <1>1, <2>1, <2>2
<1> QED BY <1>2, <1>3 DEF Record

LEMMA InitLedger == Init => LedgerInv
  BY DEF Init, LedgerInv

\* A step that leaves the process row and the ledgers alone.
LEMMA QuietKeepsLedger ==
    ASSUME LedgerInv, UNCHANGED <<process, ledgers>>
    PROVE  LedgerInv'
  BY DEF LedgerInv, Passed, process, ledgers

LEMMA AdvanceKeepsLedger ==
    ASSUME TypeOK, LedgerInv, NEW e \in Edges \ {QuorumNotReached}, stage = e.from,
           (Record(e) /\ cycle' = cycle) \/ NoTransition
    PROVE  LedgerInv'
  BY ForwardKeepsLedger, QuietKeepsLedger DEF NoTransition

LEMMA ActorStepKeepsLedger ==
    ASSUME TypeOK, LedgerInv, NEW a \in Actors, ActorStep(a)
    PROVE  LedgerInv'
<1>1. CASE \/ ChangeAccess(a) \/ ReviseProposal(a) \/ WithdrawProposal(a) \/ RequestVote(a)
  BY <1>1, QuietKeepsLedger
     DEF ChangeAccess, ReviseProposal, WithdrawProposal, RequestVote
<1>2. CASE ConfirmSignal(a)
  <2>1. (Record(ConfirmationReached) /\ cycle' = cycle) \/ NoTransition
    BY <1>2 DEF ConfirmSignal, AdvanceWhen
  <2>2. stage = ConfirmationReached.from /\ ConfirmationReached \in Edges \ {QuorumNotReached}
    BY <1>2, BallotEdges, EdgeEnds DEF ConfirmSignal
  <2> QED BY <2>1, <2>2, AdvanceKeepsLedger
<1>3. CASE InsertProposal(a)
  <2>1. (Record(ProposalsReached) /\ cycle' = cycle) \/ NoTransition
    BY <1>3 DEF InsertProposal, AdvanceWhen
  <2>2. stage = ProposalsReached.from /\ ProposalsReached \in Edges \ {QuorumNotReached}
    BY <1>3, BallotEdges, EdgeEnds DEF InsertProposal
  <2> QED BY <2>1, <2>2, AdvanceKeepsLedger
<1>4. CASE InsertContribution(a)
  <2>1. CASE PrepareBallot
    BY <1>4, <2>1, ForwardKeepsLedger, BallotEdges, EdgeEnds DEF InsertContribution, PrepareBallot
  <2>2. CASE NoTransition
    BY <2>2, QuietKeepsLedger DEF NoTransition
  <2> QED BY <1>4, <2>1, <2>2 DEF InsertContribution
<1> QED BY <1>1, <1>2, <1>3, <1>4 DEF ActorStep

LEMMA CloseKeepsLedger ==
    ASSUME TypeOK, LedgerInv, CloseVoting
    PROVE  LedgerInv'
<1>1. CASE ReturnToDeliberation
  <2> SUFFICES ASSUME NEW r \in transitions'
               PROVE  r.cycle <= cycle + 1 /\ (r.cycle = cycle + 1 \/ r.edge \in OneTimeEdges
                                                 => Rank[r.edge.from] < Rank["deliberation"])
    BY <1>1, BallotEdges DEF LedgerInv, Passed, ReturnToDeliberation, Record
  <2>1. stage = "voting" /\ cycle \in Nat
    BY <1>1 DEF ReturnToDeliberation, WindowElapsed, TypeOK
  <2>2. CASE r \in transitions
    <3>1. r.cycle <= cycle /\ r.cycle \in Nat /\ r.edge \in Edges
      BY <2>2 DEF LedgerInv, TypeOK, Rows
    <3>2. r.edge \in OneTimeEdges => Rank[r.edge.from] < 4
      BY <2>1, <2>2 DEF LedgerInv, Passed, Rank
    <3>3. Rank["deliberation"] = 2
      BY DEF Rank
    <3> QED BY <2>1, <3>1, <3>2, <3>3, EdgeRanks
  <2>3. CASE r = Row(QuorumNotReached, cycle)
    <3>1. r.edge = QuorumNotReached /\ r.cycle = cycle
      BY <2>3, EdgeRanks DEF Row, LedgerCycle
    <3> QED BY <2>1, <3>1, EdgeRanks
  <2> QED BY <1>1, <2>2, <2>3 DEF ReturnToDeliberation, Record
<1>2. CASE DecideMandate
  <2>1. stage = "voting" /\ cycle \in Nat /\ cycle' = cycle
    BY <1>2 DEF DecideMandate, WindowElapsed, TypeOK
  <2>2. CASE Record(VotingWindowClosed)
    BY <2>1, <2>2, ForwardKeepsLedger, BallotEdges, EdgeEnds
  <2>3. CASE /\ transitions' =
                   transitions \cup {Row(VotingWindowClosed, cycle), Row(MandateDecided, cycle)}
             /\ stage' = "action"
    <3> SUFFICES ASSUME NEW r \in transitions'
                 PROVE  r.cycle <= cycle /\ (r.cycle = cycle \/ r.edge \in OneTimeEdges
                                               => Rank[r.edge.from] < Rank["action"])
      BY <2>1, <2>3 DEF LedgerInv, Passed
    <3>1. CASE r \in transitions
      <4>1. r.edge.from \in Stages
        BY <3>1, EdgeTypes DEF TypeOK, Rows
      <4>2. Rank[r.edge.from] \in Nat /\ Rank["voting"] = 4 /\ Rank["action"] = 6
        BY <4>1 DEF Stages, Rank
      <4> QED BY <2>1, <3>1, <4>2 DEF LedgerInv, Passed
    <3>2. CASE r \in {Row(VotingWindowClosed, cycle), Row(MandateDecided, cycle)}
      <4>1. r.edge \in {VotingWindowClosed, MandateDecided} /\ r.cycle = cycle
        BY <3>2, EdgeRanks DEF Row, LedgerCycle
      <4>2. Rank[r.edge.from] < Rank["action"]
        BY <4>1, EdgeEnds DEF Rank
      <4> QED BY <2>1, <4>1, <4>2
    <3> QED BY <2>3, <3>1, <3>2
  <2> QED BY <1>2, <2>2, <2>3 DEF DecideMandate
<1> QED BY <1>1, <1>2 DEF CloseVoting

LEMMA NextLedger ==
    ASSUME TypeOK, LedgerInv, [Next]_vars
    PROVE  LedgerInv'
<1>1. CASE Tick
  BY <1>1, QuietKeepsLedger DEF Tick
<1>2. CASE OpenVoting
  <2>1. PICK requests \in SUBSET Actors : OpenVotingIfBallotPreparationElapsed(requests)
    BY <1>2 DEF OpenVoting
  <2> QED BY <2>1, ForwardKeepsLedger, BallotEdges, EdgeEnds
             DEF OpenVotingIfBallotPreparationElapsed
<1>3. CASE CloseVoting
  BY <1>3, CloseKeepsLedger
<1>4. CASE Vote
  BY <1>4, QuietKeepsLedger DEF Vote, CastVote, RefuseVote
<1>5. CASE \E a \in Actors : ActorStep(a)
  BY <1>5, ActorStepKeepsLedger
<1>6. CASE UNCHANGED vars
  BY <1>6, QuietKeepsLedger DEF vars
<1> QED BY <1>1, <1>2, <1>3, <1>4, <1>5, <1>6 DEF Next

\* Whatever the thresholds and however many ballots fail, the uniqueness key of
\* the ledger never refuses the next move of a process.
THEOREM LedgerNeverBlocksForever == Spec => []LedgerNeverBlocks
<1>1. Init => LedgerInv
  BY InitLedger
<1>2. TypeOK /\ LedgerInv /\ [Next]_vars => LedgerInv'
  BY NextLedger
<1>3. TypeOK /\ LedgerInv => LedgerNeverBlocks
  BY FreeKey
<1> QED BY <1>1, <1>2, <1>3, BallotTypeCorrect, PTL DEF Spec

-----------------------------------------------------------------------------
(* The two ledgers.  The event of a move tells which edge of which cycle it *)
(* was, so a row whose key is free has an event that is new as well.        *)

Created == <<"process_created", 1>>
SameMoves(rows, evs) ==
    /\ IsFiniteSet(rows) /\ IsFiniteSet(evs)
    /\ Cardinality(evs) = 1 + Cardinality(rows)
    /\ \A v \in evs : v = Created \/ \E r \in rows : v = <<EventOf(r.edge), r.cycle>>
LedgersInv == SameMoves(transitions, events)

\* No two edges share an event, but for the two that archive a process from
\* the same stage.
LEMMA EventsTellMoves ==
    /\ \A d, e \in Edges : EventOf(d) = EventOf(e) => d.from = e.from /\ d.to = e.to
    /\ \A e \in Edges : EventOf(e) # "process_created"
  BY DEF EventOf, Edges, CycleEdges, OneTimeEdges, Edge, ConfirmationReached, ProposalsReached,
         DeliberationReached, BallotPrepared, QuorumNotReached, VotingWindowClosed,
         MandateDecided, ActionMarkedReady, DeliveredReached, NotDeliveredReached

LEMMA OneRowOneEvent ==
    ASSUME NEW rows \in SUBSET Rows, NEW evs, SameMoves(rows, evs),
           NEW e \in Edges, NEW c \in Nat \ {0}, KeyFree(rows, e, c)
    PROVE  SameMoves(rows \cup {Row(e, c)}, evs \cup {Event(e, c)})
<1> DEFINE row == Row(e, c)
           ev == Event(e, c)
<1>1. row.edge = e /\ row.cycle = LedgerCycle(e, c) /\ ev = <<EventOf(row.edge), row.cycle>>
  BY DEF Row, Event
<1>2. row \notin rows
  BY <1>1 DEF KeyFree
<1>3. ev \notin evs
  <2>1. ev # Created
    BY EventsTellMoves DEF Event, Created
  <2>2. ASSUME NEW r \in rows
        PROVE  ev # <<EventOf(r.edge), r.cycle>>
    <3>1. r.edge \in Edges
      BY DEF Rows
    <3> QED BY <1>1, <3>1, EventsTellMoves DEF KeyFree
  <2> QED BY <2>1, <2>2 DEF SameMoves
<1> HIDE DEF row, ev
<1>4. /\ IsFiniteSet(rows \cup {row}) /\ Cardinality(rows \cup {row}) = Cardinality(rows) + 1
      /\ IsFiniteSet(evs \cup {ev}) /\ Cardinality(evs \cup {ev}) = Cardinality(evs) + 1
      /\ Cardinality(rows) \in Nat /\ Cardinality(evs) \in Nat
  BY <1>2, <1>3, FS_AddElement, FS_CardinalityType DEF SameMoves
<1>5. SameMoves(rows \cup {row}, evs \cup {ev})
  BY <1>1, <1>4 DEF SameMoves
<1> QED BY <1>5 DEF row, ev

LEMMA RecordKeepsLedgers ==
    ASSUME TypeOK, LedgersInv, NEW e \in Edges, KeyFree(transitions, e, cycle), Record(e)
    PROVE  LedgersInv'
  BY OneRowOneEvent DEF TypeOK, LedgersInv, Record

LEMMA NextLedgers ==
    ASSUME TypeOK, LedgersInv, [Next]_vars
    PROVE  LedgersInv'
<1>1. CASE UNCHANGED ledgers
  BY <1>1 DEF LedgersInv, ledgers
<1>2. ASSUME NEW e \in Edges, KeyFree(transitions, e, cycle), Record(e)
      PROVE  LedgersInv'
  BY <1>2, RecordKeepsLedgers
<1>3. CASE OpenVoting \/ ReturnToDeliberation
  BY <1>2, <1>3, BallotEdges DEF OpenVoting, OpenVotingIfBallotPreparationElapsed, ReturnToDeliberation
<1>4. CASE DecideMandate
  <2>1. CASE Record(VotingWindowClosed)
    BY <1>2, <1>4, <2>1, BallotEdges DEF DecideMandate
  <2>2. CASE /\ KeyFree(transitions, MandateDecided, cycle)
             /\ transitions' =
                   transitions \cup {Row(VotingWindowClosed, cycle), Row(MandateDecided, cycle)}
             /\ events' =
                   events \cup {Event(VotingWindowClosed, cycle), Event(MandateDecided, cycle)}
    <3> DEFINE rows == transitions \cup {Row(VotingWindowClosed, cycle)}
               evs == events \cup {Event(VotingWindowClosed, cycle)}
    <3>1. rows \subseteq Rows /\ cycle \in Nat \ {0} /\ transitions \subseteq Rows
      BY EdgeTypes, BallotEdges DEF TypeOK
    <3>2. SameMoves(rows, evs)
      BY <1>4, <3>1, OneRowOneEvent, BallotEdges DEF DecideMandate, LedgersInv
    <3>3. KeyFree(rows, MandateDecided, cycle)
      BY <2>2, EdgeEnds DEF KeyFree, Row
    <3>4. SameMoves(rows \cup {Row(MandateDecided, cycle)}, evs \cup {Event(MandateDecided, cycle)})
      BY <3>1, <3>2, <3>3, OneRowOneEvent, BallotEdges
    <3>5. /\ transitions' = rows \cup {Row(MandateDecided, cycle)}
          /\ events' = evs \cup {Event(MandateDecided, cycle)}
      BY <2>2
    <3> QED BY <3>4, <3>5 DEF LedgersInv
  <2> QED BY <1>4, <2>1, <2>2 DEF DecideMandate
<1>5. ASSUME NEW a \in Actors, ActorStep(a)
      PROVE  LedgersInv'
  BY <1>1, <1>2, <1>5, BallotEdges
     DEF ActorStep, ChangeAccess, ConfirmSignal, InsertProposal, ReviseProposal, WithdrawProposal,
         InsertContribution, PrepareBallot, RequestVote, AdvanceWhen, NoTransition, ledgers
<1> QED
  BY <1>1, <1>3, <1>4, <1>5
     DEF Next, Tick, CloseVoting, Vote, CastVote, RefuseVote, vars, ledgers

\* The timeline has the event of every move, and no other, in every cycle.
THEOREM TimelineIsComplete == Spec => []EveryMoveHasItsEvent
<1>1. Init => LedgersInv
  <2>1. IsFiniteSet({Created}) /\ Cardinality({Created}) = 1
    BY FS_Singleton
  <2> QED BY <2>1, FS_EmptySet DEF Init, LedgersInv, SameMoves, Created
<1>2. TypeOK /\ LedgersInv /\ [Next]_vars => LedgersInv'
  BY NextLedgers
<1>3. LedgersInv => EveryMoveHasItsEvent
  BY DEF LedgersInv, SameMoves, EveryMoveHasItsEvent
<1> QED BY <1>1, <1>2, <1>3, BallotTypeCorrect, PTL DEF Spec

-----------------------------------------------------------------------------
(* Refinement: every step is one of the promised moves or none at all.     *)

\* The instance of CivicStages speaks of the same ledger.
LEMMA SameLedger ==
    /\ Promise!Edges = Edges
    /\ Promise!QuorumNotReached = QuorumNotReached
    /\ Promise!VotingWindowClosed = VotingWindowClosed
    /\ Promise!MandateDecided = MandateDecided
    /\ \A e, c : Promise!Row(e, c) = Row(e, c)
    /\ \A e, c : Promise!KeyFree(transitions, e, c) = KeyFree(transitions, e, c)
<1>1. /\ Promise!CycleEdges = CycleEdges /\ Promise!OneTimeEdges = OneTimeEdges
      /\ Promise!QuorumNotReached = QuorumNotReached
      /\ Promise!VotingWindowClosed = VotingWindowClosed
      /\ Promise!MandateDecided = MandateDecided
  BY DEF Promise!CycleEdges, CycleEdges, Promise!OneTimeEdges, OneTimeEdges,
         Promise!Edge, Edge,
         Promise!ConfirmationReached, ConfirmationReached,
         Promise!ProposalsReached, ProposalsReached,
         Promise!DeliberationReached, DeliberationReached,
         Promise!BallotPrepared, BallotPrepared,
         Promise!QuorumNotReached, QuorumNotReached,
         Promise!VotingWindowClosed, VotingWindowClosed,
         Promise!MandateDecided, MandateDecided,
         Promise!ActionMarkedReady, ActionMarkedReady,
         Promise!DeliveredReached, DeliveredReached,
         Promise!NotDeliveredReached, NotDeliveredReached
<1>2. Promise!Edges = Edges
  BY <1>1 DEF Promise!Edges, Edges
<1>3. \A e, c : Promise!LedgerCycle(e, c) = LedgerCycle(e, c)
  BY <1>1 DEF Promise!LedgerCycle, LedgerCycle
<1>4. \A e, c : Promise!Row(e, c) = Row(e, c)
  BY <1>3 DEF Promise!Row, Row
<1>5. \A e, c : Promise!KeyFree(transitions, e, c) = KeyFree(transitions, e, c)
  BY <1>3 DEF Promise!KeyFree, KeyFree
<1> QED BY <1>1, <1>2, <1>4, <1>5

\* A recorded move along e, with the key free, is the abstract move along e.
LEMMA RecordIsMove ==
    ASSUME NEW e \in Edges \ {MandateDecided}, stage = e.from,
           KeyFree(transitions, e, cycle), Record(e),
           cycle' = IF e = QuorumNotReached THEN cycle + 1 ELSE cycle
    PROVE  Promise!Next
<1>1. Promise!Move(e)
  BY SameLedger DEF Promise!Move, Record
<1> QED BY <1>1, SameLedger DEF Promise!Next

LEMMA NotMandateDecided ==
    {ConfirmationReached, ProposalsReached, DeliberationReached, BallotPrepared,
     QuorumNotReached, VotingWindowClosed} \subseteq Edges \ {MandateDecided}
  BY BallotEdges, EdgeEnds

LEMMA QuietIsStutter ==
    ASSUME UNCHANGED <<process, ledgers>>
    PROVE  UNCHANGED Promise!vars
  BY DEF Promise!vars, process, ledgers

LEMMA ActorStepPromised ==
    ASSUME NEW a \in Actors, ActorStep(a)
    PROVE  Promise!Next \/ UNCHANGED Promise!vars
<1>1. CASE \/ ChangeAccess(a) \/ ReviseProposal(a) \/ WithdrawProposal(a) \/ RequestVote(a)
  BY <1>1, QuietIsStutter DEF ChangeAccess, ReviseProposal, WithdrawProposal, RequestVote
<1>2. CASE ConfirmSignal(a)
  <2>1. \/ /\ KeyFree(transitions, ConfirmationReached, cycle)
           /\ Record(ConfirmationReached) /\ cycle' = cycle
        \/ NoTransition
    BY <1>2 DEF ConfirmSignal, AdvanceWhen
  <2>2. stage = ConfirmationReached.from /\ ConfirmationReached # QuorumNotReached
    BY <1>2, EdgeEnds DEF ConfirmSignal
  <2> QED BY <2>1, <2>2, RecordIsMove, NotMandateDecided, QuietIsStutter DEF NoTransition
<1>3. CASE InsertProposal(a)
  <2>1. \/ /\ KeyFree(transitions, ProposalsReached, cycle)
           /\ Record(ProposalsReached) /\ cycle' = cycle
        \/ NoTransition
    BY <1>3 DEF InsertProposal, AdvanceWhen
  <2>2. stage = ProposalsReached.from /\ ProposalsReached # QuorumNotReached
    BY <1>3, EdgeEnds DEF InsertProposal
  <2> QED BY <2>1, <2>2, RecordIsMove, NotMandateDecided, QuietIsStutter DEF NoTransition
<1>4. CASE InsertContribution(a)
  <2>1. \/ /\ KeyFree(transitions, DeliberationReached, cycle)
           /\ Record(DeliberationReached) /\ cycle' = cycle
        \/ NoTransition
    BY <1>4 DEF InsertContribution, PrepareBallot
  <2>2. stage = DeliberationReached.from /\ DeliberationReached # QuorumNotReached
    BY <1>4, EdgeEnds DEF InsertContribution
  <2> QED BY <2>1, <2>2, RecordIsMove, NotMandateDecided, QuietIsStutter DEF NoTransition
<1> QED BY <1>1, <1>2, <1>3, <1>4 DEF ActorStep

LEMMA ClosePromised ==
    ASSUME CloseVoting
    PROVE  Promise!Next
<1>0. stage = QuorumNotReached.from /\ stage = VotingWindowClosed.from
  BY EdgeEnds DEF CloseVoting, ReturnToDeliberation, DecideMandate, WindowElapsed
<1>1. CASE ReturnToDeliberation
  BY <1>0, <1>1, RecordIsMove, NotMandateDecided DEF ReturnToDeliberation
<1>2. CASE DecideMandate /\ Record(VotingWindowClosed)
  BY <1>0, <1>2, RecordIsMove, NotMandateDecided, EdgeEnds DEF DecideMandate
<1>3. CASE /\ DecideMandate
           /\ Winner(cycle) # None /\ KeyFree(transitions, MandateDecided, cycle)
  <2>1. Promise!Decide
    BY <1>3, SameLedger DEF DecideMandate, WindowElapsed, Promise!Decide
  <2> QED BY <2>1 DEF Promise!Next
<1> QED BY <1>1, <1>2, <1>3 DEF CloseVoting, DecideMandate

LEMMA NextPromised ==
    ASSUME [Next]_vars
    PROVE  [Promise!Next]_Promise!vars
<1>1. CASE Tick
  BY <1>1, QuietIsStutter DEF Tick
<1>2. CASE OpenVoting
  <2>1. PICK requests \in SUBSET Actors : OpenVotingIfBallotPreparationElapsed(requests)
    BY <1>2 DEF OpenVoting
  <2>2. stage = BallotPrepared.from /\ BallotPrepared # QuorumNotReached
    BY <2>1, EdgeEnds DEF OpenVotingIfBallotPreparationElapsed
  <2> QED BY <2>1, <2>2, RecordIsMove, NotMandateDecided DEF OpenVotingIfBallotPreparationElapsed
<1>3. CASE CloseVoting
  BY <1>3, ClosePromised
<1>4. CASE Vote
  BY <1>4, QuietIsStutter DEF Vote, CastVote, RefuseVote
<1>5. CASE \E a \in Actors : ActorStep(a)
  BY <1>5, ActorStepPromised
<1>6. CASE UNCHANGED vars
  BY <1>6, QuietIsStutter DEF vars
<1> QED BY <1>1, <1>2, <1>3, <1>4, <1>5, <1>6 DEF Next

\* The ballot implements the abstract process: one stage at a time, only along
\* the published edges, each move recorded once.
THEOREM BallotImplementsStages == Spec => ImplementsStages
<1>1. Init => Promise!Init
  BY DEF Init, Promise!Init
<1>2. [Next]_vars => [Promise!Next]_Promise!vars
  BY NextPromised
<1> QED BY <1>1, <1>2, PTL DEF Spec, ImplementsStages, Promise!Spec

-----------------------------------------------------------------------------
(* One vote per token.  Vote rows carry no voter, so the counts are        *)
(* compared: a new vote has a fresh id, a consumed token was not consumed  *)
(* before, and both counts of the cycle grow by one.                       *)

FreshIds == \A v \in votes : v.id <= Cardinality(votes)
Balanced == \A c : Cardinality(VotesOf(c)) = Cardinality(ConsumedOf(c))
TallyInv == FreshIds /\ Balanced

LEMMA CastBalanced ==
    ASSUME Typed, TallyInv, NEW a \in Actors, NEW c \in Nat \ {0}, NEW p \in Actors,
           CastVote(a, c, p)
    PROVE  TallyInv'
<1> DEFINE v == [id |-> Cardinality(votes) + 1, cycle |-> c, proposal |-> p]
           t == <<a, c>>
<1>1. Cardinality(votes) \in Nat /\ IsFiniteSet(votes) /\ IsFiniteSet(consumed)
  BY FS_CardinalityType DEF Typed, Finite
<1>2. v \notin votes /\ t \notin consumed
  BY <1>1 DEF TallyInv, FreshIds, CastVote
<1>3. votes' = votes \cup {v} /\ consumed' = consumed \cup {t}
  BY DEF CastVote
<1>4. Cardinality(votes') = Cardinality(votes) + 1
  BY <1>1, <1>2, <1>3, FS_AddElement
<1>5. FreshIds'
  BY <1>1, <1>3, <1>4 DEF Typed, TypeOK, TallyInv, FreshIds
<1>6. ASSUME NEW d
      PROVE  Cardinality(VotesOf(d)') = Cardinality(ConsumedOf(d)')
  <2>1. IsFiniteSet(VotesOf(d)) /\ IsFiniteSet(ConsumedOf(d))
    BY <1>1, FS_Subset DEF VotesOf, ConsumedOf
  <2>2. CASE d = c
    <3>1. VotesOf(d)' = VotesOf(d) \cup {v} /\ v \notin VotesOf(d)
      BY <1>2, <1>3, <2>2 DEF VotesOf
    <3>2. ConsumedOf(d)' = ConsumedOf(d) \cup {t} /\ t \notin ConsumedOf(d)
      BY <1>2, <1>3, <2>2 DEF ConsumedOf
    <3>3. Cardinality(VotesOf(d)') = Cardinality(VotesOf(d)) + 1
      BY <2>1, <3>1, FS_AddElement
    <3>4. Cardinality(ConsumedOf(d)') = Cardinality(ConsumedOf(d)) + 1
      BY <2>1, <3>2, FS_AddElement
    <3> QED BY <3>3, <3>4 DEF TallyInv, Balanced
  <2>3. CASE d # c
    <3>1. VotesOf(d)' = VotesOf(d) /\ ConsumedOf(d)' = ConsumedOf(d)
      BY <1>3, <2>3 DEF VotesOf, ConsumedOf
    <3> QED BY <3>1 DEF TallyInv, Balanced
  <2> QED BY <2>2, <2>3
<1> QED BY <1>5, <1>6 DEF TallyInv, Balanced

\* Nothing but a cast touches the votes and the consumed tokens.
LEMMA NextBalanced ==
    ASSUME Typed, TallyInv, [Next]_vars
    PROVE  TallyInv'
<1>1. CASE UNCHANGED <<votes, consumed>>
  BY <1>1 DEF TallyInv, FreshIds, Balanced, VotesOf, ConsumedOf
<1>2. CASE Vote
  <2>1. PICK t \in pending, p \in Actors : CastVote(t[1], t[2], p) \/ RefuseVote(t[1], t[2], p)
    BY <1>2 DEF Vote
  <2>2. t[1] \in Actors /\ t[2] \in Nat \ {0}
    BY <2>1 DEF Typed, TypeOK
  <2>3. CASE RefuseVote(t[1], t[2], p)
    BY <1>1, <2>3 DEF RefuseVote, ballot
  <2> QED BY <2>1, <2>2, <2>3, CastBalanced
<1>3. CASE Tick
  BY <1>1, <1>3 DEF Tick, ballot
<1>4. CASE OpenVoting
  BY <1>1, <1>4 DEF OpenVoting, OpenVotingIfBallotPreparationElapsed
<1>5. CASE CloseVoting
  BY <1>1, <1>5 DEF CloseVoting, ReturnToDeliberation, DecideMandate, ballot
<1>6. CASE \E a \in Actors : ActorStep(a)
  BY <1>1, <1>6 DEF ActorStep, ChangeAccess, ConfirmSignal, InsertProposal, ReviseProposal,
                    WithdrawProposal, InsertContribution, RequestVote, ballot
<1>7. CASE UNCHANGED vars
  BY <1>1, <1>7 DEF vars, ballot
<1> QED BY <1>2, <1>3, <1>4, <1>5, <1>6, <1>7 DEF Next

\* For every community and every number of cycles there are as many votes as
\* consumed tokens.
THEOREM OneVotePerTokenAlways == Spec => []OneVotePerToken
<1>1. Init => TallyInv
  BY FS_EmptySet DEF Init, TallyInv, FreshIds, Balanced, VotesOf, ConsumedOf
<1>2. Typed /\ TallyInv /\ [Next]_vars => TallyInv'
  BY NextBalanced
<1>3. TallyInv => OneVotePerToken
  BY DEF TallyInv, Balanced, OneVotePerToken
<1> QED BY <1>1, <1>2, <1>3, BallotTyped, PTL DEF Spec

-----------------------------------------------------------------------------
(* The ledger as a history: which steps write the rows that say a ballot   *)
(* was frozen or opened.                                                   *)

\* Rows are only added; deliberation is left by the freeze alone, and ballot
\* preparation by the opening alone.
LEMMA NewRows ==
    ASSUME [Next]_vars
    PROVE  /\ transitions \subseteq transitions'
           /\ \A r \in transitions' \ transitions :
                 \/ r = Row(DeliberationReached, cycle) /\ stage = "deliberation" /\ PrepareBallot
                 \/ /\ r = Row(BallotPrepared, cycle) /\ stage = "ballot_preparation"
                    /\ \E requests \in SUBSET Actors :
                          OpenVotingIfBallotPreparationElapsed(requests)
                 \/ r.edge.from \notin {"deliberation", "ballot_preparation"}
<1>1. CASE UNCHANGED transitions
  BY <1>1
<1>2. CASE OpenVoting
  <2>1. PICK requests \in SUBSET Actors : OpenVotingIfBallotPreparationElapsed(requests)
    BY <1>2 DEF OpenVoting
  <2> QED BY <2>1 DEF OpenVotingIfBallotPreparationElapsed, Record
<1>3. CASE CloseVoting
  <2>1. \A c : /\ Row(QuorumNotReached, c).edge.from = "voting"
               /\ Row(VotingWindowClosed, c).edge.from = "voting"
               /\ Row(MandateDecided, c).edge.from = "mandate"
    BY EdgeEnds DEF Row
  <2> QED BY <1>3, <2>1 DEF CloseVoting, ReturnToDeliberation, DecideMandate, Record
<1>4. CASE \E a \in Actors : ConfirmSignal(a) \/ InsertProposal(a)
  <2>1. \A c : /\ Row(ConfirmationReached, c).edge.from = "confirmation"
               /\ Row(ProposalsReached, c).edge.from = "proposals"
    BY EdgeEnds DEF Row
  <2>2. \/ UNCHANGED transitions
        \/ transitions' = transitions \cup {Row(ConfirmationReached, cycle)}
        \/ transitions' = transitions \cup {Row(ProposalsReached, cycle)}
    BY <1>4 DEF ConfirmSignal, InsertProposal, AdvanceWhen, NoTransition, ledgers, Record
  <2> QED BY <2>1, <2>2
<1>5. CASE \E a \in Actors : InsertContribution(a)
  <2>1. stage = "deliberation" /\ (PrepareBallot \/ UNCHANGED transitions)
    BY <1>5 DEF InsertContribution, NoTransition, ledgers
  <2> QED BY <2>1 DEF PrepareBallot, Record
<1>6. CASE \/ Tick \/ Vote \/ UNCHANGED vars
           \/ \E a \in Actors : \/ ChangeAccess(a) \/ ReviseProposal(a)
                                \/ WithdrawProposal(a) \/ RequestVote(a)
  BY <1>1, <1>6 DEF Tick, Vote, CastVote, RefuseVote, ChangeAccess, ReviseProposal,
                    WithdrawProposal, RequestVote, vars, ledgers
<1> QED BY <1>2, <1>3, <1>4, <1>5, <1>6 DEF Next, ActorStep

\* The two edges, their keys and the ranks they leave from.
LEMMA FreezeAndOpenKeys ==
    /\ DeliberationReached.from = "deliberation" /\ BallotPrepared.from = "ballot_preparation"
    /\ DeliberationReached \in Edges /\ BallotPrepared \in Edges
    /\ \A c : /\ Row(DeliberationReached, c) = [edge |-> DeliberationReached, cycle |-> c]
              /\ Row(BallotPrepared, c) = [edge |-> BallotPrepared, cycle |-> c]
              /\ LedgerCycle(DeliberationReached, c) = c /\ LedgerCycle(BallotPrepared, c) = c
  BY EdgeEnds, EdgeRanks, BallotEdges DEF Row, LedgerCycle

\* A cycle counts as frozen only since the freeze of that very cycle.
LEMMA FrozenSince ==
    ASSUME [Next]_vars, NEW c
    PROVE  /\ Moved(DeliberationReached, c) => Moved(DeliberationReached, c)'
           /\ /\ Moved(DeliberationReached, c)'
              /\ ~Moved(DeliberationReached, c)
              => c = cycle /\ stage = "deliberation" /\ PrepareBallot
<1>1. Moved(DeliberationReached, c) => Moved(DeliberationReached, c)'
  BY NewRows DEF Moved, KeyFree
<1>2. ASSUME Moved(DeliberationReached, c)', ~Moved(DeliberationReached, c)
      PROVE  c = cycle /\ stage = "deliberation" /\ PrepareBallot
  <2>1. PICK r \in transitions' :
           <<r.edge.from, r.edge.to, r.cycle>>
               = <<DeliberationReached.from, DeliberationReached.to,
                   LedgerCycle(DeliberationReached, c)>>
    BY <1>2 DEF Moved, KeyFree
  <2>2. r \notin transitions
    BY <1>2, <2>1 DEF Moved, KeyFree
  <2>3. r.edge.from = "deliberation" /\ r.cycle = c
    BY <2>1, FreezeAndOpenKeys
  <2> QED BY <2>2, <2>3, NewRows, FreezeAndOpenKeys
<1> QED BY <1>1, <1>2

\* Likewise a cycle counts as opened only since its opening.
LEMMA OpenedSince ==
    ASSUME [Next]_vars, NEW c
    PROVE  /\ Moved(BallotPrepared, c) => Moved(BallotPrepared, c)'
           /\ /\ Moved(BallotPrepared, c)'
              /\ ~Moved(BallotPrepared, c)
              => /\ c = cycle
                 /\ \E requests \in SUBSET Actors : OpenVotingIfBallotPreparationElapsed(requests)
<1>1. Moved(BallotPrepared, c) => Moved(BallotPrepared, c)'
  BY NewRows DEF Moved, KeyFree
<1>2. ASSUME Moved(BallotPrepared, c)', ~Moved(BallotPrepared, c)
      PROVE  /\ c = cycle
             /\ \E requests \in SUBSET Actors : OpenVotingIfBallotPreparationElapsed(requests)
  <2>1. PICK r \in transitions' :
           <<r.edge.from, r.edge.to, r.cycle>>
               = <<BallotPrepared.from, BallotPrepared.to, LedgerCycle(BallotPrepared, c)>>
    BY <1>2 DEF Moved, KeyFree
  <2>2. r \notin transitions
    BY <1>2, <2>1 DEF Moved, KeyFree
  <2>3. r.edge.from = "ballot_preparation" /\ r.cycle = c
    BY <2>1, FreezeAndOpenKeys
  <2> QED BY <2>2, <2>3, NewRows, FreezeAndOpenKeys
<1> QED BY <1>1, <1>2

\* While the process deliberates, its cycle is neither frozen nor opened; in
\* ballot preparation it is not opened.
LEMMA NotYet ==
    ASSUME TypeOK, LedgerInv
    PROVE  /\ stage = "deliberation" => ~Moved(DeliberationReached, cycle)
           /\ stage \in {"deliberation", "ballot_preparation"} => ~Moved(BallotPrepared, cycle)
<1>1. ASSUME NEW e \in {DeliberationReached, BallotPrepared}, Moved(e, cycle)
      PROVE  Rank[e.from] < Rank[stage]
  <2>1. PICK r \in transitions : r.edge.from = e.from /\ r.cycle = LedgerCycle(e, cycle)
    BY <1>1 DEF Moved, KeyFree
  <2>2. r.cycle = cycle
    BY <2>1, FreezeAndOpenKeys
  <2> QED BY <2>1, <2>2 DEF LedgerInv, Passed
<1> QED BY <1>1, FreezeAndOpenKeys DEF Rank

-----------------------------------------------------------------------------
(* The list of voters.                                                     *)

\* Only a freeze adds voters, and only to the present cycle.
LEMMA VotersOnlyAtFreeze ==
    ASSUME [Next]_vars
    PROVE  \/ UNCHANGED eligible
           \/ /\ stage = "deliberation" /\ PrepareBallot /\ UNCHANGED <<tokens, cycle>>
<1>1. CASE \E a \in Actors : InsertContribution(a)
  BY <1>1 DEF InsertContribution, PrepareBallot
<1>2. CASE ~\E a \in Actors : InsertContribution(a)
  BY <1>2 DEF Next, ActorStep, Tick, OpenVoting, OpenVotingIfBallotPreparationElapsed,
              CloseVoting, ReturnToDeliberation, DecideMandate, Vote, CastVote, RefuseVote,
              ChangeAccess, ConfirmSignal, InsertProposal, ReviseProposal, WithdrawProposal,
              RequestVote, vars, ballot
<1> QED BY <1>1, <1>2

LEMMA SnapshotStep ==
    ASSUME TypeOK, LedgerInv, [Next]_vars
    PROVE  \A c \in 1..cycle : Moved(DeliberationReached, c) => EligibleOf(c)' = EligibleOf(c)
<1> SUFFICES ASSUME NEW c \in 1..cycle, Moved(DeliberationReached, c)
             PROVE  EligibleOf(c)' = EligibleOf(c)
  OBVIOUS
<1>1. CASE UNCHANGED eligible
  BY <1>1 DEF EligibleOf
<1>2. CASE stage = "deliberation" /\ PrepareBallot
  <2>1. c # cycle
    BY <1>2, NotYet
  <2>2. eligible' = eligible \cup (ActiveActors \X {cycle})
    BY <1>2 DEF PrepareBallot
  <2> QED BY <2>1, <2>2 DEF EligibleOf
<1> QED BY <1>1, <1>2, VotersOnlyAtFreeze

\* Whatever happens to the actors and however many cycles follow, the list of
\* voters of a frozen ballot stays as it is.
THEOREM SnapshotIsPermanent == Spec => SnapshotNeverChanges
<1>1. Init => LedgerInv
  BY InitLedger
<1>2. TypeOK /\ LedgerInv /\ [Next]_vars => LedgerInv'
  BY NextLedger
<1>3. TypeOK /\ LedgerInv /\ [Next]_vars =>
        [\A c \in 1..cycle : Moved(DeliberationReached, c) => EligibleOf(c)' = EligibleOf(c)]_vars
  BY SnapshotStep
<1> QED BY <1>1, <1>2, <1>3, BallotTypeCorrect, PTL DEF Spec, SnapshotNeverChanges

-----------------------------------------------------------------------------
(* The tokens.                                                             *)

TokensOf(c) == {t \in tokens : t[2] = c}
TokenInv ==
    \A c \in Nat \ {0} :
        TokensOf(c) = IF Moved(BallotPrepared, c) THEN EligibleOf(c) \X {c} ELSE {}

LEMMA TokenStep ==
    ASSUME TypeOK, LedgerInv, TokenInv, [Next]_vars
    PROVE  TokenInv'
<1> SUFFICES ASSUME NEW c \in Nat \ {0}
             PROVE  TokensOf(c)' = IF Moved(BallotPrepared, c)'
                                   THEN EligibleOf(c)' \X {c} ELSE {}
  BY DEF TokenInv
<1>0. TokensOf(c) = IF Moved(BallotPrepared, c) THEN EligibleOf(c) \X {c} ELSE {}
  BY DEF TokenInv
<1>1. CASE \E requests \in SUBSET Actors : OpenVotingIfBallotPreparationElapsed(requests)
  <2>1. /\ stage = "ballot_preparation"
        /\ tokens' = tokens \cup (EligibleOf(cycle) \X {cycle}) /\ UNCHANGED eligible
        /\ transitions' = transitions \cup {Row(BallotPrepared, cycle)}
    BY <1>1 DEF OpenVotingIfBallotPreparationElapsed, Record
  <2>2. EligibleOf(c)' = EligibleOf(c)
    BY <2>1 DEF EligibleOf
  <2>3. CASE c = cycle
    <3>1. TokensOf(c) = {}
      BY <1>0, <2>1, <2>3, NotYet
    <3>2. TokensOf(c)' = EligibleOf(c) \X {c}
      BY <2>1, <2>3, <3>1 DEF TokensOf
    <3>3. Moved(BallotPrepared, c)'
      BY <2>1, <2>3, FreezeAndOpenKeys DEF Moved, KeyFree
    <3> QED BY <2>2, <3>2, <3>3
  <2>4. CASE c # cycle
    <3>1. TokensOf(c)' = TokensOf(c)
      BY <2>1, <2>4 DEF TokensOf
    <3>2. Moved(BallotPrepared, c)' = Moved(BallotPrepared, c)
      BY <2>4, OpenedSince DEF Moved
    <3> QED BY <1>0, <2>2, <3>1, <3>2
  <2> QED BY <2>3, <2>4
<1>2. CASE ~\E requests \in SUBSET Actors : OpenVotingIfBallotPreparationElapsed(requests)
  <2>1. Moved(BallotPrepared, c)' = Moved(BallotPrepared, c)
    BY <1>2, OpenedSince DEF Moved
  <2>2. UNCHANGED tokens
    BY <1>2 DEF Next, ActorStep, Tick, OpenVoting, CloseVoting, ReturnToDeliberation,
                DecideMandate, Vote, CastVote, RefuseVote, ChangeAccess, ConfirmSignal,
                InsertProposal, ReviseProposal, WithdrawProposal, InsertContribution,
                RequestVote, vars, ballot
  <2>3. CASE UNCHANGED eligible
    BY <1>0, <2>1, <2>2, <2>3 DEF TokensOf, EligibleOf
  <2>4. CASE stage = "deliberation" /\ PrepareBallot
    <3>1. eligible' = eligible \cup (ActiveActors \X {cycle})
      BY <2>4 DEF PrepareBallot
    <3>2. CASE c = cycle
      BY <1>0, <2>1, <2>2, <2>4, <3>2, NotYet DEF TokensOf
    <3>3. CASE c # cycle
      <4>1. EligibleOf(c)' = EligibleOf(c)
        BY <3>1, <3>3 DEF EligibleOf
      <4> QED BY <1>0, <2>1, <2>2, <4>1 DEF TokensOf
    <3> QED BY <3>2, <3>3
  <2> QED BY <2>3, <2>4, VotersOnlyAtFreeze
<1> QED BY <1>1, <1>2

\* In every cycle the tokens belong to the listed voters and to nobody else,
\* from the opening on, for every community and however access changes.
THEOREM TokensAlwaysFollowSnapshot == Spec => []TokensFollowSnapshot
<1>1. Init => LedgerInv /\ TokenInv
  BY InitLedger DEF Init, TokenInv, TokensOf, Moved, KeyFree
<1>2. TypeOK /\ LedgerInv /\ TokenInv /\ [Next]_vars => LedgerInv' /\ TokenInv'
  BY NextLedger, TokenStep
<1>3. TypeOK /\ TokenInv => TokensFollowSnapshot
  BY DEF TypeOK, TokenInv, TokensOf, TokensFollowSnapshot
<1> QED BY <1>1, <1>2, <1>3, BallotTypeCorrect, PTL DEF Spec

-----------------------------------------------------------------------------
(* The frozen ballot.  Since the first freeze every proposal is settled,   *)
(* and the stages that write proposals are behind.                         *)

FreezeInv ==
    Moved(DeliberationReached, 1) =>
        /\ stage \notin {"confirmation", "proposals"}
        /\ \A a \in Actors : proposal[a] \in {"none", "withdrawn", "frozen"}

\* A freeze settles every proposal, and is the last to move any.
LEMMA FreezeSettles ==
    ASSUME TypeOK, PrepareBallot
    PROVE  /\ stage' = "ballot_preparation"
           /\ \A a \in Actors : proposal'[a] \in {"none", "withdrawn", "frozen"}
  BY BallotEdges DEF TypeOK, Lifecycles, PrepareBallot, Record

\* Once settled, proposals and their revisions do not change.
LEMMA SettledStays ==
    ASSUME TypeOK, FreezeInv, Moved(DeliberationReached, 1), [Next]_vars
    PROVE  UNCHANGED <<proposal, revisions>>
<1>1. /\ stage \notin {"confirmation", "proposals"}
      /\ proposal \in [Actors -> Lifecycles]
      /\ \A a \in Actors : proposal[a] \in {"none", "withdrawn", "frozen"}
  BY DEF FreezeInv, TypeOK
<1>2. CASE \E a \in Actors : InsertContribution(a)
  <2>1. UNCHANGED revisions /\ (PrepareBallot \/ UNCHANGED proposal)
    BY <1>2 DEF InsertContribution
  <2>2. ASSUME PrepareBallot PROVE proposal' = proposal
    BY <1>1, <2>2 DEF PrepareBallot
  <2> QED BY <2>1, <2>2
<1>3. CASE \E a \in Actors : InsertProposal(a) \/ ReviseProposal(a) \/ WithdrawProposal(a)
  BY <1>1, <1>3 DEF InsertProposal, ReviseProposal, WithdrawProposal
<1>4. CASE ~\E a \in Actors : \/ InsertContribution(a) \/ InsertProposal(a)
                              \/ ReviseProposal(a) \/ WithdrawProposal(a)
  BY <1>4 DEF Next, ActorStep, Tick, OpenVoting, OpenVotingIfBallotPreparationElapsed,
              CloseVoting, ReturnToDeliberation, DecideMandate, Vote, CastVote, RefuseVote,
              ChangeAccess, ConfirmSignal, RequestVote, vars, drafts
<1> QED BY <1>2, <1>3, <1>4

\* The early stages are not entered again.
LEMMA EarlyStagesStayBehind ==
    ASSUME stage \notin {"confirmation", "proposals"}, [Next]_vars
    PROVE  stage' \notin {"confirmation", "proposals"}
<1>1. CASE UNCHANGED stage
  BY <1>1
<1>2. CASE OpenVoting \/ CloseVoting
  BY <1>2, BallotEdges DEF OpenVoting, OpenVotingIfBallotPreparationElapsed, CloseVoting,
     ReturnToDeliberation, DecideMandate, Record
<1>3. CASE \E a \in Actors : InsertContribution(a)
  BY <1>3, BallotEdges DEF InsertContribution, PrepareBallot, NoTransition, process, Record
<1>4. CASE ~OpenVoting /\ ~CloseVoting /\ ~\E a \in Actors : InsertContribution(a)
  BY <1>1, <1>4 DEF Next, ActorStep, Tick, Vote, CastVote, RefuseVote, ChangeAccess,
     ConfirmSignal, InsertProposal, ReviseProposal, WithdrawProposal, RequestVote, vars, process
<1> QED BY <1>2, <1>3, <1>4

LEMMA FreezeStep ==
    ASSUME TypeOK, FreezeInv, [Next]_vars
    PROVE  FreezeInv'
<1>1. CASE Moved(DeliberationReached, 1)
  BY <1>1, SettledStays, EarlyStagesStayBehind DEF FreezeInv
<1>2. CASE ~Moved(DeliberationReached, 1)
  BY <1>2, FrozenSince, FreezeSettles DEF FreezeInv
<1> QED BY <1>1, <1>2

\* From the first freeze on no proposal joins, leaves or changes the ballot, in
\* any later cycle and whoever asks.
THEOREM BallotStaysFrozen == Spec => FrozenBallotImmutable
<1>1. Init => FreezeInv
  BY DEF Init, FreezeInv, Moved, KeyFree
<1>2. TypeOK /\ FreezeInv /\ [Next]_vars => FreezeInv'
  BY FreezeStep
<1>3. TypeOK /\ FreezeInv /\ [Next]_vars =>
        [Moved(DeliberationReached, 1) => Frozen' = Frozen /\ revisions' = revisions]_vars
  BY SettledStays DEF Frozen
<1> QED BY <1>1, <1>2, <1>3, BallotTypeCorrect, PTL DEF Spec, FrozenBallotImmutable

-----------------------------------------------------------------------------
(* The closed vote.                                                        *)

\* A vote enters the tally of the present cycle only, while voting is open.
LEMMA VotesOnlyWhileOpen ==
    ASSUME TypeOK, [Next]_vars, NEW c \in 1..cycle, VotingClosed(c)
    PROVE  VotesOf(c)' = VotesOf(c)
<1>1. CASE UNCHANGED votes
  BY <1>1 DEF VotesOf
<1>2. CASE Vote
  <2>1. PICK t \in pending, p \in Actors : CastVote(t[1], t[2], p) \/ RefuseVote(t[1], t[2], p)
    BY <1>2 DEF Vote
  <2>2. CASE CastVote(t[1], t[2], p)
    <3>1. stage = "voting" /\ t[2] = cycle
      BY <2>2 DEF CastVote, VoteAccepted
    <3>2. c # cycle
      BY <3>1 DEF VotingClosed, Rank, TypeOK
    <3> QED BY <2>2, <3>1, <3>2 DEF CastVote, VotesOf
  <2>3. CASE RefuseVote(t[1], t[2], p)
    BY <1>1, <2>3 DEF RefuseVote, ballot
  <2> QED BY <2>1, <2>2, <2>3
<1>3. CASE ~Vote
  BY <1>1, <1>3 DEF Next, ActorStep, Tick, OpenVoting, OpenVotingIfBallotPreparationElapsed,
     CloseVoting, ReturnToDeliberation, DecideMandate, ChangeAccess, ConfirmSignal,
     InsertProposal, ReviseProposal, WithdrawProposal, InsertContribution, RequestVote,
     vars, ballot
<1> QED BY <1>2, <1>3

\* A mandate is written once.
LEMMA MandateIsKept ==
    ASSUME [Next]_vars, mandate # None
    PROVE  mandate' = mandate
  BY DEF Next, ActorStep, Tick, OpenVoting, OpenVotingIfBallotPreparationElapsed,
     CloseVoting, ReturnToDeliberation, DecideMandate, Vote, CastVote, RefuseVote,
     ChangeAccess, ConfirmSignal, InsertProposal, ReviseProposal, WithdrawProposal,
     InsertContribution, RequestVote, vars, ballot

\* No late vote request changes a closed tally or a mandate, for any number of
\* voters, requests and cycles.
THEOREM ClosedVotingStaysFinal == Spec => ClosedVotingIsFinal
<1>1. TypeOK /\ [Next]_vars =>
        [/\ \A c \in 1..cycle : VotingClosed(c) => VotesOf(c)' = VotesOf(c)
         /\ mandate # None => mandate' = mandate]_vars
  BY VotesOnlyWhileOpen, MandateIsKept
<1> QED BY <1>1, BallotTypeCorrect, PTL DEF Spec, ClosedVotingIsFinal

-----------------------------------------------------------------------------
(* The tally.                                                              *)

CountFor(p, c) == Cardinality(VotesFor(p, c))

LEMMA CountBounds ==
    ASSUME Finite, NEW p, NEW c
    PROVE  /\ CountFor(p, c) \in Nat /\ Cardinality(votes) \in Nat
           /\ CountFor(p, c) <= Cardinality(votes)
           /\ CountFor(p, c) = 0 <=> VotesFor(p, c) = {}
<1>1. VotesFor(p, c) \in SUBSET votes
  BY DEF VotesFor
<1>2. IsFiniteSet(votes) /\ IsFiniteSet(VotesFor(p, c))
  BY <1>1, FS_Subset DEF Finite
<1> QED BY <1>1, <1>2, FS_Subset, FS_CardinalityType, FS_EmptySet DEF CountFor

\* Where anybody has voted, some proposal leads: of the distances of all counts
\* to the number of votes, one is the least.
LEMMA SomebodyLeads ==
    ASSUME Typed, NEW c, VotesOf(c) # {}
    PROVE  Leaders(c) # {}
<1> DEFINE N == Cardinality(votes)
           Gaps == {N - CountFor(p, c) : p \in Actors}
<1>1. PICK v \in votes : v.cycle = c
  BY DEF VotesOf
<1>2. v.proposal \in Actors /\ v \in VotesFor(v.proposal, c)
  BY <1>1 DEF Typed, TypeOK, VotesFor
<1>3. \A p : CountFor(p, c) \in Nat /\ N \in Nat /\ CountFor(p, c) <= N
  BY CountBounds DEF Typed
<1>4. Gaps \subseteq Nat /\ Gaps # {}
  BY <1>2, <1>3
<1>5. PICK g \in Gaps : \A h \in Gaps : ~(<<h, g>> \in OpToRel(<, Nat))
  BY <1>4, NatLessThanWellFounded, WFMin
<1>6. \A h \in Gaps : ~(h < g)
  BY <1>4, <1>5 DEF OpToRel
<1>7. PICK p \in Actors : g = N - CountFor(p, c)
  OBVIOUS
<1>8. ASSUME NEW q \in Actors PROVE CountFor(q, c) <= CountFor(p, c)
  <2>1. ~(N - CountFor(q, c) < N - CountFor(p, c))
    BY <1>6, <1>7
  <2> QED BY <1>3, <2>1
<1>9. CountFor(p, c) # 0
  <2>1. CountFor(v.proposal, c) # 0
    BY <1>2, CountBounds DEF Typed
  <2> QED BY <1>2, <1>3, <1>8, <2>1
<1>10. p \in Leaders(c)
  BY <1>8, <1>9, CountBounds DEF Leaders, CountFor, Typed
<1> QED BY <1>10

\* The leaders have the same count, and everybody else has fewer votes.
LEMMA LeadersCompared ==
    ASSUME Typed, NEW c, NEW p \in Leaders(c)
    PROVE  /\ p \in Actors
           /\ \A q \in Leaders(c) : CountFor(q, c) = CountFor(p, c)
           /\ \A q \in Actors \ Leaders(c) : CountFor(q, c) < CountFor(p, c)
<1>1. \A q : CountFor(q, c) \in Nat /\ (CountFor(q, c) = 0 <=> VotesFor(q, c) = {})
  BY CountBounds DEF Typed
<1>2. p \in Actors /\ VotesFor(p, c) # {} /\ \A q \in Actors : CountFor(q, c) <= CountFor(p, c)
  BY DEF Leaders, CountFor
<1>3. ASSUME NEW q \in Leaders(c) PROVE CountFor(q, c) = CountFor(p, c)
  BY <1>1, <1>2, <1>3 DEF Leaders, CountFor
<1>4. ASSUME NEW q \in Actors \ Leaders(c) PROVE CountFor(q, c) < CountFor(p, c)
  <2>1. CASE VotesFor(q, c) = {}
    BY <1>1, <1>2, <2>1
  <2>2. CASE \E r \in Actors : ~(CountFor(r, c) <= CountFor(q, c))
    BY <1>1, <1>2, <2>2
  <2> QED BY <2>1, <2>2 DEF Leaders, CountFor
<1> QED BY <1>2, <1>3, <1>4

-----------------------------------------------------------------------------
(* What the deciding transaction writes down.                              *)

\* The part of the property that speaks of a mandate m for the cycle c.
Counted(m, c) ==
    /\ m.totalVotes = Cardinality(VotesOf(c))
    /\ m.totalVotes >= BallotQuorum
    /\ IF m.proposal # None
       THEN /\ m.proposal \in Frozen
            /\ \A q \in Actors \ {m.proposal} : CountFor(q, c) < m.voteCount
       ELSE \E p, q \in Frozen :
               /\ p # q
               /\ CountFor(p, c) = CountFor(q, c)
               /\ CountFor(p, c) = m.voteCount

OnBallot == \A v \in votes : v.proposal \in Frozen

LEMMA LeadersOnBallot ==
    ASSUME OnBallot, NEW c
    PROVE  Leaders(c) \subseteq Frozen
  BY DEF OnBallot, Leaders, VotesFor

LEMMA DecidedIsCounted ==
    ASSUME Typed, OnBallot, NEW c, Cardinality(VotesOf(c)) >= BallotQuorum
    PROVE  Counted(DecidedMandate(c), c)
<1> DEFINE m == DecidedMandate(c)
           top == CHOOSE p \in Leaders(c) : TRUE
<1>1. VotesOf(c) # {}
  BY FS_EmptySet, ThresholdAssumption
<1>2. top \in Leaders(c) /\ Leaders(c) \subseteq Frozen /\ Leaders(c) \subseteq Actors
  BY <1>1, SomebodyLeads, LeadersOnBallot DEF Leaders
<1>3. /\ m.proposal = Winner(c)
      /\ m.voteCount = CountFor(top, c)
      /\ m.totalVotes = Cardinality(VotesOf(c))
  BY DEF DecidedMandate, CountFor
<1>4. IsFiniteSet(Leaders(c))
  BY <1>2, ActorsAssumption, FS_Subset
<1>5. CASE Cardinality(Leaders(c)) = 1
  <2>1. PICK p : Leaders(c) = {p}
    BY <1>4, <1>5, FS_Singleton
  <2>2. Winner(c) = p /\ top = p /\ p \in Frozen /\ p # None
    BY <1>2, <1>5, <2>1, ActorsAssumption DEF Winner
  <2>3. \A q \in Actors \ {p} : CountFor(q, c) < CountFor(top, c)
    BY <2>1, <2>2, LeadersCompared
  <2> QED BY <1>3, <2>2, <2>3 DEF Counted
<1>6. CASE Cardinality(Leaders(c)) # 1
  <2>1. Winner(c) = None
    BY <1>6 DEF Winner
  <2>2. PICK q \in Leaders(c) : q # top
    <3>1. Leaders(c) # {top}
      BY <1>4, <1>6, FS_Singleton, Zenon
    <3> HIDE DEF top
    <3> QED BY <1>2, <3>1
  <2>3. CountFor(q, c) = CountFor(top, c)
    BY <1>2, <2>2, LeadersCompared
  <2> QED BY <1>2, <1>3, <2>1, <2>2, <2>3 DEF Counted
<1> QED BY <1>5, <1>6

-----------------------------------------------------------------------------
(* The invariant: a mandate exists only where voting is behind, so what it *)
(* counted is neither added to nor taken away.                             *)

MandateInv ==
    /\ OnBallot
    /\ mandate # None => stage \in {"mandate", "action"} /\ Counted(mandate, cycle)

\* A frozen proposal stays frozen.
LEMMA FrozenStays ==
    ASSUME TypeOK, [Next]_vars
    PROVE  Frozen \subseteq Frozen'
<1> SUFFICES ASSUME NEW p \in Actors, proposal[p] = "frozen"
             PROVE  proposal'[p] = "frozen"
  BY DEF Frozen
<1>1. CASE UNCHANGED proposal
  BY <1>1
<1>2. CASE \E a \in Actors : InsertProposal(a) \/ ReviseProposal(a) \/ WithdrawProposal(a)
  BY <1>2 DEF InsertProposal, ReviseProposal, WithdrawProposal, TypeOK
<1>3. CASE \E a \in Actors : InsertContribution(a)
  BY <1>3 DEF InsertContribution, PrepareBallot
<1>4. CASE ~\E a \in Actors : \/ InsertContribution(a) \/ InsertProposal(a)
                              \/ ReviseProposal(a) \/ WithdrawProposal(a)
  BY <1>1, <1>4 DEF Next, ActorStep, Tick, OpenVoting, OpenVotingIfBallotPreparationElapsed,
     CloseVoting, ReturnToDeliberation, DecideMandate, Vote, CastVote, RefuseVote,
     ChangeAccess, ConfirmSignal, RequestVote, vars, drafts
<1> QED BY <1>2, <1>3, <1>4

LEMMA OnBallotStep ==
    ASSUME TypeOK, OnBallot, [Next]_vars
    PROVE  OnBallot'
<1>1. CASE UNCHANGED votes
  BY <1>1, FrozenStays DEF OnBallot
<1>2. CASE Vote
  <2>1. PICK t \in pending, p \in Actors : CastVote(t[1], t[2], p) \/ RefuseVote(t[1], t[2], p)
    BY <1>2 DEF Vote
  <2>2. CASE CastVote(t[1], t[2], p)
    <3>1. p \in Frozen
      BY <2>2 DEF CastVote, VoteAccepted, Frozen
    <3> QED BY <2>2, <3>1, FrozenStays DEF CastVote, OnBallot
  <2>3. CASE RefuseVote(t[1], t[2], p)
    BY <1>1, <2>3 DEF RefuseVote, ballot
  <2> QED BY <2>1, <2>2, <2>3
<1>3. CASE ~Vote
  BY <1>1, <1>3 DEF Next, ActorStep, Tick, OpenVoting, OpenVotingIfBallotPreparationElapsed,
     CloseVoting, ReturnToDeliberation, DecideMandate, ChangeAccess, ConfirmSignal,
     InsertProposal, ReviseProposal, WithdrawProposal, InsertContribution, RequestVote,
     vars, ballot
<1> QED BY <1>2, <1>3

\* Past the vote nothing that the mandate counted changes.
LEMMA BehindTheVote ==
    ASSUME TypeOK, stage \in {"mandate", "action"}, [Next]_vars
    PROVE  UNCHANGED <<stage, cycle, votes>>
<1>1. stage \notin {"confirmation", "proposals", "deliberation", "ballot_preparation", "voting"}
  OBVIOUS
<1>2. ~OpenVoting /\ ~CloseVoting
  BY <1>1 DEF OpenVoting, OpenVotingIfBallotPreparationElapsed, CloseVoting,
     ReturnToDeliberation, DecideMandate, WindowElapsed
<1>3. \A a \in Actors : ~ConfirmSignal(a) /\ ~InsertProposal(a) /\ ~InsertContribution(a)
  BY <1>1 DEF ConfirmSignal, InsertProposal, InsertContribution
<1>4. CASE Vote
  BY <1>1, <1>4 DEF Vote, CastVote, VoteAccepted, RefuseVote, process, ballot
<1>5. CASE ~Vote
  BY <1>2, <1>3, <1>5 DEF Next, ActorStep, Tick, ChangeAccess, ReviseProposal,
     WithdrawProposal, RequestVote, vars, process, ballot
<1> QED BY <1>4, <1>5

\* What is counted depends on the votes, and on a ballot that only grows.
LEMMA CountedStays ==
    ASSUME NEW m, NEW c, Counted(m, c), UNCHANGED votes, Frozen \subseteq Frozen'
    PROVE  Counted(m, c)'
<1>1. VotesOf(c)' = VotesOf(c) /\ \A p : CountFor(p, c)' = CountFor(p, c)
  BY DEF VotesOf, VotesFor, CountFor
<1> QED BY <1>1 DEF Counted

LEMMA MandateStep ==
    ASSUME Typed, MandateInv, [Next]_vars
    PROVE  MandateInv'
<1>1. OnBallot' /\ Frozen \subseteq Frozen'
  BY OnBallotStep, FrozenStays DEF Typed, MandateInv
<1>2. CASE mandate # None
  <2>1. UNCHANGED <<stage, cycle, votes>> /\ mandate' = mandate
    BY <1>2, BehindTheVote, MandateIsKept DEF Typed, MandateInv
  <2>2. Counted(mandate, cycle)'
    BY <1>1, <1>2, <2>1, CountedStays DEF MandateInv
  <2> QED BY <1>1, <1>2, <2>1, <2>2 DEF MandateInv
<1>3. CASE mandate = None /\ DecideMandate
  <2>1. /\ mandate' = DecidedMandate(cycle) /\ UNCHANGED <<cycle, votes>>
        /\ Cardinality(VotesOf(cycle)) >= BallotQuorum
        /\ stage' \in {"mandate", "action"}
    BY <1>3, BallotEdges DEF DecideMandate, Record
  <2>2. Counted(DecidedMandate(cycle), cycle)
    BY <2>1, DecidedIsCounted DEF MandateInv
  <2>3. Counted(mandate, cycle)'
    <3> DEFINE m == DecidedMandate(cycle)
    <3>1. VotesOf(cycle)' = VotesOf(cycle) /\ \A p : CountFor(p, cycle)' = CountFor(p, cycle)
      BY <2>1 DEF VotesOf, VotesFor, CountFor
    <3> HIDE DEF m
    <3>2. mandate' = m /\ Counted(m, cycle)
      BY <2>1, <2>2 DEF m
    <3> QED BY <1>1, <2>1, <3>1, <3>2 DEF Counted
  <2> QED BY <1>1, <2>1, <2>3 DEF MandateInv
<1>4. CASE mandate = None /\ ~DecideMandate
  <2>1. mandate' = mandate
    BY <1>4 DEF Next, ActorStep, Tick, OpenVoting, OpenVotingIfBallotPreparationElapsed,
       CloseVoting, ReturnToDeliberation, Vote, CastVote, RefuseVote, ChangeAccess,
       ConfirmSignal, InsertProposal, ReviseProposal, WithdrawProposal, InsertContribution,
       RequestVote, vars, ballot
  <2> QED BY <1>1, <1>4, <2>1 DEF MandateInv
<1> QED BY <1>2, <1>3, <1>4

\* Every vote of the deciding ballot is in the mandate, its winner is alone at
\* the top, and without a winner there is a tie: for every community and every
\* ballot.
THEOREM MandateAlwaysCounts == Spec => []MandateCountsEveryVote
<1>1. Init => MandateInv
  BY DEF Init, MandateInv, OnBallot
<1>2. Typed /\ MandateInv /\ [Next]_vars => MandateInv'
  BY MandateStep
<1>3. MandateInv => MandateCountsEveryVote
  BY DEF MandateInv, Counted, CountFor, MandateCountsEveryVote
<1> QED BY <1>1, <1>2, <1>3, BallotTyped, PTL DEF Spec
=============================================================================
