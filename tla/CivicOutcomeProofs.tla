------------------------- MODULE CivicOutcomeProofs -------------------------
(* What is on record about an action and its verification, for any community, *)
(* any threshold and any number of writes in flight.                          *)
EXTENDS CivicOutcome, FiniteSetTheorems, TLAPS

USE DEF UpdateRows, ConfirmationRows, VerificationRows

-----------------------------------------------------------------------------
(* The rows of the ledger.                                                   *)

LEMMA LedgerRowsTyped ==
    ASSUME NEW c \in Nat \ {0}
    PROVE  /\ \A e \in Edges : Row(e, c) \in Rows
           /\ \A e \in Edges : Event(e, c) \in Events
  BY DEF Row, Rows, LedgerCycle, Event, EventOf, Events, Edges, CycleEdges, OneTimeEdges, Edge,
         Stages, ConfirmationReached, ProposalsReached, DeliberationReached, BallotPrepared,
         QuorumNotReached, VotingWindowClosed, MandateDecided, ActionMarkedReady,
         DeliveredReached, NotDeliveredReached

\* The two ways into the archive have one key between them.
LEMMA ArchiveKey ==
    ASSUME NEW T, NEW c, NEW e \in {DeliveredReached, NotDeliveredReached},
           KeyFree(T, e, c)
    PROVE  Row(DeliveredReached, c) \notin T /\ Row(NotDeliveredReached, c) \notin T
<1>1. /\ DeliveredReached.from = NotDeliveredReached.from
      /\ DeliveredReached.to = NotDeliveredReached.to
  BY DEF DeliveredReached, NotDeliveredReached, Edge
<1>2. /\ LedgerCycle(DeliveredReached, c) = 1 /\ LedgerCycle(NotDeliveredReached, c) = 1
  BY DEF LedgerCycle, CycleEdges, Edge, DeliberationReached, BallotPrepared, QuorumNotReached,
         VotingWindowClosed, MandateDecided, DeliveredReached, NotDeliveredReached
<1> QED BY <1>1, <1>2 DEF KeyFree, Row

LEMMA ArchiveRowsDiffer ==
    ASSUME NEW c PROVE Row(DeliveredReached, c) # Row(NotDeliveredReached, c)
  BY DEF Row, DeliveredReached, NotDeliveredReached, Edge

-----------------------------------------------------------------------------
(* Typing.                                                                   *)

LEMMA InitTyped == ASSUME Init PROVE TypeOK
<1>1. cycle \in Nat \ {0}
  BY OutcomeAssumption DEF Init
<1>2. transitions \subseteq Rows
  <2>1. \A k \in Nat \ {0} : \A e \in Edges : Row(e, k) \in Rows
    BY LedgerRowsTyped
  <2>2. 1..cycle \subseteq Nat \ {0} /\ 1..(cycle - 1) \subseteq Nat \ {0}
    BY <1>1
  <2>3. {ConfirmationReached, ProposalsReached, VotingWindowClosed, MandateDecided,
         DeliberationReached, BallotPrepared, QuorumNotReached} \subseteq Edges
    BY DEF Edges, CycleEdges, OneTimeEdges
  <2> QED BY <1>1, <2>1, <2>2, <2>3 DEF Init, PathTo
<1>3. events \subseteq Events
  <2>1. \A r \in Rows : <<EventOf(r.edge), r.cycle>> \in Events
    BY DEF Rows, Events, EventOf, Edges, CycleEdges, OneTimeEdges, Edge, Stages,
         ConfirmationReached, ProposalsReached, DeliberationReached, BallotPrepared,
         QuorumNotReached, VotingWindowClosed, MandateDecided, ActionMarkedReady,
         DeliveredReached, NotDeliveredReached
  <2>2. <<"process_created", 1>> \in Events
    BY DEF Events
  <2> QED BY <1>2, <2>1, <2>2 DEF Init
<1>4. Cardinality(Responsible) <= 1
  <2>1. Responsible = {}
    BY DEF Init, Responsible
  <2> QED BY <2>1, FS_EmptySet
<1> QED BY <1>2, <1>3, <1>4 DEF Init, TypeOK, Stages, AccessLevels

LEMMA RecordTyped ==
    ASSUME TypeOK, NEW e \in Edges, Record(e)
    PROVE  /\ stage' \in Stages /\ cycle' \in Cycles
           /\ transitions' \subseteq Rows /\ events' \subseteq Events
<1>1. cycle \in Nat \ {0}
  BY OutcomeAssumption DEF TypeOK
<1>2. Row(e, cycle) \in Rows /\ Event(e, cycle) \in Events
  BY <1>1, LedgerRowsTyped
<1>3. e.to \in Stages
  BY DEF Edges, CycleEdges, OneTimeEdges, Edge, Stages,
         ConfirmationReached, ProposalsReached, DeliberationReached, BallotPrepared,
         QuorumNotReached, VotingWindowClosed, MandateDecided, ActionMarkedReady,
         DeliveredReached, NotDeliveredReached
<1> QED BY <1>2, <1>3 DEF Record, TypeOK

LEMMA CountsTyped ==
    ASSUME NEW o
    PROVE  /\ IsFiniteSet(Confirmed(o)) /\ Cardinality(Confirmed(o)) \in Nat
           /\ IsFiniteSet(Confirmed(o)') /\ Cardinality(Confirmed(o)') \in Nat
<1>1. IsFiniteSet(Confirmed(o)) /\ IsFiniteSet(Confirmed(o)')
  BY FS_Subset, OutcomeAssumption DEF Confirmed
<1> QED BY <1>1, FS_CardinalityType

\* What the archive publishes.
LEMMA ArchiveTyped ==
    ASSUME TypeOK, NEW count \in [Outcomes -> Nat], Archive(count)
    PROVE  /\ stage' \in Stages /\ cycle' \in Cycles
           /\ transitions' \subseteq Rows /\ events' \subseteq Events
           /\ verification' \in VerificationRows
<1> DEFINE o == IF count["delivered"] >= OutcomeThreshold THEN "delivered" ELSE "not_delivered"
           e == IF o = "delivered" THEN DeliveredReached ELSE NotDeliveredReached
<1>1. e \in Edges /\ o \in Outcomes
  BY DEF Edges, OneTimeEdges, Outcomes
<1>2. /\ Record(e) /\ verification' = [outcome |-> o, count |-> count]
  BY DEF Archive
<1>3. verification' \in VerificationRows
  BY <1>1, <1>2
<1> HIDE DEF e
<1> QED BY <1>1, <1>2, <1>3, RecordTyped

LEMMA StepTyped == ASSUME TypeOK, [Next]_vars PROVE TypeOK'
<1>2. ASSUME NEW a \in Actors, ChangeAccess(a) PROVE TypeOK'
  BY <1>2 DEF ChangeAccess, TypeOK, process, records, Responsible
<1>3. ASSUME NEW a \in Actors, NEW w \in Writes, PassRouteChecks(a, w) PROVE TypeOK'
  BY <1>3 DEF PassRouteChecks, TypeOK, process, records, Responsible, Requests
<1>4. ASSUME NEW a \in Actors, MarkActionReadyForVerification(a) PROVE TypeOK'
  <2>1. ActionMarkedReady \in Edges
    BY DEF Edges, OneTimeEdges
  <2>2. /\ stage' \in Stages /\ cycle' \in Cycles
        /\ transitions' \subseteq Rows /\ events' \subseteq Events
    BY <1>4, <2>1, RecordTyped DEF MarkActionReadyForVerification
  <2> QED
    BY <1>4, <2>2 DEF MarkActionReadyForVerification, TypeOK, records, Responsible
<1>5. ASSUME NEW r \in requests, InsertCivicActionUpdate(r) PROVE TypeOK'
  <2>1. r.actor \in Actors /\ r.write \in Kinds
    BY <1>5 DEF InsertCivicActionUpdate, TypeOK, Requests
  <2>2. updates' = updates \cup {<<r.actor, r.write>>} /\ updates' \subseteq UpdateRows
    BY <1>5, <2>1 DEF InsertCivicActionUpdate, TypeOK
  <2>3. Cardinality(Responsible') <= 1
    <3>1. CASE r.write = "take_step"
      <4>1. Responsible = {}
        BY <1>5, <3>1 DEF InsertCivicActionUpdate
      <4>2. Responsible' = {<<r.actor, r.write>>}
        BY <2>2, <3>1, <4>1 DEF Responsible
      <4> DEFINE u == <<r.actor, r.write>>
      <4>3. Cardinality({u}) = 1
        BY FS_Singleton
      <4>4. Cardinality(Responsible') = Cardinality({u})
        BY <4>2, Zenon
      <4> QED BY <4>3, <4>4
    <3>2. CASE r.write # "take_step"
      <4>1. Responsible' = Responsible
        BY <2>2, <3>2 DEF Responsible
      <4> QED BY <4>1 DEF TypeOK
    <3> QED BY <3>1, <3>2
  <2> QED BY <1>5, <2>2, <2>3 DEF InsertCivicActionUpdate, TypeOK, process
<1>6. ASSUME NEW r \in requests, InsertCivicVerificationEvidence(r) PROVE TypeOK'
  BY <1>6 DEF InsertCivicVerificationEvidence, TypeOK, process, Requests, Responsible
<1>7. ASSUME NEW r \in requests, InsertCivicVerificationConfirmation(r) PROVE TypeOK'
  <2> DEFINE count == [o \in Outcomes |-> Cardinality(Confirmed(o)')]
  <2>1. count \in [Outcomes -> Nat]
    <3>1. \A o \in Outcomes : Cardinality(Confirmed(o)') \in Nat
      BY CountsTyped
    <3> QED BY <3>1
  <2>2. confirmation' \in ConfirmationRows
    BY <1>7 DEF InsertCivicVerificationConfirmation, TypeOK, Requests
  <2>3. /\ stage' \in Stages /\ cycle' \in Cycles
        /\ transitions' \subseteq Rows /\ events' \subseteq Events
        /\ verification' \in VerificationRows \cup {None}
    <3>1. CASE Archive(count)
      BY <2>1, <3>1, ArchiveTyped
    <3>2. CASE UNCHANGED <<process, verification>>
      BY <3>2 DEF TypeOK, process
    <3> QED BY <1>7, <3>1, <3>2 DEF InsertCivicVerificationConfirmation
  <2> QED
    BY <1>7, <2>2, <2>3 DEF InsertCivicVerificationConfirmation, TypeOK, Responsible
<1>8. ASSUME NEW r \in requests, Refuse(r) PROVE TypeOK'
  BY <1>8 DEF Refuse, TypeOK, process, records, Responsible
<1>9. ASSUME NEW o \in Outcomes, ResolveCivicVerificationDispute(o) PROVE TypeOK'
  BY <1>9 DEF ResolveCivicVerificationDispute, TypeOK, process, Responsible
<1>10. CASE UNCHANGED vars
  BY <1>10 DEF vars, TypeOK, process, records, Responsible
<1> QED
  BY <1>2, <1>3, <1>4, <1>5, <1>6, <1>7, <1>8, <1>9, <1>10 DEF Next, ActorStep, Write

\* Every state is well-typed, and at most one actor is responsible.
THEOREM OutcomeTypeCorrect == Spec => []TypeOK
  BY InitTyped, StepTyped, PTL DEF Spec

-----------------------------------------------------------------------------
(* What is once on record stays, and a stage that is over takes nothing in.  *)

\* A stage that is closed takes nothing more in, however late a request that
\* passed the route's checks arrives.
THEOREM ClosedStagesStayFinal == Spec => ClosedStageIsFinal
<1>1. ASSUME TypeOK, Next PROVE ClosedIsFinal
  <2>2. ASSUME NEW a \in Actors, ActorStep(a) PROVE ClosedIsFinal
    BY <2>2 DEF ActorStep, ChangeAccess, MarkActionReadyForVerification, PassRouteChecks,
                ClosedIsFinal, process, records
  <2>3. ASSUME NEW r \in requests, Write(r) PROVE ClosedIsFinal
    BY <2>3 DEF Write, InsertCivicActionUpdate, InsertCivicVerificationEvidence,
                InsertCivicVerificationConfirmation, Refuse, GuardAccepts, StageOf,
                Kinds, Outcomes, ClosedIsFinal, process, records
  <2>4. ASSUME NEW o \in Outcomes, ResolveCivicVerificationDispute(o) PROVE ClosedIsFinal
    BY <2>4 DEF ResolveCivicVerificationDispute, ClosedIsFinal, process
  <2> QED BY <1>1, <2>2, <2>3, <2>4 DEF Next
<1>2. TypeOK /\ [Next]_vars => [ClosedIsFinal]_vars
  BY <1>1
<1> QED BY <1>2, OutcomeTypeCorrect, PTL DEF Spec, ClosedStageIsFinal

\* What was answered, claimed or reviewed once is never replaced.
THEOREM RecordsAlwaysStay == Spec => RecordsArePermanent
<1>1. ASSUME TypeOK, Next PROVE RecordsStay
  <2>2. ASSUME NEW a \in Actors, ActorStep(a) PROVE RecordsStay
    BY <2>2 DEF ActorStep, ChangeAccess, MarkActionReadyForVerification, PassRouteChecks,
                RecordsStay, Responsible, process, records
  <2>3. ASSUME NEW r \in requests, InsertCivicActionUpdate(r) PROVE RecordsStay
    BY <2>3 DEF InsertCivicActionUpdate, RecordsStay, Responsible
  <2>4. ASSUME NEW r \in requests, InsertCivicVerificationEvidence(r) PROVE RecordsStay
    BY <2>4 DEF InsertCivicVerificationEvidence, RecordsStay, Responsible
  <2>5. ASSUME NEW r \in requests, InsertCivicVerificationConfirmation(r) PROVE RecordsStay
    BY <1>1, <2>5 DEF InsertCivicVerificationConfirmation, RecordsStay, Responsible, TypeOK, Requests
  <2>6. ASSUME NEW r \in requests, Refuse(r) PROVE RecordsStay
    BY <2>6 DEF Refuse, RecordsStay, Responsible, process, records
  <2>7. ASSUME NEW o \in Outcomes, ResolveCivicVerificationDispute(o) PROVE RecordsStay
    BY <2>7 DEF ResolveCivicVerificationDispute, RecordsStay, Responsible, process
  <2> QED BY <1>1, <2>2, <2>3, <2>4, <2>5, <2>6, <2>7 DEF Next, Write
<1>2. TypeOK /\ [Next]_vars => [RecordsStay]_vars
  BY <1>1
<1> QED BY <1>2, OutcomeTypeCorrect, PTL DEF Spec, RecordsArePermanent

-----------------------------------------------------------------------------
(* The moves.                                                                *)

\* CivicStages sees the edges and the keys of the same ledger.
LEMMA SameLedger ==
    /\ Promise!Edges = Edges
    /\ Promise!QuorumNotReached = QuorumNotReached
    /\ Promise!MandateDecided = MandateDecided
    /\ \A e, c : Promise!Row(e, c) = Row(e, c)
    /\ \A e, c : Promise!KeyFree(transitions, e, c) = KeyFree(transitions, e, c)
<1>1. /\ Promise!CycleEdges = CycleEdges /\ Promise!OneTimeEdges = OneTimeEdges
      /\ Promise!QuorumNotReached = QuorumNotReached
      /\ Promise!MandateDecided = MandateDecided
  BY DEF Promise!Edge, Edge, Promise!CycleEdges, CycleEdges, Promise!OneTimeEdges, OneTimeEdges,
         Promise!ConfirmationReached, ConfirmationReached, Promise!ProposalsReached, ProposalsReached,
         Promise!DeliberationReached, DeliberationReached, Promise!BallotPrepared, BallotPrepared,
         Promise!QuorumNotReached, QuorumNotReached, Promise!MandateDecided, MandateDecided,
         Promise!VotingWindowClosed, VotingWindowClosed, Promise!ActionMarkedReady, ActionMarkedReady,
         Promise!DeliveredReached, DeliveredReached, Promise!NotDeliveredReached, NotDeliveredReached
<1>2. \A e, c : Promise!LedgerCycle(e, c) = LedgerCycle(e, c)
  BY <1>1 DEF Promise!LedgerCycle, LedgerCycle
<1> QED BY <1>1, <1>2 DEF Promise!Edges, Edges, Promise!Row, Row, Promise!KeyFree, KeyFree

\* One move along a one-time edge, when its key is free.
LEMMA RecordIsMove ==
    ASSUME NEW e \in {ActionMarkedReady, DeliveredReached, NotDeliveredReached},
           stage = e.from, KeyFree(transitions, e, cycle), Record(e)
    PROVE  Promise!Next
<1>1. e \in Edges \ {MandateDecided} /\ e # QuorumNotReached
  BY DEF Edges, OneTimeEdges, ActionMarkedReady, DeliveredReached, NotDeliveredReached,
         MandateDecided, QuorumNotReached, Edge
<1>2. Promise!Move(e)
  BY <1>1, SameLedger DEF Promise!Move, Record
<1> QED BY <1>1, <1>2, SameLedger DEF Promise!Next

LEMMA ArchiveIsMove ==
    ASSUME stage = "verification", NEW count, Archive(count)
    PROVE  Promise!Next
<1> DEFINE o == IF count["delivered"] >= OutcomeThreshold THEN "delivered" ELSE "not_delivered"
           e == IF o = "delivered" THEN DeliveredReached ELSE NotDeliveredReached
<1>1. e \in {DeliveredReached, NotDeliveredReached}
  OBVIOUS
<1>2. e.from = "verification"
  BY DEF DeliveredReached, NotDeliveredReached, Edge
<1>3. KeyFree(transitions, e, cycle) /\ Record(e)
  BY DEF Archive
<1> HIDE DEF e
<1> QED BY <1>1, <1>2, <1>3, RecordIsMove

\* After the mandate the process makes only the moves that CivicStages promises.
THEOREM MovesAlwaysAsPromised == Spec => MovesAsPromised
<1>1. ASSUME Next PROVE Promise!Next \/ UNCHANGED Promise!vars
  <2>2. ASSUME NEW a \in Actors, ActorStep(a) PROVE Promise!Next \/ UNCHANGED Promise!vars
    <3>1. CASE MarkActionReadyForVerification(a)
      <4>1. ActionMarkedReady.from = "action"
        BY DEF ActionMarkedReady, Edge
      <4> QED BY <3>1, <4>1, RecordIsMove DEF MarkActionReadyForVerification
    <3>2. CASE ChangeAccess(a) \/ \E w \in Writes : PassRouteChecks(a, w)
      BY <3>2 DEF ChangeAccess, PassRouteChecks, Promise!vars, process
    <3> QED BY <2>2, <3>1, <3>2 DEF ActorStep
  <2>3. ASSUME NEW r \in requests, InsertCivicVerificationConfirmation(r) PROVE Promise!Next \/ UNCHANGED Promise!vars
    <3> DEFINE count == [x \in Outcomes |-> Cardinality(Confirmed(x)')]
    <3>1. CASE Archive(count)
      <4>1. stage = "verification"
        BY <2>3 DEF InsertCivicVerificationConfirmation, GuardAccepts, StageOf, Outcomes, Kinds
      <4> QED BY <3>1, <4>1, ArchiveIsMove
    <3>2. CASE UNCHANGED <<process, verification>>
      BY <3>2 DEF Promise!vars, process
    <3> QED BY <2>3, <3>1, <3>2 DEF InsertCivicVerificationConfirmation
  <2>4. ASSUME NEW r \in requests,
               \/ InsertCivicActionUpdate(r) \/ InsertCivicVerificationEvidence(r) \/ Refuse(r)
        PROVE  Promise!Next \/ UNCHANGED Promise!vars
    BY <2>4 DEF InsertCivicActionUpdate, InsertCivicVerificationEvidence, Refuse,
                Promise!vars, process
  <2>5. ASSUME NEW o \in Outcomes, ResolveCivicVerificationDispute(o) PROVE Promise!Next \/ UNCHANGED Promise!vars
    BY <2>5 DEF ResolveCivicVerificationDispute, Promise!vars, process
  <2> QED BY <1>1, <2>2, <2>3, <2>4, <2>5 DEF Next, Write
<1>2. [Next]_vars => [Promise!Next]_Promise!vars
  BY <1>1 DEF vars, process, Promise!vars
<1> QED BY <1>2, PTL DEF Spec, MovesAsPromised

-----------------------------------------------------------------------------
(* The archive.                                                              *)

\* Inductive: before the archive neither threshold is met and no edge into the
\* archive is on the ledger, so that the one answer that completes a threshold
\* decides alone.
Undecided ==
    /\ \A o \in Outcomes : Cardinality(Confirmed(o)) < OutcomeThreshold
    /\ Row(DeliveredReached, cycle) \notin transitions
    /\ Row(NotDeliveredReached, cycle) \notin transitions
ArchiveInv ==
    /\ stage \in {"action", "verification", "archived"}
    /\ ArchiveAgreesWithAnswers
    /\ stage # "archived" => Undecided

\* Everything the invariant speaks of.
Decisive == <<stage, cycle, transitions, confirmation, verification>>

LEMMA DecisiveUnchanged ==
    ASSUME ArchiveInv, TypeOK', UNCHANGED Decisive
    PROVE  ArchiveInv'
<1>1. \A o : Confirmed(o)' = Confirmed(o)
  BY DEF Decisive, Confirmed
<1> QED BY <1>1 DEF Decisive, ArchiveInv, Undecided, ArchiveAgreesWithAnswers

LEMMA InitArchive == ASSUME Init PROVE ArchiveInv
<1>1. ASSUME NEW o \in Outcomes PROVE Cardinality(Confirmed(o)) < OutcomeThreshold
  <2>1. Confirmed(o) = {}
    BY OutcomeAssumption DEF Init, Confirmed
  <2>2. Cardinality(Confirmed(o)) = 0
    BY <2>1, FS_EmptySet, Zenon
  <2> QED BY <2>2, OutcomeAssumption
<1>2. \A r \in transitions : r.edge.to # "archived"
  BY DEF Init, PathTo, Row, Edge, ConfirmationReached, ProposalsReached, VotingWindowClosed,
         MandateDecided, DeliberationReached, BallotPrepared, QuorumNotReached
<1>3. /\ Row(DeliveredReached, cycle).edge.to = "archived"
      /\ Row(NotDeliveredReached, cycle).edge.to = "archived"
  BY DEF Row, Edge, DeliveredReached, NotDeliveredReached
<1> QED BY <1>1, <1>2, <1>3, InitTyped DEF Init, ArchiveInv, Undecided, ArchiveAgreesWithAnswers

LEMMA MarkArchive ==
    ASSUME TypeOK', ArchiveInv, NEW a \in Actors, MarkActionReadyForVerification(a)
    PROVE  ArchiveInv'
<1>1. /\ stage = "action" /\ stage' = "verification" /\ cycle' = cycle
      /\ transitions' = transitions \cup {Row(ActionMarkedReady, cycle)}
      /\ confirmation' = confirmation /\ verification' = verification
  BY DEF MarkActionReadyForVerification, Record, records, ActionMarkedReady, Edge
<1>2. \A o : Confirmed(o)' = Confirmed(o)
  BY <1>1 DEF Confirmed
<1>3. /\ Row(DeliveredReached, cycle) # Row(ActionMarkedReady, cycle)
      /\ Row(NotDeliveredReached, cycle) # Row(ActionMarkedReady, cycle)
  BY DEF Row, Edge, DeliveredReached, NotDeliveredReached, ActionMarkedReady
<1>4. Undecided'
  BY <1>1, <1>2, <1>3 DEF ArchiveInv, Undecided
<1> QED BY <1>1, <1>4 DEF ArchiveInv, ArchiveAgreesWithAnswers

\* One answer is counted once, for its own outcome.
LEMMA AnswerCounts ==
    ASSUME TypeOK, NEW a \in Actors, NEW w \in Outcomes,
           confirmation[a] = None, confirmation' = [confirmation EXCEPT ![a] = w]
    PROVE  /\ Cardinality(Confirmed(w)') = Cardinality(Confirmed(w)) + 1
           /\ \A o \in Outcomes \ {w} : Cardinality(Confirmed(o)') = Cardinality(Confirmed(o))
<1>1. confirmation[a] \notin Outcomes
  BY OutcomeAssumption
<1>2. Confirmed(w)' = Confirmed(w) \cup {a} /\ a \notin Confirmed(w)
  BY <1>1 DEF Confirmed, TypeOK
<1>3. Cardinality(Confirmed(w)') = Cardinality(Confirmed(w)) + 1
  BY <1>2, CountsTyped, FS_AddElement
<1>4. ASSUME NEW o \in Outcomes \ {w}
      PROVE  Cardinality(Confirmed(o)') = Cardinality(Confirmed(o))
  <2>1. Confirmed(o)' = Confirmed(o)
    BY <1>1 DEF Confirmed, TypeOK
  <2> QED BY <2>1, Zenon
<1> QED BY <1>3, <1>4

LEMMA AnswerArchive ==
    ASSUME TypeOK, TypeOK', ArchiveInv,
           NEW r \in requests, InsertCivicVerificationConfirmation(r)
    PROVE  ArchiveInv'
<1> DEFINE a == r.actor
           w == r.write
           count == [x \in Outcomes |-> Cardinality(Confirmed(x)')]
<1>1. /\ a \in Actors /\ w \in Outcomes /\ stage = "verification"
      /\ confirmation[a] = None /\ confirmation' = [confirmation EXCEPT ![a] = w]
  BY DEF InsertCivicVerificationConfirmation, GuardAccepts, StageOf, Outcomes, Kinds,
         TypeOK, Requests
<1>2. verification = None /\ Undecided
  BY <1>1 DEF ArchiveInv, ArchiveAgreesWithAnswers
<1>3. /\ count[w] = Cardinality(Confirmed(w)) + 1
      /\ \A o \in Outcomes \ {w} : count[o] = Cardinality(Confirmed(o))
  BY <1>1, AnswerCounts
<1>4. \A o \in Outcomes \ {w} : ~(count[o] >= OutcomeThreshold)
  <2>1. ASSUME NEW o \in Outcomes \ {w} PROVE ~(count[o] >= OutcomeThreshold)
    <3>1. count[o] < OutcomeThreshold /\ count[o] \in Nat
      BY <1>2, <1>3, CountsTyped DEF Undecided
    <3> HIDE DEF count
    <3> QED BY <3>1, OutcomeAssumption
  <2> QED BY <2>1
<1>5. \A o \in Outcomes : count[o] = Cardinality(Confirmed(o)')
  OBVIOUS
<1>6. IF \E o \in Outcomes : count[o] >= OutcomeThreshold
      THEN Archive(count) ELSE UNCHANGED <<process, verification>>
  BY DEF InsertCivicVerificationConfirmation
<1>7. CASE count[w] >= OutcomeThreshold
  <2> DEFINE e == IF w = "delivered" THEN DeliveredReached ELSE NotDeliveredReached
  <2>1. Archive(count)
    BY <1>1, <1>6, <1>7
  <2>2. w = IF count["delivered"] >= OutcomeThreshold THEN "delivered" ELSE "not_delivered"
    BY <1>1, <1>4, <1>7 DEF Outcomes
  <2>3. /\ KeyFree(transitions, e, cycle) /\ Record(e)
        /\ verification' = [outcome |-> w, count |-> count]
    BY <2>1, <2>2 DEF Archive
  <2>4. /\ stage' = "archived" /\ cycle' = cycle
        /\ transitions' = transitions \cup {Row(e, cycle)}
    BY <2>3 DEF Record, DeliveredReached, NotDeliveredReached, Edge
  <2>5. /\ Row(DeliveredReached, cycle) \notin transitions
        /\ Row(NotDeliveredReached, cycle) \notin transitions
    BY <1>2 DEF Undecided
  <2>6. /\ Row(DeliveredReached, cycle) \in transitions' <=> w = "delivered"
        /\ Row(NotDeliveredReached, cycle) \in transitions' <=> w = "not_delivered"
    BY <1>1, <2>4, <2>5, ArchiveRowsDiffer DEF Outcomes
  <2>7. verification' # None
    <3>1. verification' \in VerificationRows
      <4>1. count \in [Outcomes -> Nat]
        BY CountsTyped
      <4> QED BY <1>1, <2>3, <4>1
    <3> QED BY <3>1, OutcomeAssumption
  <2>8. \A o \in Outcomes : (count[o] >= OutcomeThreshold) = (o = w)
    BY <1>4, <1>7
  <2> HIDE DEF count, e
  <2>9. verification'.outcome = w /\ verification'.count = count
    BY <2>3
  <2> QED BY <1>5, <2>4, <2>6, <2>7, <2>8, <2>9 DEF ArchiveInv, ArchiveAgreesWithAnswers
<1>8. CASE ~(count[w] >= OutcomeThreshold)
  <2>1. \A o \in Outcomes : ~(count[o] >= OutcomeThreshold)
    BY <1>4, <1>8
  <2>2. UNCHANGED <<process, verification>>
    BY <1>6, <2>1
  <2>3. \A o \in Outcomes : Cardinality(Confirmed(o)') < OutcomeThreshold
    <3>1. \A o \in Outcomes : Cardinality(Confirmed(o)') \in Nat
      BY CountsTyped
    <3> HIDE DEF count
    <3> QED BY <1>5, <2>1, <3>1, OutcomeAssumption
  <2> QED
    BY <1>1, <1>2, <2>2, <2>3 DEF ArchiveInv, ArchiveAgreesWithAnswers, Undecided, process
<1> QED BY <1>7, <1>8

LEMMA StepArchive ==
    ASSUME TypeOK, ArchiveInv, [Next]_vars
    PROVE  ArchiveInv'
<1>1. TypeOK'
  BY StepTyped
<1>2. CASE UNCHANGED Decisive
  BY <1>1, <1>2, DecisiveUnchanged
<1>3. ASSUME NEW a \in Actors, MarkActionReadyForVerification(a) PROVE ArchiveInv'
  BY <1>1, <1>3, MarkArchive
<1>4. ASSUME NEW r \in requests, InsertCivicVerificationConfirmation(r) PROVE ArchiveInv'
  BY <1>1, <1>4, AnswerArchive
<1>6. \A a \in Actors :
         ChangeAccess(a) \/ (\E w \in Writes : PassRouteChecks(a, w)) => UNCHANGED Decisive
  BY DEF ChangeAccess, PassRouteChecks, Decisive, process, records
<1>7. \A r \in requests :
         InsertCivicActionUpdate(r) \/ InsertCivicVerificationEvidence(r) \/ Refuse(r)
            => UNCHANGED Decisive
  BY DEF InsertCivicActionUpdate, InsertCivicVerificationEvidence, Refuse, Decisive, process, records
<1>8. \A o \in Outcomes : ResolveCivicVerificationDispute(o) => UNCHANGED Decisive
  BY DEF ResolveCivicVerificationDispute, Decisive, process
<1>9. UNCHANGED vars => UNCHANGED Decisive
  BY DEF vars, Decisive, process, records
<1> QED BY <1>2, <1>3, <1>4, <1>6, <1>7, <1>8, <1>9 DEF Next, ActorStep, Write

\* The archive, the ledger and the published outcome agree with the answers on
\* record, whatever comes in while others decide.
THEOREM ArchiveAlwaysAgrees ==
    Spec => []ArchiveAgreesWithAnswers
<1>1. ArchiveInv => ArchiveAgreesWithAnswers
  BY DEF ArchiveInv
<1> QED BY <1>1, OutcomeTypeCorrect, InitArchive, StepArchive, PTL DEF Spec
=============================================================================
