---------------------------- MODULE CivicLedger ----------------------------
(***************************************************************************)
(* The stages of a civic process, the edges its ledger accepts and the     *)
(* rows of the two append-only ledgers, civic_process_transitions and      *)
(* civic_process_events.  Shared by every module about the civic process.  *)
(***************************************************************************)
EXTENDS Naturals

\* The numbering follows the canonical order; only voting may step back.
Rank == [confirmation |-> 0, proposals |-> 1, deliberation |-> 2,
         ballot_preparation |-> 3, voting |-> 4, mandate |-> 5,
         action |-> 6, verification |-> 7, archived |-> 8]

Stages == {"confirmation", "proposals", "deliberation", "ballot_preparation",
           "voting", "mandate", "action", "verification", "archived"}

Edge(from, to, reason) == [from |-> from, to |-> to, reason |-> reason]

ConfirmationReached == Edge("confirmation", "proposals", "confirmation_threshold_reached")
ProposalsReached    == Edge("proposals", "deliberation", "proposal_threshold_reached")
DeliberationReached ==
    Edge("deliberation", "ballot_preparation", "deliberation_threshold_reached")
BallotPrepared      == Edge("ballot_preparation", "voting", "ballot_prepared")
QuorumNotReached    == Edge("voting", "deliberation", "quorum_not_reached")
VotingWindowClosed  == Edge("voting", "mandate", "voting_window_closed")
MandateDecided      == Edge("mandate", "action", "mandate_decided")
ActionMarkedReady   == Edge("action", "verification", "action_marked_ready")
DeliveredReached    ==
    Edge("verification", "archived", "verification_delivered_threshold_reached")
NotDeliveredReached ==
    Edge("verification", "archived", "verification_not_delivered_threshold_reached")

\* The edges that write the ballot cycle of the process; the others write the
\* column default, 1.
CycleEdges == {DeliberationReached, BallotPrepared, QuorumNotReached,
               VotingWindowClosed, MandateDecided}
OneTimeEdges == {ConfirmationReached, ProposalsReached, ActionMarkedReady,
                 DeliveredReached, NotDeliveredReached}
Edges == CycleEdges \cup OneTimeEdges

\* Mutant: every trigger writes the default.
DefaultCycle(e, cycle) == 1

LedgerCycle(e, cycle) == IF e \in CycleEdges THEN cycle ELSE 1

\* A row of civic_process_transitions.
Row(e, cycle) == [edge |-> e, cycle |-> LedgerCycle(e, cycle)]
Rows == [edge : Edges, cycle : Nat \ {0}]

\* UNIQUE (process_id, from_stage, to_stage, ballot_cycle): whether
\* INSERT ... ON CONFLICT DO NOTHING would write the row.
KeyFree(transitions, e, cycle) ==
    \A r \in transitions :
        <<r.edge.from, r.edge.to, r.cycle>> # <<e.from, e.to, LedgerCycle(e, cycle)>>

\* Mutant: the return is published as any other arrival at deliberation.
EventOfStage(e) == e.to

\* The event written beside each transition, with the transition's cycle.
EventOf(e) == IF e = QuorumNotReached THEN "returned_to_deliberation" ELSE e.to
Event(e, cycle) == <<EventOf(e), LedgerCycle(e, cycle)>>
Events == (Stages \cup {"process_created", "returned_to_deliberation"}) \X (Nat \ {0})
=============================================================================
