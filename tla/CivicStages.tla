---------------------------- MODULE CivicStages ----------------------------
(***************************************************************************)
(* What a civic process promises, without saying how: it stands at one     *)
(* stage, it moves along the published edges only, every move is recorded  *)
(* once, and the only way back is a failed quorum, which opens a new       *)
(* ballot cycle.  CivicBallot and CivicOutcome implement it.               *)
(***************************************************************************)
EXTENDS CivicLedger

VARIABLES
    stage,        \* civic_processes.current_stage
    cycle,        \* civic_processes.ballot_cycle
    transitions   \* rows of civic_process_transitions

vars == <<stage, cycle, transitions>>

Init ==
    /\ stage = "confirmation"
    /\ cycle = 1
    /\ transitions = {}

\* One move along the edge e, recorded by a row that was not there before.
Move(e) ==
    /\ stage = e.from
    /\ KeyFree(transitions, e, cycle)
    /\ transitions' = transitions \cup {Row(e, cycle)}
    /\ stage' = e.to
    /\ cycle' = IF e = QuorumNotReached THEN cycle + 1 ELSE cycle

\* A ballot with a single winner passes through mandate to action in the
\* transaction that closes it, and records both moves.
Decide ==
    /\ stage = "voting"
    /\ KeyFree(transitions, VotingWindowClosed, cycle)
    /\ KeyFree(transitions, MandateDecided, cycle)
    /\ transitions' = transitions \cup {Row(VotingWindowClosed, cycle), Row(MandateDecided, cycle)}
    /\ stage' = "action"
    /\ UNCHANGED cycle

Next == Decide \/ \E e \in Edges \ {MandateDecided} : Move(e)

Spec == Init /\ [][Next]_vars
=============================================================================
