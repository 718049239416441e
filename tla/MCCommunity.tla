---------------------------- MODULE MCCommunity -----------------------------
(* The three parts of Community, for TLC.  `part` chooses which of them runs, *)
(* so that the states are the sum and not the product of theirs.             *)
EXTENDS Community, TLC

CONSTANT m1

MCMedia == {m1}
Alike == Permutations(Accounts) \cup Permutations(Requests) \cup Permutations(Photos)

VARIABLE part
allVars == <<part, communityVars>>

\* Bound: the clock of those who publish.
PublishingTime == 3

Talking == INSTANCE Discussion WITH
    Members <- Accounts, requests <- talks, begun <- talked, MaxNow <- 1, MaxBegun <- 3

MCInit ==
    /\ part \in {"publishing", "discussing", "contesting"}
    /\ Init /\ Discussing!Init /\ Contesting!Init

\* The parts that do not run stay as they begin.
MCNext ==
    /\ UNCHANGED part
    /\ \/ part = "publishing" /\ Next /\ now' <= PublishingTime /\ UNCHANGED <<discussionRows, mandateRows>>
       \/ part = "discussing" /\ Talking!Next /\ UNCHANGED <<signalRows, mandateRows>>
       \/ part = "contesting" /\ Contesting!Next /\ UNCHANGED <<signalRows, discussionRows>>

MCSpec == MCInit /\ [][MCNext]_allVars
=============================================================================
