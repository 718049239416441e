----------------------------- MODULE Community -----------------------------
(***************************************************************************)
(* What the members of a community do besides the civic ballot: signals and *)
(* their photos, the discussion of one signal, and the contesting of a      *)
(* mandate.  The three read one clock and have their rows to themselves;    *)
(* requests for one of them are no requests for another.                    *)
(***************************************************************************)
EXTENDS MemberSignals

CONSTANTS
    Media, MediaLife, MaxLost,                                  \* Discussion
    NoRequest, FreezeWindow, VotingWindow, ContestationWindow, MaxCycle    \* CivicContestation

VARIABLES
    visible, confirmations, sessions, contributions, uploads, talks, answers, talked, lost,
    stage, cycle, closesAt, quorate, eligible, contestation, job, answer

signalRows == <<photos, stored, signals, submitted, locks, requests, failed, begun>>
discussionRows == <<visible, confirmations, sessions, contributions, uploads, talks, answers,
                    talked, lost>>
mandateRows == <<stage, cycle, closesAt, quorate, eligible, contestation, job, answer>>
communityVars == <<now, signalRows, discussionRows, mandateRows>>

Discussing == INSTANCE Discussion WITH
    Members <- Accounts, requests <- talks, begun <- talked

Contesting == INSTANCE CivicContestation WITH
    Actors <- Accounts, clock <- now, MaxTime <- MaxNow, Idle <- NoRequest

ASSUME CommunityAssumption ==
    Discussing!DiscussionConstants /\ Contesting!ContestationAssumption

CommunitySpec == Spec /\ Discussing!Spec /\ Contesting!Spec

-----------------------------------------------------------------------------
(* Properties besides those of MemberSignals.                               *)

\* Rows belong together, whatever two requests do at once: a medium is of one
\* contribution, its owner's; a signal has one discussion; a confirmation keeps
\* its time; a contestation is of the ballot that decided, by one who could vote
\* in it.  (Every row has its type.)
RowsBelongTogether ==
    /\ TypeOK
    /\ Discussing!TypeOK /\ Discussing!ConfirmationsAreStable
    /\ Discussing!OneDiscussion /\ Discussing!MediaHaveOneContribution
    /\ Contesting!TypeOK /\ Contesting!FilersCouldVote

\* The decision of a contestation is permanent, and nobody is refused as too
\* early once the voting is over.
ContestationsAreAnswered ==
    [][Contesting!DecisionStays /\ Contesting!NotTooEarly]_communityVars
=============================================================================
