SPECIFICATION Spec
CONSTANTS
    a1 = a1
    a2 = a2
    a3 = a3
    None = None
    Actors <- TwoActors
    Volatile <- NoVolatile
    ConfirmationThreshold = 2
    ProposalThreshold = 2
    DeliberationThreshold = 2
    BallotQuorum = 2
    FreezeWindow = 1
    VotingWindow = 1
    MaxClock = 5
SYMMETRY BothAlike
INVARIANTS
    LedgerNeverBlocks
    EveryMoveHasItsEvent
    OneVotePerToken
PROPERTIES
    ClosedVotingIsFinal
    ImplementsStages
CHECK_DEADLOCK FALSE
