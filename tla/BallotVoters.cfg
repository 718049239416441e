SPECIFICATION Spec
CONSTANTS
    a1 = a1
    a2 = a2
    a3 = a3
    None = None
    Actors <- MCActors
    Volatile <- OneVolatile
    ConfirmationThreshold = 1
    ProposalThreshold = 2
    DeliberationThreshold = 2
    BallotQuorum = 2
    FreezeWindow = 1
    VotingWindow = 1
    MaxClock = 2
SYMMETRY TwoAlike
INVARIANTS
    TypeOK
    TokensFollowSnapshot
    MandateCountsEveryVote
PROPERTIES
    SnapshotNeverChanges
    FrozenBallotImmutable
CHECK_DEADLOCK FALSE
