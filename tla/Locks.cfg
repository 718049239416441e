SPECIFICATION Spec
CONSTANTS
    s1 = s1
    s2 = s2
    s3 = s3
    a1 = a1
    a2 = a2
    Idle = Idle
    Sessions <- ThreeSessions
    Actors <- MCActors
    ProposalThreshold = 2
    DeliberationThreshold = 2
    BallotQuorum = 2
    MaxCycle = 1
SYMMETRY ThreeAlike
INVARIANTS
    ThresholdIsNeverMissed
    EveryCommittedVoteIsCounted
    VotingNeverDeadlocks
PROPERTIES
    FrozenMeansFrozen
CHECK_DEADLOCK FALSE
