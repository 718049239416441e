SPECIFICATION Spec
CONSTANTS
    r1 = r1
    r2 = r2
    k1 = k1
    k2 = k2
    Idle = NoRequest
    Requests <- MCRequests
    Keys <- MCKeys
    Counting <- MCCounting
    First = k1
    Backups = {TRUE, FALSE}
    CodeTTL = 1
    Cooldown = 1
    MaxAttempts = 1
    GrantTTL = 1
    CeremonyTTL = 1
    ChallengeTTL = 1
    MaxTime = 2
    MaxCodes = 2
    MaxGrants = 3
    MaxCeremonies = 2
    MaxChallenges = 2
    MaxRenames = 1
    MaxSigned = 2
    Offered <- MCOffered
    DayLength = 2
    ShortLimit = 1
    DayLimit = 2
    MaxQuarter = 2
    MaxBegun = 3
SYMMETRY Alike
INVARIANTS
    NothingIsSpentTwice
    LimitsHold
PROPERTIES
    OldProofsOpenNothing
    ImplementsLifecycle
CHECK_DEADLOCK FALSE
