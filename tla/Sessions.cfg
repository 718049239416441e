SPECIFICATION MCSpec
CONSTANTS
    k1 = k1
    k2 = k2
    r1 = r1
    r2 = r2
    Idle = Idle
    NoKey = NoKey
    Keys <- MCKeys
    FirstKey = k1
    Requests <- MCRequests
    Operations <- AllOperations
    IdleTimeout = 2
    AbsoluteTimeout = 3
    TouchInterval = 1
    Freshness = 0
    CeremonyTTL = 1
    MaxTime = 1
    MaxSessions = 3
    MaxPasswords = 2
SYMMETRY Alike
INVARIANTS
    SessionsHoldValidCredentials
    NothingOutlivesRevocation
    OneLiveSessionPerSignIn
    FreshnessIsEarned
CHECK_DEADLOCK FALSE
