SPECIFICATION MCSpec
CONSTANTS
    m1 = m1
    Media <- MCMedia
    MediaLife = 1
    MaxLost = 1
    FreezeWindow = 1
    VotingWindow = 1
    ContestationWindow = 1
    MaxCycle = 2
    NoRequest = NoRequest
    Accounts = {a1, a2}
    Requests = {r1, r2}
    Photos = {p1, p2}
    DayLength = 1
    PhotoLife = 3
    Limit = 1
    MaxNow = 5
    MaxBegun = 4
SYMMETRY Alike
INVARIANTS
    RollingLimit
    PhotosMatchSignals
    RowsBelongTogether
PROPERTIES
    ContestationsAreAnswered
CHECK_DEADLOCK FALSE
