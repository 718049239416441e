SPECIFICATION Spec
CONSTANTS
    NoMandate = NoMandate
    NoRequest = NoRequest
PROPERTIES
    EveryBallotEnds
    ElapsedMembershipsExpire
    WorkSettles
CHECK_DEADLOCK FALSE
