SPECIFICATION Spec
CONSTANTS
    a1 = a1
    a2 = a2
    a3 = a3
    None = None
    Actors <- MCActors
    Volatile <- MCVolatile
    OutcomeThreshold = 2
    Cycles <- SecondBallot
    MaxRequests = 2
SYMMETRY Alike
PROPERTIES
    ResolvedStaysInVerification
CHECK_DEADLOCK FALSE
