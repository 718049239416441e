SPECIFICATION Spec
CONSTANTS
    Accounts <- MCAccounts
    Null <- BeforeAllTimes
    a1 = a1
    a2 = a2
    s1 = s1
    s2 = s2
    r1 = r1
    r2 = r2
    k1 = k1
    k2 = k2
    t1 = t1
    Idle = Idle
SYMMETRY Alike
PROPERTIES
    GrantsSpareProviders
CHECK_DEADLOCK FALSE
