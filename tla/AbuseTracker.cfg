CONSTANTS
    r1 = r1
    r2 = r2
    r3 = r3
    r4 = r4
    Requests <- FourRequests
    Points <- GatewayPoints
    Threshold = 5
    Cooldown = 2
    DecayEvery = 2
    None = None
    MaxTime = 6
    MaxFaults = 1
    MaxRestarts = 1
SPECIFICATION Spec
SYMMETRY RequestSymmetry
INVARIANTS
    TypeOK
    PointsAreKept
PROPERTIES
    CooldownHolds
    CooldownNotExtended
    BlockIsJustified
CHECK_DEADLOCK FALSE
