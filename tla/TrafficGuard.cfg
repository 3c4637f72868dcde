CONSTANTS
    r1 = r1
    r2 = r2
    r3 = r3
    r4 = r4
    Requests <- FourRequests
    Points <- GatewayPoints
    Threshold = 5
    Cooldown = 6
    DecayEvery = 6
    None = None
    MaxTime = 8
    MaxFaults = 1
    MaxRestarts = 1
    Capacity = 2
    TokenUnits = 2
    Refill = 1
    TicksPerSecond = 3
SPECIFICATION GuardSpec
SYMMETRY RequestSymmetry
PROPERTIES
    RateIsExact
    RetryAfterIsEnough
CHECK_DEADLOCK FALSE
