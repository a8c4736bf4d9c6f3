SPECIFICATION CheckSpec
CONSTANTS
    Threads = {1, 2, 3}
    Resources = {r1, r2, r3}
    Ids = {1, 2, 3}
    WaitsOn <- OwnOrShared
    Weights <- WeightsTried
    DepthShort = 2
    DepthLong = 3
    timeout_short = 1
    timeout_long = 2
    MaxWaits = 3
    Nobody = Nobody
SYMMETRY Symmetric
INVARIANT GraphConsistent
INVARIANT SearchLocks
INVARIANT NoSilentCycle
INVARIANT SleepsForSomebody
