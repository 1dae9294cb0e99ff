CONSTANTS
    r1 = r1
    r2 = r2
    r3 = r3
    Nobody = Nobody
    Request = {r1, r2, r3}
    Lock <- Locks3
    Program <- CacheFirst
SPECIFICATION FairSpec
CHECK_DEADLOCK FALSE
INVARIANTS
    WaitsAreOrdered
PROPERTIES
    EveryWaitEnds
