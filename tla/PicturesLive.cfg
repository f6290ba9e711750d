SPECIFICATION FairSpec
CONSTANTS
    m1 = m1
    m2 = m2
    v1 = v1
    Loop = Loop
    Nobody = Nobody
    Manual <- ManualOne
    Periodic <- PeriodicOne
    Threads <- ThreeThreads
    Workers = 2
    VisionLoaded = TRUE
PROPERTIES
    AskerGoesOn
    StopReturns
CHECK_DEADLOCK FALSE
