SPECIFICATION Spec
SYMMETRY OneOfTwo
CONSTANTS
    m1 = m1
    m2 = m2
    v1 = v1
    Loop = Loop
    Nobody = Nobody
    Manual <- ManualTwo
    Periodic <- PeriodicOne
    Threads <- AllThreads
    Workers = 2
    VisionLoaded = TRUE
INVARIANTS
    TypeOK
    SensorSafe
    ScoredOwnFrame
PROPERTIES
    ImplementsStory
    OnlyTheDeafGoOn
CHECK_DEADLOCK FALSE
