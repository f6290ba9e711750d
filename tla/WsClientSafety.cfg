SPECIFICATION Spec
CONSTANTS
    m1 = m1
    m2 = m2
    m3 = m3
    sync = sync
    Msgs <- TwoMsgs
    Sync <- sync
    MaxAge = 0
    SentRetention = 0
    BatchSize = 1
    BackoffMin = 1
    BackoffMax = 2
    BackoffFactor = 2
    MaxTime = 1
    MaxConns = 2
    MaxCrashes = 1
SYMMETRY Symmetry
INVARIANTS
    TypeOK
    SentRowWasWritten
    NothingDropped
    WrittenOncePerConnection
    BacklogOldestFirst
    StopIsFinal
PROPERTY ImplementsStore
CHECK_DEADLOCK FALSE
