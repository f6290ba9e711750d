SPECIFICATION FairSpec
CONSTANTS
    m1 = m1
    m2 = m2
    m3 = m3
    sync = sync
    Msgs <- TwoMsgs
    Sync <- sync
    MaxAge = 0
    SentRetention = 0
    BatchSize = 1
    BackoffMin = 1
    BackoffMax = 1
    BackoffFactor = 2
    MaxTime = 0
    MaxConns = 2
    MaxCrashes = 1
PROPERTIES
    FlushDrains
    LossLeadsToRetry
    StopTerminates
CHECK_DEADLOCK FALSE
