SPECIFICATION FairSpec
CONSTANTS
    Calls <- SixCalls
    Content <- Mixed
    Limit = 2
INVARIANTS
    TypeOK
    CountExact
PROPERTIES
    ImplementsGate
    SlotsComeBack
CHECK_DEADLOCK FALSE
