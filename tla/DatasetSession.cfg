SPECIFICATION Spec
CONSTANTS
    Sessions = {morning, aux}
    Aux = {aux}
    MaxShots = 2
    Header = Header
INVARIANTS
    TypeOK
    HeaderFirst
    TrainingCanRead
    OneOrphanEach
    SavedIsTrainable
PROPERTY
    TrainingKept
CHECK_DEADLOCK FALSE
