SPECIFICATION Spec
CONSTANTS
    Messages <- NoMessages
    Sights <- NoSights
    Masks <- SomeMasks
    Width = 7
    Height = 5
    HHalf = 2
    VHalf = 1
INVARIANT
    OnlyFullRunsRemoved
CHECK_DEADLOCK FALSE
