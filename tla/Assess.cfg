SPECIFICATION Spec
CONSTANTS
    Messages <- SomeMessages
    Sights <- SomeSights
    Masks <- SomeMasks
    Width = 7
    Height = 5
    HHalf = 2
    VHalf = 1
INVARIANTS
    ForwardedIsSane
    OnlyNoiseClamped
    ProbeAgrees
    SureIsReported
    DirtierIsNotCleaner
    CleaningFollowsClass
    CompactDepositsSurvive
    OnlyRunsRemoved
CHECK_DEADLOCK FALSE
