SPECIFICATION FairSpec
CONSTANTS
    NumCmds = 6
    Kind <- AllKinds
    VisionLoaded = TRUE
INVARIANTS
    TypeOK
    HandledOnceInOrder
    NoneForgotten
PROPERTIES
    ImplementsLedger
    InboxServed
