SPECIFICATION Spec
CONSTANTS
    NumCmds = 1
    Kind <- OneForEsp
    VisionLoaded = TRUE
INVARIANT
    RefusedIsNotRun
