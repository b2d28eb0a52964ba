SPECIFICATION FairSpec
CONSTANTS
    Roots = {"transaction", "pinned"}
    Streams = {"query"}
    AwaitsScratch = TRUE
    AwaitsStreams = TRUE
    MaxScope = 3
    MaxWork = 2
    MaxFault = 1
    MaxRefused = 1
INVARIANTS
    TypeOK
    AllOrNothing
    CleanReturn
PROPERTIES
    NothingOutsideItsScope
    EveryScopeSettles
CHECK_DEADLOCK FALSE
