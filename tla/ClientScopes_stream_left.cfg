SPECIFICATION Spec
CONSTANTS
    Roots = {"transaction"}
    Streams = {"query"}
    AwaitsScratch = TRUE
    AwaitsStreams = FALSE
    MaxScope = 1
    MaxWork = 1
    MaxFault = 0
    MaxRefused = 1
INVARIANT
    AllOrNothing
CHECK_DEADLOCK FALSE
