CONSTANTS
    Writer = {w1, w2}
    EventId = {i1, i2, i3, i4}
    MaxFaults = 1
    MaxFound = 3
SPECIFICATION MCSpec
INVARIANT ProjectsExactlyTheChains
PROPERTY ChainImplementsLedger
SYMMETRY ChainSymmetry
CHECK_DEADLOCK FALSE
