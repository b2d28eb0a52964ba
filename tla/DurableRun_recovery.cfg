SPECIFICATION FairSpec
CONSTANTS
    Session = {s1, s2}
    Run = {r1, r2}
    Step <- MCStep
    SegmentOf <- MCSegmentOf
    AutoCommit <- MCAuto
    Plans <- MCPlans
    MaxAttempt = 2
    MaxFault = 1
    MaxDrift = 0
PROPERTIES
    BegunIsClassified
CHECK_DEADLOCK FALSE
