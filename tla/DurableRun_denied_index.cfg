SPECIFICATION Spec
CONSTANTS
    Session = {s1}
    Run = {r1}
    Step <- MCStep
    SegmentOf <- MCSegmentOf
    AutoCommit <- MCAuto
    Plans <- MCPlans
    MaxAttempt = 1
    MaxFault = 1
    MaxDrift = 0
INVARIANT NotAppliedIsTrue
CHECK_DEADLOCK FALSE
