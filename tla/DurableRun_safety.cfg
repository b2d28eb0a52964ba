SPECIFICATION Spec
CONSTANTS
    Session = {s1, s2}
    Run = {r1, r2}
    Step <- MCStep
    SegmentOf <- MCSegmentOf
    AutoCommit <- MCAuto
    Plans <- MCPlans
    MaxAttempt = 2
    MaxFault = 2
    MaxDrift = 1
INVARIANTS
    TypeOK
    OneExecutionPerRun
    JournalTellsTheTruth
    VerdictIsTrue
PROPERTIES
    EffectsStartFromTheProvenState
    KeepsPromise
SYMMETRY MCSymmetry
CHECK_DEADLOCK FALSE
