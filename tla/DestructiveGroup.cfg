SPECIFICATION FairSpec
CONSTANTS
    Run = {r1, r2}
    Root = root
    Members = {m1}
    MaxIdentity = 2
    MaxFaults = 4
INVARIANTS
    TypeOK
    OpenClaimIsReserved
    ExecutorKeepsItsGroup
    RefusedRootDroppedNothing
    AbsentWasGone
PROPERTIES
    GroupImplementsLedger
    ClaimedRootIsRecovered
CHECK_DEADLOCK FALSE
