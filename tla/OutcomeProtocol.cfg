SPECIFICATION FairSpec
CONSTANTS
    Address = {a1}
    Run = {r1, r2}
    Ops = {"create", "modify", "adopt", "createConcurrently", "retire"}
    MaxIdentity = 3
    MaxFaults = 2
    VerifiedRun = {r1}
INVARIANTS
    TypeOK
    ReservationMirrorsClaim
    ExecutorKeepsItsClaim
    RefusedMeansNoEffect
PROPERTIES
    CreationRecordsItsOwnObject
    EffectUnderOwnClaim
    ImplementsLedger
    StoppedClaimsAreRecovered
CHECK_DEADLOCK FALSE
