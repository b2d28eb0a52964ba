SPECIFICATION Spec
CONSTANTS
    Run = {r1}
    Root = root
    Members = {m1}
    MaxIdentity = 2
    MaxFaults = 2
INVARIANT ReservationEndsWithClaim
CHECK_DEADLOCK FALSE
