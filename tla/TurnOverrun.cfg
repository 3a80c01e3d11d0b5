\* Four cleanup phases under a lease that counts three.
SPECIFICATION Spec
CONSTANTS
    r1 = r1
    r2 = r2
    t1 = t1
    t2 = t2
    Request = {r1, r2}
    Turn = {t1, t2}
    NoTurn = none
    Timeout = 1
    CleanupTimeout = 1
    Window = 2
    Metered = TRUE
    LastArrival = 4
    CursorLimit = 0
    MaxFaults = 0
INVARIANT TranscriptExclusive
CHECK_DEADLOCK FALSE
