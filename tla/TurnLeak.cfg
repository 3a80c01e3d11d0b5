\* A reservation in flight at the deadline lands after the request has ended.
SPECIFICATION Spec
CONSTANTS
    r1 = r1
    r2 = r2
    t1 = t1
    t2 = t2
    Request = {r1}
    Turn = {t1, t2}
    NoTurn = none
    Timeout = 1
    CleanupTimeout = 1
    Window = 2
    Metered = TRUE
    LastArrival = 0
    CursorLimit = 2
    MaxFaults = 0
INVARIANT EndedHoldsNothing
CHECK_DEADLOCK FALSE
