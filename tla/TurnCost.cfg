\* One metered request: every wait may be cut short, the cost store answers.
SPECIFICATION FairSpec
CONSTANTS
    r1 = r1
    r2 = r2
    t1 = t1
    t2 = t2
    Request = {r1}
    Turn = {t1, t2}
    NoTurn = none
    Timeout = 1
    CleanupTimeout = 1
    Window = 2
    Metered = TRUE
    LastArrival = 0
    CursorLimit = 3
    MaxFaults = 2
INVARIANT ChargedIffDispatched
PROPERTIES SettledOnce RequestEnds
CHECK_DEADLOCK FALSE
