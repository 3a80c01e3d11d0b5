\* Two unmetered requests of one session: claims, takeovers, late saves, one fault.
SPECIFICATION Spec
CONSTANTS
    r1 = r1
    r2 = r2
    t1 = t1
    t2 = t2
    Request = {r1, r2}
    Turn = {t1, t2}
    NoTurn = none
    Timeout = 1
    CleanupTimeout = 1
    Window = 2
    Metered = FALSE
    LastArrival = 4
    CursorLimit = 2
    MaxFaults = 1
SYMMETRY Symmetry
INVARIANTS TypeOK TranscriptExclusive
PROPERTIES TerminalNotReplayed TerminalKept LeaseTakenByItsTurn
CHECK_DEADLOCK FALSE
