\* Operations of a client overlap: two clients, one call, decisions inside propose().
SPECIFICATION FairSpec
CONSTANTS
    c1 = c1
    c2 = c2
    k1 = k1
    k2 = k2
    Client = {c1, c2}
    Call = {k1}
    Overlap = TRUE
    TouchLimit = 1
    MaxLosses = 1
INVARIANTS TypeOK AskedOncePerClient TerminalOnlyAfterAsk
PROPERTY OperationsEnd
CHECK_DEADLOCK FALSE
