\* One operation at a time in each client: two resumed clients, two calls.
SPECIFICATION Spec
CONSTANTS
    c1 = c1
    c2 = c2
    k1 = k1
    k2 = k2
    Client = {c1, c2}
    Call = {k1, k2}
    Overlap = FALSE
    TouchLimit = 1
    MaxLosses = 1
SYMMETRY Symmetry
INVARIANTS AskedOnce PendingIsUndecided
PROPERTIES DecidedTogether
CHECK_DEADLOCK FALSE
