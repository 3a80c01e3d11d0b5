\* A decision taken while propose() is in flight: two clients delegate one call.
SPECIFICATION Spec
CONSTANTS
    c1 = c1
    c2 = c2
    k1 = k1
    k2 = k2
    Client = {c1, c2}
    Call = {k1}
    Overlap = TRUE
    TouchLimit = 0
    MaxLosses = 0
SYMMETRY Symmetry
INVARIANT AskedOnce
CHECK_DEADLOCK FALSE
