\* A propose() whose save failed leaves a record that can still be decided.
SPECIFICATION Spec
CONSTANTS
    c1 = c1
    c2 = c2
    k1 = k1
    k2 = k2
    Client = {c1, c2}
    Call = {k1}
    Overlap = FALSE
    TouchLimit = 0
    MaxLosses = 1
SYMMETRY Symmetry
INVARIANT DurableBeforeAsk
CHECK_DEADLOCK FALSE
