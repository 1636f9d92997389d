SPECIFICATION Spec
CONSTANTS
    Keys = {k1, k2}
    Sends = {c1, c2}
    MaxRows = 2
    Tries = 2
SYMMETRY Symmetry
INVARIANTS CacheFresh ApprovalNeverText ToldTruly
CHECK_DEADLOCK FALSE
