SPECIFICATION Spec
CONSTANTS
    Reqs = {r1, r2, r3}
    Procs = {p1, p2}
    Agents = {a1, a2}
    Bodies <- OneChange
    None = None
SYMMETRY Symmetry
INVARIANTS NeverLockedOut SignsRegistered RuntimeFileTrue
PROPERTY WritesKeepOthers
CHECK_DEADLOCK FALSE
