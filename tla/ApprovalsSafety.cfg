SPECIFICATION Spec
CONSTANTS
    Calls = {c1, c2, c3}
    MaxEdits = 3
SYMMETRY Symmetry
INVARIANTS NeverTorn BackupOutlives EditsKept
CHECK_DEADLOCK FALSE
