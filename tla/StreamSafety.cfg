SPECIFICATION Spec
CONSTANTS
    Sockets = {s1, s2}
    None = None
    MaxDials = 2
    MaxRenewals = 2
    Faults <- AllFaults
INVARIANTS SelfHealing KeepaliveRunning NewestToken QuietMeansDead
CHECK_DEADLOCK FALSE
