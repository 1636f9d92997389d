SPECIFICATION FairSpec
CONSTANTS
    Sockets = {s1, s2}
    None = None
    MaxDials = 2
    MaxRenewals = 2
    Faults <- ServerFaults
INVARIANT SingleConnection
PROPERTIES ImplementsLink KeepsSubscribing RevocationStops SilentLinkReplaced
CHECK_DEADLOCK FALSE
