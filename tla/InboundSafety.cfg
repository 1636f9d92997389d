SPECIFICATION FairSpec
CONSTANTS
    MaxRows = 2
    MaxSubs = 2
    Limit = 1
INVARIANTS OncePerPath DuplicateOnlyInOverlap NothingElseLost
PROPERTY MessagesHandled
CHECK_DEADLOCK FALSE
