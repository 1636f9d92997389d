SPECIFICATION FairSpec
CONSTANTS
    t1 = t1
    t2 = t2
    Turns <- TwoTurns
    SessionOf <- SameSession
    MaxEvents = 1
    IngestTries = 2
    NoticeTries = 1
    LostWrites = TRUE
INVARIANTS EndsOnce RowCleared
PROPERTIES NoWriteAfterFinalize ImplementsAnswer TurnsEnd
CHECK_DEADLOCK FALSE
