SPECIFICATION Spec
CONSTANTS
    CheckInterval = 5
    BroadcastAfter = 18
    LivenessWindow = 20
    StallAfter = 25
    MaxDelay = 1
    MaxTexts = 2
INVARIANTS NoFalseStall HangShows TextsInOrder NoTextStuck
CHECK_DEADLOCK FALSE
