SPECIFICATION MarkersSpec
CONSTANTS
    c1 = c1
    c2 = c2
    c3 = c3
    Calls <- ThreeCalls
    Key <- TwoKeys
INVARIANTS OneShot MarkerIsGenuine
CHECK_DEADLOCK FALSE
