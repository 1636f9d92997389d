SPECIFICATION FairSpec
CONSTANTS
    Calls = {c1, c2}
    HasBridge = TRUE
    RpcFails = TRUE
INVARIANTS ConsentRequired SubmittedOnce PendingIsWaiting ConfirmationKept
PROPERTIES HooksReturn ImplementsConsent
CHECK_DEADLOCK FALSE
