SPECIFICATION FairSpec
CONSTANTS
    Calls = {c1}
    HasBridge = TRUE
    RpcFails = FALSE
PROPERTY UpstreamIdsReachManager
CHECK_DEADLOCK FALSE
