SPECIFICATION McpFairSpec
CONSTANTS
    Caller = {c1}
    FailureThreshold = 2
    MaxReconnectAttempts = 2
    MaxFaults = 2
    MaxChanges = 1
    MaxOrders = 1
    MaxDrops = 1
INVARIANTS FailuresAreItsOwn
PROPERTY RegistryFollowsServer
CHECK_DEADLOCK FALSE
