CONSTANTS
    Nodes = {1, 2, 3}
    Messages = {1, 2, 3, 4, 5}
    From <- MCFrom
    To <- MCTo
    Size <- MCSize
    None = None
    Capacities <- MCCapacities
    HeaderGap = 1
    MaxLogical = 5
    MaxFragments = 3
    ReassemblyTTL = 2
    MaxRanges = 1
    MaxReports = 1
    MinIdle = 1
    RetryInterval = 1
    MaxRounds = 1
    FullRetry = 1
    RecoveryTTL = 2
    MaxPeers = 2
    Setups <- MCSetups
SPECIFICATION FairSpec
INVARIANTS
    BytesAccounted
    MissingIsExact
PROPERTY
    EventuallyDelivered
