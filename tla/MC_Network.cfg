CONSTANTS
    LocalNodeId = 0
    Nodes = {1, 2, 3}
    BucketSize = 1
    NumBuckets = 2
    Bootnodes = {2, 3}
    PingNodes = {1}
    RefreshNodes = {1}
    CrashNodes = {2}
    Unreachable = {3}
    MaxSeq = 1
    DistanceRequests <- MCDistanceRequests
SPECIFICATION LossySpec
INVARIANT TypeOK
INVARIANT RoutingTableHasEnrs
PROPERTY DeadEntriesRemoved
