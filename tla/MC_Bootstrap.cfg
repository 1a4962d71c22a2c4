CONSTANTS
    LocalNodeId = 0
    Nodes = {1, 2}
    BucketSize = 1
    NumBuckets = 2
    Bootnodes = {1, 2}
    PingNodes = {2}
    RefreshNodes = {}
    CrashNodes = {2}
    Unreachable = {1}
    MaxSeq = 2
    DistanceRequests <- MCOwnEnrRequest
SPECIFICATION LossySpec
PROPERTY BootstrapCompletes
