CONSTANTS
    NodeIds <- MCNodeIds
    LocalNodeId = 0
    Target = 5
    Concurrency = 2
    BucketSize = 2
    PeerTable <- MCPeerTableSmall
    InitRoutingTable = {1, 2}
    CachedUnresponsive = {}
    ChurnNodes = {2, 3}
    MaxTableChanges = 1

SPECIFICATION Spec

PROPERTY LookupTerminates
