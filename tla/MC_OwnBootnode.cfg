CONSTANTS
    Keys = {k1}
    Ports = {30303}
    Ips = {ip1}
    MaxSeq = 2
    NoKey = NoKey
    NoIp = NoIp
    NoRecord = NoRecord
    Bootnodes <- MCOwnBootnodes
SPECIFICATION Spec
PROPERTY StartRuns
