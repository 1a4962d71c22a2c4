CONSTANTS
    Keys = {k1, k2}
    Ports = {30303, 30304}
    Ips = {ip1, ip2}
    MaxSeq = 4
    NoKey = NoKey
    NoIp = NoIp
    NoRecord = NoRecord
    OtherNode = b1
    TableIds = {a, b}
    OtherIds = {o}
    Capacity = 2
    KeepAlive = 2
SPECIFICATION Spec
INVARIANT TypeOK
INVARIANT NoSequenceReuse
INVARIANT AdvertisesOwnPort
INVARIANT TagRoundTrip
INVARIANT RoundTrip
INVARIANT TransientErrorsAbsorbed
INVARIANT DeliveredInOrder
PROPERTY EveryEntryChecked
PROPERTY StreamEnds
PROPERTY ReceiveLoopNeverBlocked
