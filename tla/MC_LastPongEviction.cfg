CONSTANTS
    TableIds = {a, b}
    OtherIds = {o}
    Capacity = 2
    KeepAlive = 2
SPECIFICATION Spec
PROPERTY PingSpacing
