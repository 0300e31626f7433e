SPECIFICATION Spec
CONSTANTS
    a = a
    b = b
    c = c
    Peers = {a, b, c}
    Links <- Line
    Uptime <- MCUptime
    MAX_HOP_COUNT = 4
    ROUTE_TIMEOUT = 0
    MaxTime = 0
    MaxQueue = 1
    MaxEvents = 1
INVARIANT
    NoRoutingLoop
