SPECIFICATION RoundSpec
CONSTANTS
    a = a
    b = b
    c = c
    d = d
    Peers = {a, b, c, d}
    Links <- Chain
    Uptime <- MCUptime
    MAX_HOP_COUNT = 4
    ROUTE_TIMEOUT = 3
    MaxTime = 2
    MaxQueue = 1
    MaxEvents = 2
INVARIANT
    RoutesInTime
CHECK_DEADLOCK FALSE
