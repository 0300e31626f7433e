SPECIFICATION MCSpec
CONSTANTS
    a = a
    b = b
    c = c
    Peers = {a, b, c}
    Links <- Line
    Uptime <- MCUptime
    MAX_HOP_COUNT = 4
    ROUTE_TIMEOUT = 0
    MaxTime = 1
    MaxQueue = 1
    MaxEvents = 3
    Base = 8
    MaxPayload = 100
    Messages <- MCMessages
    MaxSent = 2
    max_size = 4
    MaxPushed = 6
    MaxTicks = 2
INVARIANTS
    TablesAgree
    HopsBounded
    LastSeenGenuine
    HandedAsSent
    HoldsTheNewest
PROPERTIES
    RouteNeverGrows
    WholeOrNothing
    DeliveredInOrder
CHECK_DEADLOCK FALSE
