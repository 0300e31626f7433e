SPECIFICATION MCSpec
CONSTANTS
    Nodes = {"a", "b"}
    AnnounceInterval = 1
    CleanupInterval = 2
    PeerTimeout = 5
    ConnectTimeout = 1
    Poll = 1
    MaxStarts = 2
    MaxLost = 1
    MaxQueries = 1
    Routers = {"x", "y", "z"}
    Connections <- MCConnections
    Sharers = {"y", "z"}
    Files = {"f"}
    MAX_HOP_COUNT = 3
    MAX_FLOODING_TARGETS = 1
    MAX_FILE_LOCATIONS = 1
    QueryWindow = 1
    QueryExpiry = 1
    LocationExpiry = 1
    Uptime <- MCUptime
    MaxSearches = 2
    MaxAnnounced = 1
INVARIANTS
    KnownIsRecent
    RemovedStaysRemoved
PROPERTIES
    LivePeerKept
    EventuallyKnown
    FloodEnds
