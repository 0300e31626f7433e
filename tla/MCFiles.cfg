SPECIFICATION MCSpec
SYMMETRY MCSymmetry
CONSTANTS
    Capacity = 2
    SessionIds = {"a", "b", "c"}
    Files = {"f"}
    Unset <- MCUnset
    Bodies = {"x"}
    Sizes = {1, 2}
    Limits = {1, 2}
    DefaultLimit = 2
    MaxTotal = 4
    Controllers = {"c"}
    Threshold = 4
    Callers = {"k", "l"}
    DefaultRate = 2
    RequestRates = {1}
    OneSecond = 2
    MaxWindow = 7
    MaxRecent = 4
    Senders = {"s", "t"}
    Rates = {1, 3}
    Capacities = {2, 4}
    RequestSizes = {1, 3}
    Second = 2
    MaxClock = 2
    MaxRequests = 2
    ChunkSize = 2
    Procs = {p1, p2}
    Paths = {"x"}
    Contents <- MCContents
    MaxNow = 2
    MaxEdits = 1
    Writers = {"w1", "w2"}
    Content <- MCContent
    ChunkData <- MCChunkData
    Zero = "0"
INVARIANTS
    TotalIsSum
    RateLimited
    TokenBucket
    GrantedInOrder
    SharedRowsAgree
    SharedStaysAvailable
    MergedIsTheFile
PROPERTY
    CleanupSparesComplete
CHECK_DEADLOCK FALSE
