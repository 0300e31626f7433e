SPECIFICATION MCSpec
SYMMETRY NodeSymmetry
CONSTANTS
    Peers = {p1, p2}
    NonceMod = 6
    window_size = 1
    Nodes = {a, b}
    NoKey = NoKey
    MaxFresh = 5
    MAX_TIME_SKEW = 0
    MaxTime = 1
    Uptimes = {0, 1}
PROPERTY
    InitiatorCompletes
