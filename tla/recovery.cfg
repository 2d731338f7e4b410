SPECIFICATION Spec
CONSTANTS
    k1 = k1
    k2 = k2
    c1 = c1
    c2 = c2
    Clients <- TwoClients
    Keys <- TwoKeys
    SegmentSize = 3
    PoolSize = 2
    Trigger = 50
    MaxCalls = 4
    MaxWrites = 3
    MaxFaults = 1
    MaxLives = 2
    None = None
SYMMETRY KeySymmetry
INVARIANTS
    RestartReads
    GcPicksOnlyFragmented
    CloseKeepsAll
PROPERTY
    FilesAppendOnly
CHECK_DEADLOCK FALSE
