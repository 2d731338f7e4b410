CONSTANTS
    w1 = w1
    w2 = w2
    r1 = r1
    Null = Null
    Writers <- OneWriter
    Readers <- OneReader
    PoolSize = 2
    Cap = 2
    SegmentSize = 5
    Lens <- EmptyOrLarge
    BufLens <- BothBuffers
    MaxWrites = 3
    MaxFaults = 1
    MayClose = TRUE
    CloseRace = FALSE
SPECIFICATION Spec
INVARIANTS
    TypeOK
    VisibleOrDurable
    ReadCorrect
    PrefixDurable
    ClosedDurable
PROPERTIES
    DurableStays
CHECK_DEADLOCK FALSE
