CONSTANTS
    w1 = w1
    w2 = w2
    r1 = r1
    Null = Null
    Writers <- TwoWriters
    Readers <- NoReader
    PoolSize = 2
    Cap = 2
    SegmentSize = 5
    Lens <- MixedLens
    BufLens <- BigBuffer
    MaxWrites = 3
    MaxFaults = 0
    MayClose = TRUE
    CloseRace = TRUE
SPECIFICATION FairSpec
INVARIANTS
    NoOverlap
    SegmentsBounded
PROPERTIES
    QueueDrains
    WriterReturns
    CloseReturnsOrSleeps
CHECK_DEADLOCK FALSE
