CONSTANTS
    w1 = w1
    w2 = w2
    r1 = r1
    Null = Null
    Writers <- TwoWriters
    Readers <- OneReader
    PoolSize = 2
    Cap = 2
    SegmentSize = 8
    Lens <- DirectLens
    BufLens <- BothBuffers
    MaxWrites = 3
    MaxFaults = 1
    MayClose = FALSE
    CloseRace = FALSE
SPECIFICATION Spec
SYMMETRY WriterSymmetry
INVARIANTS
    ReadCorrect
CHECK_DEADLOCK FALSE
