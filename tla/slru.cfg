SPECIFICATION Spec
CONSTANTS
    k1 = k1
    k2 = k2
    k3 = k3
    k4 = k4
    None = None
    Keys <- FourKeys
    Chunk <- Chunks
    Costs = {50, 150}
    Threshold = 100
    RatioNum = 1
    RatioDen = 2
    MaxEntries = 0
    ScanWindow = 2
INVARIANT MapsMatch
PROPERTIES GrowsWithinShare VictimIsBest PolicySpec
