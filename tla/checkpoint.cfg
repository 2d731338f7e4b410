CONSTANTS
    k1 = k1
    k2 = k2
    c1 = c1
    None = None
    Keys <- TwoKeys
    Clients <- OneClient
    MaxChanges = 2
    MaxFaults = 1
    MaxCrashes = 1
SPECIFICATION FairSpec
INVARIANTS
    LoadsOneState
    ShutdownSaves
PROPERTIES
    StopReturns
    LastChangeSaved
