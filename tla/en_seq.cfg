SPECIFICATION FairSpec
CONSTANTS
    k1 = k1
    k2 = k2
    k3 = k3
    c1 = c1
    c2 = c2
    c3 = c3
    None = None
    Keys <- ThreeKeys
    Clients <- OneClient
    Ops <- AllOps
    NumSlots = 2
    Large <- LargeKeys
    Costs = {1, 3}
    MinCost = 2
    BaseThreshold = 2
INVARIANTS SlotOwned SlotsAccounted
PROPERTIES ImplementsCache CallsReturn
