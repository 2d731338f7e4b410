SPECIFICATION Spec
CONSTANTS
    k1 = k1
    k2 = k2
    k3 = k3
    c1 = c1
    c2 = c2
    c3 = c3
    None = None
    Keys <- TwoKeys
    Clients <- ThreeClients
    Ops <- OnlyPuts
    NumSlots = 2
    Large = {}
    Costs = {3}
    MinCost = 2
    BaseThreshold = 2
INVARIANT SlotOwnedOncePut
PROPERTY StaysTracked
SYMMETRY PutSymmetry
