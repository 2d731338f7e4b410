SPECIFICATION FairSpec
CONSTANTS
    k1 = k1
    k2 = k2
    k3 = k3
    t1 = t1
    t2 = t2
    Keys = {k1, k2, k3}
    Threads = {t1, t2}
    Size <- SmallMediumLarge
    Batches <- PairsWithNull
    BufSizes = {1, 2}
    None = None
INVARIANTS OnlyPutsMeetClose RaisesOnlyFor BatchIsPrefix
PROPERTY PyCallsReturn
CHECK_DEADLOCK FALSE
