SPECIFICATION Spec
CONSTANTS
    t1 = t1
    t2 = t2
    Threads <- TwoThreads
    SizeClasses <- ThreeClasses
    SizeBytes = 12
    Base <- Bases
    Requests = {2, 3, 9}
SYMMETRY ThreadSymmetry
INVARIANTS SlotsPartitioned BytesDisjoint FailsOnlyWhenFull UsedBytesBracketed
