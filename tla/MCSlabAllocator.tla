--------------------------- MODULE MCSlabAllocator ---------------------------
(* Threads and size classes for checking SlabAllocator on small instances. *)
EXTENDS SlabAllocator, TLC

CONSTANTS t1, t2

TwoThreads == {t1, t2}

(* Out of order; the budget is too small for a slot of the largest class. *)
ThreeClasses == <<8, 2, 4>>

(* One region after the other, the largest class first *)
Bases == <<4104, 4108, 4096>>

ThreadSymmetry == Permutations(TwoThreads)
=============================================================================
