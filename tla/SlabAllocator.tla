----------------------------- MODULE SlabAllocator -----------------------------
(***************************************************************************)
(* The DRAM tier's slab allocator: memory/slab_allocator.cpp.              *)
(*                                                                         *)
(* Every size class has a region of memory cut into slots, a stack of free *)
(* slots and a mutex of its own.  allocate() and used_bytes() go from one  *)
(* class to the next and hold one mutex at a time, so calls of other       *)
(* threads fall in between.                                                *)
(***************************************************************************)
EXTENDS Integers, Sequences, FiniteSets, Functions

CONSTANTS
    Threads,
    SizeClasses,    \* config.size_classes, a sequence in any order
    SizeBytes,      \* config.size_bytes
    Base,           \* where alloc_backing() puts the region of each class
    Requests        \* sizes asked for

ASSUME SlabAssumption ==
    /\ SizeClasses \in Seq(Nat \ {0}) /\ SizeClasses # <<>>
    /\ SizeBytes \in Nat
    /\ Requests \subseteq Nat

VARIABLES
    freeList,    \* per class
    held,        \* what callers have been given and have not freed
    thread       \* where each thread is

vars == <<freeList, held, thread>>

-----------------------------------------------------------------------------
(* init_classes() *)

Classes == 1 .. Len(SizeClasses)

(* std::sort() of the size classes *)
Order ==
    CHOOSE p \in Bijection(Classes, Classes) :
        \A i, j \in Classes : i < j => SizeClasses[p[i]] <= SizeClasses[p[j]]

SlotSizes == [i \in Classes |-> SizeClasses[Order[i]]]

BytesPerClass == SizeBytes \div Len(SizeClasses)

NumSlots(i) ==
    LET n == BytesPerClass \div SlotSizes[i] IN IF n = 0 THEN 1 ELSE n

RegionSize(i) == SlotSizes[i] * NumSlots(i)

RegionEnd(i) == Base[i] + RegionSize(i)

(* Regions come in any order and may touch; that they do not overlap is what *)
(* malloc() and mmap() promise.                                              *)
RegionsApart ==
    /\ Base \in [Classes -> Nat]
    /\ \A i, j \in Classes : i # j => RegionEnd(i) <= Base[j] \/ RegionEnd(j) <= Base[i]

ASSUME RegionAssumption == RegionsApart

Slots(i) == 0 .. NumSlots(i) - 1

-----------------------------------------------------------------------------
Idle == [pc |-> "idle"]

TypeOK ==
    /\ \A i \in Classes : \A j \in DOMAIN freeList[i] : freeList[i][j] \in Slots(i)
    /\ \A a \in held : a.class \in Classes /\ a.slot \in Slots(a.class) /\ a.size \in Requests
    /\ \A t \in Threads : thread[t].pc \in {"idle", "allocate", "failed", "used_bytes", "counted"}

Init ==
    /\ freeList = [i \in Classes |-> [j \in 1 .. NumSlots(i) |-> j - 1]]
    /\ held = {}
    /\ thread = [t \in Threads |-> Idle]

(* What the others see and do while a thread is inside allocate() or         *)
(* used_bytes(): the classes that were full at some time, and the            *)
(* allocations that were there all the time and at any time.                 *)
Observe(st) ==
    CASE st.pc = "allocate" ->
            [st EXCEPT !.full = @ \cup {i \in Classes : freeList'[i] = <<>>}]
      [] st.pc = "used_bytes" ->
            [st EXCEPT !.sure = @ \cap held', !.maybe = @ \cup held']
      [] OTHER -> st

StepOf(t, st) == thread' = [u \in Threads |-> IF u = t THEN st ELSE Observe(thread[u])]

-----------------------------------------------------------------------------
(* allocate() *)

(* A slot taken to hold one byte more *)
FitsAlmost(i, size) == SlotSizes[i] + 1 >= size

Fits(i, size) == SlotSizes[i] >= size

(* The next class, from i on, whose slots are large enough *)
NextFit(i, size) ==
    CHOOSE j \in i .. Len(SizeClasses) + 1 :
        /\ j \in Classes => Fits(j, size)
        /\ \A h \in i .. j - 1 : ~Fits(h, size)

AllocateCall(t, size) ==
    /\ thread[t] = Idle
    /\ UNCHANGED <<freeList, held>>
    /\ StepOf(t, [pc |-> "allocate", size |-> size, class |-> NextFit(1, size),
                  full |-> {i \in Classes : freeList[i] = <<>>}])

Pointer(i, slot) == Base[i] + slot * SlotSizes[i]

(* The slot at the back of the free list *)
Pop(t, i) ==
    LET slot == freeList[i][Len(freeList[i])]
    IN  /\ freeList[i] # <<>>
        /\ freeList' = [freeList EXCEPT ![i] = SubSeq(@, 1, Len(@) - 1)]
        /\ held' = held \cup {[class |-> i, slot |-> slot, ptr |-> Pointer(i, slot),
                               size |-> thread[t].size]}
        /\ StepOf(t, Idle)

(* Giving up when the first class that fits is full *)
GiveUp(t, i) ==
    /\ freeList[i] = <<>>
    /\ UNCHANGED <<freeList, held>>
    /\ StepOf(t, [thread[t] EXCEPT !.class = Len(SizeClasses) + 1])

Continue(t, i) ==
    /\ freeList[i] = <<>>
    /\ UNCHANGED <<freeList, held>>
    /\ StepOf(t, [thread[t] EXCEPT !.class = NextFit(i + 1, thread[t].size)])

(* One turn of the loop, under the mutex of its class *)
AllocateStep(t) ==
    /\ thread[t].pc = "allocate"
    /\ thread[t].class \in Classes
    /\ Pop(t, thread[t].class) \/ Continue(t, thread[t].class)

(* SlabHandle::Invalid() *)
AllocateFails(t) ==
    /\ thread[t].pc = "allocate"
    /\ thread[t].class \notin Classes
    /\ UNCHANGED <<freeList, held>>
    /\ StepOf(t, [thread[t] EXCEPT !.pc = "failed"])

-----------------------------------------------------------------------------
(* free() and free_by_ptr(), called once by whoever holds the slot *)

PushBack(t, a, i, slot) ==
    /\ freeList' = [freeList EXCEPT ![i] = Append(@, slot)]
    /\ held' = held \ {a}
    /\ StepOf(t, Idle)

Free(t, a) ==
    /\ thread[t] = Idle
    /\ PushBack(t, a, a.class, a.slot)

(* A region taken to reach one byte further *)
InRegionOrEnd(p, i) == p >= Base[i] /\ p <= RegionEnd(i)

InRegion(p, i) == p >= Base[i] /\ p < RegionEnd(i)

FreeByPtr(t, a) ==
    LET i == CHOOSE j \in Classes : InRegion(a.ptr, j) /\ \A h \in 1 .. j - 1 : ~InRegion(a.ptr, h)
    IN  /\ thread[t] = Idle
        /\ PushBack(t, a, i, (a.ptr - Base[i]) \div SlotSizes[i])

-----------------------------------------------------------------------------
(* used_bytes(), and stats(), which adds up the same numbers *)

(* The slots of all classes counted at the size of the first *)
UsedBytesFlat(i) == (NumSlots(i) - Len(freeList[i])) * SlotSizes[1]

UsedBytes(i) == (NumSlots(i) - Len(freeList[i])) * SlotSizes[i]

UsedBytesCall(t) ==
    /\ thread[t] = Idle
    /\ UNCHANGED <<freeList, held>>
    /\ StepOf(t, [pc |-> "used_bytes", class |-> 1, total |-> 0, sure |-> held, maybe |-> held])

UsedBytesStep(t) ==
    /\ thread[t].pc = "used_bytes"
    /\ UNCHANGED <<freeList, held>>
    /\ StepOf(t, [thread[t] EXCEPT !.total = @ + UsedBytes(thread[t].class),
                                   !.pc = IF thread[t].class = Len(SizeClasses) THEN "counted" ELSE @,
                                   !.class = @ + 1])

Return(t) ==
    /\ thread[t].pc \in {"failed", "counted"}
    /\ UNCHANGED <<freeList, held>>
    /\ StepOf(t, Idle)

-----------------------------------------------------------------------------
Step(t) ==
    \/ \E size \in Requests : AllocateCall(t, size)
    \/ AllocateStep(t)
    \/ AllocateFails(t)
    \/ \E a \in held : Free(t, a) \/ FreeByPtr(t, a)
    \/ UsedBytesCall(t)
    \/ UsedBytesStep(t)
    \/ Return(t)

Next == \E t \in Threads : Step(t)

Spec == Init /\ [][Next]_vars

-----------------------------------------------------------------------------
(* Properties *)

FreeSlots(i) == {freeList[i][j] : j \in DOMAIN freeList[i]}
HeldSlots(i) == {a.slot : a \in {b \in held : b.class = i}}

(* allocate(), free() and free_by_ptr() neither lose a slot nor hand one out *)
(* twice: each is on the free list of its class, once, or held by one caller.*)
SlotsPartitioned ==
    \A i \in Classes :
        /\ FreeSlots(i) \cup HeldSlots(i) = Slots(i)
        /\ Len(freeList[i]) + Cardinality({a \in held : a.class = i}) = NumSlots(i)

(* The bytes that allocate() gives two callers never overlap, and stay       *)
(* inside the region of their class.                                         *)
BytesDisjoint ==
    /\ \A a \in held : Base[a.class] <= a.ptr /\ a.ptr + a.size <= RegionEnd(a.class)
    /\ \A a, b \in held : a # b => a.ptr + a.size <= b.ptr \/ b.ptr + b.size <= a.ptr

(* allocate() fails only if every class with slots large enough was full at  *)
(* some time during the call.                                                *)
FailsOnlyWhenFull ==
    \A t \in Threads : thread[t].pc = "failed" =>
        \A i \in Classes : Fits(i, thread[t].size) => i \in thread[t].full

(* The size of the slots of some allocations, added up class by class *)
ClassBytes(as, i) == SlotSizes[i] * Cardinality({a \in as : a.class = i})

BytesUpTo(as) ==
    LET sum[i \in 0 .. Len(SizeClasses)] ==
            IF i = 0 THEN 0 ELSE sum[i - 1] + ClassBytes(as, i)
    IN  sum

Bytes(as) == BytesUpTo(as)[Len(SizeClasses)]

(* used_bytes(), which decides whether the engine evicts, counts all that    *)
(* was allocated during the whole call and nothing that was not allocated at *)
(* any time in it, though it locks one class after the other.                *)
UsedBytesBracketed ==
    \A t \in Threads : thread[t].pc = "counted" =>
        Bytes(thread[t].sure) <= thread[t].total /\ thread[t].total <= Bytes(thread[t].maybe)
=============================================================================
