-------------------------------- MODULE Engine --------------------------------
(***************************************************************************)
(* put(), get(), contains() and del() of engine.cpp, on the index, the     *)
(* DRAM slots, the eviction policies and the blob store together.          *)
(*                                                                         *)
(* Each part is taken by what its own module promises: the index is a      *)
(* function with atomic operations, the policies are the sets of           *)
(* EvictionSet, the DRAM tier is one size class of SlabAllocator, and a    *)
(* location in the blob store stands for the blob that was written there.  *)
(* The engine has no lock of its own, so every call on a part is a step.   *)
(*                                                                         *)
(* A blob never changes for its key, so the key stands for the blob.       *)
(***************************************************************************)
EXTENDS Integers, Sequences, FiniteSets

CONSTANTS
    Keys,
    Clients,
    Ops,             \* the calls that each client makes
    NumSlots,        \* of the DRAM tier
    Large,           \* the keys whose blobs are larger than any slot
    Costs,           \* recompute costs that callers pass
    MinCost,         \* admission.min_recompute_cost
    BaseThreshold,   \* admission.base_threshold
    None

ASSUME EngineAssumption ==
    /\ Ops \in [Clients -> SUBSET {"put", "get", "del"}]
    /\ NumSlots \in Nat \ {0}
    /\ Large \subseteq Keys
    /\ Costs \subseteq Nat
    /\ MinCost \in Nat
    /\ BaseThreshold \in Nat
    /\ None \notin Keys

VARIABLES
    index,
    freeList,     \* the free slots, a stack
    mem,          \* the blob that a slot's bytes are from
    t1, t2,       \* the keys that each policy tracks
    client,
    reput         \* history: a key was put that was there, or being put

vars == <<index, freeList, mem, t1, t2, client, reput>>

Slots == 1 .. NumSlots

InDram(slot, cost) == [tier |-> "t1", at |-> slot, cost |-> cost]
OnNvme(blob, cost) == [tier |-> "t2", at |-> blob, cost |-> cost]

Entry == [tier : {"t1"}, at : Slots, cost : Costs]
           \cup [tier : {"t2"}, at : Keys \cup {None}, cost : Costs]

ASSUME NoneAssumption == None \notin Entry

(* A client outside of any call *)
Idle == [pc |-> "idle", key |-> None, cost |-> 0, entry |-> None, data |-> None]

PCs == {"idle", "allocate", "copy", "write", "upsert",
        "check", "pick", "find", "demote", "update", "free",
        "load", "got", "release", "erase", "forget"}

ClientState ==
    [pc : PCs, key : Keys \cup {None}, cost : Costs \cup {0},
     entry : Entry \cup {None}, data : Keys \cup {None}]

TypeOK ==
    /\ index \in [Keys -> Entry \cup {None}]
    /\ freeList \in Seq(Slots)
    /\ mem \in [Slots -> Keys \cup {None}]
    /\ t1 \subseteq Keys /\ t2 \subseteq Keys
    /\ client \in [Clients -> ClientState]
    /\ reput \in BOOLEAN

Init ==
    /\ index = [k \in Keys |-> None]
    /\ freeList = [i \in Slots |-> i]
    /\ mem = [s \in Slots |-> None]
    /\ t1 = {} /\ t2 = {}
    /\ client = [c \in Clients |-> Idle]
    /\ reput = FALSE

At(c, pc) == client[c].pc = pc
Goto(c, pc) == client' = [client EXCEPT ![c].pc = pc]
Return(c) == client' = [client EXCEPT ![c] = Idle]

-----------------------------------------------------------------------------
(* Utilization and admission *)

(* size_t: more free slots than there are make a huge number of used ones.   *)
SizeMax == 2^16
UsedSlots == (NumSlots - Len(freeList)) % SizeMax

DynamicThreshold(used) ==
    IF used * 10 < 7 * NumSlots THEN 0
    ELSE IF used * 10 > 9 * NumSlots THEN 2 * BaseThreshold
    ELSE (BaseThreshold * (used * 10 - 7 * NumSlots)) \div (2 * NumSlots)

Admit(isSystemPrompt, cost, used) ==
    \/ isSystemPrompt
    \/ cost >= MinCost /\ cost >= DynamicThreshold(used)

NeedsEviction == UsedSlots * 100 > 95 * NumSlots

-----------------------------------------------------------------------------
(* put() *)

(* Calls that admission rejects return and change nothing. *)
PutCall(c, k, isSystemPrompt, cost) ==
    /\ At(c, "idle") /\ "put" \in Ops[c]
    /\ Admit(isSystemPrompt, cost, UsedSlots)
    /\ client' = [client EXCEPT ![c] = [Idle EXCEPT !.pc = "allocate", !.key = k, !.cost = cost]]
    /\ UNCHANGED <<index, freeList, mem, t1, t2, reput>>

(* The slot at the back of the free list used and left there *)
PutAllocateKept(c) ==
    /\ At(c, "allocate")
    /\ IF freeList = <<>> \/ client[c].key \in Large THEN Goto(c, "write")
       ELSE client' = [client EXCEPT ![c].pc = "copy",
                         ![c].entry = InDram(freeList[Len(freeList)], client[c].cost)]
    /\ UNCHANGED <<index, freeList, mem, t1, t2, reput>>

PutAllocate(c) ==
    /\ At(c, "allocate")
    /\ IF freeList = <<>> \/ client[c].key \in Large
       THEN Goto(c, "write") /\ UNCHANGED freeList
       ELSE /\ client' = [client EXCEPT ![c].pc = "copy",
                            ![c].entry = InDram(freeList[Len(freeList)], client[c].cost)]
            /\ freeList' = SubSeq(freeList, 1, Len(freeList) - 1)
    /\ UNCHANGED <<index, mem, t1, t2, reput>>

(* The key of a put() is in the index, or another put() is about to upsert it *)
PutsAgain(c) ==
    \/ index[client[c].key] # None
    \/ \E d \in Clients \ {c} : At(d, "upsert") /\ client[d].key = client[c].key

(* The bytes not copied *)
PutNoCopy(c) ==
    /\ At(c, "copy")
    /\ t1' = t1 \cup {client[c].key}
    /\ reput' = (reput \/ PutsAgain(c))
    /\ Goto(c, "upsert")
    /\ UNCHANGED <<index, freeList, mem, t2>>

PutCopy(c) ==
    /\ At(c, "copy")
    /\ mem' = [mem EXCEPT ![client[c].entry.at] = client[c].key]
    /\ t1' = t1 \cup {client[c].key}
    /\ reput' = (reput \/ PutsAgain(c))
    /\ Goto(c, "upsert")
    /\ UNCHANGED <<index, freeList, t2>>

(* The write to NVMe, if the DRAM tier has no slot; put() fails if it fails. *)
PutWrite(c) ==
    /\ At(c, "write")
    /\ \/ /\ client' = [client EXCEPT ![c].pc = "upsert",
                          ![c].entry = OnNvme(client[c].key, client[c].cost)]
          /\ t2' = t2 \cup {client[c].key}
       \/ Return(c) /\ UNCHANGED t2
    /\ UNCHANGED <<index, freeList, mem, t1, reput>>

PutUpsert(c) ==
    /\ At(c, "upsert")
    /\ index' = [index EXCEPT ![client[c].key] = client[c].entry]
    /\ reput' = (reput \/ PutsAgain(c))
    /\ client' = [client EXCEPT ![c] = [Idle EXCEPT !.pc = "check"]]
    /\ UNCHANGED <<freeList, mem, t1, t2>>

-----------------------------------------------------------------------------
(* evict_if_needed(), at the end of put() *)

EvictCheck(c) ==
    /\ At(c, "check")
    /\ IF NeedsEviction THEN Goto(c, "pick") ELSE Return(c)
    /\ UNCHANGED <<index, freeList, mem, t1, t2, reput>>

(* A policy that goes on tracking its victim *)
EvictPickAgain(c) ==
    /\ At(c, "pick")
    /\ \/ t1 = {} /\ Return(c)
       \/ \E k \in t1 : client' = [client EXCEPT ![c].pc = "find", ![c].key = k]
    /\ UNCHANGED <<index, freeList, mem, t1, t2, reput>>

EvictPick(c) ==
    /\ At(c, "pick")
    /\ \/ t1 = {} /\ Return(c) /\ UNCHANGED t1
       \/ \E k \in t1 :
            /\ t1' = t1 \ {k}
            /\ client' = [client EXCEPT ![c].pc = "find", ![c].key = k]
    /\ UNCHANGED <<index, freeList, mem, t2, reput>>

(* A victim that the index does not have, or has on NVMe, is passed over.    *)
EvictFind(c) ==
    LET e == index[client[c].key]
    IN  /\ At(c, "find")
        /\ IF e = None \/ e.tier # "t1"
           THEN client' = [client EXCEPT ![c] = [Idle EXCEPT !.pc = "check"]]
           ELSE client' = [client EXCEPT ![c].entry = e,
                             ![c].pc = IF e.cost >= MinCost THEN "demote" ELSE "update"]
        /\ UNCHANGED <<index, freeList, mem, t1, t2, reput>>

(* The blob store takes the bytes that are in the slot now, or fails.        *)
EvictDemote(c) ==
    /\ At(c, "demote")
    /\ \E data \in {mem[client[c].entry.at], None} :
          client' = [client EXCEPT ![c].pc = "update", ![c].data = data]
    /\ UNCHANGED <<index, freeList, mem, t1, t2, reput>>

(* The entry left in the index when the blob could not be demoted *)
EvictUpdateIfDemoted(c) ==
    LET me == client[c]
    IN  /\ At(c, "update")
        /\ index' = IF me.data = None THEN index
                    ELSE [index EXCEPT ![me.key] = OnNvme(me.data, me.entry.cost)]
        /\ Goto(c, "free")
        /\ UNCHANGED <<freeList, mem, t1, t2, reput>>

(* upsert() of the demoted entry, or erase() *)
EvictUpdate(c) ==
    LET me == client[c]
    IN  /\ At(c, "update")
        /\ index' = [index EXCEPT ![me.key] =
                        IF me.data = None THEN None ELSE OnNvme(me.data, me.entry.cost)]
        /\ Goto(c, "free")
        /\ UNCHANGED <<freeList, mem, t1, t2, reput>>

(* The slot kept when the blob could not be demoted *)
EvictFreeIfDemoted(c) ==
    LET me == client[c]
    IN  /\ At(c, "free")
        /\ t2' = IF me.data = None THEN t2 ELSE t2 \cup {me.key}
        /\ freeList' = IF me.data = None THEN freeList ELSE Append(freeList, me.entry.at)
        /\ client' = [client EXCEPT ![c] = [Idle EXCEPT !.pc = "check"]]
        /\ UNCHANGED <<index, mem, t1, reput>>

(* free_by_ptr() comes last, whatever became of the demotion. *)
EvictFree(c) ==
    LET me == client[c]
    IN  /\ At(c, "free")
        /\ t2' = IF me.data = None THEN t2 ELSE t2 \cup {me.key}
        /\ freeList' = Append(freeList, me.entry.at)
        /\ client' = [client EXCEPT ![c] = [Idle EXCEPT !.pc = "check"]]
        /\ UNCHANGED <<index, mem, t1, reput>>

-----------------------------------------------------------------------------
(* get() *)

(* A miss returns at once; it is also all that contains() does. *)
GetFind(c, k) ==
    /\ At(c, "idle") /\ "get" \in Ops[c]
    /\ index[k] # None
    /\ client' = [client EXCEPT ![c] = [Idle EXCEPT !.pc = "load", !.key = k, !.entry = index[k]]]
    /\ UNCHANGED <<index, freeList, mem, t1, t2, reput>>

(* The copy from the slot, or the read of the blob store, which may fail;    *)
(* neither is done when the buffer is too small.                             *)
(* on_access() and touch() change neither what is tracked nor where a blob is*)
GetLoad(c) ==
    LET e == client[c].entry
    IN  /\ At(c, "load")
        /\ \/ client' = [client EXCEPT ![c].pc = "got",
                            ![c].data = IF e.tier = "t1" THEN mem[e.at] ELSE e.at]
           \/ Return(c)
        /\ UNCHANGED <<index, freeList, mem, t1, t2, reput>>

GetReturn(c) ==
    /\ At(c, "got")
    /\ Return(c)
    /\ UNCHANGED <<index, freeList, mem, t1, t2, reput>>

-----------------------------------------------------------------------------
(* del() *)

DelFind(c, k) ==
    /\ At(c, "idle") /\ "del" \in Ops[c]
    /\ index[k] # None
    /\ client' = [client EXCEPT ![c] = [Idle EXCEPT !.pc = "release", !.key = k, !.entry = index[k]]]
    /\ UNCHANGED <<index, freeList, mem, t1, t2, reput>>

(* free_by_ptr(), or mark_dead() of a location, which only counts. *)
DelRelease(c) ==
    /\ At(c, "release")
    /\ freeList' = IF client[c].entry.tier = "t1" THEN Append(freeList, client[c].entry.at)
                   ELSE freeList
    /\ Goto(c, "erase")
    /\ UNCHANGED <<index, mem, t1, t2, reput>>

DelErase(c) ==
    /\ At(c, "erase")
    /\ index' = [index EXCEPT ![client[c].key] = None]
    /\ Goto(c, "forget")
    /\ UNCHANGED <<freeList, mem, t1, t2, reput>>

(* on_remove() of both policies *)
DelForget(c) ==
    /\ At(c, "forget")
    /\ t1' = t1 \ {client[c].key}
    /\ t2' = t2 \ {client[c].key}
    /\ Return(c)
    /\ UNCHANGED <<index, freeList, mem, reput>>

-----------------------------------------------------------------------------
Step(c) ==
    \/ PutAllocate(c) \/ PutCopy(c) \/ PutWrite(c) \/ PutUpsert(c)
    \/ EvictCheck(c) \/ EvictPick(c) \/ EvictFind(c) \/ EvictDemote(c) \/ EvictUpdate(c)
    \/ EvictFree(c)
    \/ GetLoad(c) \/ GetReturn(c)
    \/ DelRelease(c) \/ DelErase(c) \/ DelForget(c)

Next ==
    \E c \in Clients :
        \/ \E k \in Keys, isSystemPrompt \in BOOLEAN, cost \in Costs :
              PutCall(c, k, isSystemPrompt, cost)
        \/ \E k \in Keys : GetFind(c, k) \/ DelFind(c, k)
        \/ Step(c)

Spec == Init /\ [][Next]_vars

(* A call that has begun goes on. *)
FairSpec == Spec /\ \A c \in Clients : WF_vars(Step(c))

-----------------------------------------------------------------------------
(* Properties *)

(* get() delivers the blob of the key it was asked for, or a miss, though    *)
(* slots are freed and refilled by other calls.                              *)
GetCorrect == \A c \in Clients : At(c, "got") => client[c].data = client[c].key

InIndex(s) == {k \in Keys : index[k] # None /\ index[k].tier = "t1" /\ index[k].at = s}

(* The calls that have taken a slot and not yet put it into the index, or    *)
(* have taken it out of the index and not yet freed it.                      *)
InCall(s) ==
    {c \in Clients : client[c].pc \in {"copy", "upsert", "free"} /\ client[c].entry # None
                      /\ client[c].entry.tier = "t1" /\ client[c].entry.at = s}

IsFree(s) == {i \in DOMAIN freeList : freeList[i] = s}

(* No DRAM slot has two uses: it is free once, or of one key, or of one call *)
(* that will give it a key or free it.  del() frees the slot before it       *)
(* erases the entry, which is excepted.                                      *)
SlotOwned ==
    \A s \in Slots :
        Cardinality(IsFree(s)) + Cardinality(InCall(s))
          + Cardinality({k \in InIndex(s) : \A c \in Clients : ~(At(c, "erase") /\ client[c].key = k)})
            <= 1

(* Puts and gets alone give a slot two uses only after a key was put that    *)
(* the index had already, or that another put() was storing.                 *)
SlotOwnedOncePut == ~reput => SlotOwned

(* No DRAM slot is lost by put(), del() or eviction, unless a key was put    *)
(* that the index had: put() then drops the slot of the entry it replaces.   *)
SlotsAccounted ==
    ~reput => \A s \in Slots : IsFree(s) # {} \/ InCall(s) # {} \/ InIndex(s) # {}

(* What is in DRAM can be evicted: the policy tracks its key, or an eviction *)
(* of it is under way.                                                       *)
Evictable(k) ==
    index[k] # None /\ index[k].tier = "t1" =>
        \/ k \in t1
        \/ \E c \in Clients : client[c].key = k /\ client[c].pc \in {"find", "demote", "update"}

(* True of one client.  With more, it fails by the steps that StaysTracked   *)
(* names.                                                                    *)
DramTracked == \A k \in Keys : Evictable(k)

(* Once in DRAM, a blob stays within the reach of eviction, whatever becomes *)
(* of the evictions that pick it: passed over, demoted or failed.  A blob is *)
(* out of its reach only from the start, when another put()'s eviction took  *)
(* its key from the policy between on_insert() and upsert(); or when a del() *)
(* that began before it was put again makes the policy forget it.            *)
StaysTracked ==
    [][\A k \in Keys : Evictable(k) /\ ~Evictable(k)' =>
          \E c \in Clients : /\ client[c].key = k
                             /\ (At(c, "upsert") /\ k \notin t1) \/ At(c, "forget")]_vars

(* The call of the cache that a client is in: which one, its key and what    *)
(* it delivers, as far as the cache tells them apart                         *)
OpOf(pc) ==
    CASE pc = "idle" -> "none"
      [] pc \in {"allocate", "copy", "write", "upsert"} -> "put"
      [] pc = "load" -> "get"
      [] pc = "got" -> "got"
      [] pc \in {"release", "erase"} -> "del"
      [] pc = "forget" -> "removed"
      [] OTHER -> "evict"

CallOf(me) ==
    [op |-> OpOf(me.pc),
     key |-> IF OpOf(me.pc) \in {"put", "get", "got", "del"} THEN me.key ELSE None,
     data |-> IF me.pc = "got" THEN me.data ELSE None]

Cache == INSTANCE BlobCache WITH stored <- {k \in Keys : index[k] # None},
                                 call <- [c \in Clients |-> CallOf(client[c])]

(* The engine is a cache of blobs: a get() delivers the blob of the key it   *)
(* was asked for, though slots are freed and refilled; a key that del()      *)
(* removed stays away until it is put again; only the evictions of a put()   *)
(* take other keys away, and a put() that fails stores nothing.              *)
ImplementsCache == Cache!Spec

(* put(), get() and del() return: the loop of evict_if_needed() ends.        *)
CallsReturn == \A c \in Clients : client[c].pc # "idle" ~> At(c, "idle")
=============================================================================
