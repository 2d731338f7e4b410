-------------------------------- MODULE CwSlru --------------------------------
(***************************************************************************)
(* The cost-weighted segmented LRU of eviction/cw_slru.cpp.                *)
(*                                                                         *)
(* Two lists, most recently used first, and for each a map from the keys   *)
(* in it to their places.  All operations hold mu_ from beginning to end,  *)
(* so each is one step.  A map is modelled by its set of keys: that its    *)
(* iterators lead to the right entries is the invariant MapsMatch.         *)
(***************************************************************************)
EXTENDS Integers, Sequences, FiniteSets

CONSTANTS
    Keys,
    Chunk,            \* chunk_index of a key
    Costs,            \* recompute costs that callers pass
    Threshold,        \* protection_threshold
    RatioNum,         \* protected_ratio = RatioNum / RatioDen
    RatioDen,
    MaxEntries,       \* max_entries; the engine leaves it 0
    ScanWindow,       \* kScanWindow
    None

ASSUME CwSlruAssumption ==
    /\ Chunk \in [Keys -> Nat]
    /\ Costs \subseteq Nat
    /\ Threshold \in Nat
    /\ RatioNum \in Nat /\ RatioDen \in Nat \ {0} /\ RatioNum <= RatioDen
    /\ MaxEntries \in Nat
    /\ ScanWindow \in Nat \ {0}
    /\ None \notin Keys

VARIABLES
    protected, protectedMap,
    probationary, probationaryMap,
    victim       \* what the last evict() returned

vars == <<protected, protectedMap, probationary, probationaryMap, victim>>

EvictionEntry == [key : Keys, cost : Nat]

KeysOf(l) == {l[i].key : i \in DOMAIN l}

TypeOK ==
    /\ protected \in Seq(EvictionEntry)
    /\ probationary \in Seq(EvictionEntry)
    /\ protectedMap \subseteq Keys
    /\ probationaryMap \subseteq Keys
    /\ victim \in Keys \cup {None}

-----------------------------------------------------------------------------
(* std::list, and the iterator a map holds for a key *)

Place(l, k) == CHOOSE i \in DOMAIN l : l[i].key = k

PushFront(l, e) == [j \in 1 .. Len(l) + 1 |-> IF j = 1 THEN e ELSE l[j - 1]]

EraseAt(l, i) == [j \in 1 .. Len(l) - 1 |-> IF j < i THEN l[j] ELSE l[j + 1]]

(* The entry's new cost, and splice() to the front *)
MoveToFront(l, k, cost) ==
    LET i == Place(l, k)
    IN  [j \in 1 .. Len(l) |-> IF j = 1 THEN [l[i] EXCEPT !.cost = cost]
                               ELSE IF j <= i THEN l[j - 1] ELSE l[j]]

-----------------------------------------------------------------------------
Init ==
    /\ protected = <<>> /\ protectedMap = {}
    /\ probationary = <<>> /\ probationaryMap = {}
    /\ victim = None

(* demote_protected_overflow(): the entries beyond the limit go from the     *)
(* back of one list to the front of the other, one by one, which keeps their *)
(* order.                                                                    *)
MaxProtected(total) ==
    ((IF MaxEntries > 0 THEN MaxEntries ELSE total) * RatioNum) \div RatioDen

NoDemotion(prot, protMap, prob, probMap) ==
    /\ protected' = prot
    /\ protectedMap' = protMap
    /\ probationary' = prob
    /\ probationaryMap' = probMap

DemoteKeepsMap(prot, protMap, prob, probMap) ==
    LET max == MaxProtected(Len(prot) + Len(prob))
        out == SubSeq(prot, max + 1, Len(prot))
    IN  /\ protected' = SubSeq(prot, 1, Len(prot) - Len(out))
        /\ protectedMap' = protMap
        /\ probationary' = out \o prob
        /\ probationaryMap' = probMap \cup KeysOf(out)

DemoteProtectedOverflow(prot, protMap, prob, probMap) ==
    LET max == MaxProtected(Len(prot) + Len(prob))
        out == SubSeq(prot, max + 1, Len(prot))
    IN  /\ protected' = SubSeq(prot, 1, Len(prot) - Len(out))
        /\ protectedMap' = protMap \ KeysOf(out)
        /\ probationary' = out \o prob
        /\ probationaryMap' = probMap \cup KeysOf(out)

TouchProtected(k, cost) ==
    /\ k \in protectedMap
    /\ protected' = MoveToFront(protected, k, cost)
    /\ UNCHANGED <<protectedMap, probationary, probationaryMap, victim>>

TouchProbationary(k, cost) ==
    /\ probationary' = MoveToFront(probationary, k, cost)
    /\ UNCHANGED <<protected, protectedMap, probationaryMap, victim>>

Promote(k, cost) ==
    LET i == Place(probationary, k)
    IN  /\ DemoteProtectedOverflow(
               PushFront(protected, [probationary[i] EXCEPT !.cost = cost]),
               protectedMap \cup {k},
               EraseAt(probationary, i),
               probationaryMap \ {k})
        /\ UNCHANGED victim

OnAccess(k, cost) ==
    \/ TouchProtected(k, cost)
    \/ /\ k \in probationaryMap \ protectedMap
       /\ IF cost >= Threshold THEN Promote(k, cost) ELSE TouchProbationary(k, cost)

(* A key that the policy tracks already, inserted like a new one *)
InsertTwice(k, cost) ==
    /\ k \notin protectedMap
    /\ probationary' = PushFront(probationary, [key |-> k, cost |-> cost])
    /\ probationaryMap' = probationaryMap \cup {k}
    /\ UNCHANGED <<protected, protectedMap, victim>>

InsertNew(k, cost) ==
    /\ k \notin protectedMap \cup probationaryMap
    /\ probationary' = PushFront(probationary, [key |-> k, cost |-> cost])
    /\ probationaryMap' = probationaryMap \cup {k}
    /\ UNCHANGED <<protected, protectedMap, victim>>

OnInsert(k, cost) ==
    \/ TouchProtected(k, cost)
    \/ k \in probationaryMap \ protectedMap /\ TouchProbationary(k, cost)
    \/ InsertNew(k, cost)

FromProtected(k) ==
    /\ protected' = EraseAt(protected, Place(protected, k))
    /\ protectedMap' = protectedMap \ {k}
    /\ UNCHANGED <<probationary, probationaryMap>>

FromProbationary(k) ==
    /\ probationary' = EraseAt(probationary, Place(probationary, k))
    /\ probationaryMap' = probationaryMap \ {k}
    /\ UNCHANGED <<protected, protectedMap>>

OnRemove(k) ==
    /\ \/ k \in protectedMap /\ FromProtected(k)
       \/ k \in probationaryMap \ protectedMap /\ FromProbationary(k)
    /\ UNCHANGED victim

-----------------------------------------------------------------------------
(* find_best_victim(): of the ScanWindow entries at the back, scanned from   *)
(* the back, the first with the highest chunk_index and then the lowest cost *)

Better(e, f) ==
    \/ Chunk[e.key] > Chunk[f.key]
    \/ Chunk[e.key] = Chunk[f.key] /\ e.cost < f.cost

Smaller(m, n) == IF m < n THEN m ELSE n

(* A plain LRU *)
FindOldest(l) == Len(l)

(* The best place after n + 1 entries have been looked at *)
FindBestVictim(l) ==
    LET best[n \in 0 .. Smaller(ScanWindow, Len(l)) - 1] ==
            IF n = 0 THEN Len(l)
            ELSE IF Better(l[Len(l) - n], l[best[n - 1]]) THEN Len(l) - n ELSE best[n - 1]
    IN  best[Smaller(ScanWindow, Len(l)) - 1]

EvictSome ==
    \/ /\ probationary # <<>>
       /\ victim' = probationary[FindBestVictim(probationary)].key
       /\ FromProbationary(victim')
    \/ /\ probationary = <<>>
       /\ protected # <<>>
       /\ victim' = protected[FindBestVictim(protected)].key
       /\ FromProtected(victim')

EvictNothing ==
    /\ probationary = <<>> /\ protected = <<>>
    /\ victim' = None
    /\ UNCHANGED <<protected, protectedMap, probationary, probationaryMap>>

Evict == EvictSome \/ EvictNothing

Next ==
    \/ \E k \in Keys, cost \in Costs : OnAccess(k, cost) \/ OnInsert(k, cost)
    \/ \E k \in Keys : OnRemove(k)
    \/ Evict

Spec == Init /\ [][Next]_vars

-----------------------------------------------------------------------------
(* Properties *)

Distinct(l) == \A i, j \in DOMAIN l : l[i].key = l[j].key => i = j

(* Through promotions, demotions, removals and evictions, the maps and the   *)
(* lists of on_access(), on_insert(), on_remove() and evict() agree: a map   *)
(* has exactly the keys of its list, and no key is tracked twice.            *)
MapsMatch ==
    /\ protectedMap = KeysOf(protected)
    /\ probationaryMap = KeysOf(probationary)
    /\ protectedMap \cap probationaryMap = {}
    /\ Distinct(protected)
    /\ Distinct(probationary)

Total == Len(protected) + Len(probationary)

(* on_access() lets the protected segment grow only within its share.  It    *)
(* may exceed the share all the same, when the entries that the share is     *)
(* counted from are removed or evicted.                                      *)
GrowsWithinShare ==
    [][Len(protected') > Len(protected) => Len(protected') <= MaxProtected(Total')]_vars

Oldest(l) == {l[i] : i \in (IF Len(l) > ScanWindow THEN Len(l) - ScanWindow + 1 ELSE 1) .. Len(l)}

VictimOf(l) == \E e \in Oldest(l) : e.key = victim' /\ \A f \in Oldest(l) : ~Better(f, e)

(* evict() leaves the protected segment alone as long as the other one has   *)
(* an entry, and takes one of the oldest entries, which is a suffix chunk if *)
(* there is one among them and costs least of those.                         *)
VictimIsBest ==
    [][EvictSome => IF probationary # <<>> THEN VictimOf(probationary) /\ UNCHANGED protected
                    ELSE VictimOf(protected)]_vars

(* The two segments together do what the engine expects of a policy: evict() *)
(* returns a key that was inserted and is not removed, once, and none only   *)
(* when no key is left.                                                      *)
Policy == INSTANCE EvictionSet WITH tracked <- protectedMap \cup probationaryMap

PolicySpec == Policy!Spec
=============================================================================
