------------------------------ MODULE EvictionSet ------------------------------
(***************************************************************************)
(* What an eviction policy promises to the engine: it tracks a set of keys *)
(* and, asked for a victim, gives up one of them, or none if there is none.*)
(***************************************************************************)
CONSTANTS
    Keys,
    None      \* std::nullopt

VARIABLES
    tracked,
    victim    \* what the last evict() returned

vars == <<tracked, victim>>

Init ==
    /\ tracked = {}
    /\ victim = None

Insert(k) ==
    /\ tracked' = tracked \cup {k}
    /\ UNCHANGED victim

Remove(k) ==
    /\ tracked' = tracked \ {k}
    /\ UNCHANGED victim

Evict(k) ==
    /\ k \in tracked
    /\ tracked' = tracked \ {k}
    /\ victim' = k

EvictNothing ==
    /\ tracked = {}
    /\ victim' = None
    /\ UNCHANGED tracked

Next ==
    \/ \E k \in Keys : Insert(k) \/ Remove(k) \/ Evict(k)
    \/ EvictNothing

Spec == Init /\ [][Next]_vars
=============================================================================
