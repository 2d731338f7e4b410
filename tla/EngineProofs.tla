---------------------------- MODULE EngineProofs ----------------------------
(***************************************************************************)
(* Theorems about Engine, for every set of keys and clients and any number *)
(* of DRAM slots.                                                          *)
(*                                                                         *)
(* Two cases are proved, as far as they are the same together: clients     *)
(* that only put and get, as long as no key is put twice; and one client   *)
(* that makes all calls.                                                   *)
(***************************************************************************)
EXTENDS Engine, FiniteSetTheorems, SequenceTheorems, TLAPS

OneClient == \A c, d \in Clients : c = d
NoDels == \A c \in Clients : "del" \notin Ops[c]

-----------------------------------------------------------------------------
(* Entries, and what a client has at hand in each part of a call *)

LEMMA EntryFacts ==
    ASSUME NEW e \in Entry
    PROVE  /\ e.tier = "t1" \/ e.tier = "t2"
           /\ e.cost \in Costs
           /\ e.tier = "t1" => e.at \in Slots
           /\ e.tier = "t2" => e.at \in Keys \cup {None}
           /\ e # None
  BY NoneAssumption DEF Entry

LEMMA MadeEntries ==
    /\ \A s \in Slots, cost \in Costs :
          /\ InDram(s, cost) \in Entry
          /\ InDram(s, cost).tier = "t1" /\ InDram(s, cost).at = s
    /\ \A b \in Keys \cup {None}, cost \in Costs :
          /\ OnNvme(b, cost) \in Entry
          /\ OnNvme(b, cost).tier = "t2" /\ OnNvme(b, cost).at = b
  BY DEF InDram, OnNvme, Entry

WithKey == PCs \ {"idle", "check", "pick"}

PcOK(me) ==
    /\ me.pc \in WithKey => me.key \in Keys
    /\ me.pc \in {"allocate", "write"} => me.cost \in Costs
    /\ me.pc \in {"copy", "demote", "update", "free"} => me.entry \in Entry /\ me.entry.tier = "t1"
    /\ me.pc \in {"upsert", "load", "release", "erase"} => me.entry \in Entry
    /\ me.pc \in {"check", "pick", "find", "demote"} => me.data = None

TypeInv ==
    /\ index \in [Keys -> Entry \cup {None}]
    /\ freeList \in Seq(Slots)
    /\ mem \in [Slots -> Keys \cup {None}]
    /\ t1 \subseteq Keys /\ t2 \subseteq Keys
    /\ client \in [Clients -> ClientState]
    /\ reput \in BOOLEAN
    /\ \A c \in Clients : PcOK(client[c])

(* A step changes the state of its client alone.                             *)
Becomes(c, pc, key, cost, entry, data) ==
    /\ client' \in [Clients -> ClientState]
    /\ \A d \in Clients \ {c} : client'[d] = client[d]
    /\ client'[c].pc = pc /\ client'[c].key = key /\ client'[c].cost = cost
    /\ client'[c].entry = entry /\ client'[c].data = data

LEMMA ClientFields ==
    ASSUME TypeInv, NEW c \in Clients
    PROVE  /\ client[c] \in ClientState
           /\ client[c].pc \in PCs /\ client[c].key \in Keys \cup {None}
           /\ client[c].cost \in Costs \cup {0} /\ client[c].entry \in Entry \cup {None}
           /\ client[c].data \in Keys \cup {None}
  BY DEF TypeInv, ClientState

LEMMA SetBecomes ==
    ASSUME TypeInv, NEW c \in Clients, NEW r \in ClientState, client' = [client EXCEPT ![c] = r]
    PROVE  Becomes(c, r.pc, r.key, r.cost, r.entry, r.data)
  BY DEF TypeInv, Becomes

LEMMA GotoBecomes ==
    ASSUME TypeInv, NEW c \in Clients, NEW pc \in PCs, Goto(c, pc)
    PROVE  Becomes(c, pc, client[c].key, client[c].cost, client[c].entry, client[c].data)
  <1> DEFINE r == [client[c] EXCEPT !.pc = pc]
  <1>1. r \in ClientState /\ r.pc = pc /\ r.key = client[c].key /\ r.cost = client[c].cost
        /\ r.entry = client[c].entry /\ r.data = client[c].data
    BY ClientFields DEF ClientState
  <1>2. client' = [client EXCEPT ![c] = r]
    BY DEF Goto
  <1> HIDE DEF r
  <1> QED
    BY <1>1, <1>2, SetBecomes

LEMMA EntryBecomes ==
    ASSUME TypeInv, NEW c \in Clients, NEW pc \in PCs, NEW e \in Entry,
           client' = [client EXCEPT ![c].pc = pc, ![c].entry = e]
    PROVE  Becomes(c, pc, client[c].key, client[c].cost, e, client[c].data)
  <1> DEFINE r == [client[c] EXCEPT !.pc = pc, !.entry = e]
  <1>1. r \in ClientState /\ r.pc = pc /\ r.key = client[c].key /\ r.cost = client[c].cost
        /\ r.entry = e /\ r.data = client[c].data
    BY ClientFields DEF ClientState
  <1>2. client' = [client EXCEPT ![c] = r]
    BY DEF TypeInv
  <1> HIDE DEF r
  <1> QED
    BY <1>1, <1>2, SetBecomes

LEMMA KeyBecomes ==
    ASSUME TypeInv, NEW c \in Clients, NEW pc \in PCs, NEW k \in Keys,
           client' = [client EXCEPT ![c].pc = pc, ![c].key = k]
    PROVE  Becomes(c, pc, k, client[c].cost, client[c].entry, client[c].data)
  <1> DEFINE r == [client[c] EXCEPT !.pc = pc, !.key = k]
  <1>1. r \in ClientState /\ r.pc = pc /\ r.key = k /\ r.cost = client[c].cost
        /\ r.entry = client[c].entry /\ r.data = client[c].data
    BY ClientFields DEF ClientState
  <1>2. client' = [client EXCEPT ![c] = r]
    BY DEF TypeInv
  <1> HIDE DEF r
  <1> QED
    BY <1>1, <1>2, SetBecomes

LEMMA DataBecomes ==
    ASSUME TypeInv, NEW c \in Clients, NEW pc \in PCs, NEW b \in Keys \cup {None},
           client' = [client EXCEPT ![c].pc = pc, ![c].data = b]
    PROVE  Becomes(c, pc, client[c].key, client[c].cost, client[c].entry, b)
  <1> DEFINE r == [client[c] EXCEPT !.pc = pc, !.data = b]
  <1>1. r \in ClientState /\ r.pc = pc /\ r.key = client[c].key /\ r.cost = client[c].cost
        /\ r.entry = client[c].entry /\ r.data = b
    BY ClientFields DEF ClientState
  <1>2. client' = [client EXCEPT ![c] = r]
    BY DEF TypeInv
  <1> HIDE DEF r
  <1> QED
    BY <1>1, <1>2, SetBecomes

(* A client that begins a call, or goes on with an evictions' loop           *)
LEMMA FreshBecomes ==
    ASSUME TypeInv, NEW c \in Clients, NEW pc \in PCs, NEW k \in Keys \cup {None},
           NEW cost \in Costs \cup {0}, NEW e \in Entry \cup {None},
           client' = [client EXCEPT ![c] = [pc |-> pc, key |-> k, cost |-> cost, entry |-> e, data |-> None]]
    PROVE  Becomes(c, pc, k, cost, e, None)
  <1> DEFINE r == [pc |-> pc, key |-> k, cost |-> cost, entry |-> e, data |-> None]
  <1>1. r \in ClientState /\ r.pc = pc /\ r.key = k /\ r.cost = cost /\ r.entry = e /\ r.data = None
    BY DEF ClientState
  <1>2. client' = [client EXCEPT ![c] = r]
    OBVIOUS
  <1> HIDE DEF r
  <1> QED
    BY <1>1, <1>2, SetBecomes

LEMMA ReturnBecomes ==
    ASSUME TypeInv, NEW c \in Clients, Return(c)
    PROVE  Becomes(c, "idle", None, 0, None, None)
  BY FreshBecomes DEF Return, Idle, PCs

LEMMA LoopBecomes ==
    ASSUME TypeInv, NEW c \in Clients,
           client' = [client EXCEPT ![c] = [Idle EXCEPT !.pc = "check"]]
    PROVE  Becomes(c, "check", None, 0, None, None)
  <1>1. [Idle EXCEPT !.pc = "check"] = [pc |-> "check", key |-> None, cost |-> 0, entry |-> None, data |-> None]
    BY DEF Idle
  <1> QED
    BY <1>1, FreshBecomes DEF PCs

(* TypeInv follows from what the acting client becomes.                      *)
LEMMA TypeStep ==
    ASSUME TypeInv, NEW c \in Clients, NEW pc, NEW key, NEW cost, NEW entry, NEW data,
           Becomes(c, pc, key, cost, entry, data),
           PcOK(client'[c]),
           index' \in [Keys -> Entry \cup {None}],
           freeList' \in Seq(Slots),
           mem' \in [Slots -> Keys \cup {None}],
           t1' \subseteq Keys, t2' \subseteq Keys,
           reput' \in BOOLEAN
    PROVE  TypeInv'
  <1>1. client' \in [Clients -> ClientState]
    BY DEF Becomes
  <1>2. ASSUME NEW d \in Clients PROVE PcOK(client'[d])
    <2>1. CASE d = c
      BY <2>1
    <2>2. CASE d # c
      <3>1. client'[d] = client[d]
        BY <2>2 DEF Becomes
      <3>2. PcOK(client[d])
        BY DEF TypeInv
      <3> QED
        BY <3>1, <3>2
    <2> QED
      BY <2>1, <2>2
  <1> QED
    BY <1>1, <1>2 DEF TypeInv

IndexSame == index' = index
ListSame == freeList' = freeList
TiersSame == t1' = t1 /\ t2' = t2
RestSame == mem' = mem /\ reput' = reput
AllSame == IndexSame /\ ListSame /\ TiersSame /\ RestSame

LEMMA TypeStepSame ==
    ASSUME TypeInv, NEW c \in Clients, NEW pc, NEW key, NEW cost, NEW entry, NEW data,
           Becomes(c, pc, key, cost, entry, data), PcOK(client'[c]), AllSame
    PROVE  TypeInv'
  <1>1. /\ index' \in [Keys -> Entry \cup {None}] /\ freeList' \in Seq(Slots)
        /\ mem' \in [Slots -> Keys \cup {None}] /\ t1' \subseteq Keys /\ t2' \subseteq Keys
        /\ reput' \in BOOLEAN
    BY DEF TypeInv, AllSame, IndexSame, ListSame, TiersSame, RestSame
  <1> QED
    BY <1>1, TypeStep

-----------------------------------------------------------------------------
(* What each action does *)

LEMMA PutCallDoes ==
    ASSUME TypeInv, NEW c \in Clients, NEW k \in Keys, NEW isSystemPrompt, NEW cost \in Costs,
           PutCall(c, k, isSystemPrompt, cost)
    PROVE  TypeInv' /\ At(c, "idle") /\ Becomes(c, "allocate", k, cost, None, None) /\ AllSame
  <1>1. AllSame
    BY DEF PutCall, AllSame, IndexSame, ListSame, TiersSame, RestSame
  <1>2. Becomes(c, "allocate", k, cost, None, None)
    <2> DEFINE r == [Idle EXCEPT !.pc = "allocate", !.key = k, !.cost = cost]
    <2>1. /\ r \in ClientState /\ r.pc = "allocate" /\ r.key = k /\ r.cost = cost
          /\ r.entry = None /\ r.data = None
      BY DEF Idle, ClientState, PCs
    <2>2. client' = [client EXCEPT ![c] = r]
      BY DEF PutCall
    <2> HIDE DEF r
    <2> QED
      BY <2>1, <2>2, SetBecomes
  <1>3. PcOK(client'[c])
    BY <1>2 DEF Becomes, PcOK
  <1> QED
    BY <1>1, <1>2, <1>3, TypeStepSame DEF PutCall

(* The slot at the back of a list                                            *)
LEMMA LastSlot ==
    ASSUME TypeInv, freeList # <<>>
    PROVE  /\ Len(freeList) \in Nat /\ Len(freeList) >= 1
           /\ freeList[Len(freeList)] \in Slots
           /\ SubSeq(freeList, 1, Len(freeList) - 1) \in Seq(Slots)
           /\ Len(SubSeq(freeList, 1, Len(freeList) - 1)) = Len(freeList) - 1
           /\ \A i \in 1 .. Len(freeList) - 1 : SubSeq(freeList, 1, Len(freeList) - 1)[i] = freeList[i]
  <1>1. freeList \in Seq(Slots)
    BY DEF TypeInv
  <1> DEFINE n == Len(freeList)
  <1>2. n \in Nat /\ n >= 1
    BY <1>1, EmptySeq
  <1>3. \A i \in 1 .. n - 1 : freeList[i] \in Slots
    BY <1>1, <1>2
  <1>4. freeList[n] \in Slots
    BY <1>1, <1>2
  <1>5. /\ SubSeq(freeList, 1, n - 1) \in Seq(Slots)
        /\ Len(SubSeq(freeList, 1, n - 1)) = IF 1 <= n - 1 THEN n - 1 - 1 + 1 ELSE 0
        /\ \A i \in 1 .. n - 1 - 1 + 1 : SubSeq(freeList, 1, n - 1)[i] = freeList[1 + i - 1]
    <2>1. 1 \in Int /\ n - 1 \in Int
      BY <1>2
    <2> QED
      BY <1>3, <2>1, SubSeqProperties
  <1>6. (IF 1 <= n - 1 THEN n - 1 - 1 + 1 ELSE 0) = n - 1 /\ n - 1 - 1 + 1 = n - 1
    BY <1>2
  <1>7. \A i \in 1 .. n - 1 : 1 + i - 1 = i
    BY <1>2
  <1> HIDE DEF n
  <1>8. Len(SubSeq(freeList, 1, n - 1)) = n - 1
    BY <1>5, <1>6
  <1>9. \A i \in 1 .. n - 1 : SubSeq(freeList, 1, n - 1)[i] = freeList[i]
    BY <1>5, <1>6, <1>7
  <1> QED
    BY <1>2, <1>4, <1>5, <1>8, <1>9 DEF n

PutAllocates(c) ==
    /\ freeList # <<>>
    /\ Becomes(c, "copy", client[c].key, client[c].cost,
               InDram(freeList[Len(freeList)], client[c].cost), client[c].data)
    /\ freeList' = SubSeq(freeList, 1, Len(freeList) - 1)

LEMMA PutAllocateDoes ==
    ASSUME TypeInv, NEW c \in Clients, PutAllocate(c)
    PROVE  /\ TypeInv' /\ At(c, "allocate") /\ IndexSame /\ TiersSame /\ RestSame
           /\ client'[c].key = client[c].key
           /\ \/ Becomes(c, "write", client[c].key, client[c].cost, client[c].entry, client[c].data)
                 /\ ListSame
              \/ PutAllocates(c)
  <1>1. At(c, "allocate") /\ IndexSame /\ TiersSame /\ RestSame
    BY DEF PutAllocate, IndexSame, TiersSame, RestSame
  <1>2. client[c].cost \in Costs /\ client[c].key \in Keys
    BY <1>1 DEF TypeInv, PcOK, At, WithKey, PCs
  <1>3. CASE freeList = <<>> \/ client[c].key \in Large
    <2>1. ListSame /\ Goto(c, "write")
      BY <1>3 DEF PutAllocate, ListSame
    <2>2. Becomes(c, "write", client[c].key, client[c].cost, client[c].entry, client[c].data)
      BY <2>1, GotoBecomes DEF PCs
    <2>3. PcOK(client'[c])
      BY <1>2, <2>2 DEF Becomes, PcOK
    <2>4. TypeInv'
      BY <1>1, <2>1, <2>2, <2>3, TypeStepSame DEF AllSame
    <2> QED
      BY <1>1, <2>1, <2>2, <2>4 DEF Becomes
  <1>4. CASE ~(freeList = <<>> \/ client[c].key \in Large)
    <2> DEFINE e == InDram(freeList[Len(freeList)], client[c].cost)
    <2>1. /\ client' = [client EXCEPT ![c].pc = "copy", ![c].entry = e]
          /\ freeList' = SubSeq(freeList, 1, Len(freeList) - 1)
      BY <1>4 DEF PutAllocate
    <2>2. e \in Entry /\ e.tier = "t1"
      BY <1>2, <1>4, LastSlot, MadeEntries
    <2>3. freeList' \in Seq(Slots)
      BY <1>4, <2>1, LastSlot
    <2> HIDE DEF e
    <2>4. Becomes(c, "copy", client[c].key, client[c].cost, e, client[c].data)
      BY <2>1, <2>2, EntryBecomes DEF PCs
    <2>5. PcOK(client'[c])
      BY <1>2, <2>2, <2>4 DEF Becomes, PcOK
    <2>6. /\ index' \in [Keys -> Entry \cup {None}] /\ mem' \in [Slots -> Keys \cup {None}]
          /\ t1' \subseteq Keys /\ t2' \subseteq Keys /\ reput' \in BOOLEAN
      BY <1>1 DEF TypeInv, IndexSame, TiersSame, RestSame
    <2>7. TypeInv'
      BY <2>3, <2>4, <2>5, <2>6, TypeStep
    <2>8. client'[c].key = client[c].key
      BY <2>4 DEF Becomes
    <2>9. PutAllocates(c)
      BY <1>4, <2>1, <2>4 DEF PutAllocates, e
    <2> QED
      BY <1>1, <2>7, <2>8, <2>9
  <1> QED
    BY <1>3, <1>4

LEMMA PutCopyDoes ==
    ASSUME TypeInv, NEW c \in Clients, PutCopy(c)
    PROVE  /\ TypeInv' /\ At(c, "copy") /\ IndexSame /\ ListSame
           /\ Becomes(c, "upsert", client[c].key, client[c].cost, client[c].entry, client[c].data)
           /\ mem' = [mem EXCEPT ![client[c].entry.at] = client[c].key]
           /\ t1' = t1 \cup {client[c].key} /\ t2' = t2
           /\ reput' = (reput \/ PutsAgain(c))
  <1>1. /\ At(c, "copy") /\ IndexSame /\ ListSame
        /\ mem' = [mem EXCEPT ![client[c].entry.at] = client[c].key]
        /\ t1' = t1 \cup {client[c].key} /\ t2' = t2
    BY DEF PutCopy, IndexSame, ListSame
  <1>2. reput' = (reput \/ PutsAgain(c)) /\ Goto(c, "upsert")
    BY DEF PutCopy
  <1>3. reput' \in BOOLEAN
    BY <1>2
  <1>4. client[c].key \in Keys /\ client[c].entry \in Entry /\ client[c].entry.tier = "t1"
    BY <1>1 DEF TypeInv, PcOK, At, WithKey, PCs
  <1>5. Becomes(c, "upsert", client[c].key, client[c].cost, client[c].entry, client[c].data)
    BY <1>2, GotoBecomes DEF PCs
  <1>6. PcOK(client'[c])
    BY <1>4, <1>5 DEF Becomes, PcOK
  <1>7. /\ index' \in [Keys -> Entry \cup {None}] /\ freeList' \in Seq(Slots)
        /\ t1' \subseteq Keys /\ t2' \subseteq Keys
    BY <1>1, <1>4 DEF TypeInv, IndexSame, ListSame
  <1>8. mem' \in [Slots -> Keys \cup {None}]
    BY <1>1, <1>4 DEF TypeInv
  <1>9. TypeInv'
    BY <1>3, <1>5, <1>6, <1>7, <1>8, TypeStep
  <1> QED
    BY <1>1, <1>2, <1>5, <1>9

LEMMA PutWriteDoes ==
    ASSUME TypeInv, NEW c \in Clients, PutWrite(c)
    PROVE  /\ TypeInv' /\ At(c, "write") /\ IndexSame /\ ListSame /\ RestSame /\ t1' = t1
           /\ \/ Becomes(c, "upsert", client[c].key, client[c].cost,
                         OnNvme(client[c].key, client[c].cost), client[c].data)
              \/ Becomes(c, "idle", None, 0, None, None)
  <1>1. At(c, "write") /\ IndexSame /\ ListSame /\ RestSame /\ t1' = t1
    BY DEF PutWrite, IndexSame, ListSame, RestSame
  <1>2. client[c].key \in Keys /\ client[c].cost \in Costs
    BY <1>1 DEF TypeInv, PcOK, At, WithKey, PCs
  <1>3. t2' \subseteq Keys
    BY <1>2 DEF PutWrite, TypeInv
  <1>4. /\ index' \in [Keys -> Entry \cup {None}] /\ freeList' \in Seq(Slots)
        /\ t1' \subseteq Keys /\ mem' \in [Slots -> Keys \cup {None}] /\ reput' \in BOOLEAN
    BY <1>1 DEF TypeInv, IndexSame, ListSame, RestSame
  <1> DEFINE e == OnNvme(client[c].key, client[c].cost)
  <1>5. e \in Entry
    BY <1>2, MadeEntries
  <1>6. \/ client' = [client EXCEPT ![c].pc = "upsert", ![c].entry = e]
        \/ Return(c)
    BY DEF PutWrite
  <1> HIDE DEF e
  <1>7. CASE client' = [client EXCEPT ![c].pc = "upsert", ![c].entry = e]
    <2>1. Becomes(c, "upsert", client[c].key, client[c].cost, e, client[c].data)
      BY <1>5, <1>7, EntryBecomes DEF PCs
    <2>2. PcOK(client'[c])
      BY <1>2, <1>5, <2>1 DEF Becomes, PcOK
    <2>3. TypeInv'
      BY <1>3, <1>4, <2>1, <2>2, TypeStep
    <2> QED
      BY <1>1, <2>1, <2>3 DEF e
  <1>8. CASE Return(c)
    <2>1. Becomes(c, "idle", None, 0, None, None)
      BY <1>8, ReturnBecomes
    <2>2. PcOK(client'[c])
      BY <2>1 DEF Becomes, PcOK, WithKey
    <2>3. TypeInv'
      BY <1>3, <1>4, <2>1, <2>2, TypeStep
    <2> QED
      BY <1>1, <2>1, <2>3
  <1> QED
    BY <1>6, <1>7, <1>8

LEMMA PutUpsertDoes ==
    ASSUME TypeInv, NEW c \in Clients, PutUpsert(c)
    PROVE  /\ TypeInv' /\ At(c, "upsert") /\ ListSame /\ TiersSame /\ mem' = mem
           /\ client[c].key \in Keys /\ client[c].entry \in Entry
           /\ index' = [index EXCEPT ![client[c].key] = client[c].entry]
           /\ reput' = (reput \/ PutsAgain(c))
           /\ Becomes(c, "check", None, 0, None, None)
  <1>1. /\ At(c, "upsert") /\ ListSame /\ TiersSame /\ mem' = mem
        /\ index' = [index EXCEPT ![client[c].key] = client[c].entry]
    BY DEF PutUpsert, ListSame, TiersSame
  <1>2. client[c].key \in Keys /\ client[c].entry \in Entry
    BY <1>1 DEF TypeInv, PcOK, At, WithKey, PCs
  <1>3. reput' = (reput \/ PutsAgain(c))
    BY DEF PutUpsert
  <1>4. reput' \in BOOLEAN
    BY <1>3
  <1>5. Becomes(c, "check", None, 0, None, None)
    BY LoopBecomes DEF PutUpsert
  <1>6. PcOK(client'[c])
    BY <1>5 DEF Becomes, PcOK, WithKey
  <1>7. index' \in [Keys -> Entry \cup {None}]
    BY <1>1, <1>2 DEF TypeInv
  <1>8. /\ freeList' \in Seq(Slots) /\ mem' \in [Slots -> Keys \cup {None}]
        /\ t1' \subseteq Keys /\ t2' \subseteq Keys
    BY <1>1 DEF TypeInv, ListSame, TiersSame
  <1>9. TypeInv'
    BY <1>4, <1>5, <1>6, <1>7, <1>8, TypeStep
  <1> QED
    BY <1>1, <1>2, <1>3, <1>5, <1>9

LEMMA EvictCheckDoes ==
    ASSUME TypeInv, NEW c \in Clients, EvictCheck(c)
    PROVE  /\ TypeInv' /\ At(c, "check") /\ AllSame
           /\ \/ Becomes(c, "pick", client[c].key, client[c].cost, client[c].entry, client[c].data)
              \/ Becomes(c, "idle", None, 0, None, None)
  <1>1. At(c, "check") /\ AllSame
    BY DEF EvictCheck, AllSame, IndexSame, ListSame, TiersSame, RestSame
  <1>2. client[c].data = None
    BY <1>1 DEF TypeInv, PcOK, At
  <1>3. Goto(c, "pick") \/ Return(c)
    BY DEF EvictCheck
  <1>4. CASE Goto(c, "pick")
    <2>1. Becomes(c, "pick", client[c].key, client[c].cost, client[c].entry, client[c].data)
      BY <1>4, GotoBecomes DEF PCs
    <2>2. PcOK(client'[c])
      BY <1>2, <2>1 DEF Becomes, PcOK, WithKey
    <2> QED
      BY <1>1, <2>1, <2>2, TypeStepSame
  <1>5. CASE Return(c)
    <2>1. Becomes(c, "idle", None, 0, None, None)
      BY <1>5, ReturnBecomes
    <2>2. PcOK(client'[c])
      BY <2>1 DEF Becomes, PcOK, WithKey
    <2> QED
      BY <1>1, <2>1, <2>2, TypeStepSame
  <1> QED
    BY <1>3, <1>4, <1>5

EvictPicks(c, k) ==
    /\ k \in t1 /\ t1' = t1 \ {k}
    /\ Becomes(c, "find", k, client[c].cost, client[c].entry, client[c].data)

LEMMA EvictPickDoes ==
    ASSUME TypeInv, NEW c \in Clients, EvictPick(c)
    PROVE  /\ TypeInv' /\ At(c, "pick") /\ IndexSame /\ ListSame /\ RestSame /\ t2' = t2
           /\ \/ t1 = {} /\ t1' = t1 /\ Becomes(c, "idle", None, 0, None, None)
              \/ \E k \in Keys : EvictPicks(c, k)
  <1>1. At(c, "pick") /\ IndexSame /\ ListSame /\ RestSame /\ t2' = t2
    BY DEF EvictPick, IndexSame, ListSame, RestSame
  <1>2. client[c].data = None
    BY <1>1 DEF TypeInv, PcOK, At
  <1>3. \/ t1 = {} /\ Return(c) /\ t1' = t1
        \/ \E k \in t1 : t1' = t1 \ {k} /\ client' = [client EXCEPT ![c].pc = "find", ![c].key = k]
    BY DEF EvictPick
  <1>4. /\ index' \in [Keys -> Entry \cup {None}] /\ freeList' \in Seq(Slots)
        /\ t2' \subseteq Keys /\ mem' \in [Slots -> Keys \cup {None}] /\ reput' \in BOOLEAN
    BY <1>1 DEF TypeInv, IndexSame, ListSame, RestSame
  <1>5. t1 \subseteq Keys
    BY DEF TypeInv
  <1>6. CASE t1 = {} /\ Return(c) /\ t1' = t1
    <2>1. Becomes(c, "idle", None, 0, None, None)
      BY <1>6, ReturnBecomes
    <2>2. PcOK(client'[c])
      BY <2>1 DEF Becomes, PcOK, WithKey
    <2>3. TypeInv'
      BY <1>4, <1>5, <1>6, <2>1, <2>2, TypeStep
    <2> QED
      BY <1>1, <1>6, <2>1, <2>3
  <1>7. CASE \E k \in t1 : t1' = t1 \ {k} /\ client' = [client EXCEPT ![c].pc = "find", ![c].key = k]
    <2>1. PICK k \in t1 : t1' = t1 \ {k} /\ client' = [client EXCEPT ![c].pc = "find", ![c].key = k]
      BY <1>7
    <2>2. k \in Keys /\ t1' \subseteq Keys
      BY <1>5, <2>1
    <2>3. Becomes(c, "find", k, client[c].cost, client[c].entry, client[c].data)
      BY <2>1, <2>2, KeyBecomes DEF PCs
    <2>4. PcOK(client'[c])
      BY <1>2, <2>2, <2>3 DEF Becomes, PcOK
    <2>5. TypeInv'
      BY <1>4, <2>2, <2>3, <2>4, TypeStep
    <2>6. EvictPicks(c, k)
      BY <2>1, <2>3 DEF EvictPicks
    <2> QED
      BY <1>1, <2>2, <2>5, <2>6
  <1> QED
    BY <1>3, <1>6, <1>7

EvictFinds(c) ==
    /\ index[client[c].key] \in Entry /\ index[client[c].key].tier = "t1"
    /\ \E pc \in {"demote", "update"} :
          Becomes(c, pc, client[c].key, client[c].cost, index[client[c].key], client[c].data)

LEMMA EvictFindDoes ==
    ASSUME TypeInv, NEW c \in Clients, EvictFind(c)
    PROVE  /\ TypeInv' /\ At(c, "find") /\ AllSame /\ client[c].key \in Keys /\ client[c].data = None
           /\ \/ /\ index[client[c].key] = None \/ index[client[c].key].tier # "t1"
                 /\ Becomes(c, "check", None, 0, None, None)
              \/ EvictFinds(c)
  <1> DEFINE e == index[client[c].key]
  <1>1. At(c, "find") /\ AllSame
    BY DEF EvictFind, AllSame, IndexSame, ListSame, TiersSame, RestSame
  <1>2. client[c].data = None /\ client[c].key \in Keys
    BY <1>1 DEF TypeInv, PcOK, At, WithKey, PCs
  <1>3. CASE e = None \/ e.tier # "t1"
    <2>1. client' = [client EXCEPT ![c] = [Idle EXCEPT !.pc = "check"]]
      BY <1>3 DEF EvictFind
    <2>2. Becomes(c, "check", None, 0, None, None)
      BY <2>1, LoopBecomes
    <2>3. PcOK(client'[c])
      BY <2>2 DEF Becomes, PcOK, WithKey
    <2> QED
      BY <1>1, <1>2, <1>3, <2>2, <2>3, TypeStepSame
  <1>4. CASE ~(e = None \/ e.tier # "t1")
    <2> DEFINE pc == IF e.cost >= MinCost THEN "demote" ELSE "update"
    <2>1. client' = [client EXCEPT ![c].entry = e, ![c].pc = pc]
      BY <1>4 DEF EvictFind
    <2>2. e \in Entry /\ e.tier = "t1"
      BY <1>2, <1>4 DEF TypeInv
    <2>3. pc \in {"demote", "update"} /\ pc \in PCs
      BY DEF PCs
    <2> HIDE DEF e, pc
    <2>4. client' = [client EXCEPT ![c].pc = pc, ![c].entry = e]
      BY <2>1 DEF TypeInv, ClientState
    <2>5. Becomes(c, pc, client[c].key, client[c].cost, e, client[c].data)
      BY <2>2, <2>3, <2>4, EntryBecomes
    <2>6. PcOK(client'[c])
      BY <1>2, <2>2, <2>3, <2>5 DEF Becomes, PcOK
    <2>7. TypeInv'
      BY <1>1, <2>5, <2>6, TypeStepSame
    <2>8. EvictFinds(c)
      BY <2>2, <2>3, <2>5 DEF EvictFinds, e
    <2> QED
      BY <1>1, <1>2, <2>7, <2>8
  <1> QED
    BY <1>3, <1>4

LEMMA EvictDemoteDoes ==
    ASSUME TypeInv, NEW c \in Clients, EvictDemote(c)
    PROVE  /\ TypeInv' /\ At(c, "demote") /\ AllSame
           /\ \E data \in {mem[client[c].entry.at], None} :
                 Becomes(c, "update", client[c].key, client[c].cost, client[c].entry, data)
  <1>1. At(c, "demote") /\ AllSame
    BY DEF EvictDemote, AllSame, IndexSame, ListSame, TiersSame, RestSame
  <1>2. client[c].key \in Keys /\ client[c].entry \in Entry /\ client[c].entry.tier = "t1"
    BY <1>1 DEF TypeInv, PcOK, At, WithKey, PCs
  <1>3. PICK data \in {mem[client[c].entry.at], None} :
            client' = [client EXCEPT ![c].pc = "update", ![c].data = data]
    BY DEF EvictDemote
  <1>4. data \in Keys \cup {None}
    BY <1>2, EntryFacts DEF TypeInv
  <1>5. Becomes(c, "update", client[c].key, client[c].cost, client[c].entry, data)
    BY <1>3, <1>4, DataBecomes DEF PCs
  <1>6. PcOK(client'[c])
    BY <1>2, <1>5 DEF Becomes, PcOK
  <1> QED
    BY <1>1, <1>5, <1>6, TypeStepSame

Demoted(c) == IF client[c].data = None THEN None ELSE OnNvme(client[c].data, client[c].entry.cost)

LEMMA EvictUpdateDoes ==
    ASSUME TypeInv, NEW c \in Clients, EvictUpdate(c)
    PROVE  /\ TypeInv' /\ At(c, "update") /\ ListSame /\ TiersSame /\ RestSame
           /\ client[c].key \in Keys /\ client[c].entry \in Entry /\ client[c].entry.tier = "t1"
           /\ index' = [index EXCEPT ![client[c].key] = Demoted(c)]
           /\ Demoted(c) = None \/ (Demoted(c) \in Entry /\ Demoted(c).tier = "t2")
           /\ Becomes(c, "free", client[c].key, client[c].cost, client[c].entry, client[c].data)
  <1>1. /\ At(c, "update") /\ ListSame /\ TiersSame /\ RestSame /\ Goto(c, "free")
        /\ index' = [index EXCEPT ![client[c].key] = Demoted(c)]
    BY DEF EvictUpdate, ListSame, TiersSame, RestSame, Demoted
  <1>2. client[c].key \in Keys /\ client[c].entry \in Entry /\ client[c].entry.tier = "t1"
    BY <1>1 DEF TypeInv, PcOK, At, WithKey, PCs
  <1>3. Becomes(c, "free", client[c].key, client[c].cost, client[c].entry, client[c].data)
    BY <1>1, GotoBecomes DEF PCs
  <1>4. Demoted(c) = None \/ (Demoted(c) \in Entry /\ Demoted(c).tier = "t2")
    <2>1. client[c].data \in Keys \cup {None} /\ client[c].entry.cost \in Costs
      BY <1>2, ClientFields, EntryFacts
    <2> QED
      BY <2>1, MadeEntries DEF Demoted
  <1>5. PcOK(client'[c])
    BY <1>2, <1>3 DEF Becomes, PcOK
  <1>6. index' \in [Keys -> Entry \cup {None}]
    BY <1>1, <1>2, <1>4 DEF TypeInv
  <1>7. /\ freeList' \in Seq(Slots) /\ mem' \in [Slots -> Keys \cup {None}]
        /\ t1' \subseteq Keys /\ t2' \subseteq Keys /\ reput' \in BOOLEAN
    BY <1>1 DEF TypeInv, ListSame, TiersSame, RestSame
  <1>8. TypeInv'
    BY <1>3, <1>5, <1>6, <1>7, TypeStep
  <1> QED
    BY <1>1, <1>2, <1>3, <1>4, <1>8

LEMMA EvictFreeDoes ==
    ASSUME TypeInv, NEW c \in Clients, EvictFree(c)
    PROVE  /\ TypeInv' /\ At(c, "free") /\ IndexSame /\ RestSame /\ t1' = t1
           /\ client[c].entry \in Entry /\ client[c].entry.tier = "t1" /\ client[c].entry.at \in Slots
           /\ freeList' = Append(freeList, client[c].entry.at)
           /\ Becomes(c, "check", None, 0, None, None)
  <1>1. /\ At(c, "free") /\ IndexSame /\ RestSame /\ t1' = t1
        /\ freeList' = Append(freeList, client[c].entry.at)
        /\ client' = [client EXCEPT ![c] = [Idle EXCEPT !.pc = "check"]]
    BY DEF EvictFree, IndexSame, RestSame
  <1>2. client[c].key \in Keys /\ client[c].entry \in Entry /\ client[c].entry.tier = "t1"
    BY <1>1 DEF TypeInv, PcOK, At, WithKey, PCs
  <1>3. client[c].entry.at \in Slots
    BY <1>2, EntryFacts
  <1>4. Becomes(c, "check", None, 0, None, None)
    BY <1>1, LoopBecomes
  <1>5. PcOK(client'[c])
    BY <1>4 DEF Becomes, PcOK, WithKey
  <1>6. freeList' \in Seq(Slots)
    BY <1>1, <1>3 DEF TypeInv
  <1>7. t2' \subseteq Keys
    BY <1>2 DEF EvictFree, TypeInv
  <1>8. /\ index' \in [Keys -> Entry \cup {None}] /\ mem' \in [Slots -> Keys \cup {None}]
        /\ t1' \subseteq Keys /\ reput' \in BOOLEAN
    BY <1>1 DEF TypeInv, IndexSame, RestSame
  <1>9. TypeInv'
    BY <1>4, <1>5, <1>6, <1>7, <1>8, TypeStep
  <1> QED
    BY <1>1, <1>2, <1>3, <1>4, <1>9

LEMMA GetFindDoes ==
    ASSUME TypeInv, NEW c \in Clients, NEW k \in Keys, GetFind(c, k)
    PROVE  /\ TypeInv' /\ At(c, "idle") /\ AllSame /\ index[k] # None
           /\ Becomes(c, "load", k, 0, index[k], None)
  <1>1. At(c, "idle") /\ AllSame /\ index[k] # None
    BY DEF GetFind, AllSame, IndexSame, ListSame, TiersSame, RestSame
  <1>2. index[k] \in Entry
    BY <1>1 DEF TypeInv
  <1> DEFINE r == [Idle EXCEPT !.pc = "load", !.key = k, !.entry = index[k]]
  <1>3. /\ r \in ClientState /\ r.pc = "load" /\ r.key = k /\ r.cost = 0
        /\ r.entry = index[k] /\ r.data = None
    BY <1>2 DEF Idle, ClientState, PCs
  <1>4. client' = [client EXCEPT ![c] = r]
    BY DEF GetFind
  <1> HIDE DEF r
  <1>5. Becomes(c, "load", k, 0, index[k], None)
    BY <1>3, <1>4, SetBecomes
  <1>6. PcOK(client'[c])
    BY <1>2, <1>5 DEF Becomes, PcOK
  <1> QED
    BY <1>1, <1>5, <1>6, TypeStepSame

Loaded(c) == IF client[c].entry.tier = "t1" THEN mem[client[c].entry.at] ELSE client[c].entry.at

LEMMA GetLoadDoes ==
    ASSUME TypeInv, NEW c \in Clients, GetLoad(c)
    PROVE  /\ TypeInv' /\ At(c, "load") /\ AllSame
           /\ \/ Becomes(c, "got", client[c].key, client[c].cost, client[c].entry, Loaded(c))
              \/ Becomes(c, "idle", None, 0, None, None)
  <1>1. At(c, "load") /\ AllSame
    BY DEF GetLoad, AllSame, IndexSame, ListSame, TiersSame, RestSame
  <1>2. client[c].key \in Keys /\ client[c].entry \in Entry
    BY <1>1 DEF TypeInv, PcOK, At, WithKey, PCs
  <1>3. \/ client' = [client EXCEPT ![c].pc = "got", ![c].data = Loaded(c)]
        \/ Return(c)
    BY DEF GetLoad, Loaded
  <1>4. Loaded(c) \in Keys \cup {None}
    BY <1>2, EntryFacts DEF TypeInv, Loaded
  <1>5. CASE client' = [client EXCEPT ![c].pc = "got", ![c].data = Loaded(c)]
    <2>1. Becomes(c, "got", client[c].key, client[c].cost, client[c].entry, Loaded(c))
      BY <1>4, <1>5, DataBecomes DEF PCs
    <2>2. PcOK(client'[c])
      BY <1>2, <2>1 DEF Becomes, PcOK
    <2> QED
      BY <1>1, <2>1, <2>2, TypeStepSame
  <1>6. CASE Return(c)
    <2>1. Becomes(c, "idle", None, 0, None, None)
      BY <1>6, ReturnBecomes
    <2>2. PcOK(client'[c])
      BY <2>1 DEF Becomes, PcOK, WithKey
    <2> QED
      BY <1>1, <2>1, <2>2, TypeStepSame
  <1> QED
    BY <1>3, <1>5, <1>6

LEMMA GetReturnDoes ==
    ASSUME TypeInv, NEW c \in Clients, GetReturn(c)
    PROVE  TypeInv' /\ At(c, "got") /\ AllSame /\ Becomes(c, "idle", None, 0, None, None)
  <1>1. At(c, "got") /\ AllSame /\ Return(c)
    BY DEF GetReturn, AllSame, IndexSame, ListSame, TiersSame, RestSame
  <1>2. Becomes(c, "idle", None, 0, None, None)
    BY <1>1, ReturnBecomes
  <1>3. PcOK(client'[c])
    BY <1>2 DEF Becomes, PcOK, WithKey
  <1> QED
    BY <1>1, <1>2, <1>3, TypeStepSame

LEMMA DelFindDoes ==
    ASSUME TypeInv, NEW c \in Clients, NEW k \in Keys, DelFind(c, k)
    PROVE  /\ TypeInv' /\ At(c, "idle") /\ AllSame /\ index[k] # None
           /\ Becomes(c, "release", k, 0, index[k], None)
           /\ "del" \in Ops[c]
  <1>1. At(c, "idle") /\ AllSame /\ index[k] # None /\ "del" \in Ops[c]
    BY DEF DelFind, AllSame, IndexSame, ListSame, TiersSame, RestSame
  <1>2. index[k] \in Entry
    BY <1>1 DEF TypeInv
  <1> DEFINE r == [Idle EXCEPT !.pc = "release", !.key = k, !.entry = index[k]]
  <1>3. /\ r \in ClientState /\ r.pc = "release" /\ r.key = k /\ r.cost = 0
        /\ r.entry = index[k] /\ r.data = None
    BY <1>2 DEF Idle, ClientState, PCs
  <1>4. client' = [client EXCEPT ![c] = r]
    BY DEF DelFind
  <1> HIDE DEF r
  <1>5. Becomes(c, "release", k, 0, index[k], None)
    BY <1>3, <1>4, SetBecomes
  <1>6. PcOK(client'[c])
    BY <1>2, <1>5 DEF Becomes, PcOK
  <1> QED
    BY <1>1, <1>5, <1>6, TypeStepSame

LEMMA DelReleaseDoes ==
    ASSUME TypeInv, NEW c \in Clients, DelRelease(c)
    PROVE  /\ TypeInv' /\ At(c, "release") /\ IndexSame /\ TiersSame /\ RestSame
           /\ client[c].key \in Keys /\ client[c].entry \in Entry
           /\ \/ /\ client[c].entry.tier = "t1" /\ client[c].entry.at \in Slots
                 /\ freeList' = Append(freeList, client[c].entry.at)
              \/ client[c].entry.tier = "t2" /\ freeList' = freeList
           /\ Becomes(c, "erase", client[c].key, client[c].cost, client[c].entry, client[c].data)
  <1>1. At(c, "release") /\ IndexSame /\ TiersSame /\ RestSame /\ Goto(c, "erase")
    BY DEF DelRelease, IndexSame, TiersSame, RestSame
  <1>2. client[c].key \in Keys /\ client[c].entry \in Entry
    BY <1>1 DEF TypeInv, PcOK, At, WithKey, PCs
  <1>3. \/ /\ client[c].entry.tier = "t1" /\ client[c].entry.at \in Slots
           /\ freeList' = Append(freeList, client[c].entry.at)
        \/ client[c].entry.tier = "t2" /\ freeList' = freeList
    BY <1>2, EntryFacts DEF DelRelease
  <1>4. Becomes(c, "erase", client[c].key, client[c].cost, client[c].entry, client[c].data)
    BY <1>1, GotoBecomes DEF PCs
  <1>5. PcOK(client'[c])
    BY <1>2, <1>4 DEF Becomes, PcOK
  <1>6. freeList' \in Seq(Slots)
    BY <1>3 DEF TypeInv
  <1>7. /\ index' \in [Keys -> Entry \cup {None}] /\ mem' \in [Slots -> Keys \cup {None}]
        /\ t1' \subseteq Keys /\ t2' \subseteq Keys /\ reput' \in BOOLEAN
    BY <1>1 DEF TypeInv, IndexSame, TiersSame, RestSame
  <1>8. TypeInv'
    BY <1>4, <1>5, <1>6, <1>7, TypeStep
  <1> QED
    BY <1>1, <1>2, <1>3, <1>4, <1>8

LEMMA DelEraseDoes ==
    ASSUME TypeInv, NEW c \in Clients, DelErase(c)
    PROVE  /\ TypeInv' /\ At(c, "erase") /\ ListSame /\ TiersSame /\ RestSame
           /\ client[c].key \in Keys
           /\ index' = [index EXCEPT ![client[c].key] = None]
           /\ Becomes(c, "forget", client[c].key, client[c].cost, client[c].entry, client[c].data)
  <1>1. /\ At(c, "erase") /\ ListSame /\ TiersSame /\ RestSame /\ Goto(c, "forget")
        /\ index' = [index EXCEPT ![client[c].key] = None]
    BY DEF DelErase, ListSame, TiersSame, RestSame
  <1>2. client[c].key \in Keys
    BY <1>1 DEF TypeInv, PcOK, At, WithKey, PCs
  <1>3. Becomes(c, "forget", client[c].key, client[c].cost, client[c].entry, client[c].data)
    BY <1>1, GotoBecomes DEF PCs
  <1>4. PcOK(client'[c])
    BY <1>2, <1>3 DEF Becomes, PcOK
  <1>5. index' \in [Keys -> Entry \cup {None}]
    BY <1>1, <1>2 DEF TypeInv
  <1>6. /\ freeList' \in Seq(Slots) /\ mem' \in [Slots -> Keys \cup {None}]
        /\ t1' \subseteq Keys /\ t2' \subseteq Keys /\ reput' \in BOOLEAN
    BY <1>1 DEF TypeInv, ListSame, TiersSame, RestSame
  <1>7. TypeInv'
    BY <1>3, <1>4, <1>5, <1>6, TypeStep
  <1> QED
    BY <1>1, <1>2, <1>3, <1>7

LEMMA DelForgetDoes ==
    ASSUME TypeInv, NEW c \in Clients, DelForget(c)
    PROVE  /\ TypeInv' /\ At(c, "forget") /\ IndexSame /\ ListSame /\ RestSame
           /\ t1' = t1 \ {client[c].key}
           /\ Becomes(c, "idle", None, 0, None, None)
  <1>1. /\ At(c, "forget") /\ IndexSame /\ ListSame /\ RestSame /\ Return(c)
        /\ t1' = t1 \ {client[c].key} /\ t2' = t2 \ {client[c].key}
    BY DEF DelForget, IndexSame, ListSame, RestSame
  <1>2. Becomes(c, "idle", None, 0, None, None)
    BY <1>1, ReturnBecomes
  <1>3. PcOK(client'[c])
    BY <1>2 DEF Becomes, PcOK, WithKey
  <1>4. /\ index' \in [Keys -> Entry \cup {None}] /\ freeList' \in Seq(Slots)
        /\ mem' \in [Slots -> Keys \cup {None}]
        /\ t1' \subseteq Keys /\ t2' \subseteq Keys /\ reput' \in BOOLEAN
    BY <1>1 DEF TypeInv, IndexSame, ListSame, RestSame
  <1>5. TypeInv'
    BY <1>2, <1>3, <1>4, TypeStep
  <1> QED
    BY <1>1, <1>2, <1>5

-----------------------------------------------------------------------------
(* Who has a slot *)

Free == {freeList[i] : i \in DOMAIN freeList}
FreeOnce == \A i, j \in DOMAIN freeList : freeList[i] = freeList[j] => i = j

(* A call that has a slot, which no other has                                *)
Holds(c) ==
    /\ client[c].pc \in {"copy", "upsert", "free"}
    /\ client[c].entry # None /\ client[c].entry.tier = "t1"

SlotOf(c) == client[c].entry.at

Dram(k) == index[k] # None /\ index[k].tier = "t1"
Erasing(k) == \E c \in Clients : At(c, "erase") /\ client[c].key = k
Owned(k) == Dram(k) /\ ~Erasing(k)

(* SlotOwned in other words: the free list, the calls and the index share    *)
(* no slot, nor do two of a kind.                                            *)
SlotInv ==
    /\ FreeOnce
    /\ \A c \in Clients : Holds(c) => SlotOf(c) \notin Free
    /\ \A k \in Keys : Owned(k) => index[k].at \notin Free
    /\ \A c, d \in Clients : Holds(c) /\ Holds(d) /\ SlotOf(c) = SlotOf(d) => c = d
    /\ \A c \in Clients, k \in Keys : Holds(c) /\ Owned(k) => SlotOf(c) # index[k].at
    /\ \A k, l \in Keys : Owned(k) /\ Owned(l) /\ index[k].at = index[l].at => k = l

(* What a call read from the index is still there when it acts on it.        *)
Follow ==
    \A c \in Clients : client[c].pc \in {"demote", "update", "release"}
        => index[client[c].key] = client[c].entry

Accounted ==
    \A s \in Slots :
        \/ s \in Free
        \/ \E c \in Clients : Holds(c) /\ SlotOf(c) = s
        \/ \E k \in Keys : Dram(k) /\ index[k].at = s

(* Many clients, no del(), no key put twice: at most one call evicts a key,  *)
(* and the policy does not have the key as long as it does.                  *)
Chases(c, k) == client[c].pc \in {"find", "demote", "update"} /\ client[c].key = k

Stored(k) == index[k] # None \/ \E c \in Clients : At(c, "upsert") /\ client[c].key = k

TokenInv ==
    /\ \A c, d \in Clients, k \in Keys : Chases(c, k) /\ Chases(d, k) => c = d
    /\ \A c \in Clients, k \in Keys : Chases(c, k) => k \notin t1
    /\ \A c \in Clients, k \in Keys : Chases(c, k) => Stored(k)
    /\ \A k \in t1 : Stored(k)

NoDelPc == \A c \in Clients : client[c].pc \notin {"release", "erase", "forget"}

ManyInv ==
    /\ TypeInv
    /\ NoDelPc
    /\ ~reput => SlotInv /\ Follow /\ Accounted /\ TokenInv

(* One client, all calls *)
OneFollow ==
    \A c \in Clients :
        /\ client[c].pc \in {"load", "erase"} => index[client[c].key] = client[c].entry
        /\ At(c, "erase") /\ client[c].entry.tier = "t1" => SlotOf(c) \in Free
        /\ At(c, "forget") => index[client[c].key] = None

Tracked ==
    /\ \A k \in Keys : Dram(k) => k \in t1 \/ \E c \in Clients : Chases(c, k)
    /\ \A c \in Clients : At(c, "upsert") /\ client[c].entry.tier = "t1" => client[c].key \in t1

(* Slots and locations have the blob of the key they are used for.           *)
MemInv ==
    /\ \A k \in Keys : Owned(k) => mem[index[k].at] = k
    /\ \A k \in Keys : index[k] # None /\ index[k].tier = "t2" => index[k].at = k
    /\ \A c \in Clients :
          /\ At(c, "upsert") /\ client[c].entry.tier = "t1" => mem[SlotOf(c)] = client[c].key
          /\ At(c, "upsert") /\ client[c].entry.tier = "t2" => client[c].entry.at = client[c].key
          /\ At(c, "update") => client[c].data \in {None, client[c].key}
          /\ At(c, "got") => client[c].data = client[c].key

OneInv ==
    /\ TypeInv
    /\ SlotInv
    /\ Follow
    /\ ~reput => Accounted
    /\ OneFollow
    /\ Tracked
    /\ MemInv

-----------------------------------------------------------------------------
(* The free list as a set *)

LEMMA FreeSet ==
    ASSUME TypeInv
    PROVE  /\ DOMAIN freeList = 1 .. Len(freeList) /\ Len(freeList) \in Nat
           /\ Free \subseteq Slots
  BY DEF TypeInv, Free

LEMMA PopFree ==
    ASSUME TypeInv, freeList # <<>>, FreeOnce,
           freeList' = SubSeq(freeList, 1, Len(freeList) - 1)
    PROVE  LET s == freeList[Len(freeList)]
           IN  s \in Free /\ s \in Slots /\ Free' = Free \ {s} /\ FreeOnce'
  <1> DEFINE n == Len(freeList)
  <1>1. /\ n \in Nat /\ n >= 1 /\ freeList[n] \in Slots
        /\ freeList' \in Seq(Slots) /\ Len(freeList') = n - 1
        /\ \A i \in 1 .. n - 1 : freeList'[i] = freeList[i]
    BY LastSlot
  <1>2. DOMAIN freeList = 1 .. n
    BY FreeSet
  <1>3. DOMAIN freeList' = 1 .. n - 1
    BY <1>1
  <1> HIDE DEF n
  <1>4. Free = {freeList[i] : i \in 1 .. n} /\ Free' = {freeList'[i] : i \in 1 .. n - 1}
    BY <1>2, <1>3 DEF Free
  <1>5. \A i \in 1 .. n - 1 : i \in 1 .. n /\ i # n
    BY <1>1
  <1>6. \A i \in 1 .. n : i = n \/ i \in 1 .. n - 1
    BY <1>1
  <1>7. n \in 1 .. n
    BY <1>1
  <1>8. \A i, j \in 1 .. n : freeList[i] = freeList[j] => i = j
    BY <1>2 DEF FreeOnce
  <1>9. Free' = Free \ {freeList[n]}
    <2>1. \A i \in 1 .. n - 1 : freeList'[i] \in Free /\ freeList'[i] # freeList[n]
      BY <1>1, <1>4, <1>5, <1>7, <1>8
    <2>2. \A i \in 1 .. n : freeList[i] # freeList[n] => freeList[i] \in Free'
      BY <1>1, <1>4, <1>6
    <2> QED
      BY <1>4, <2>1, <2>2
  <1>10. FreeOnce'
    <2> SUFFICES ASSUME NEW i \in 1 .. n - 1, NEW j \in 1 .. n - 1, freeList'[i] = freeList'[j]
                 PROVE  i = j
      BY <1>3 DEF FreeOnce
    <2> QED
      BY <1>1, <1>5, <1>8
  <1>11. freeList[n] \in Free
    BY <1>4, <1>7
  <1> QED
    BY <1>1, <1>9, <1>10, <1>11 DEF n

LEMMA PushFree ==
    ASSUME TypeInv, NEW s \in Slots, freeList' = Append(freeList, s)
    PROVE  /\ Free' = Free \cup {s}
           /\ FreeOnce /\ s \notin Free => FreeOnce'
  <1> DEFINE n == Len(freeList)
  <1>1. DOMAIN freeList = 1 .. n /\ n \in Nat
    BY FreeSet
  <1>2. /\ freeList' \in Seq(Slots) /\ Len(freeList') = n + 1
        /\ \A i \in 1 .. n : freeList'[i] = freeList[i]
        /\ freeList'[n + 1] = s
    <2>1. freeList \in Seq(Slots)
      BY DEF TypeInv
    <2> QED
      BY <2>1, AppendProperties
  <1>3. DOMAIN freeList' = 1 .. n + 1
    BY <1>2
  <1> HIDE DEF n
  <1>4. Free = {freeList[i] : i \in 1 .. n} /\ Free' = {freeList'[i] : i \in 1 .. n + 1}
    BY <1>1, <1>3 DEF Free
  <1>5. \A i \in 1 .. n + 1 : i = n + 1 \/ i \in 1 .. n
    BY <1>1
  <1>6. n + 1 \in 1 .. n + 1 /\ \A i \in 1 .. n : i \in 1 .. n + 1
    BY <1>1
  <1>7. Free' = Free \cup {s}
    <2>1. \A i \in 1 .. n + 1 : freeList'[i] \in Free \cup {s}
      BY <1>2, <1>4, <1>5
    <2>2. s \in Free' /\ \A i \in 1 .. n : freeList[i] \in Free'
      BY <1>2, <1>4, <1>6
    <2> QED
      BY <1>4, <2>1, <2>2
  <1>8. ASSUME FreeOnce, s \notin Free
        PROVE  FreeOnce'
    <2> SUFFICES ASSUME NEW i \in 1 .. n + 1, NEW j \in 1 .. n + 1, freeList'[i] = freeList'[j]
                 PROVE  i = j
      BY <1>3 DEF FreeOnce
    <2>1. \A m \in 1 .. n : freeList[m] # s
      BY <1>4, <1>8
    <2>2. \A m, o \in 1 .. n : freeList[m] = freeList[o] => m = o
      BY <1>1, <1>8 DEF FreeOnce
    <2> QED
      BY <1>2, <1>5, <2>1, <2>2
  <1> QED
    BY <1>7, <1>8

-----------------------------------------------------------------------------
(* Slots change hands *)

(* No other call is about to act on the same entry.                          *)
Alone(c) ==
    /\ \A d \in Clients \ {c} : client[d].pc \notin {"release", "erase"}
    /\ client[c].pc \in {"upsert", "update", "erase"} =>
          \A d \in Clients \ {c} :
             ~(client[d].pc \in {"demote", "update"} /\ client[d].key = client[c].key)

(* The other clients hold what they held.                                    *)
LEMMA OthersHold ==
    ASSUME NEW c \in Clients, NEW pc, NEW key, NEW cost, NEW entry, NEW data,
           Becomes(c, pc, key, cost, entry, data)
    PROVE  \A d \in Clients : d # c =>
               /\ (Holds(d)' <=> Holds(d)) /\ SlotOf(d)' = SlotOf(d)
               /\ client'[d] = client[d]
  BY DEF Becomes, Holds, SlotOf

(* A step that moves no slot                                                 *)
LEMMA QuietSlots ==
    ASSUME NEW c \in Clients, NEW pc, NEW key, NEW cost, NEW entry, NEW data,
           Becomes(c, pc, key, cost, entry, data), IndexSame, ListSame,
           client[c].pc \notin {"upsert", "free", "erase"},
           pc \notin {"copy", "free", "erase"},
           client[c].pc = "copy" => pc = "upsert" /\ entry = client[c].entry,
           pc = "upsert" => client[c].pc = "copy" \/ entry.tier # "t1"
    PROVE  /\ SlotInv => SlotInv'
           /\ Accounted => Accounted'
           /\ \A k \in Keys : (Owned(k)' <=> Owned(k)) /\ (Dram(k)' <=> Dram(k))
           /\ Free' = Free
  <1>1. \A d \in Clients : (Holds(d)' <=> Holds(d)) /\ (Holds(d) => SlotOf(d)' = SlotOf(d))
    <2>1. (Holds(c)' <=> Holds(c)) /\ (Holds(c) => SlotOf(c)' = SlotOf(c))
      BY DEF Becomes, Holds, SlotOf
    <2> QED
      BY <2>1, OthersHold
  <1>2. \A k \in Keys : (Erasing(k)' <=> Erasing(k))
    <2>1. \A d \in Clients : (At(d, "erase")' <=> At(d, "erase")) /\ (At(d, "erase") => client'[d].key = client[d].key)
      BY DEF Becomes, At
    <2> QED
      BY <2>1 DEF Erasing
  <1>3. \A k \in Keys : (Owned(k)' <=> Owned(k)) /\ (Dram(k)' <=> Dram(k)) /\ index'[k] = index[k]
    BY <1>2 DEF Owned, Dram, IndexSame
  <1>4. Free' = Free /\ (FreeOnce' <=> FreeOnce)
    BY DEF ListSame, Free, FreeOnce
  <1>5. SlotInv => SlotInv'
    BY <1>1, <1>3, <1>4 DEF SlotInv
  <1>6. Accounted => Accounted'
    BY <1>1, <1>3, <1>4 DEF Accounted
  <1> QED
    BY <1>3, <1>4, <1>5, <1>6

LEMMA QuietFollow ==
    ASSUME NEW c \in Clients, NEW pc, NEW key, NEW cost, NEW entry, NEW data,
           Becomes(c, pc, key, cost, entry, data), IndexSame, Follow,
           pc \in {"demote", "update", "release"} => index[key] = entry
    PROVE  Follow'
  BY DEF Becomes, IndexSame, Follow

(* A slot goes from the free list to a call.                                 *)
LEMMA AllocateSlots ==
    ASSUME TypeInv, SlotInv, NEW c \in Clients, At(c, "allocate"), IndexSame, PutAllocates(c)
    PROVE  /\ SlotInv'
           /\ Accounted => Accounted'
           /\ \A k \in Keys : (Owned(k)' <=> Owned(k)) /\ (Dram(k)' <=> Dram(k))
           /\ Follow => Follow'
  <1> DEFINE s == freeList[Len(freeList)]
  <1>1. Becomes(c, "copy", client[c].key, client[c].cost, InDram(s, client[c].cost), client[c].data)
    BY DEF PutAllocates
  <1>2. s \in Free /\ s \in Slots /\ Free' = Free \ {s} /\ FreeOnce'
    BY PopFree DEF PutAllocates, SlotInv
  <1>3. client[c].cost \in Costs
    BY DEF TypeInv, PcOK, At
  <1>4. InDram(s, client[c].cost) # None /\ InDram(s, client[c].cost).tier = "t1" /\ InDram(s, client[c].cost).at = s
    BY <1>2, <1>3, MadeEntries, EntryFacts
  <1> HIDE DEF s
  <1>5. Holds(c)' /\ SlotOf(c)' = s /\ ~Holds(c)
    BY <1>1, <1>4 DEF Becomes, Holds, SlotOf, At
  <1>6. \A d \in Clients : d # c => (Holds(d)' <=> Holds(d)) /\ SlotOf(d)' = SlotOf(d)
    BY <1>1, OthersHold
  <1>7. \A k \in Keys : (Erasing(k)' <=> Erasing(k))
    <2>1. \A d \in Clients : (At(d, "erase")' <=> At(d, "erase")) /\ (At(d, "erase") => client'[d].key = client[d].key)
      BY <1>1 DEF Becomes, At
    <2> QED
      BY <2>1 DEF Erasing
  <1>8. \A k \in Keys : (Owned(k)' <=> Owned(k)) /\ (Dram(k)' <=> Dram(k)) /\ index'[k] = index[k]
    BY <1>7 DEF Owned, Dram, IndexSame
  <1>9. SlotInv'
    BY <1>2, <1>5, <1>6, <1>8 DEF SlotInv
  <1>10. Accounted => Accounted'
    BY <1>2, <1>5, <1>6, <1>8 DEF Accounted
  <1>11. Follow => Follow'
    BY <1>1, QuietFollow
  <1> QED
    BY <1>8, <1>9, <1>10, <1>11

(* A slot goes from a call to the index.                                     *)
LEMMA UpsertSlots ==
    ASSUME TypeInv, SlotInv, NEW c \in Clients, PutUpsert(c), Alone(c)
    PROVE  /\ SlotInv'
           /\ Accounted /\ index[client[c].key] = None => Accounted'
           /\ Follow => Follow'
           /\ \A k \in Keys : Owned(k)' <=> IF k = client[c].key THEN client[c].entry.tier = "t1" ELSE Owned(k)
  <1>0. PICK key \in Keys : key = client[c].key
    BY PutUpsertDoes
  <1> DEFINE e == client[c].entry
  <1>1. /\ At(c, "upsert") /\ ListSame /\ key \in Keys /\ e \in Entry /\ e # None
        /\ index' = [index EXCEPT ![key] = e]
        /\ Becomes(c, "check", None, 0, None, None)
    BY <1>0, PutUpsertDoes, EntryFacts
  <1>2. index'[key] = e /\ \A k \in Keys : k # key => index'[k] = index[k]
    BY <1>1 DEF TypeInv
  <1>3. ~Holds(c)' /\ (e.tier = "t1" <=> Holds(c)) /\ SlotOf(c) = e.at
    BY <1>1 DEF Becomes, Holds, SlotOf, At
  <1>4. \A d \in Clients : d # c => (Holds(d)' <=> Holds(d)) /\ SlotOf(d)' = SlotOf(d)
    BY <1>1, OthersHold
  <1>5. \A k \in Keys : ~Erasing(k) /\ ~Erasing(k)'
    BY <1>1 DEF Becomes, At, Alone, Erasing
  <1>6. Free' = Free /\ (FreeOnce' <=> FreeOnce)
    BY <1>1 DEF ListSame, Free, FreeOnce
  <1> HIDE DEF e
  <1>7. (Owned(key)' <=> e.tier = "t1") /\ (Dram(key)' <=> e.tier = "t1")
    BY <1>1, <1>2, <1>5 DEF Owned, Dram
  <1>8. \A k \in Keys : k # key => (Owned(k)' <=> Owned(k)) /\ (Dram(k)' <=> Dram(k))
    BY <1>2, <1>5 DEF Owned, Dram
  <1>9. SlotInv'
    <2>1. FreeOnce' /\ \A d \in Clients : Holds(d)' => SlotOf(d)' \notin Free'
      BY <1>3, <1>4, <1>6 DEF SlotInv
    <2>2. \A k \in Keys : Owned(k)' => index'[k].at \notin Free'
      BY <1>2, <1>3, <1>6, <1>7, <1>8 DEF SlotInv
    <2>3. \A d, f \in Clients : Holds(d)' /\ Holds(f)' /\ SlotOf(d)' = SlotOf(f)' => d = f
      BY <1>3, <1>4 DEF SlotInv
    <2>4. \A d \in Clients, k \in Keys : Holds(d)' /\ Owned(k)' => SlotOf(d)' # index'[k].at
      <3> SUFFICES ASSUME NEW d \in Clients, NEW k \in Keys, Holds(d)', Owned(k)'
                   PROVE  SlotOf(d)' # index'[k].at
        OBVIOUS
      <3>1. d # c /\ Holds(d) /\ SlotOf(d)' = SlotOf(d)
        BY <1>3, <1>4
      <3>2. CASE k = key
        BY <1>2, <1>3, <1>7, <3>1, <3>2 DEF SlotInv
      <3>3. CASE k # key
        BY <1>2, <1>8, <3>1, <3>3 DEF SlotInv
      <3> QED
        BY <3>2, <3>3
    <2>5. \A k, l \in Keys : Owned(k)' /\ Owned(l)' /\ index'[k].at = index'[l].at => k = l
      <3>1. \A k \in Keys : k # key /\ Owned(k)' /\ Owned(key)' => index'[k].at # index'[key].at
        BY <1>1, <1>2, <1>3, <1>7, <1>8 DEF SlotInv
      <3>2. \A k, l \in Keys : k # key /\ l # key /\ Owned(k)' /\ Owned(l)' /\ index'[k].at = index'[l].at => k = l
        BY <1>2, <1>8 DEF SlotInv
      <3> QED
        BY <3>1, <3>2
    <2> QED
      BY <2>1, <2>2, <2>3, <2>4, <2>5 DEF SlotInv
  <1>10. ASSUME Accounted, index[key] = None
         PROVE  Accounted'
    <2> SUFFICES ASSUME NEW s \in Slots
                 PROVE  \/ s \in Free'
                        \/ \E d \in Clients : Holds(d)' /\ SlotOf(d)' = s
                        \/ \E k \in Keys : Dram(k)' /\ index'[k].at = s
      BY DEF Accounted
    <2>1. CASE s \in Free
      BY <1>6, <2>1
    <2>2. CASE \E d \in Clients : Holds(d) /\ SlotOf(d) = s
      <3>1. PICK d \in Clients : Holds(d) /\ SlotOf(d) = s
        BY <2>2
      <3>2. CASE d = c
        BY <1>1, <1>2, <1>3, <1>7, <3>1, <3>2
      <3>3. CASE d # c
        BY <1>4, <3>1, <3>3
      <3> QED
        BY <3>2, <3>3
    <2>3. CASE \E k \in Keys : Dram(k) /\ index[k].at = s
      <3>1. PICK k \in Keys : Dram(k) /\ index[k].at = s
        BY <2>3
      <3>2. k # key
        BY <1>10, <3>1 DEF Dram
      <3> QED
        BY <1>2, <1>8, <3>1, <3>2
    <2> QED
      BY <1>10, <2>1, <2>2, <2>3 DEF Accounted
  <1>11. Follow => Follow'
    <2> SUFFICES ASSUME Follow, NEW d \in Clients, client'[d].pc \in {"demote", "update", "release"}
                 PROVE  index'[client'[d].key] = client'[d].entry
      BY DEF Follow
    <2>1. d # c /\ client'[d] = client[d]
      BY <1>1 DEF Becomes
    <2>2. client[d].pc \in {"demote", "update"} /\ client[d].key # key
      BY <1>0, <1>1, <2>1 DEF Alone, At
    <2>3. client[d].key \in Keys
      BY <2>2 DEF TypeInv, PcOK, WithKey, PCs
    <2> QED
      BY <1>2, <2>1, <2>2, <2>3 DEF Follow
  <1> QED
    BY <1>0, <1>7, <1>8, <1>9, <1>10, <1>11 DEF e

(* A slot goes from the index to the call that evicts its key.               *)
LEMMA UpdateSlots ==
    ASSUME TypeInv, SlotInv, Follow, NEW c \in Clients, EvictUpdate(c), Alone(c)
    PROVE  /\ SlotInv'
           /\ Accounted => Accounted'
           /\ Follow'
           /\ \A k \in Keys : /\ Owned(k)' <=> k # client[c].key /\ Owned(k)
                              /\ Dram(k)' => Dram(k) /\ k # client[c].key
  <1>0. PICK key \in Keys : key = client[c].key
    BY EvictUpdateDoes
  <1> DEFINE e == client[c].entry
  <1>1. /\ At(c, "update") /\ ListSame /\ key \in Keys /\ e \in Entry /\ e # None /\ e.tier = "t1"
        /\ index' = [index EXCEPT ![key] = Demoted(c)]
        /\ Demoted(c) = None \/ Demoted(c).tier = "t2"
        /\ Becomes(c, "free", key, client[c].cost, e, client[c].data)
    BY <1>0, EvictUpdateDoes, EntryFacts
  <1>2. index'[key] = Demoted(c) /\ \A k \in Keys : k # key => index'[k] = index[k]
    BY <1>1 DEF TypeInv
  <1>3. index[key] = e
    BY <1>0, <1>1 DEF Follow, At
  <1>4. Holds(c)' /\ ~Holds(c) /\ SlotOf(c)' = e.at
    BY <1>1 DEF Becomes, Holds, SlotOf, At
  <1>5. \A d \in Clients : d # c => (Holds(d)' <=> Holds(d)) /\ SlotOf(d)' = SlotOf(d)
    BY <1>1, OthersHold
  <1>6. \A k \in Keys : ~Erasing(k) /\ ~Erasing(k)'
    BY <1>1 DEF Becomes, At, Alone, Erasing
  <1>7. Free' = Free /\ (FreeOnce' <=> FreeOnce)
    BY <1>1 DEF ListSame, Free, FreeOnce
  <1> HIDE DEF e
  <1>8. ~Owned(key)' /\ ~Dram(key)' /\ Owned(key) /\ index[key].at = e.at
    BY <1>1, <1>2, <1>3, <1>6 DEF Owned, Dram
  <1>9. \A k \in Keys : k # key => (Owned(k)' <=> Owned(k)) /\ (Dram(k)' <=> Dram(k))
    BY <1>2, <1>6 DEF Owned, Dram
  <1>10. SlotInv'
    <2>1. FreeOnce' /\ \A d \in Clients : Holds(d)' => SlotOf(d)' \notin Free'
      BY <1>1, <1>4, <1>5, <1>7, <1>8 DEF SlotInv
    <2>2. \A k \in Keys : Owned(k)' => index'[k].at \notin Free'
      BY <1>2, <1>7, <1>8, <1>9 DEF SlotInv
    <2>3. \A d, f \in Clients : Holds(d)' /\ Holds(f)' /\ SlotOf(d)' = SlotOf(f)' => d = f
      <3>1. \A d \in Clients : d # c /\ Holds(d)' => SlotOf(d)' # SlotOf(c)'
        BY <1>1, <1>4, <1>5, <1>8 DEF SlotInv
      <3>2. \A d, f \in Clients : d # c /\ f # c /\ Holds(d)' /\ Holds(f)' /\ SlotOf(d)' = SlotOf(f)' => d = f
        BY <1>5 DEF SlotInv
      <3> QED
        BY <3>1, <3>2
    <2>4. \A d \in Clients, k \in Keys : Holds(d)' /\ Owned(k)' => SlotOf(d)' # index'[k].at
      <3> SUFFICES ASSUME NEW d \in Clients, NEW k \in Keys, Holds(d)', Owned(k)'
                   PROVE  SlotOf(d)' # index'[k].at
        OBVIOUS
      <3>1. k # key /\ Owned(k) /\ index'[k] = index[k]
        BY <1>2, <1>8, <1>9
      <3>2. CASE d = c
        BY <1>1, <1>4, <1>8, <3>1, <3>2 DEF SlotInv
      <3>3. CASE d # c
        BY <1>5, <3>1, <3>3 DEF SlotInv
      <3> QED
        BY <3>2, <3>3
    <2>5. \A k, l \in Keys : Owned(k)' /\ Owned(l)' /\ index'[k].at = index'[l].at => k = l
      BY <1>2, <1>8, <1>9 DEF SlotInv
    <2> QED
      BY <2>1, <2>2, <2>3, <2>4, <2>5 DEF SlotInv
  <1>11. ASSUME Accounted
         PROVE  Accounted'
    <2> SUFFICES ASSUME NEW s \in Slots
                 PROVE  \/ s \in Free'
                        \/ \E d \in Clients : Holds(d)' /\ SlotOf(d)' = s
                        \/ \E k \in Keys : Dram(k)' /\ index'[k].at = s
      BY DEF Accounted
    <2>1. CASE s \in Free
      BY <1>7, <2>1
    <2>2. CASE \E d \in Clients : Holds(d) /\ SlotOf(d) = s
      BY <1>4, <1>5, <2>2
    <2>3. CASE \E k \in Keys : Dram(k) /\ index[k].at = s
      BY <1>2, <1>4, <1>8, <1>9, <2>3
    <2> QED
      BY <1>11, <2>1, <2>2, <2>3 DEF Accounted
  <1>12. Follow'
    <2> SUFFICES ASSUME NEW d \in Clients, client'[d].pc \in {"demote", "update", "release"}
                 PROVE  index'[client'[d].key] = client'[d].entry
      BY DEF Follow
    <2>1. d # c /\ client'[d] = client[d]
      BY <1>1 DEF Becomes
    <2>2. client[d].pc \in {"demote", "update"} /\ client[d].key # key
      BY <1>0, <1>1, <2>1 DEF Alone, At
    <2>3. client[d].key \in Keys
      BY <2>2 DEF TypeInv, PcOK, WithKey, PCs
    <2> QED
      BY <1>2, <2>1, <2>2, <2>3 DEF Follow
  <1> QED
    BY <1>0, <1>8, <1>9, <1>10, <1>11, <1>12

(* A slot goes from a call to the free list.                                 *)
LEMMA FreeSlots ==
    ASSUME TypeInv, SlotInv, NEW c \in Clients, EvictFree(c)
    PROVE  /\ SlotInv'
           /\ Accounted => Accounted'
           /\ Follow => Follow'
           /\ \A k \in Keys : (Owned(k)' <=> Owned(k)) /\ (Dram(k)' <=> Dram(k))
  <1>1. /\ At(c, "free") /\ IndexSame
        /\ client[c].entry \in Entry /\ client[c].entry.tier = "t1" /\ client[c].entry.at \in Slots
        /\ freeList' = Append(freeList, client[c].entry.at)
        /\ Becomes(c, "check", None, 0, None, None)
    BY EvictFreeDoes
  <1>2. PICK s \in Slots : s = client[c].entry.at
    BY <1>1
  <1>3. Holds(c) /\ SlotOf(c) = s /\ ~Holds(c)'
    BY <1>1, <1>2, EntryFacts DEF Becomes, Holds, SlotOf, At
  <1>4. \A d \in Clients : d # c => (Holds(d)' <=> Holds(d)) /\ SlotOf(d)' = SlotOf(d)
    BY <1>1, OthersHold
  <1>5. s \notin Free
    BY <1>3 DEF SlotInv
  <1>6. Free' = Free \cup {s} /\ FreeOnce'
    BY <1>1, <1>2, <1>5, PushFree DEF SlotInv
  <1>7. \A k \in Keys : (Erasing(k)' <=> Erasing(k))
    <2>1. \A d \in Clients : (At(d, "erase")' <=> At(d, "erase")) /\ (At(d, "erase") => client'[d].key = client[d].key)
      BY <1>1 DEF Becomes, At
    <2> QED
      BY <2>1 DEF Erasing
  <1>8. \A k \in Keys : (Owned(k)' <=> Owned(k)) /\ (Dram(k)' <=> Dram(k)) /\ index'[k] = index[k]
    BY <1>1, <1>7 DEF Owned, Dram, IndexSame
  <1>9. SlotInv'
    BY <1>3, <1>4, <1>6, <1>8 DEF SlotInv
  <1>10. Accounted => Accounted'
    BY <1>3, <1>4, <1>6, <1>8 DEF Accounted
  <1>11. Follow => Follow'
    BY <1>1, QuietFollow
  <1> QED
    BY <1>8, <1>9, <1>10, <1>11

(* del() frees the slot of an entry that it is going to erase.               *)
LEMMA ReleaseSlots ==
    ASSUME TypeInv, SlotInv, Follow, NEW c \in Clients, DelRelease(c), Alone(c)
    PROVE  /\ SlotInv'
           /\ Accounted => Accounted'
           /\ Follow'
           /\ \A k \in Keys : /\ Owned(k)' <=> k # client[c].key /\ Owned(k)
                              /\ (Dram(k)' <=> Dram(k))
           /\ client[c].entry.tier = "t1" => client[c].entry.at \in Free'
           /\ index[client[c].key] = client[c].entry
  <1>1. /\ At(c, "release") /\ IndexSame
        /\ client[c].key \in Keys /\ client[c].entry \in Entry /\ client[c].entry # None
        /\ \/ /\ client[c].entry.tier = "t1" /\ client[c].entry.at \in Slots
              /\ freeList' = Append(freeList, client[c].entry.at)
           \/ client[c].entry.tier = "t2" /\ freeList' = freeList
        /\ Becomes(c, "erase", client[c].key, client[c].cost, client[c].entry, client[c].data)
    BY DelReleaseDoes, EntryFacts
  <1>2. PICK key \in Keys : key = client[c].key
    BY <1>1
  <1>3. index[key] = client[c].entry
    BY <1>1, <1>2 DEF Follow, At
  <1>4. \A d \in Clients : (Holds(d)' <=> Holds(d)) /\ (Holds(d) => SlotOf(d)' = SlotOf(d))
    <2>1. ~Holds(c) /\ ~Holds(c)'
      BY <1>1 DEF Becomes, Holds, At
    <2>2. \A d \in Clients : d # c => (Holds(d)' <=> Holds(d)) /\ SlotOf(d)' = SlotOf(d)
      BY <1>1, OthersHold
    <2> QED
      BY <2>1, <2>2
  <1>5. \A k \in Keys : ~Erasing(k)
    BY <1>1 DEF Alone, At, Erasing
  <1>6. \A k \in Keys : Erasing(k)' <=> k = key
    BY <1>1, <1>2 DEF Becomes, At, Alone, Erasing
  <1>7. \A k \in Keys : /\ Owned(k)' <=> k # key /\ Owned(k)
                        /\ (Dram(k)' <=> Dram(k)) /\ index'[k] = index[k]
    BY <1>1, <1>5, <1>6 DEF Owned, Dram, IndexSame
  <1>8. Follow'
    BY <1>1, QuietFollow
  <1>9. CASE client[c].entry.tier = "t1"
    <2>1. PICK s \in Slots : s = client[c].entry.at
      BY <1>1, <1>9
    <2>2. freeList' = Append(freeList, s)
      BY <1>1, <1>9, <2>1
    <2>3. Owned(key) /\ index[key].at = s
      BY <1>1, <1>3, <1>5, <1>9, <2>1 DEF Owned, Dram
    <2>4. s \notin Free
      BY <2>3 DEF SlotInv
    <2>5. Free' = Free \cup {s} /\ FreeOnce'
      BY <2>2, <2>4, PushFree DEF SlotInv
    <2>6. SlotInv'
      BY <1>4, <1>7, <2>3, <2>5 DEF SlotInv
    <2>7. Accounted => Accounted'
      BY <1>4, <1>7, <2>5 DEF Accounted
    <2> QED
      BY <1>2, <1>3, <1>7, <1>8, <2>1, <2>5, <2>6, <2>7
  <1>10. CASE client[c].entry.tier # "t1"
    <2>1. freeList' = freeList
      BY <1>1, <1>10
    <2>2. Free' = Free /\ (FreeOnce' <=> FreeOnce)
      BY <2>1 DEF Free, FreeOnce
    <2>3. SlotInv'
      BY <1>4, <1>7, <2>2 DEF SlotInv
    <2>4. Accounted => Accounted'
      BY <1>4, <1>7, <2>2 DEF Accounted
    <2> QED
      BY <1>2, <1>3, <1>7, <1>8, <1>10, <2>3, <2>4
  <1> QED
    BY <1>9, <1>10

(* del() erases the entry whose slot it has freed.                           *)
LEMMA EraseSlots ==
    ASSUME TypeInv, SlotInv, Follow, NEW c \in Clients, DelErase(c), Alone(c)
    PROVE  /\ SlotInv'
           /\ Accounted /\ (Dram(client[c].key) => index[client[c].key].at \in Free) => Accounted'
           /\ Follow'
           /\ \A k \in Keys : /\ Owned(k)' <=> k # client[c].key /\ Owned(k)
                              /\ Dram(k)' => Dram(k) /\ k # client[c].key
  <1>1. /\ At(c, "erase") /\ ListSame /\ client[c].key \in Keys
        /\ index' = [index EXCEPT ![client[c].key] = None]
        /\ Becomes(c, "forget", client[c].key, client[c].cost, client[c].entry, client[c].data)
    BY DelEraseDoes
  <1>2. PICK key \in Keys : key = client[c].key
    BY <1>1
  <1>3. index'[key] = None /\ \A k \in Keys : k # key => index'[k] = index[k]
    BY <1>1, <1>2 DEF TypeInv
  <1>4. \A d \in Clients : (Holds(d)' <=> Holds(d)) /\ (Holds(d) => SlotOf(d)' = SlotOf(d))
    <2>1. ~Holds(c) /\ ~Holds(c)'
      BY <1>1 DEF Becomes, Holds, At
    <2>2. \A d \in Clients : d # c => (Holds(d)' <=> Holds(d)) /\ SlotOf(d)' = SlotOf(d)
      BY <1>1, OthersHold
    <2> QED
      BY <2>1, <2>2
  <1>5. \A k \in Keys : Erasing(k) <=> k = key
    BY <1>1, <1>2 DEF Alone, At, Erasing
  <1>6. \A k \in Keys : ~Erasing(k)'
    BY <1>1 DEF Becomes, At, Alone, Erasing
  <1>7. /\ \A k \in Keys : (Owned(k)' => k # key /\ Owned(k)) /\ (k # key /\ Owned(k) => Owned(k)')
        /\ \A k \in Keys : (Dram(k)' => k # key /\ Dram(k)) /\ (k # key /\ Dram(k) => Dram(k)')
    BY <1>3, <1>5, <1>6 DEF Owned, Dram
  <1>8. Free' = Free /\ (FreeOnce' <=> FreeOnce)
    BY <1>1 DEF ListSame, Free, FreeOnce
  <1>9. SlotInv'
    <2>1. ASSUME NEW k \in Keys, Owned(k)'
          PROVE  Owned(k) /\ index'[k] = index[k]
      <3>1. k # key /\ Owned(k)
        BY <1>7, <2>1
      <3> QED
        BY <1>3, <3>1
    <2> QED
      BY <1>4, <1>8, <2>1 DEF SlotInv
  <1>10. Accounted /\ (Dram(key) => index[key].at \in Free) => Accounted'
    BY <1>3, <1>4, <1>7, <1>8 DEF Accounted
  <1>11. Follow'
    <2> SUFFICES ASSUME NEW d \in Clients, client'[d].pc \in {"demote", "update", "release"}
                 PROVE  index'[client'[d].key] = client'[d].entry
      BY DEF Follow
    <2>1. d # c /\ client'[d] = client[d]
      BY <1>1 DEF Becomes
    <2>2. client[d].pc \in {"demote", "update"} /\ client[d].key # key
      BY <1>1, <1>2, <2>1 DEF Alone, At
    <2>3. client[d].key \in Keys
      BY <2>2 DEF TypeInv, PcOK, WithKey, PCs
    <2> QED
      BY <1>3, <2>1, <2>2, <2>3 DEF Follow
  <1> QED
    BY <1>2, <1>7, <1>9, <1>10, <1>11

-----------------------------------------------------------------------------
(* Many clients that put and get *)

(* A step that neither begins nor ends an eviction nor stores a key          *)
LEMMA QuietTokens ==
    ASSUME TokenInv, NEW c \in Clients, NEW pc, NEW key, NEW cost, NEW entry, NEW data,
           Becomes(c, pc, key, cost, entry, data), IndexSame, t1' \subseteq t1,
           client[c].pc # "upsert",
           pc \in {"find", "demote", "update"} => client[c].pc \in {"find", "demote"} /\ key = client[c].key
    PROVE  TokenInv'
  <1>1. \A d \in Clients, k \in Keys : Chases(d, k)' => Chases(d, k)
    BY DEF Becomes, Chases
  <1>2. \A k \in Keys : Stored(k) => Stored(k)'
    <2>1. \A d \in Clients : At(d, "upsert") => At(d, "upsert")' /\ client'[d].key = client[d].key
      BY DEF Becomes, At
    <2> QED
      BY <2>1 DEF Stored, IndexSame
  <1>3. /\ \A d, f \in Clients, k \in Keys : Chases(d, k)' /\ Chases(f, k)' => d = f
        /\ \A d \in Clients, k \in Keys : Chases(d, k)' => k \notin t1'
        /\ \A d \in Clients, k \in Keys : Chases(d, k)' => Stored(k)'
    BY <1>1, <1>2 DEF TokenInv
  <1>4. \A k \in t1' : k \in Keys => Stored(k)'
    BY <1>2 DEF TokenInv
  <1>5. \A k \in t1' : k \notin Keys => Stored(k)'
    <2>1. \A k \in t1 : Stored(k)
      BY DEF TokenInv
    <2>2. \A d \in Clients : At(d, "upsert") => At(d, "upsert")' /\ client'[d].key = client[d].key
      BY DEF Becomes, At
    <2> QED
      BY <2>1, <2>2 DEF Stored, IndexSame
  <1> QED
    BY <1>3, <1>4, <1>5 DEF TokenInv

LEMMA CopyTokens ==
    ASSUME TypeInv, TokenInv, NEW c \in Clients, PutCopy(c), ~reput'
    PROVE  TokenInv'
  <1>1. /\ At(c, "copy") /\ IndexSame /\ t1' = t1 \cup {client[c].key}
        /\ Becomes(c, "upsert", client[c].key, client[c].cost, client[c].entry, client[c].data)
    BY PutCopyDoes
  <1>2. ~PutsAgain(c)
    BY PutCopyDoes
  <1>3. PICK key \in Keys : key = client[c].key
    BY <1>1 DEF TypeInv, PcOK, At, WithKey, PCs
  <1>4. ~Stored(key)
    BY <1>1, <1>2, <1>3 DEF PutsAgain, Stored, At
  <1>5. key \notin t1 /\ \A d \in Clients : ~Chases(d, key)
    BY <1>4 DEF TokenInv
  <1>6. \A d \in Clients, k \in Keys : Chases(d, k)' => Chases(d, k)
    BY <1>1 DEF Becomes, Chases
  <1>7. \A d \in Clients : At(d, "upsert") => At(d, "upsert")' /\ client'[d].key = client[d].key
    BY <1>1 DEF Becomes, At
  <1>8. \A k \in Keys : Stored(k) => Stored(k)'
    BY <1>1, <1>7 DEF Stored, IndexSame
  <1>9. Stored(key)'
    BY <1>1, <1>3 DEF Stored, Becomes, At
  <1>10. t1 \subseteq Keys
    BY DEF TypeInv
  <1> QED
    BY <1>1, <1>3, <1>5, <1>6, <1>8, <1>9, <1>10 DEF TokenInv

LEMMA UpsertTokens ==
    ASSUME TypeInv, TokenInv, NEW c \in Clients, PutUpsert(c)
    PROVE  TokenInv'
  <1>1. /\ TiersSame /\ client[c].entry \in Entry
        /\ index' = [index EXCEPT ![client[c].key] = client[c].entry]
        /\ Becomes(c, "check", None, 0, None, None)
    BY PutUpsertDoes
  <1>2. PICK key \in Keys : key = client[c].key
    BY PutUpsertDoes
  <1>3. index'[key] # None /\ \A k \in Keys : k # key => index'[k] = index[k]
    BY <1>1, <1>2, EntryFacts DEF TypeInv
  <1>4. \A d \in Clients, k \in Keys : Chases(d, k)' => Chases(d, k)
    BY <1>1 DEF Becomes, Chases
  <1>5. \A d \in Clients : d # c => client'[d] = client[d]
    BY <1>1 DEF Becomes
  <1>6. ASSUME NEW k \in Keys, Stored(k) PROVE Stored(k)'
    <2>1. CASE k = key
      BY <1>3, <2>1 DEF Stored
    <2>2. CASE k # key
      BY <1>2, <1>3, <1>5, <1>6, <2>2 DEF Stored, At
    <2> QED
      BY <2>1, <2>2
  <1>7. t1' = t1 /\ t1 \subseteq Keys
    BY <1>1 DEF TypeInv, TiersSame
  <1> QED
    BY <1>4, <1>6, <1>7 DEF TokenInv

LEMMA PickTokens ==
    ASSUME TypeInv, TokenInv, NEW c \in Clients, NEW key \in Keys, IndexSame,
           At(c, "pick"), EvictPicks(c, key)
    PROVE  TokenInv'
  <1>1. /\ key \in t1 /\ t1' = t1 \ {key}
        /\ Becomes(c, "find", key, client[c].cost, client[c].entry, client[c].data)
    BY DEF EvictPicks
  <1>2. \A d \in Clients : ~Chases(d, key)
    BY <1>1 DEF TokenInv
  <1>3. \A k \in Keys : Chases(c, k)' <=> k = key
    BY <1>1 DEF Becomes, Chases
  <1>4. \A d \in Clients, k \in Keys : d # c => (Chases(d, k)' <=> Chases(d, k))
    BY <1>1 DEF Becomes, Chases
  <1>5. \A d \in Clients : At(d, "upsert") => At(d, "upsert")' /\ client'[d].key = client[d].key
    BY <1>1 DEF Becomes, At
  <1>6. \A k \in Keys : Stored(k) => Stored(k)'
    BY <1>5 DEF Stored, IndexSame
  <1>7. t1 \subseteq Keys
    BY DEF TypeInv
  <1>8. \A d, f \in Clients, k \in Keys : Chases(d, k)' /\ Chases(f, k)' => d = f
    BY <1>2, <1>3, <1>4 DEF TokenInv
  <1>9. \A d \in Clients, k \in Keys : Chases(d, k)' => k \notin t1' /\ Stored(k)'
    BY <1>1, <1>3, <1>4, <1>6 DEF TokenInv
  <1>10. \A k \in t1' : Stored(k)'
    BY <1>1, <1>6, <1>7 DEF TokenInv
  <1> QED
    BY <1>8, <1>9, <1>10 DEF TokenInv

LEMMA UpdateTokens ==
    ASSUME TypeInv, TokenInv, NEW c \in Clients, EvictUpdate(c)
    PROVE  TokenInv'
  <1>1. /\ At(c, "update") /\ TiersSame
        /\ index' = [index EXCEPT ![client[c].key] = Demoted(c)]
        /\ Becomes(c, "free", client[c].key, client[c].cost, client[c].entry, client[c].data)
    BY EvictUpdateDoes
  <1>2. PICK key \in Keys : key = client[c].key
    BY EvictUpdateDoes
  <1>3. \A k \in Keys : k # key => index'[k] = index[k]
    BY <1>1, <1>2 DEF TypeInv
  <1>4. Chases(c, key)
    BY <1>1, <1>2 DEF Chases, At
  <1>5. \A d \in Clients : ~Chases(d, key)'
    <2>1. ~Chases(c, key)'
      BY <1>1 DEF Becomes, Chases
    <2>2. \A d \in Clients : d # c => ~Chases(d, key)
      BY <1>4 DEF TokenInv
    <2>3. \A d \in Clients : d # c => (Chases(d, key)' <=> Chases(d, key))
      BY <1>1 DEF Becomes, Chases
    <2> QED
      BY <2>1, <2>2, <2>3
  <1>6. key \notin t1
    BY <1>4 DEF TokenInv
  <1>7. \A d \in Clients, k \in Keys : Chases(d, k)' => Chases(d, k)
    BY <1>1 DEF Becomes, Chases
  <1>8. \A d \in Clients : At(d, "upsert") => At(d, "upsert")' /\ client'[d].key = client[d].key
    BY <1>1 DEF Becomes, At
  <1>9. \A k \in Keys : k # key /\ Stored(k) => Stored(k)'
    BY <1>3, <1>8 DEF Stored
  <1>10. t1' = t1 /\ t1 \subseteq Keys
    BY <1>1 DEF TypeInv, TiersSame
  <1> QED
    BY <1>5, <1>6, <1>7, <1>9, <1>10 DEF TokenInv

LEMMA ManyAlone ==
    ASSUME TypeInv, NoDelPc, Follow, TokenInv, NEW c \in Clients,
           At(c, "upsert") => ~PutsAgain(c)
    PROVE  Alone(c)
  <1>1. \A d \in Clients : client[d].pc \notin {"release", "erase"}
    BY DEF NoDelPc
  <1>2. ASSUME client[c].pc \in {"upsert", "update"}, NEW d \in Clients \ {c},
               client[d].pc \in {"demote", "update"}, client[d].key = client[c].key
        PROVE  FALSE
    <2>1. /\ client[d].key \in Keys /\ client[d].entry \in Entry
          /\ index[client[d].key] = client[d].entry
      BY <1>2 DEF TypeInv, PcOK, WithKey, PCs, Follow
    <2>2. index[client[c].key] # None
      BY <1>2, <2>1, EntryFacts
    <2>3. client[c].pc = "update"
      BY <1>2, <2>2 DEF PutsAgain, At
    <2>4. Chases(c, client[c].key) /\ Chases(d, client[c].key) /\ client[c].key \in Keys
      BY <1>2, <2>1, <2>3 DEF Chases
    <2> QED
      BY <1>2, <2>4 DEF TokenInv
  <1> QED
    BY <1>1, <1>2 DEF Alone

LEMMA NoDelPcStep ==
    ASSUME NoDelPc, NEW c \in Clients, NEW pc, NEW key, NEW cost, NEW entry, NEW data,
           Becomes(c, pc, key, cost, entry, data), pc \notin {"release", "erase", "forget"}
    PROVE  NoDelPc'
  BY DEF NoDelPc, Becomes

LEMMA ManyQuiet ==
    ASSUME ManyInv, TypeInv', NEW c \in Clients,
           NEW pc, NEW key, NEW cost, NEW entry, NEW data,
           Becomes(c, pc, key, cost, entry, data), IndexSame, ListSame, t1' \subseteq t1, reput' = reput,
           client[c].pc \notin {"copy", "upsert", "free", "erase"},
           pc \notin {"copy", "free", "release", "erase", "forget"},
           pc = "upsert" => entry.tier # "t1",
           pc \in {"find", "demote", "update"} => client[c].pc \in {"find", "demote"} /\ key = client[c].key,
           Follow /\ pc \in {"demote", "update"} => index[key] = entry
    PROVE  ManyInv'
  <1>1. NoDelPc'
    BY NoDelPcStep DEF ManyInv
  <1>2. ASSUME ~reput'
        PROVE  SlotInv' /\ Follow' /\ Accounted' /\ TokenInv'
    <2>1. SlotInv /\ Follow /\ Accounted /\ TokenInv
      BY <1>2 DEF ManyInv
    <2>2. SlotInv' /\ Accounted'
      BY <2>1, QuietSlots
    <2>3. Follow'
      BY <2>1, QuietFollow
    <2>4. TokenInv'
      BY <2>1, QuietTokens
    <2> QED
      BY <2>2, <2>3, <2>4
  <1> QED
    BY <1>1, <1>2 DEF ManyInv

LEMMA ManyStep ==
    ASSUME NoDels, ManyInv, NEW c \in Clients, Step(c)
    PROVE  ManyInv'
  <1>1. TypeInv /\ NoDelPc
    BY DEF ManyInv
  <1>2. CASE PutAllocate(c)
    <2>1. /\ TypeInv' /\ At(c, "allocate") /\ IndexSame /\ TiersSame /\ RestSame
          /\ \/ Becomes(c, "write", client[c].key, client[c].cost, client[c].entry, client[c].data)
                /\ ListSame
             \/ PutAllocates(c)
      BY <1>1, <1>2, PutAllocateDoes
    <2>2. CASE Becomes(c, "write", client[c].key, client[c].cost, client[c].entry, client[c].data)
               /\ ListSame
      BY <2>1, <2>2, ManyQuiet DEF At, TiersSame, RestSame
    <2>3. CASE PutAllocates(c)
      <3>1. Becomes(c, "copy", client[c].key, client[c].cost,
                    InDram(freeList[Len(freeList)], client[c].cost), client[c].data)
        BY <2>3 DEF PutAllocates
      <3>2. NoDelPc'
        BY <1>1, <3>1, NoDelPcStep
      <3>3. ASSUME ~reput'
            PROVE  SlotInv' /\ Follow' /\ Accounted' /\ TokenInv'
        <4>1. SlotInv /\ Follow /\ Accounted /\ TokenInv
          BY <2>1, <3>3 DEF ManyInv, RestSame
        <4>2. SlotInv' /\ Accounted' /\ Follow'
          BY <1>1, <2>1, <2>3, <4>1, AllocateSlots
        <4>3. TokenInv'
          BY <2>1, <3>1, <4>1, QuietTokens DEF At, TiersSame
        <4> QED
          BY <4>2, <4>3
      <3> QED
        BY <2>1, <3>2, <3>3 DEF ManyInv
    <2> QED
      BY <2>1, <2>2, <2>3
  <1>3. CASE PutCopy(c)
    <2>1. /\ TypeInv' /\ At(c, "copy") /\ IndexSame /\ ListSame
          /\ Becomes(c, "upsert", client[c].key, client[c].cost, client[c].entry, client[c].data)
      BY <1>1, <1>3, PutCopyDoes
    <2>2. reput' = (reput \/ PutsAgain(c))
      BY <1>1, <1>3, PutCopyDoes
    <2>3. NoDelPc'
      BY <1>1, <2>1, NoDelPcStep
    <2>4. ASSUME ~reput'
          PROVE  SlotInv' /\ Follow' /\ Accounted' /\ TokenInv'
      <3>1. ~reput
        BY <2>2, <2>4
      <3>2. SlotInv /\ Follow /\ Accounted /\ TokenInv
        BY <3>1 DEF ManyInv
      <3>3. SlotInv' /\ Accounted'
        BY <2>1, <3>2, QuietSlots DEF At
      <3>4. Follow'
        BY <2>1, <3>2, QuietFollow
      <3>5. TokenInv'
        BY <1>1, <1>3, <2>4, <3>2, CopyTokens
      <3> QED
        BY <3>3, <3>4, <3>5
    <2> QED
      BY <2>1, <2>3, <2>4 DEF ManyInv
  <1>4. CASE PutWrite(c)
    <2>1. /\ TypeInv' /\ At(c, "write") /\ IndexSame /\ ListSame /\ RestSame /\ t1' = t1
          /\ \/ Becomes(c, "upsert", client[c].key, client[c].cost,
                        OnNvme(client[c].key, client[c].cost), client[c].data)
             \/ Becomes(c, "idle", None, 0, None, None)
      BY <1>1, <1>4, PutWriteDoes
    <2>2. OnNvme(client[c].key, client[c].cost).tier # "t1"
      BY DEF OnNvme
    <2>3. t1' \subseteq t1 /\ reput' = reput
      BY <2>1 DEF RestSame
    <2>4. CASE Becomes(c, "upsert", client[c].key, client[c].cost,
                       OnNvme(client[c].key, client[c].cost), client[c].data)
      BY <2>1, <2>2, <2>3, <2>4, ManyQuiet DEF At
    <2>5. CASE Becomes(c, "idle", None, 0, None, None)
      BY <2>1, <2>3, <2>5, ManyQuiet DEF At
    <2> QED
      BY <2>1, <2>4, <2>5
  <1>5. CASE PutUpsert(c)
    <2>1. /\ TypeInv' /\ At(c, "upsert")
          /\ Becomes(c, "check", None, 0, None, None)
      BY <1>1, <1>5, PutUpsertDoes
    <2>2. reput' = (reput \/ PutsAgain(c))
      BY <1>1, <1>5, PutUpsertDoes
    <2>3. NoDelPc'
      BY <1>1, <2>1, NoDelPcStep
    <2>4. ASSUME ~reput'
          PROVE  SlotInv' /\ Follow' /\ Accounted' /\ TokenInv'
      <3>1. ~reput /\ ~PutsAgain(c)
        BY <2>2, <2>4
      <3>2. SlotInv /\ Follow /\ Accounted /\ TokenInv
        BY <3>1 DEF ManyInv
      <3>3. Alone(c)
        BY <1>1, <3>1, <3>2, ManyAlone
      <3>4. index[client[c].key] = None
        BY <3>1 DEF PutsAgain
      <3>5. SlotInv' /\ Accounted' /\ Follow'
        BY <1>1, <1>5, <3>2, <3>3, <3>4, UpsertSlots
      <3>6. TokenInv'
        BY <1>1, <1>5, <3>2, UpsertTokens
      <3> QED
        BY <3>5, <3>6
    <2> QED
      BY <2>1, <2>3, <2>4 DEF ManyInv
  <1>6. CASE EvictCheck(c)
    <2>1. /\ TypeInv' /\ At(c, "check") /\ AllSame
          /\ \/ Becomes(c, "pick", client[c].key, client[c].cost, client[c].entry, client[c].data)
             \/ Becomes(c, "idle", None, 0, None, None)
      BY <1>1, <1>6, EvictCheckDoes
    <2> QED
      BY <2>1, ManyQuiet DEF At, AllSame, TiersSame, RestSame
  <1>7. CASE EvictPick(c)
    <2>1. /\ TypeInv' /\ At(c, "pick") /\ IndexSame /\ ListSame /\ RestSame
          /\ \/ t1' = t1 /\ Becomes(c, "idle", None, 0, None, None)
             \/ \E k \in Keys : EvictPicks(c, k)
      BY <1>1, <1>7, EvictPickDoes
    <2>2. CASE t1' = t1 /\ Becomes(c, "idle", None, 0, None, None)
      BY <2>1, <2>2, ManyQuiet DEF At, RestSame
    <2>3. CASE \E k \in Keys : EvictPicks(c, k)
      <3>1. PICK k \in Keys : EvictPicks(c, k)
        BY <2>3
      <3>2. Becomes(c, "find", k, client[c].cost, client[c].entry, client[c].data)
        BY <3>1 DEF EvictPicks
      <3>3. NoDelPc'
        BY <1>1, <3>2, NoDelPcStep
      <3>4. ASSUME ~reput'
            PROVE  SlotInv' /\ Follow' /\ Accounted' /\ TokenInv'
        <4>1. SlotInv /\ Follow /\ Accounted /\ TokenInv
          BY <2>1, <3>4 DEF ManyInv, RestSame
        <4>2. SlotInv' /\ Accounted'
          BY <2>1, <3>2, <4>1, QuietSlots DEF At
        <4>3. Follow'
          BY <2>1, <3>2, <4>1, QuietFollow
        <4>4. TokenInv'
          BY <1>1, <2>1, <3>1, <4>1, PickTokens
        <4> QED
          BY <4>2, <4>3, <4>4
      <3> QED
        BY <2>1, <3>3, <3>4 DEF ManyInv
    <2> QED
      BY <2>1, <2>2, <2>3
  <1>8. CASE EvictFind(c)
    <2>1. /\ TypeInv' /\ At(c, "find") /\ AllSame
          /\ \/ Becomes(c, "check", None, 0, None, None)
             \/ EvictFinds(c)
      BY <1>1, <1>8, EvictFindDoes
    <2>2. CASE Becomes(c, "check", None, 0, None, None)
      BY <2>1, <2>2, ManyQuiet DEF At, AllSame, TiersSame, RestSame
    <2>3. CASE EvictFinds(c)
      <3>1. PICK pc \in {"demote", "update"} :
               Becomes(c, pc, client[c].key, client[c].cost, index[client[c].key], client[c].data)
        BY <2>3 DEF EvictFinds
      <3> QED
        BY <2>1, <3>1, ManyQuiet DEF At, AllSame, TiersSame, RestSame
    <2> QED
      BY <2>1, <2>2, <2>3
  <1>9. CASE EvictDemote(c)
    <2>1. TypeInv' /\ At(c, "demote") /\ AllSame
      BY <1>1, <1>9, EvictDemoteDoes
    <2>2. PICK data \in {mem[client[c].entry.at], None} :
             Becomes(c, "update", client[c].key, client[c].cost, client[c].entry, data)
      BY <1>1, <1>9, EvictDemoteDoes
    <2>3. Follow => index[client[c].key] = client[c].entry
      BY <2>1 DEF Follow, At
    <2> QED
      BY <2>1, <2>2, <2>3, ManyQuiet DEF At, AllSame, TiersSame, RestSame
  <1>10. CASE EvictUpdate(c)
    <2>1. /\ TypeInv' /\ At(c, "update") /\ RestSame
          /\ Becomes(c, "free", client[c].key, client[c].cost, client[c].entry, client[c].data)
      BY <1>1, <1>10, EvictUpdateDoes
    <2>2. NoDelPc'
      BY <1>1, <2>1, NoDelPcStep
    <2>3. ASSUME ~reput'
          PROVE  SlotInv' /\ Follow' /\ Accounted' /\ TokenInv'
      <3>1. SlotInv /\ Follow /\ Accounted /\ TokenInv
        BY <2>1, <2>3 DEF ManyInv, RestSame
      <3>2. Alone(c)
        BY <1>1, <2>1, <3>1, ManyAlone DEF At
      <3>3. SlotInv' /\ Accounted' /\ Follow'
        BY <1>1, <1>10, <3>1, <3>2, UpdateSlots
      <3>4. TokenInv'
        BY <1>1, <1>10, <3>1, UpdateTokens
      <3> QED
        BY <3>3, <3>4
    <2> QED
      BY <2>1, <2>2, <2>3 DEF ManyInv
  <1>11. CASE EvictFree(c)
    <2>1. /\ TypeInv' /\ At(c, "free") /\ IndexSame /\ RestSame /\ t1' = t1
          /\ Becomes(c, "check", None, 0, None, None)
      BY <1>1, <1>11, EvictFreeDoes
    <2>2. NoDelPc'
      BY <1>1, <2>1, NoDelPcStep
    <2>3. ASSUME ~reput'
          PROVE  SlotInv' /\ Follow' /\ Accounted' /\ TokenInv'
      <3>1. SlotInv /\ Follow /\ Accounted /\ TokenInv
        BY <2>1, <2>3 DEF ManyInv, RestSame
      <3>2. SlotInv' /\ Accounted' /\ Follow'
        BY <1>1, <1>11, <3>1, FreeSlots
      <3>3. TokenInv'
        BY <2>1, <3>1, QuietTokens DEF At
      <3> QED
        BY <3>2, <3>3
    <2> QED
      BY <2>1, <2>2, <2>3 DEF ManyInv
  <1>12. CASE GetLoad(c)
    <2>1. /\ TypeInv' /\ At(c, "load") /\ AllSame
          /\ \/ Becomes(c, "got", client[c].key, client[c].cost, client[c].entry, Loaded(c))
             \/ Becomes(c, "idle", None, 0, None, None)
      BY <1>1, <1>12, GetLoadDoes
    <2> QED
      BY <2>1, ManyQuiet DEF At, AllSame, TiersSame, RestSame
  <1>13. CASE GetReturn(c)
    <2>1. TypeInv' /\ At(c, "got") /\ AllSame /\ Becomes(c, "idle", None, 0, None, None)
      BY <1>1, <1>13, GetReturnDoes
    <2> QED
      BY <2>1, ManyQuiet DEF At, AllSame, TiersSame, RestSame
  <1>14. CASE DelRelease(c) \/ DelErase(c) \/ DelForget(c)
    BY <1>1, <1>14 DEF NoDelPc, DelRelease, DelErase, DelForget, At
  <1> QED
    BY <1>2, <1>3, <1>4, <1>5, <1>6, <1>7, <1>8, <1>9, <1>10, <1>11, <1>12, <1>13, <1>14 DEF Step

LEMMA ManyBegin ==
    ASSUME NoDels, ManyInv, NEW c \in Clients,
           \/ \E k \in Keys, isSystemPrompt \in BOOLEAN, cost \in Costs : PutCall(c, k, isSystemPrompt, cost)
           \/ \E k \in Keys : GetFind(c, k) \/ DelFind(c, k)
    PROVE  ManyInv'
  <1>1. TypeInv
    BY DEF ManyInv
  <1>2. ASSUME NEW k \in Keys, NEW isSystemPrompt \in BOOLEAN, NEW cost \in Costs,
               PutCall(c, k, isSystemPrompt, cost)
        PROVE  ManyInv'
    <2>1. TypeInv' /\ At(c, "idle") /\ Becomes(c, "allocate", k, cost, None, None) /\ AllSame
      BY <1>1, <1>2, PutCallDoes
    <2> QED
      BY <2>1, ManyQuiet DEF At, AllSame, TiersSame, RestSame
  <1>3. ASSUME NEW k \in Keys, GetFind(c, k)
        PROVE  ManyInv'
    <2>1. TypeInv' /\ At(c, "idle") /\ AllSame /\ Becomes(c, "load", k, 0, index[k], None)
      BY <1>1, <1>3, GetFindDoes
    <2> QED
      BY <2>1, ManyQuiet DEF At, AllSame, TiersSame, RestSame
  <1>4. \A k \in Keys : ~DelFind(c, k)
    BY DEF NoDels, DelFind
  <1> QED
    BY <1>2, <1>3, <1>4

LEMMA Stutter ==
    ASSUME UNCHANGED vars
    PROVE  /\ AllSame /\ client' = client
           /\ (TypeInv => TypeInv') /\ (SlotInv => SlotInv') /\ (Follow => Follow')
           /\ (Accounted => Accounted')
  <1>1. AllSame /\ client' = client
    BY DEF vars, AllSame, IndexSame, ListSame, TiersSame, RestSame
  <1>2. /\ index' = index /\ freeList' = freeList /\ mem' = mem /\ t1' = t1 /\ t2' = t2
        /\ reput' = reput /\ client' = client
    BY <1>1 DEF AllSame, IndexSame, ListSame, TiersSame, RestSame
  <1>3. TypeInv => TypeInv'
    BY <1>2 DEF TypeInv
  <1>4. Free' = Free /\ (FreeOnce' <=> FreeOnce)
    BY <1>2 DEF Free, FreeOnce
  <1>5. \A c \in Clients : (Holds(c)' <=> Holds(c)) /\ SlotOf(c)' = SlotOf(c)
    BY <1>2 DEF Holds, SlotOf
  <1>6. \A k \in Keys : (Owned(k)' <=> Owned(k)) /\ (Dram(k)' <=> Dram(k)) /\ index'[k] = index[k]
    BY <1>2 DEF Owned, Dram, Erasing, At
  <1>7. SlotInv => SlotInv'
    BY <1>4, <1>5, <1>6 DEF SlotInv
  <1>8. Accounted => Accounted'
    BY <1>4, <1>5, <1>6 DEF Accounted
  <1>9. Follow => Follow'
    BY <1>2 DEF Follow
  <1> QED
    BY <1>1, <1>3, <1>7, <1>8, <1>9

LEMMA ManyNext ==
    ASSUME NoDels, ManyInv, [Next]_vars
    PROVE  ManyInv'
  <1>1. CASE Next
    <2>1. PICK c \in Clients :
             \/ \E k \in Keys, isSystemPrompt \in BOOLEAN, cost \in Costs : PutCall(c, k, isSystemPrompt, cost)
             \/ \E k \in Keys : GetFind(c, k) \/ DelFind(c, k)
             \/ Step(c)
      BY <1>1 DEF Next
    <2> QED
      BY <2>1, ManyStep, ManyBegin
  <1>2. CASE UNCHANGED vars
    <2>1. /\ (TypeInv => TypeInv') /\ (SlotInv => SlotInv') /\ (Follow => Follow')
          /\ (Accounted => Accounted')
      BY <1>2, Stutter
    <2>2. client' = client /\ index' = index /\ t1' = t1 /\ reput' = reput
      BY <1>2 DEF vars
    <2>3. (NoDelPc => NoDelPc') /\ (TokenInv => TokenInv')
      BY <2>2 DEF NoDelPc, TokenInv, Chases, Stored, At
    <2> QED
      BY <2>1, <2>2, <2>3 DEF ManyInv
  <1> QED
    BY <1>1, <1>2

LEMMA InitSlots ==
    ASSUME Init
    PROVE  /\ TypeInv /\ SlotInv /\ Follow /\ Accounted /\ reput = FALSE
           /\ \A c \in Clients : At(c, "idle")
           /\ \A k \in Keys : index[k] = None
           /\ t1 = {}
  <1>1. \A c \in Clients : client[c] = Idle
    BY DEF Init
  <1>2. Idle \in ClientState /\ PcOK(Idle) /\ Idle.pc = "idle"
    BY DEF Idle, ClientState, PCs, PcOK, WithKey
  <1>3. \A k \in Keys : index[k] = None
    BY DEF Init
  <1>4. NumSlots \in Nat
    BY EngineAssumption
  <1>5. freeList \in Seq(Slots) /\ DOMAIN freeList = Slots /\ \A s \in Slots : freeList[s] = s
    BY <1>4 DEF Init, Slots
  <1>6. TypeInv
    <2>1. client = [c \in Clients |-> Idle]
      BY DEF Init
    <2>2. client \in [Clients -> ClientState] /\ \A c \in Clients : PcOK(client[c])
      BY <1>2, <2>1
    <2>3. /\ index \in [Keys -> Entry \cup {None}] /\ mem \in [Slots -> Keys \cup {None}]
          /\ t1 \subseteq Keys /\ t2 \subseteq Keys /\ reput \in BOOLEAN
      BY DEF Init
    <2> QED
      BY <1>5, <2>2, <2>3 DEF TypeInv
  <1>7. Free = Slots /\ FreeOnce
    BY <1>5 DEF Free, FreeOnce
  <1>8. \A c \in Clients : client[c].pc = "idle" /\ ~Holds(c)
    BY <1>1, <1>2 DEF Holds
  <1>9. \A k \in Keys : ~Owned(k)
    BY <1>3 DEF Owned, Dram
  <1>10. SlotInv
    BY <1>7, <1>8, <1>9 DEF SlotInv
  <1>11. Follow
    BY <1>8 DEF Follow
  <1>12. Accounted
    BY <1>7 DEF Accounted
  <1> QED
    BY <1>3, <1>6, <1>8, <1>10, <1>11, <1>12 DEF Init, At

LEMMA ManyInvariant ==
    ASSUME NoDels
    PROVE  Spec => []ManyInv
  <1>1. Init => ManyInv
    <2> SUFFICES ASSUME Init PROVE ManyInv
      OBVIOUS
    <2>1. NoDelPc
      BY InitSlots DEF NoDelPc, At
    <2>2. TokenInv
      BY InitSlots DEF TokenInv, Chases, At
    <2> QED
      BY <2>1, <2>2, InitSlots DEF ManyInv
  <1>2. ManyInv /\ [Next]_vars => ManyInv'
    BY ManyNext
  <1> QED
    BY <1>1, <1>2, PTL DEF Spec

(* A set with no two members has one or none.                                *)
LEMMA AtMostOne ==
    ASSUME NEW S, \A x, y \in S : x = y
    PROVE  Cardinality(S) \in {0, 1} /\ (S = {} => Cardinality(S) = 0)
  <1>1. CASE S = {}
    BY <1>1, FS_EmptySet
  <1>2. CASE S # {}
    <2>1. PICK x : x \in S
      BY <1>2
    <2>2. S = {x}
      BY <2>1
    <2> QED
      BY <1>2, <2>2, FS_Singleton
  <1> QED
    BY <1>1, <1>2

LEMMA SlotInvSuffices ==
    SlotInv => SlotOwned
  <1> SUFFICES ASSUME SlotInv, NEW s \in Slots
               PROVE  Cardinality(IsFree(s)) + Cardinality(InCall(s))
                        + Cardinality({k \in InIndex(s) : \A c \in Clients : ~(At(c, "erase") /\ client[c].key = k)})
                          <= 1
    BY DEF SlotOwned
  <1> DEFINE A == IsFree(s)
  <1> DEFINE B == InCall(s)
  <1> DEFINE C == {k \in InIndex(s) : \A c \in Clients : ~(At(c, "erase") /\ client[c].key = k)}
  <1>1. (A # {} => s \in Free) /\ \A x, y \in A : x = y
    BY DEF IsFree, Free, SlotInv, FreeOnce
  <1>2. \A c \in B : c \in Clients /\ Holds(c) /\ SlotOf(c) = s
    BY DEF InCall, Holds, SlotOf
  <1>3. \A k \in C : k \in Keys /\ Owned(k) /\ index[k].at = s
    BY DEF InIndex, Owned, Dram, Erasing
  <1> HIDE DEF A, B, C
  <1>4. \A x, y \in B : x = y
    BY <1>2 DEF SlotInv
  <1>5. \A x, y \in C : x = y
    BY <1>3 DEF SlotInv
  <1>6. (A = {} \/ B = {}) /\ (A = {} \/ C = {}) /\ (B = {} \/ C = {})
    <2>1. A = {} \/ B = {}
      BY <1>1, <1>2 DEF SlotInv
    <2>2. A = {} \/ C = {}
      BY <1>1, <1>3 DEF SlotInv
    <2>3. B = {} \/ C = {}
      BY <1>2, <1>3 DEF SlotInv
    <2> QED
      BY <2>1, <2>2, <2>3
  <1>7. Cardinality(A) \in {0, 1} /\ (A = {} => Cardinality(A) = 0)
    BY <1>1, AtMostOne
  <1>8. Cardinality(B) \in {0, 1} /\ (B = {} => Cardinality(B) = 0)
    BY <1>4, AtMostOne
  <1>9. Cardinality(C) \in {0, 1} /\ (C = {} => Cardinality(C) = 0)
    BY <1>5, AtMostOne
  <1>10. Cardinality(A) + Cardinality(B) + Cardinality(C) <= 1
    BY <1>6, <1>7, <1>8, <1>9
  <1> QED
    BY <1>10 DEF A, B, C

LEMMA AccountedSuffices ==
    ASSUME Accounted, NEW s \in Slots
    PROVE  IsFree(s) # {} \/ InCall(s) # {} \/ InIndex(s) # {}
  <1>1. CASE s \in Free
    BY <1>1 DEF Free, IsFree
  <1>2. CASE \E c \in Clients : Holds(c) /\ SlotOf(c) = s
    BY <1>2 DEF Holds, SlotOf, InCall
  <1>3. CASE \E k \in Keys : Dram(k) /\ index[k].at = s
    BY <1>3 DEF Dram, InIndex
  <1> QED
    BY <1>1, <1>2, <1>3 DEF Accounted

(* Any number of clients that put() and get(), with the evictions that       *)
(* evict_if_needed() makes between their steps, give no DRAM slot two uses,  *)
(* unless a key was put that the index had or that another put() was storing.*)
THEOREM PutsOwnSlots ==
    ASSUME NoDels
    PROVE  Spec => []SlotOwnedOncePut
  <1>1. ManyInv => SlotOwnedOncePut
    BY SlotInvSuffices DEF ManyInv, SlotOwnedOncePut
  <1> QED
    BY <1>1, ManyInvariant, PTL

(* Nor do they lose a slot.                                                  *)
THEOREM PutsKeepSlots ==
    ASSUME NoDels
    PROVE  Spec => []SlotsAccounted
  <1>1. ManyInv => SlotsAccounted
    BY AccountedSuffices DEF ManyInv, SlotsAccounted
  <1> QED
    BY <1>1, ManyInvariant, PTL

-----------------------------------------------------------------------------
(* One client that makes all calls *)

LEMMA OneAlone ==
    ASSUME OneClient, NEW c \in Clients
    PROVE  Alone(c)
  BY DEF OneClient, Alone

LEMMA OneQuiet ==
    ASSUME OneClient, OneInv, TypeInv', NEW c \in Clients,
           NEW pc, NEW key, NEW cost, NEW entry, NEW data,
           Becomes(c, pc, key, cost, entry, data), IndexSame, ListSame, mem' = mem, reput' = reput,
           client[c].pc \notin {"copy", "upsert", "free", "erase"},
           pc \notin {"copy", "free", "erase", "forget"},
           pc \in {"demote", "update", "release", "load"} => index[key] = entry,
           pc = "upsert" => entry.tier = "t2" /\ entry.at = key,
           pc = "update" => data \in {None, key},
           pc = "got" => data = key,
           \A k \in Keys : Dram(k) => k \in t1' \/ (pc \in {"find", "demote", "update"} /\ key = k)
    PROVE  OneInv'
  <1>1. SlotInv /\ Follow /\ OneFollow /\ Tracked /\ MemInv /\ (~reput => Accounted)
    BY DEF OneInv
  <1>2. \A d \in Clients : d = c
    BY DEF OneClient
  <1>3. /\ client'[c].pc = pc /\ client'[c].key = key /\ client'[c].entry = entry /\ client'[c].data = data
    BY DEF Becomes
  <1>4. pc = "upsert" => entry.tier # "t1"
    OBVIOUS
  <1>5. /\ SlotInv' /\ (Accounted => Accounted')
        /\ \A k \in Keys : (Owned(k)' <=> Owned(k)) /\ (Dram(k)' <=> Dram(k))
    BY <1>1, <1>4, QuietSlots
  <1>6. Follow'
    BY <1>1, QuietFollow
  <1>7. OneFollow'
    <2> SUFFICES ASSUME NEW d \in Clients
                 PROVE  /\ client'[d].pc \in {"load", "erase"} => index'[client'[d].key] = client'[d].entry
                        /\ client'[d].pc # "erase" /\ client'[d].pc # "forget"
      BY DEF OneFollow, At
    <2> QED
      BY <1>2, <1>3 DEF IndexSame
  <1>8. Tracked'
    <2>1. \A k \in Keys : Dram(k)' => k \in t1' \/ Chases(c, k)'
      BY <1>3, <1>5 DEF Chases
    <2>2. \A d \in Clients : At(d, "upsert")' => client'[d].entry.tier # "t1"
      BY <1>2, <1>3, <1>4 DEF At
    <2> QED
      BY <2>1, <2>2 DEF Tracked
  <1>9. MemInv'
    <2>1. \A k \in Keys : Owned(k)' => mem'[index'[k].at] = k
      BY <1>1, <1>5 DEF MemInv, IndexSame
    <2>2. \A k \in Keys : index'[k] # None /\ index'[k].tier = "t2" => index'[k].at = k
      BY <1>1 DEF MemInv, IndexSame
    <2>3. ASSUME NEW d \in Clients
          PROVE  /\ At(d, "upsert")' => client'[d].entry.tier # "t1" /\ client'[d].entry.at = client'[d].key
                 /\ At(d, "update")' => client'[d].data \in {None, client'[d].key}
                 /\ At(d, "got")' => client'[d].data = client'[d].key
      BY <1>2, <1>3, <1>4 DEF At
    <2> QED
      BY <2>1, <2>2, <2>3 DEF MemInv
  <1> QED
    BY <1>1, <1>5, <1>6, <1>7, <1>8, <1>9 DEF OneInv

(* What the index has of the key that the client acts on                     *)
LEMMA OneReads ==
    ASSUME OneClient, OneInv, NEW c \in Clients, client[c].pc \in {"demote", "load"}
    PROVE  /\ client[c].key \in Keys /\ client[c].entry \in Entry
           /\ index[client[c].key] = client[c].entry
           /\ Loaded(c) = client[c].key
  <1>1. client[c].key \in Keys /\ client[c].entry \in Entry
    BY DEF OneInv, TypeInv, PcOK, WithKey, PCs
  <1>2. index[client[c].key] = client[c].entry
    BY DEF OneInv, Follow, OneFollow
  <1>3. PICK key \in Keys : key = client[c].key
    BY <1>1
  <1>4. ~Erasing(key)
    BY DEF OneClient, Erasing, At
  <1>5. index[key] # None /\ (index[key].tier = "t1" \/ index[key].tier = "t2")
    BY <1>1, <1>2, <1>3, EntryFacts
  <1>6. MemInv
    BY DEF OneInv
  <1>7. CASE index[key].tier = "t1"
    <2>1. Owned(key)
      BY <1>4, <1>5, <1>7 DEF Owned, Dram
    <2>2. mem[index[key].at] = key
      BY <1>6, <2>1 DEF MemInv
    <2> QED
      BY <1>1, <1>2, <1>3, <1>7, <2>2 DEF Loaded
  <1>8. CASE index[key].tier = "t2"
    <2>1. index[key].at = key
      BY <1>5, <1>6, <1>8 DEF MemInv
    <2> QED
      BY <1>1, <1>2, <1>3, <1>8, <2>1 DEF Loaded
  <1> QED
    BY <1>5, <1>7, <1>8

(* The keys in DRAM stay tracked when the policy keeps its keys.             *)
LEMMA OneTracked ==
    ASSUME OneClient, OneInv, NEW c \in Clients, client[c].pc \notin {"find", "demote", "update"}
    PROVE  \A k \in Keys : Dram(k) => k \in t1
  <1>1. \A d \in Clients, k \in Keys : ~Chases(d, k)
    BY DEF OneClient, Chases
  <1> QED
    BY <1>1 DEF OneInv, Tracked

LEMMA OneAllocate ==
    ASSUME OneClient, OneInv, NEW c \in Clients, PutAllocate(c)
    PROVE  OneInv'
  <1>1. TypeInv /\ SlotInv /\ Follow /\ MemInv /\ (~reput => Accounted)
    BY DEF OneInv
  <1>2. /\ TypeInv' /\ At(c, "allocate") /\ IndexSame /\ TiersSame /\ RestSame
        /\ \/ Becomes(c, "write", client[c].key, client[c].cost, client[c].entry, client[c].data)
              /\ ListSame
           \/ PutAllocates(c)
    BY <1>1, PutAllocateDoes
  <1>3. \A k \in Keys : Dram(k) => k \in t1'
    BY <1>2, OneTracked DEF At, TiersSame
  <1>4. CASE Becomes(c, "write", client[c].key, client[c].cost, client[c].entry, client[c].data) /\ ListSame
    BY <1>2, <1>3, <1>4, OneQuiet DEF At, RestSame
  <1>5. CASE PutAllocates(c)
    <2>1. /\ SlotInv' /\ (Accounted => Accounted') /\ Follow'
          /\ \A k \in Keys : (Owned(k)' <=> Owned(k)) /\ (Dram(k)' <=> Dram(k))
      BY <1>1, <1>2, <1>5, AllocateSlots
    <2>2. client'[c].pc = "copy"
      BY <1>5 DEF PutAllocates, Becomes
    <2>3. \A d \in Clients : client'[d].pc = "copy"
      BY <2>2 DEF OneClient
    <2>4. OneFollow'
      BY <2>3 DEF OneFollow, At
    <2>5. Tracked'
      BY <1>3, <2>1, <2>3 DEF Tracked, At
    <2>6. MemInv'
      BY <1>1, <1>2, <2>1, <2>3 DEF MemInv, At, IndexSame, RestSame
    <2> QED
      BY <1>1, <1>2, <2>1, <2>4, <2>5, <2>6 DEF OneInv, RestSame
  <1> QED
    BY <1>2, <1>4, <1>5

LEMMA OneCopy ==
    ASSUME OneClient, OneInv, NEW c \in Clients, PutCopy(c)
    PROVE  OneInv'
  <1>1. TypeInv /\ SlotInv /\ Follow /\ MemInv /\ (~reput => Accounted)
    BY DEF OneInv
  <1>2. /\ TypeInv' /\ At(c, "copy") /\ IndexSame /\ ListSame
        /\ Becomes(c, "upsert", client[c].key, client[c].cost, client[c].entry, client[c].data)
        /\ mem' = [mem EXCEPT ![client[c].entry.at] = client[c].key]
        /\ t1' = t1 \cup {client[c].key}
    BY <1>1, PutCopyDoes
  <1>3. ~reput' => ~reput
    <2>1. reput' = (reput \/ PutsAgain(c))
      BY <1>1, PutCopyDoes
    <2> QED
      BY <2>1
  <1>4. /\ SlotInv' /\ (Accounted => Accounted')
        /\ \A k \in Keys : (Owned(k)' <=> Owned(k)) /\ (Dram(k)' <=> Dram(k))
    BY <1>1, <1>2, QuietSlots DEF At
  <1>5. Follow'
    BY <1>1, <1>2, QuietFollow
  <1>6. \A k \in Keys : Dram(k) => k \in t1
    BY <1>2, OneTracked DEF At
  <1>7. /\ client'[c].pc = "upsert" /\ client'[c].key = client[c].key
        /\ client'[c].entry = client[c].entry
    BY <1>2 DEF Becomes
  <1>8. \A d \in Clients : d = c
    BY DEF OneClient
  <1>9. client[c].entry \in Entry /\ client[c].entry.tier = "t1"
    BY <1>1, <1>2 DEF TypeInv, PcOK, At
  <1>10. client[c].entry.at \in Slots /\ client[c].entry # None
    BY <1>9, EntryFacts
  <1>11. OneFollow'
    BY <1>7, <1>8 DEF OneFollow, At
  <1>12. Tracked'
    BY <1>2, <1>4, <1>6, <1>7, <1>8 DEF Tracked, At
  <1>13. MemInv'
    <2>1. mem'[client[c].entry.at] = client[c].key /\ \A s \in Slots : s # client[c].entry.at => mem'[s] = mem[s]
      BY <1>1, <1>2, <1>10 DEF TypeInv
    <2>2. Holds(c) /\ SlotOf(c) = client[c].entry.at
      BY <1>2, <1>9, <1>10 DEF Holds, SlotOf, At
    <2>3. ASSUME NEW k \in Keys, Owned(k)' PROVE mem'[index'[k].at] = k
      <3>1. Owned(k) /\ index'[k] = index[k]
        BY <1>2, <1>4, <2>3 DEF IndexSame
      <3>2. index[k].at # client[c].entry.at /\ mem[index[k].at] = k
        BY <1>1, <2>2, <3>1 DEF SlotInv, MemInv
      <3>3. index[k] \in Entry /\ index[k].tier = "t1"
        BY <1>1, <3>1 DEF Owned, Dram, TypeInv
      <3>4. index[k].at \in Slots
        BY <3>3, EntryFacts
      <3> QED
        BY <2>1, <3>1, <3>2, <3>4
    <2>4. \A k \in Keys : index'[k] # None /\ index'[k].tier = "t2" => index'[k].at = k
      BY <1>1, <1>2 DEF MemInv, IndexSame
    <2>5. ASSUME NEW d \in Clients
          PROVE  /\ client'[d].pc = "upsert" /\ client'[d].entry.tier = "t1"
                 /\ mem'[SlotOf(d)'] = client'[d].key
      BY <1>7, <1>8, <1>9, <2>1 DEF SlotOf
    <2> QED
      BY <2>3, <2>4, <2>5 DEF MemInv, At
  <1> QED
    BY <1>1, <1>2, <1>3, <1>4, <1>5, <1>11, <1>12, <1>13 DEF OneInv

LEMMA OneUpsert ==
    ASSUME OneClient, OneInv, NEW c \in Clients, PutUpsert(c)
    PROVE  OneInv'
  <1>1. TypeInv /\ SlotInv /\ Follow /\ MemInv /\ Tracked /\ (~reput => Accounted)
    BY DEF OneInv
  <1>2. /\ TypeInv' /\ At(c, "upsert") /\ ListSame /\ TiersSame /\ mem' = mem
        /\ client[c].entry \in Entry
        /\ index' = [index EXCEPT ![client[c].key] = client[c].entry]
        /\ Becomes(c, "check", None, 0, None, None)
    BY <1>1, PutUpsertDoes
  <1>3. ~reput' => ~reput /\ index[client[c].key] = None
    <2>1. reput' = (reput \/ PutsAgain(c))
      BY <1>1, PutUpsertDoes
    <2> QED
      BY <2>1 DEF PutsAgain
  <1>4. PICK key \in Keys : key = client[c].key
    BY <1>1, PutUpsertDoes
  <1>5. index'[key] = client[c].entry /\ \A k \in Keys : k # key => index'[k] = index[k]
    BY <1>1, <1>2, <1>4 DEF TypeInv
  <1>6. /\ SlotInv' /\ (Accounted /\ index[client[c].key] = None => Accounted') /\ Follow'
        /\ \A k \in Keys : Owned(k)' <=> IF k = client[c].key THEN client[c].entry.tier = "t1" ELSE Owned(k)
    BY <1>1, OneAlone, UpsertSlots
  <1>7. \A d \in Clients : d = c /\ client'[d].pc = "check"
    BY <1>2 DEF OneClient, Becomes
  <1>8. OneFollow'
    BY <1>7 DEF OneFollow, At
  <1>9. Tracked'
    <2>1. \A k \in Keys : Dram(k) => k \in t1
      BY <1>2, OneTracked DEF At
    <2>2. client[c].entry.tier = "t1" => key \in t1
      BY <1>1, <1>2, <1>4 DEF Tracked
    <2>3. ASSUME NEW k \in Keys, Dram(k)' PROVE k \in t1'
      BY <1>2, <1>5, <2>1, <2>2, <2>3 DEF Dram, TiersSame
    <2> QED
      BY <1>7, <2>3 DEF Tracked, At
  <1>10. MemInv'
    <2>1. /\ client[c].entry.tier = "t1" => mem[client[c].entry.at] = key
          /\ client[c].entry.tier = "t2" => client[c].entry.at = key
      BY <1>1, <1>2, <1>4 DEF MemInv, SlotOf
    <2>2. \A k \in Keys : Owned(k)' => mem'[index'[k].at] = k
      BY <1>1, <1>2, <1>4, <1>5, <1>6, <2>1 DEF MemInv
    <2>3. \A k \in Keys : index'[k] # None /\ index'[k].tier = "t2" => index'[k].at = k
      BY <1>1, <1>5, <2>1 DEF MemInv
    <2> QED
      BY <1>7, <2>2, <2>3 DEF MemInv, At
  <1> QED
    BY <1>1, <1>2, <1>3, <1>6, <1>8, <1>9, <1>10 DEF OneInv

LEMMA OneWrite ==
    ASSUME OneClient, OneInv, NEW c \in Clients, PutWrite(c)
    PROVE  OneInv'
  <1>1. TypeInv
    BY DEF OneInv
  <1>2. /\ TypeInv' /\ At(c, "write") /\ IndexSame /\ ListSame /\ RestSame /\ t1' = t1
        /\ \/ Becomes(c, "upsert", client[c].key, client[c].cost,
                      OnNvme(client[c].key, client[c].cost), client[c].data)
           \/ Becomes(c, "idle", None, 0, None, None)
    BY <1>1, PutWriteDoes
  <1>3. \A k \in Keys : Dram(k) => k \in t1'
    BY <1>2, OneTracked DEF At
  <1>4. client[c].key \in Keys /\ client[c].cost \in Costs
    BY <1>1, <1>2 DEF TypeInv, PcOK, At, WithKey, PCs
  <1>5. CASE Becomes(c, "idle", None, 0, None, None)
    BY <1>2, <1>3, <1>5, OneQuiet DEF At, RestSame
  <1>6. CASE Becomes(c, "upsert", client[c].key, client[c].cost,
                     OnNvme(client[c].key, client[c].cost), client[c].data)
    <2> DEFINE e == OnNvme(client[c].key, client[c].cost)
    <2>1. e.tier = "t2" /\ e.at = client[c].key
      BY <1>4, MadeEntries
    <2>2. Becomes(c, "upsert", client[c].key, client[c].cost, e, client[c].data)
      BY <1>6
    <2> HIDE DEF e
    <2> QED
      BY <1>2, <1>3, <2>1, <2>2, OneQuiet DEF At, RestSame
  <1> QED
    BY <1>2, <1>5, <1>6

LEMMA OneCheck ==
    ASSUME OneClient, OneInv, NEW c \in Clients, EvictCheck(c)
    PROVE  OneInv'
  <1>1. TypeInv
    BY DEF OneInv
  <1>2. /\ TypeInv' /\ At(c, "check") /\ AllSame
        /\ \/ Becomes(c, "pick", client[c].key, client[c].cost, client[c].entry, client[c].data)
           \/ Becomes(c, "idle", None, 0, None, None)
    BY <1>1, EvictCheckDoes
  <1>3. \A k \in Keys : Dram(k) => k \in t1'
    BY <1>2, OneTracked DEF At, AllSame, TiersSame
  <1>4. CASE Becomes(c, "idle", None, 0, None, None)
    BY <1>2, <1>3, <1>4, OneQuiet DEF At, AllSame, RestSame
  <1>5. CASE Becomes(c, "pick", client[c].key, client[c].cost, client[c].entry, client[c].data)
    BY <1>2, <1>3, <1>5, OneQuiet DEF At, AllSame, RestSame
  <1> QED
    BY <1>2, <1>4, <1>5

(* The victim leaves the policy and is chased instead.                       *)
LEMMA OnePick ==
    ASSUME OneClient, OneInv, NEW c \in Clients, EvictPick(c)
    PROVE  OneInv'
  <1>1. TypeInv
    BY DEF OneInv
  <1>2. /\ TypeInv' /\ At(c, "pick") /\ IndexSame /\ ListSame /\ RestSame
        /\ \/ t1' = t1 /\ Becomes(c, "idle", None, 0, None, None)
           \/ \E k \in Keys : EvictPicks(c, k)
    BY <1>1, EvictPickDoes
  <1>3. \A k \in Keys : Dram(k) => k \in t1
    BY <1>2, OneTracked DEF At
  <1>4. CASE t1' = t1 /\ Becomes(c, "idle", None, 0, None, None)
    BY <1>2, <1>3, <1>4, OneQuiet DEF At, RestSame
  <1>5. ASSUME NEW v \in Keys, EvictPicks(c, v)
        PROVE  OneInv'
    <2>1. /\ t1' = t1 \ {v}
          /\ Becomes(c, "find", v, client[c].cost, client[c].entry, client[c].data)
      BY <1>5 DEF EvictPicks
    <2>2. \A k \in Keys : Dram(k) => k \in t1' \/ ("find" \in {"find", "demote", "update"} /\ v = k)
      BY <1>3, <2>1
    <2> QED
      BY <1>2, <2>1, <2>2, OneQuiet DEF At, RestSame
  <1> QED
    BY <1>2, <1>4, <1>5

(* The keys in DRAM while the client evicts one                              *)
LEMMA OneChase ==
    ASSUME OneClient, OneInv, NEW c \in Clients
    PROVE  \A k \in Keys : Dram(k) => k \in t1 \/ Chases(c, k)
  <1>1. \A d \in Clients : d = c
    BY DEF OneClient
  <1> QED
    BY <1>1 DEF OneInv, Tracked

LEMMA OneFind ==
    ASSUME OneClient, OneInv, NEW c \in Clients, EvictFind(c)
    PROVE  OneInv'
  <1>1. TypeInv
    BY DEF OneInv
  <1>2. /\ TypeInv' /\ At(c, "find") /\ AllSame /\ client[c].data = None
        /\ \/ /\ index[client[c].key] = None \/ index[client[c].key].tier # "t1"
              /\ Becomes(c, "check", None, 0, None, None)
           \/ EvictFinds(c)
    BY <1>1, EvictFindDoes
  <1>3. \A k \in Keys : Dram(k) => k \in t1' \/ client[c].key = k
    BY <1>2, OneChase DEF Chases, AllSame, TiersSame
  <1>4. CASE /\ index[client[c].key] = None \/ index[client[c].key].tier # "t1"
             /\ Becomes(c, "check", None, 0, None, None)
    <2>1. \A k \in Keys : Dram(k) => k \in t1'
      BY <1>3, <1>4 DEF Dram
    <2> QED
      BY <1>2, <1>4, <2>1, OneQuiet DEF At, AllSame, RestSame
  <1>5. CASE EvictFinds(c)
    <2>1. PICK pc \in {"demote", "update"} :
             Becomes(c, pc, client[c].key, client[c].cost, index[client[c].key], client[c].data)
      BY <1>5 DEF EvictFinds
    <2> QED
      BY <1>2, <1>3, <2>1, OneQuiet DEF At, AllSame, RestSame
  <1> QED
    BY <1>2, <1>4, <1>5

(* The slot has the victim's blob.                                           *)
LEMMA OneDemote ==
    ASSUME OneClient, OneInv, NEW c \in Clients, EvictDemote(c)
    PROVE  OneInv'
  <1>1. TypeInv
    BY DEF OneInv
  <1>2. TypeInv' /\ At(c, "demote") /\ AllSame
    BY <1>1, EvictDemoteDoes
  <1>3. PICK data \in {mem[client[c].entry.at], None} :
           Becomes(c, "update", client[c].key, client[c].cost, client[c].entry, data)
    BY <1>1, EvictDemoteDoes
  <1>4. index[client[c].key] = client[c].entry /\ Loaded(c) = client[c].key
    BY <1>2, OneReads DEF At
  <1>5. client[c].entry.tier = "t1"
    BY <1>1, <1>2 DEF TypeInv, PcOK, At
  <1>6. data \in {None, client[c].key}
    BY <1>3, <1>4, <1>5 DEF Loaded
  <1>7. \A k \in Keys : Dram(k) => k \in t1' \/ client[c].key = k
    BY <1>2, OneChase DEF Chases, AllSame, TiersSame
  <1> QED
    BY <1>2, <1>3, <1>4, <1>6, <1>7, OneQuiet DEF At, AllSame, RestSame

(* The entry goes, or moves to the location that has the victim's blob.      *)
LEMMA OneUpdate ==
    ASSUME OneClient, OneInv, NEW c \in Clients, EvictUpdate(c)
    PROVE  OneInv'
  <1>1. TypeInv /\ SlotInv /\ Follow /\ MemInv /\ (~reput => Accounted)
    BY DEF OneInv
  <1>2. /\ TypeInv' /\ At(c, "update") /\ ListSame /\ TiersSame /\ RestSame
        /\ client[c].entry \in Entry
        /\ index' = [index EXCEPT ![client[c].key] = Demoted(c)]
        /\ Demoted(c) = None \/ (Demoted(c) \in Entry /\ Demoted(c).tier = "t2")
        /\ Becomes(c, "free", client[c].key, client[c].cost, client[c].entry, client[c].data)
    BY <1>1, EvictUpdateDoes
  <1>3. PICK key \in Keys : key = client[c].key
    BY <1>1, EvictUpdateDoes
  <1>4. index'[key] = Demoted(c) /\ \A k \in Keys : k # key => index'[k] = index[k]
    BY <1>1, <1>2, <1>3 DEF TypeInv
  <1>5. /\ SlotInv' /\ (Accounted => Accounted') /\ Follow'
        /\ \A k \in Keys : /\ Owned(k)' <=> k # client[c].key /\ Owned(k)
                           /\ Dram(k)' => Dram(k) /\ k # client[c].key
    BY <1>1, OneAlone, UpdateSlots
  <1>6. \A d \in Clients : d = c /\ client'[d].pc = "free"
    BY <1>2 DEF OneClient, Becomes
  <1>7. OneFollow'
    BY <1>6 DEF OneFollow, At
  <1>8. Tracked'
    <2>1. \A k \in Keys : Dram(k) => k \in t1 \/ client[c].key = k
      BY OneChase DEF Chases
    <2>2. ASSUME NEW k \in Keys, Dram(k)' PROVE k \in t1'
      <3>1. Dram(k) /\ k # client[c].key
        BY <1>5, <2>2
      <3> QED
        BY <1>2, <2>1, <3>1 DEF TiersSame
    <2> QED
      BY <1>6, <2>2 DEF Tracked, At
  <1>9. MemInv'
    <2>1. client[c].data \in {None, key}
      BY <1>1, <1>2, <1>3 DEF MemInv
    <2>2. Demoted(c) = None \/ Demoted(c).at = key
      <3>1. client[c].entry.cost \in Costs
        BY <1>2, EntryFacts
      <3> QED
        BY <1>3, <2>1, <3>1, MadeEntries DEF Demoted
    <2>3. ASSUME NEW k \in Keys, Owned(k)' PROVE mem'[index'[k].at] = k
      <3>1. Owned(k) /\ k # key
        BY <1>3, <1>5, <2>3
      <3> QED
        BY <1>1, <1>2, <1>4, <3>1 DEF MemInv, RestSame
    <2>4. \A k \in Keys : index'[k] # None /\ index'[k].tier = "t2" => index'[k].at = k
      BY <1>1, <1>4, <2>2 DEF MemInv
    <2> QED
      BY <1>6, <2>3, <2>4 DEF MemInv, At
  <1> QED
    BY <1>1, <1>2, <1>5, <1>7, <1>8, <1>9 DEF OneInv, RestSame

LEMMA OneFree ==
    ASSUME OneClient, OneInv, NEW c \in Clients, EvictFree(c)
    PROVE  OneInv'
  <1>1. TypeInv /\ SlotInv /\ Follow /\ MemInv /\ (~reput => Accounted)
    BY DEF OneInv
  <1>2. /\ TypeInv' /\ At(c, "free") /\ IndexSame /\ RestSame /\ t1' = t1
        /\ Becomes(c, "check", None, 0, None, None)
    BY <1>1, EvictFreeDoes
  <1>3. /\ SlotInv' /\ (Accounted => Accounted') /\ Follow'
        /\ \A k \in Keys : (Owned(k)' <=> Owned(k)) /\ (Dram(k)' <=> Dram(k))
    BY <1>1, FreeSlots
  <1>4. \A d \in Clients : client'[d].pc = "check"
    BY <1>2 DEF OneClient, Becomes
  <1>5. OneFollow'
    BY <1>4 DEF OneFollow, At
  <1>6. Tracked'
    <2>1. \A k \in Keys : Dram(k)' => k \in t1'
      BY <1>2, <1>3, OneTracked DEF At
    <2> QED
      BY <1>4, <2>1 DEF Tracked, At
  <1>7. MemInv'
    BY <1>1, <1>2, <1>3, <1>4 DEF MemInv, At, IndexSame, RestSame
  <1> QED
    BY <1>1, <1>2, <1>3, <1>5, <1>6, <1>7 DEF OneInv, RestSame

LEMMA OneGetLoad ==
    ASSUME OneClient, OneInv, NEW c \in Clients, GetLoad(c)
    PROVE  OneInv'
  <1>1. TypeInv
    BY DEF OneInv
  <1>2. /\ TypeInv' /\ At(c, "load") /\ AllSame
        /\ \/ Becomes(c, "got", client[c].key, client[c].cost, client[c].entry, Loaded(c))
           \/ Becomes(c, "idle", None, 0, None, None)
    BY <1>1, GetLoadDoes
  <1>3. \A k \in Keys : Dram(k) => k \in t1'
    BY <1>2, OneTracked DEF At, AllSame, TiersSame
  <1>4. Loaded(c) = client[c].key
    BY <1>2, OneReads DEF At
  <1>5. CASE Becomes(c, "idle", None, 0, None, None)
    BY <1>2, <1>3, <1>5, OneQuiet DEF At, AllSame, RestSame
  <1>6. CASE Becomes(c, "got", client[c].key, client[c].cost, client[c].entry, Loaded(c))
    BY <1>2, <1>3, <1>4, <1>6, OneQuiet DEF At, AllSame, RestSame
  <1> QED
    BY <1>2, <1>5, <1>6

(* The calls that begin, and the get() that returns                          *)
LEMMA OneBegin ==
    ASSUME OneClient, OneInv, NEW c \in Clients,
           \/ \E k \in Keys, isSystemPrompt \in BOOLEAN, cost \in Costs :
                 PutCall(c, k, isSystemPrompt, cost)
           \/ \E k \in Keys : GetFind(c, k) \/ DelFind(c, k)
           \/ GetReturn(c)
    PROVE  OneInv'
  <1>1. TypeInv
    BY DEF OneInv
  <1>2. ASSUME NEW k \in Keys, NEW isSystemPrompt \in BOOLEAN, NEW cost \in Costs,
               PutCall(c, k, isSystemPrompt, cost)
        PROVE  OneInv'
    <2>1. TypeInv' /\ At(c, "idle") /\ Becomes(c, "allocate", k, cost, None, None) /\ AllSame
      BY <1>1, <1>2, PutCallDoes
    <2>2. \A l \in Keys : Dram(l) => l \in t1'
      BY <2>1, OneTracked DEF At, AllSame, TiersSame
    <2> QED
      BY <2>1, <2>2, OneQuiet DEF At, AllSame, RestSame
  <1>3. ASSUME NEW k \in Keys, GetFind(c, k)
        PROVE  OneInv'
    <2>1. TypeInv' /\ At(c, "idle") /\ Becomes(c, "load", k, 0, index[k], None) /\ AllSame
      BY <1>1, <1>3, GetFindDoes
    <2>2. \A l \in Keys : Dram(l) => l \in t1'
      BY <2>1, OneTracked DEF At, AllSame, TiersSame
    <2> QED
      BY <2>1, <2>2, OneQuiet DEF At, AllSame, RestSame
  <1>4. ASSUME NEW k \in Keys, DelFind(c, k)
        PROVE  OneInv'
    <2>1. TypeInv' /\ At(c, "idle") /\ Becomes(c, "release", k, 0, index[k], None) /\ AllSame
      BY <1>1, <1>4, DelFindDoes
    <2>2. \A l \in Keys : Dram(l) => l \in t1'
      BY <2>1, OneTracked DEF At, AllSame, TiersSame
    <2> QED
      BY <2>1, <2>2, OneQuiet DEF At, AllSame, RestSame
  <1>5. CASE GetReturn(c)
    <2>1. TypeInv' /\ At(c, "got") /\ AllSame /\ Becomes(c, "idle", None, 0, None, None)
      BY <1>1, <1>5, GetReturnDoes
    <2>2. \A l \in Keys : Dram(l) => l \in t1'
      BY <2>1, OneTracked DEF At, AllSame, TiersSame
    <2> QED
      BY <2>1, <2>2, OneQuiet DEF At, AllSame, RestSame
  <1> QED
    BY <1>2, <1>3, <1>4, <1>5

(* del() frees the slot while the index still has it.                        *)
LEMMA OneRelease ==
    ASSUME OneClient, OneInv, NEW c \in Clients, DelRelease(c)
    PROVE  OneInv'
  <1>1. TypeInv /\ SlotInv /\ Follow /\ MemInv /\ (~reput => Accounted)
    BY DEF OneInv
  <1>2. /\ TypeInv' /\ At(c, "release") /\ IndexSame /\ TiersSame /\ RestSame
        /\ Becomes(c, "erase", client[c].key, client[c].cost, client[c].entry, client[c].data)
    BY <1>1, DelReleaseDoes
  <1>3. /\ SlotInv' /\ (Accounted => Accounted') /\ Follow'
        /\ \A k \in Keys : /\ Owned(k)' <=> k # client[c].key /\ Owned(k)
                           /\ (Dram(k)' <=> Dram(k))
        /\ client[c].entry.tier = "t1" => client[c].entry.at \in Free'
        /\ index[client[c].key] = client[c].entry
    BY <1>1, OneAlone, ReleaseSlots
  <1>4. /\ client'[c].pc = "erase" /\ client'[c].key = client[c].key
        /\ client'[c].entry = client[c].entry
    BY <1>2 DEF Becomes
  <1>5. \A d \in Clients : d = c
    BY DEF OneClient
  <1>6. OneFollow'
    <2>1. client'[c].entry.tier = "t1" => SlotOf(c)' \in Free'
      BY <1>3, <1>4 DEF SlotOf
    <2>2. index'[client'[c].key] = client'[c].entry
      BY <1>2, <1>3, <1>4 DEF IndexSame
    <2> QED
      BY <1>4, <1>5, <2>1, <2>2 DEF OneFollow, At
  <1>7. Tracked'
    <2>1. \A k \in Keys : Dram(k)' => k \in t1'
      BY <1>2, <1>3, OneTracked DEF At, TiersSame
    <2> QED
      BY <1>4, <1>5, <2>1 DEF Tracked, At
  <1>8. MemInv'
    <2>1. \A k \in Keys : Owned(k)' => mem'[index'[k].at] = k
      BY <1>1, <1>2, <1>3 DEF MemInv, IndexSame, RestSame
    <2>2. \A k \in Keys : index'[k] # None /\ index'[k].tier = "t2" => index'[k].at = k
      BY <1>1, <1>2 DEF MemInv, IndexSame
    <2> QED
      BY <1>4, <1>5, <2>1, <2>2 DEF MemInv, At
  <1> QED
    BY <1>1, <1>2, <1>3, <1>6, <1>7, <1>8 DEF OneInv, RestSame

LEMMA OneErase ==
    ASSUME OneClient, OneInv, NEW c \in Clients, DelErase(c)
    PROVE  OneInv'
  <1>1. TypeInv /\ SlotInv /\ Follow /\ OneFollow /\ MemInv /\ (~reput => Accounted)
    BY DEF OneInv
  <1>2. /\ TypeInv' /\ At(c, "erase") /\ ListSame /\ TiersSame /\ RestSame
        /\ index' = [index EXCEPT ![client[c].key] = None]
        /\ Becomes(c, "forget", client[c].key, client[c].cost, client[c].entry, client[c].data)
    BY <1>1, DelEraseDoes
  <1>3. PICK key \in Keys : key = client[c].key
    BY <1>1, DelEraseDoes
  <1>4. index'[key] = None /\ \A k \in Keys : k # key => index'[k] = index[k]
    BY <1>1, <1>2, <1>3 DEF TypeInv
  <1>5. Dram(client[c].key) => index[client[c].key].at \in Free
    BY <1>1, <1>2 DEF OneFollow, At, Dram, SlotOf
  <1>6. /\ SlotInv' /\ (Accounted => Accounted') /\ Follow'
        /\ \A k \in Keys : /\ Owned(k)' <=> k # client[c].key /\ Owned(k)
                           /\ Dram(k)' => Dram(k) /\ k # client[c].key
    BY <1>1, <1>5, OneAlone, EraseSlots
  <1>7. \A d \in Clients : d = c /\ client'[d].pc = "forget" /\ client'[d].key = key
    BY <1>2, <1>3 DEF OneClient, Becomes
  <1>8. OneFollow'
    BY <1>4, <1>7 DEF OneFollow, At
  <1>9. Tracked'
    <2>1. ASSUME NEW k \in Keys, Dram(k)' PROVE k \in t1'
      <3>1. Dram(k)
        BY <1>6, <2>1
      <3> QED
        BY <1>2, <3>1, OneTracked DEF At, TiersSame
    <2> QED
      BY <1>7, <2>1 DEF Tracked, At
  <1>10. MemInv'
    <2>1. ASSUME NEW k \in Keys, Owned(k)' PROVE mem'[index'[k].at] = k
      <3>1. Owned(k) /\ k # key
        BY <1>3, <1>6, <2>1
      <3> QED
        BY <1>1, <1>2, <1>4, <3>1 DEF MemInv, RestSame
    <2>2. \A k \in Keys : index'[k] # None /\ index'[k].tier = "t2" => index'[k].at = k
      BY <1>1, <1>4 DEF MemInv
    <2> QED
      BY <1>7, <2>1, <2>2 DEF MemInv, At
  <1> QED
    BY <1>1, <1>2, <1>6, <1>8, <1>9, <1>10 DEF OneInv, RestSame

(* The policies forget a key that the index does not have.                   *)
LEMMA OneForget ==
    ASSUME OneClient, OneInv, NEW c \in Clients, DelForget(c)
    PROVE  OneInv'
  <1>1. TypeInv /\ OneFollow
    BY DEF OneInv
  <1>2. /\ TypeInv' /\ At(c, "forget") /\ IndexSame /\ ListSame /\ RestSame
        /\ t1' = t1 \ {client[c].key}
        /\ Becomes(c, "idle", None, 0, None, None)
    BY <1>1, DelForgetDoes
  <1>3. index[client[c].key] = None
    BY <1>1, <1>2 DEF OneFollow
  <1>4. \A k \in Keys : Dram(k) => k \in t1'
    BY <1>2, <1>3, OneTracked DEF At, Dram
  <1> QED
    BY <1>2, <1>4, OneQuiet DEF At, RestSame

LEMMA OneStep ==
    ASSUME OneClient, OneInv, NEW c \in Clients, Step(c)
    PROVE  OneInv'
  <1>1. CASE PutAllocate(c) \/ PutCopy(c) \/ PutWrite(c) \/ PutUpsert(c)
    BY <1>1, OneAllocate, OneCopy, OneWrite, OneUpsert
  <1>2. CASE EvictCheck(c) \/ EvictPick(c) \/ EvictFind(c) \/ EvictDemote(c) \/ EvictUpdate(c) \/ EvictFree(c)
    BY <1>2, OneCheck, OnePick, OneFind, OneDemote, OneUpdate, OneFree
  <1>3. CASE GetLoad(c) \/ GetReturn(c)
    BY <1>3, OneGetLoad, OneBegin
  <1>4. CASE DelRelease(c) \/ DelErase(c) \/ DelForget(c)
    BY <1>4, OneRelease, OneErase, OneForget
  <1> QED
    BY <1>1, <1>2, <1>3, <1>4 DEF Step

LEMMA OneNext ==
    ASSUME OneClient, OneInv, [Next]_vars
    PROVE  OneInv'
  <1>1. CASE Next
    <2>1. PICK c \in Clients :
             \/ \E k \in Keys, isSystemPrompt \in BOOLEAN, cost \in Costs : PutCall(c, k, isSystemPrompt, cost)
             \/ \E k \in Keys : GetFind(c, k) \/ DelFind(c, k)
             \/ Step(c)
      BY <1>1 DEF Next
    <2> QED
      BY <2>1, OneStep, OneBegin
  <1>2. CASE UNCHANGED vars
    <2>1. /\ (TypeInv => TypeInv') /\ (SlotInv => SlotInv') /\ (Follow => Follow')
          /\ (Accounted => Accounted')
      BY <1>2, Stutter
    <2>2. client' = client /\ index' = index /\ t1' = t1 /\ mem' = mem /\ freeList' = freeList /\ reput' = reput
      BY <1>2 DEF vars
    <2>3. Free' = Free
      BY <2>2 DEF Free
    <2>4. OneFollow => OneFollow'
      BY <2>2, <2>3 DEF OneFollow, At, SlotOf
    <2>5. Tracked => Tracked'
      BY <2>2 DEF Tracked, Chases, Dram, At
    <2>6. MemInv => MemInv'
      BY <2>2 DEF MemInv, Owned, Erasing, Dram, At, SlotOf
    <2> QED
      BY <2>1, <2>2, <2>4, <2>5, <2>6 DEF OneInv
  <1> QED
    BY <1>1, <1>2

LEMMA OneInvariant ==
    ASSUME OneClient
    PROVE  Spec => []OneInv
  <1>1. Init => OneInv
    <2> SUFFICES ASSUME Init PROVE OneInv
      OBVIOUS
    <2>1. OneFollow
      BY InitSlots DEF OneFollow, At
    <2>2. Tracked
      BY InitSlots DEF Tracked, Dram, At
    <2>3. MemInv
      BY InitSlots DEF MemInv, Owned, Dram, At
    <2> QED
      BY <2>1, <2>2, <2>3, InitSlots DEF OneInv
  <1>2. OneInv /\ [Next]_vars => OneInv'
    BY OneNext
  <1> QED
    BY <1>1, <1>2, PTL DEF Spec

(* One client at a time, put(), get(), del() and the evictions give no slot  *)
(* two uses, whether or not a key is put again.                              *)
THEOREM OneOwnsSlots ==
    ASSUME OneClient
    PROVE  Spec => []SlotOwned
  <1>1. OneInv => SlotOwned
    BY SlotInvSuffices DEF OneInv
  <1> QED
    BY <1>1, OneInvariant, PTL

(* Nor do they lose a slot, unless a key is put that the index has.          *)
THEOREM OneKeepsSlots ==
    ASSUME OneClient
    PROVE  Spec => []SlotsAccounted
  <1>1. OneInv => SlotsAccounted
    BY AccountedSuffices DEF OneInv, SlotsAccounted
  <1> QED
    BY <1>1, OneInvariant, PTL

(* And whatever the index has in DRAM can be evicted: put() and del() keep   *)
(* the policy in step with the index.                                        *)
THEOREM OneTracksDram ==
    ASSUME OneClient
    PROVE  Spec => []DramTracked
  <1>1. OneInv => DramTracked
    BY DEF OneInv, Tracked, Dram, Chases, DramTracked, Evictable
  <1> QED
    BY <1>1, OneInvariant, PTL

-----------------------------------------------------------------------------
(* One client: the engine is a cache of blobs *)

InStore == {k \in Keys : index[k] # None}
Calls == [c \in Clients |-> CallOf(client[c])]

CallIn(pc, key, data) ==
    [op |-> OpOf(pc),
     key |-> IF OpOf(pc) \in {"put", "get", "got", "del"} THEN key ELSE None,
     data |-> IF pc = "got" THEN data ELSE None]

LEMMA OpOfPc ==
    /\ OpOf("idle") = "none"
    /\ \A pc \in {"allocate", "copy", "write", "upsert"} : OpOf(pc) = "put"
    /\ OpOf("load") = "get" /\ OpOf("got") = "got"
    /\ OpOf("release") = "del" /\ OpOf("erase") = "del" /\ OpOf("forget") = "removed"
    /\ \A pc \in {"check", "pick", "find", "demote", "update", "free"} : OpOf(pc) = "evict"
  BY DEF OpOf

LEMMA CallInPc ==
    ASSUME NEW key, NEW data
    PROVE  /\ CallIn("idle", key, data) = Cache!NoCall
           /\ \A pc \in {"allocate", "copy", "write", "upsert"} :
                 CallIn(pc, key, data) = Cache!Call("put", key, None)
           /\ CallIn("load", key, data) = Cache!Call("get", key, None)
           /\ CallIn("got", key, data) = Cache!Call("got", key, data)
           /\ \A pc \in {"release", "erase"} : CallIn(pc, key, data) = Cache!Call("del", key, None)
           /\ CallIn("forget", key, data) = Cache!Call("removed", None, None)
           /\ \A pc \in {"check", "pick", "find", "demote", "update", "free"} :
                 CallIn(pc, key, data) = Cache!Call("evict", None, None)
  BY OpOfPc DEF CallIn, Cache!Call, Cache!NoCall

LEMMA CallFields ==
    ASSUME NEW op, NEW key, NEW data
    PROVE  /\ Cache!Call(op, key, data).op = op
           /\ Cache!Call(op, key, data).key = key
  BY DEF Cache!Call

LEMMA CallsBecome ==
    ASSUME NEW c \in Clients, NEW pc, NEW key, NEW cost, NEW entry, NEW data,
           Becomes(c, pc, key, cost, entry, data)
    PROVE  /\ Calls' = [Calls EXCEPT ![c] = CallIn(pc, key, data)]
           /\ Calls[c] = CallIn(client[c].pc, client[c].key, client[c].data)
  <1>1. Calls[c] = CallIn(client[c].pc, client[c].key, client[c].data)
    BY DEF Calls, CallOf, CallIn
  <1>2. Calls' = [d \in Clients |-> CallOf(client'[d])]
    BY DEF Calls, CallOf
  <1>3. CallOf(client'[c]) = CallIn(pc, key, data)
    BY DEF Becomes, CallOf, CallIn
  <1>4. \A d \in Clients \ {c} : CallOf(client'[d]) = CallOf(client[d])
    BY DEF Becomes
  <1>5. Calls = [d \in Clients |-> CallOf(client[d])]
    BY DEF Calls
  <1> QED
    BY <1>1, <1>2, <1>3, <1>4, <1>5

(* The steps of the cache, in terms of the engine's state                    *)
LEMMA CacheSteps ==
    ASSUME NEW c \in Clients
    PROVE  /\ \A op \in {"put", "get", "del"}, k \in Keys :
                 /\ Calls[c] = Cache!NoCall /\ (op = "put" \/ k \in InStore)
                 /\ Calls' = [Calls EXCEPT ![c] = Cache!Call(op, k, None)] /\ InStore' = InStore
                 => Cache!Next
           /\ /\ Calls[c].op \in {"put", "get", "evict", "got", "removed"}
              /\ Calls' = [Calls EXCEPT ![c] = Cache!NoCall] /\ InStore' = InStore
              => Cache!Next
           /\ /\ Calls[c].op = "put" /\ InStore' = InStore \cup {Calls[c].key}
              /\ Calls' = [Calls EXCEPT ![c] = Cache!Call("evict", None, None)]
              => Cache!Next
           /\ \A k \in Keys :
                 Calls[c].op = "evict" /\ InStore' = InStore \ {k} /\ Calls' = Calls => Cache!Next
           /\ /\ Calls[c].op = "get" /\ InStore' = InStore
              /\ Calls' = [Calls EXCEPT ![c] = Cache!Call("got", Calls[c].key, Calls[c].key)]
              => Cache!Next
           /\ /\ Calls[c].op = "del" /\ InStore' = InStore \ {Calls[c].key}
              /\ Calls' = [Calls EXCEPT ![c] = Cache!Call("removed", None, None)]
              => Cache!Next
  <1>1. ASSUME NEW op \in {"put", "get", "del"}, NEW k \in Keys,
               Calls[c] = Cache!NoCall, op = "put" \/ k \in InStore,
               Calls' = [Calls EXCEPT ![c] = Cache!Call(op, k, None)], InStore' = InStore
        PROVE  Cache!Next
    <2>1. Cache!Begin(c, op, k)
      BY <1>1 DEF Cache!Begin, Cache!Becomes, Calls, InStore
    <2> QED
      BY <2>1 DEF Cache!Next
  <1>2. ASSUME Calls[c].op \in {"put", "get", "evict", "got", "removed"},
               Calls' = [Calls EXCEPT ![c] = Cache!NoCall], InStore' = InStore
        PROVE  Cache!Next
    <2>1. Cache!Fail(c) \/ Cache!Return(c)
      BY <1>2 DEF Cache!Fail, Cache!Return, Cache!Becomes, Calls, InStore
    <2> QED
      BY <2>1 DEF Cache!Next
  <1>3. ASSUME Calls[c].op = "put", InStore' = InStore \cup {Calls[c].key},
               Calls' = [Calls EXCEPT ![c] = Cache!Call("evict", None, None)]
        PROVE  Cache!Next
    <2>1. Cache!Store(c)
      BY <1>3 DEF Cache!Store, Cache!Becomes, Calls, InStore
    <2> QED
      BY <2>1 DEF Cache!Next
  <1>4. ASSUME NEW k \in Keys, Calls[c].op = "evict", InStore' = InStore \ {k}, Calls' = Calls
        PROVE  Cache!Next
    <2>1. Cache!Drop(c, k)
      BY <1>4 DEF Cache!Drop, Calls, InStore
    <2> QED
      BY <2>1 DEF Cache!Next
  <1>5. ASSUME Calls[c].op = "get", InStore' = InStore,
               Calls' = [Calls EXCEPT ![c] = Cache!Call("got", Calls[c].key, Calls[c].key)]
        PROVE  Cache!Next
    <2>1. Cache!Deliver(c)
      BY <1>5 DEF Cache!Deliver, Cache!Becomes, Calls, InStore
    <2> QED
      BY <2>1 DEF Cache!Next
  <1>6. ASSUME Calls[c].op = "del", InStore' = InStore \ {Calls[c].key},
               Calls' = [Calls EXCEPT ![c] = Cache!Call("removed", None, None)]
        PROVE  Cache!Next
    <2>1. Cache!Remove(c)
      BY <1>6 DEF Cache!Remove, Cache!Becomes, Calls, InStore
    <2> QED
      BY <2>1 DEF Cache!Next
  <1> QED
    BY <1>1, <1>2, <1>3, <1>4, <1>5, <1>6

Mapped == Cache!Next \/ (Calls' = Calls /\ InStore' = InStore)

(* Steps within a call that the cache does not tell apart                    *)
LEMMA SameCall ==
    ASSUME NEW c \in Clients, NEW pc, NEW key, NEW cost, NEW entry, NEW data,
           Becomes(c, pc, key, cost, entry, data),
           \/ /\ {client[c].pc, pc} \subseteq {"allocate", "copy", "write", "upsert"}
              /\ key = client[c].key
           \/ {client[c].pc, pc} \subseteq {"check", "pick", "find", "demote", "update", "free"}
           \/ {client[c].pc, pc} \subseteq {"release", "erase"} /\ key = client[c].key
    PROVE  Calls' = Calls
  <1>1. CallIn(pc, key, data) = CallIn(client[c].pc, client[c].key, client[c].data)
    BY CallInPc
  <1>2. Calls' = [Calls EXCEPT ![c] = Calls[c]]
    BY <1>1, CallsBecome
  <1> QED
    BY <1>2 DEF Calls

(* A call that returns and leaves the store alone                            *)
LEMMA CallReturns ==
    ASSUME NEW c \in Clients, Becomes(c, "idle", None, 0, None, None), IndexSame,
           client[c].pc \in {"write", "check", "pick", "load", "got", "forget"}
    PROVE  Cache!Next
  <1>1. Calls' = [Calls EXCEPT ![c] = Cache!NoCall]
    BY CallsBecome, CallInPc
  <1>2. Calls[c] = CallIn(client[c].pc, client[c].key, client[c].data)
    BY CallsBecome
  <1>3. CallIn(client[c].pc, client[c].key, client[c].data).op = OpOf(client[c].pc)
    BY DEF CallIn
  <1>4. OpOf(client[c].pc) \in {"put", "get", "evict", "got", "removed"}
    BY OpOfPc
  <1>5. InStore' = InStore
    BY DEF InStore, IndexSame
  <1> QED
    BY <1>1, <1>2, <1>3, <1>4, <1>5, CacheSteps

LEMMA SameStore ==
    ASSUME IndexSame
    PROVE  InStore' = InStore
  BY DEF InStore, IndexSame

(* put() stores its key with the upsert.                                     *)
LEMMA UpsertStores ==
    ASSUME TypeInv, NEW c \in Clients, PutUpsert(c)
    PROVE  Cache!Next
  <1>1. /\ At(c, "upsert") /\ client[c].entry \in Entry
        /\ index' = [index EXCEPT ![client[c].key] = client[c].entry]
        /\ Becomes(c, "check", None, 0, None, None)
    BY PutUpsertDoes
  <1>2. PICK key \in Keys : key = client[c].key
    BY PutUpsertDoes
  <1>3. client[c].entry # None
    BY <1>1, EntryFacts
  <1>4. index'[key] # None /\ \A k \in Keys : k # key => index'[k] = index[k]
    BY <1>1, <1>2, <1>3 DEF TypeInv
  <1>5. InStore' = InStore \cup {key}
    BY <1>4 DEF InStore
  <1>6. Calls' = [Calls EXCEPT ![c] = Cache!Call("evict", None, None)]
    BY <1>1, CallsBecome, CallInPc
  <1>7. Calls[c] = CallIn(client[c].pc, client[c].key, client[c].data)
    BY <1>1, CallsBecome
  <1>8. Calls[c] = Cache!Call("put", key, None)
    BY <1>1, <1>2, <1>7, CallInPc DEF At
  <1>9. Calls[c].op = "put" /\ Calls[c].key = key
    BY <1>8, CallFields
  <1> QED
    BY <1>5, <1>6, <1>9, CacheSteps

(* An eviction drops its victim, or keeps it on NVMe.                        *)
LEMMA UpdateDrops ==
    ASSUME OneInv, NEW c \in Clients, EvictUpdate(c)
    PROVE  Mapped
  <1>1. TypeInv /\ Follow
    BY DEF OneInv
  <1>2. /\ At(c, "update") /\ client[c].entry \in Entry
        /\ index' = [index EXCEPT ![client[c].key] = Demoted(c)]
        /\ Demoted(c) = None \/ Demoted(c) \in Entry
        /\ Becomes(c, "free", client[c].key, client[c].cost, client[c].entry, client[c].data)
    BY <1>1, EvictUpdateDoes
  <1>3. PICK key \in Keys : key = client[c].key
    BY <1>1, EvictUpdateDoes
  <1>4. index'[key] = Demoted(c) /\ \A k \in Keys : k # key => index'[k] = index[k]
    BY <1>1, <1>2, <1>3 DEF TypeInv
  <1>5. Calls' = Calls
    BY <1>2, SameCall DEF At
  <1>6. CASE Demoted(c) = None
    <2>1. InStore' = InStore \ {key}
      BY <1>4, <1>6 DEF InStore
    <2>2. Calls[c] = CallIn(client[c].pc, client[c].key, client[c].data)
      BY <1>2, CallsBecome
    <2>3. Calls[c] = Cache!Call("evict", None, None)
      BY <1>2, <2>2, CallInPc DEF At
    <2>4. Calls[c].op = "evict"
      BY <2>3, CallFields
    <2> QED
      BY <1>5, <2>1, <2>4, CacheSteps DEF Mapped
  <1>7. CASE Demoted(c) \in Entry
    <2>1. index[key] = client[c].entry
      BY <1>1, <1>2, <1>3 DEF Follow, At
    <2>2. index[key] # None /\ index'[key] # None
      BY <1>2, <1>4, <1>7, <2>1, EntryFacts
    <2>3. InStore' = InStore
      BY <1>4, <2>2 DEF InStore
    <2> QED
      BY <1>5, <2>3 DEF Mapped
  <1> QED
    BY <1>2, <1>6, <1>7

(* del() removes its key when it erases the entry.                           *)
LEMMA EraseRemoves ==
    ASSUME TypeInv, NEW c \in Clients, DelErase(c)
    PROVE  Cache!Next
  <1>1. /\ At(c, "erase") /\ index' = [index EXCEPT ![client[c].key] = None]
        /\ Becomes(c, "forget", client[c].key, client[c].cost, client[c].entry, client[c].data)
    BY DelEraseDoes
  <1>2. PICK key \in Keys : key = client[c].key
    BY DelEraseDoes
  <1>3. index'[key] = None /\ \A k \in Keys : k # key => index'[k] = index[k]
    BY <1>1, <1>2 DEF TypeInv
  <1>4. InStore' = InStore \ {key}
    BY <1>3 DEF InStore
  <1>5. Calls' = [Calls EXCEPT ![c] = Cache!Call("removed", None, None)]
    BY <1>1, CallsBecome, CallInPc
  <1>6. Calls[c] = CallIn(client[c].pc, client[c].key, client[c].data)
    BY <1>1, CallsBecome
  <1>7. Calls[c] = Cache!Call("del", key, None)
    BY <1>1, <1>2, <1>6, CallInPc DEF At
  <1>8. Calls[c].op = "del" /\ Calls[c].key = key
    BY <1>7, CallFields
  <1> QED
    BY <1>4, <1>5, <1>8, CacheSteps

(* get() delivers the blob of its key.                                       *)
LEMMA LoadDelivers ==
    ASSUME OneClient, OneInv, NEW c \in Clients, GetLoad(c)
    PROVE  Cache!Next
  <1>1. TypeInv
    BY DEF OneInv
  <1>2. /\ At(c, "load") /\ AllSame
        /\ \/ Becomes(c, "got", client[c].key, client[c].cost, client[c].entry, Loaded(c))
           \/ Becomes(c, "idle", None, 0, None, None)
    BY <1>1, GetLoadDoes
  <1>3. PICK key : key = client[c].key
    OBVIOUS
  <1>4. Loaded(c) = key
    BY <1>2, <1>3, OneReads DEF At
  <1>5. CASE Becomes(c, "idle", None, 0, None, None)
    BY <1>2, <1>5, CallReturns DEF At, AllSame
  <1>6. CASE Becomes(c, "got", client[c].key, client[c].cost, client[c].entry, Loaded(c))
    <2>1. /\ Calls' = [Calls EXCEPT ![c] = CallIn("got", client[c].key, Loaded(c))]
          /\ Calls[c] = CallIn(client[c].pc, client[c].key, client[c].data)
      BY <1>6, CallsBecome
    <2>2. Calls' = [Calls EXCEPT ![c] = Cache!Call("got", key, key)]
      <3>1. CallIn("got", client[c].key, Loaded(c)) = Cache!Call("got", client[c].key, Loaded(c))
        BY CallInPc
      <3>2. Cache!Call("got", client[c].key, Loaded(c)) = Cache!Call("got", key, key)
        BY <1>3, <1>4
      <3> QED
        BY <2>1, <3>1, <3>2
    <2>3. Calls[c] = Cache!Call("get", key, None)
      BY <1>2, <1>3, <2>1, CallInPc DEF At
    <2>4. Calls[c].op = "get" /\ Calls[c].key = key
      BY <2>3, CallFields
    <2>5. InStore' = InStore
      BY <1>2, SameStore DEF AllSame
    <2> QED
      BY <2>2, <2>4, <2>5, CacheSteps
  <1> QED
    BY <1>2, <1>5, <1>6

(* A call begins with a key that is there, unless it is a put().             *)
LEMMA BeginBegins ==
    ASSUME TypeInv, NEW c \in Clients,
           \/ \E k \in Keys, isSystemPrompt \in BOOLEAN, cost \in Costs :
                 PutCall(c, k, isSystemPrompt, cost)
           \/ \E k \in Keys : GetFind(c, k) \/ DelFind(c, k)
    PROVE  Cache!Next
  <1>1. ASSUME NEW op \in {"put", "get", "del"}, NEW pc, NEW k \in Keys, NEW cost, NEW entry,
               Becomes(c, pc, k, cost, entry, None), AllSame, At(c, "idle"),
               op = "put" \/ index[k] # None,
               CallIn(pc, k, None) = Cache!Call(op, k, None)
        PROVE  Cache!Next
    <2>1. Calls[c] = CallIn(client[c].pc, client[c].key, client[c].data)
      BY <1>1, CallsBecome
    <2>2. Calls[c] = Cache!NoCall
      BY <1>1, <2>1, CallInPc DEF At
    <2>3. Calls' = [Calls EXCEPT ![c] = Cache!Call(op, k, None)]
      BY <1>1, CallsBecome
    <2>4. InStore' = InStore /\ (op = "put" \/ k \in InStore)
      BY <1>1 DEF InStore, AllSame, IndexSame
    <2> QED
      BY <2>2, <2>3, <2>4, CacheSteps
  <1>2. ASSUME NEW k \in Keys, NEW isSystemPrompt \in BOOLEAN, NEW cost \in Costs,
               PutCall(c, k, isSystemPrompt, cost)
        PROVE  Cache!Next
    BY <1>1, <1>2, PutCallDoes, CallInPc
  <1>3. ASSUME NEW k \in Keys, GetFind(c, k)
        PROVE  Cache!Next
    BY <1>1, <1>3, GetFindDoes, CallInPc
  <1>4. ASSUME NEW k \in Keys, DelFind(c, k)
        PROVE  Cache!Next
    BY <1>1, <1>4, DelFindDoes, CallInPc
  <1> QED
    BY <1>2, <1>3, <1>4

LEMMA StepMapped ==
    ASSUME OneClient, OneInv, NEW c \in Clients, Step(c)
    PROVE  Mapped
  <1>1. TypeInv
    BY DEF OneInv
  <1>2. CASE PutAllocate(c)
    <2>1. /\ At(c, "allocate") /\ IndexSame
          /\ \/ Becomes(c, "write", client[c].key, client[c].cost, client[c].entry, client[c].data)
             \/ PutAllocates(c)
      BY <1>1, <1>2, PutAllocateDoes
    <2>2. PICK pc, entry :
             /\ pc \in {"write", "copy"}
             /\ Becomes(c, pc, client[c].key, client[c].cost, entry, client[c].data)
      BY <2>1 DEF PutAllocates
    <2> QED
      BY <2>1, <2>2, SameCall, SameStore DEF At, Mapped
  <1>3. CASE PutCopy(c)
    BY <1>1, <1>3, PutCopyDoes, SameCall, SameStore DEF At, Mapped
  <1>4. CASE PutWrite(c)
    <2>1. /\ At(c, "write") /\ IndexSame
          /\ \/ Becomes(c, "upsert", client[c].key, client[c].cost,
                        OnNvme(client[c].key, client[c].cost), client[c].data)
             \/ Becomes(c, "idle", None, 0, None, None)
      BY <1>1, <1>4, PutWriteDoes
    <2>2. CASE Becomes(c, "idle", None, 0, None, None)
      BY <2>1, <2>2, CallReturns DEF At, Mapped
    <2>3. CASE Becomes(c, "upsert", client[c].key, client[c].cost,
                       OnNvme(client[c].key, client[c].cost), client[c].data)
      BY <2>1, <2>3, SameCall, SameStore DEF At, Mapped
    <2> QED
      BY <2>1, <2>2, <2>3
  <1>5. CASE PutUpsert(c)
    BY <1>1, <1>5, UpsertStores DEF Mapped
  <1>6. CASE EvictCheck(c)
    <2>1. /\ At(c, "check") /\ AllSame
          /\ \/ Becomes(c, "pick", client[c].key, client[c].cost, client[c].entry, client[c].data)
             \/ Becomes(c, "idle", None, 0, None, None)
      BY <1>1, <1>6, EvictCheckDoes
    <2>2. CASE Becomes(c, "idle", None, 0, None, None)
      BY <2>1, <2>2, CallReturns DEF At, Mapped, AllSame
    <2>3. CASE Becomes(c, "pick", client[c].key, client[c].cost, client[c].entry, client[c].data)
      BY <2>1, <2>3, SameCall, SameStore DEF At, Mapped, AllSame
    <2> QED
      BY <2>1, <2>2, <2>3
  <1>7. CASE EvictPick(c)
    <2>1. /\ At(c, "pick") /\ IndexSame
          /\ \/ Becomes(c, "idle", None, 0, None, None)
             \/ \E k \in Keys : EvictPicks(c, k)
      BY <1>1, <1>7, EvictPickDoes
    <2>2. CASE Becomes(c, "idle", None, 0, None, None)
      BY <2>1, <2>2, CallReturns DEF At, Mapped
    <2>3. CASE \E k \in Keys : EvictPicks(c, k)
      <3>1. PICK k : Becomes(c, "find", k, client[c].cost, client[c].entry, client[c].data)
        BY <2>3 DEF EvictPicks
      <3> QED
        BY <2>1, <3>1, SameCall, SameStore DEF At, Mapped
    <2> QED
      BY <2>1, <2>2, <2>3
  <1>8. CASE EvictFind(c)
    <2>1. /\ At(c, "find") /\ AllSame
          /\ Becomes(c, "check", None, 0, None, None) \/ EvictFinds(c)
      BY <1>1, <1>8, EvictFindDoes
    <2>2. PICK pc, key, cost, entry, data :
             /\ pc \in {"check", "demote", "update"}
             /\ Becomes(c, pc, key, cost, entry, data)
      BY <2>1 DEF EvictFinds
    <2> QED
      BY <2>1, <2>2, SameCall, SameStore DEF At, Mapped, AllSame
  <1>9. CASE EvictDemote(c)
    <2>1. At(c, "demote") /\ AllSame
      BY <1>1, <1>9, EvictDemoteDoes
    <2>2. PICK data : Becomes(c, "update", client[c].key, client[c].cost, client[c].entry, data)
      BY <1>1, <1>9, EvictDemoteDoes
    <2> QED
      BY <2>1, <2>2, SameCall, SameStore DEF At, Mapped, AllSame
  <1>10. CASE EvictUpdate(c)
    BY <1>10, UpdateDrops
  <1>11. CASE EvictFree(c)
    BY <1>1, <1>11, EvictFreeDoes, SameCall, SameStore DEF At, Mapped
  <1>12. CASE GetLoad(c)
    BY <1>12, LoadDelivers DEF Mapped
  <1>13. CASE GetReturn(c)
    BY <1>1, <1>13, GetReturnDoes, CallReturns DEF At, Mapped, AllSame
  <1>14. CASE DelRelease(c)
    BY <1>1, <1>14, DelReleaseDoes, SameCall, SameStore DEF At, Mapped
  <1>15. CASE DelErase(c)
    BY <1>1, <1>15, EraseRemoves DEF Mapped
  <1>16. CASE DelForget(c)
    BY <1>1, <1>16, DelForgetDoes, CallReturns DEF At, Mapped
  <1> QED
    BY <1>2, <1>3, <1>4, <1>5, <1>6, <1>7, <1>8, <1>9, <1>10, <1>11, <1>12, <1>13, <1>14,
       <1>15, <1>16 DEF Step

(* One client at a time, the engine is a cache of blobs: get() delivers the  *)
(* blob of its key though slots are freed and refilled, a key that del()     *)
(* removed stays away until it is put again, only evictions take other keys  *)
(* away, and a put() that fails stores nothing.                              *)
THEOREM OneImplementsCache ==
    ASSUME OneClient
    PROVE  Spec => ImplementsCache
  <1>1. Init => Cache!Init
    <2> SUFFICES ASSUME Init PROVE Cache!Init
      OBVIOUS
    <2>1. \A k \in Keys : index[k] = None
      BY InitSlots
    <2>2. ASSUME NEW c \in Clients PROVE CallOf(client[c]) = Cache!NoCall
      <3>1. client[c] = Idle /\ Idle.pc = "idle"
        BY DEF Init, Idle
      <3> QED
        BY <3>1, OpOfPc DEF CallOf, Cache!NoCall, Cache!Call
    <2> QED
      BY <2>1, <2>2 DEF Cache!Init
  <1>2. OneInv /\ [Next]_vars => [Cache!Next]_Cache!vars
    <2> SUFFICES ASSUME OneInv, [Next]_vars PROVE [Cache!Next]_Cache!vars
      OBVIOUS
    <2>1. CASE UNCHANGED vars
      BY <2>1 DEF vars, Cache!vars
    <2>2. CASE Next
      <3>1. PICK c \in Clients :
               \/ \E k \in Keys, isSystemPrompt \in BOOLEAN, cost \in Costs : PutCall(c, k, isSystemPrompt, cost)
               \/ \E k \in Keys : GetFind(c, k) \/ DelFind(c, k)
               \/ Step(c)
        BY <2>2 DEF Next
      <3>2. Mapped
        BY <3>1, StepMapped, BeginBegins DEF OneInv, Mapped
      <3> QED
        BY <3>2 DEF Mapped, Calls, InStore, Cache!vars
    <2> QED
      BY <2>1, <2>2
  <1> QED
    BY <1>1, <1>2, OneInvariant, PTL DEF Spec, ImplementsCache, Cache!Spec

-----------------------------------------------------------------------------
(* Any number of clients, all calls: what is in DRAM stays within the reach  *)
(* of eviction.                                                              *)

(* A step that neither picks nor drops a victim *)
LEMMA TracksOn ==
    ASSUME NEW c \in Clients, NEW k \in Keys, Evictable(k), index'[k] = index[k],
           k \in t1 => k \in t1',
           \A d \in Clients \ {c} : client'[d] = client[d],
           Chases(c, k) => Chases(c, k)'
    PROVE  Evictable(k)'
  <1>1. \A d \in Clients : Chases(d, k) => Chases(d, k)'
    BY DEF Chases
  <1>2. Dram(k) => k \in t1 \/ \E d \in Clients : Chases(d, k)
    BY DEF Evictable, Dram, Chases
  <1>3. Dram(k)' => Dram(k)
    BY DEF Dram
  <1>4. Dram(k)' => k \in t1' \/ \E d \in Clients : Chases(d, k)'
    BY <1>1, <1>2, <1>3
  <1> QED
    BY <1>4 DEF Evictable, Dram, Chases

LEMMA TracksQuiet ==
    ASSUME NEW c \in Clients, NEW k \in Keys, Evictable(k), IndexSame, k \in t1 => k \in t1',
           client[c].pc \notin {"find", "demote", "update"},
           NEW pc, NEW key, NEW cost, NEW entry, NEW data, Becomes(c, pc, key, cost, entry, data)
    PROVE  Evictable(k)'
  <1>1. index'[k] = index[k] /\ \A d \in Clients \ {c} : client'[d] = client[d]
    BY DEF IndexSame, Becomes
  <1>2. ~Chases(c, k)
    BY DEF Chases
  <1> QED
    BY <1>1, <1>2, TracksOn

(* The steps by which a key may get out of it *)
LosesTrack(c, k) == client[c].key = k /\ ((At(c, "upsert") /\ k \notin t1) \/ At(c, "forget"))

LEMMA PutTracks ==
    ASSUME TypeInv, NEW c \in Clients, NEW k \in Keys, Evictable(k),
           PutAllocate(c) \/ PutCopy(c) \/ PutWrite(c) \/ PutUpsert(c)
    PROVE  Evictable(k)' \/ LosesTrack(c, k)
  <1>1. CASE PutAllocate(c)
    <2>1. /\ At(c, "allocate") /\ IndexSame /\ TiersSame
          /\ \E pc, entry : Becomes(c, pc, client[c].key, client[c].cost, entry, client[c].data)
      BY <1>1, PutAllocateDoes DEF PutAllocates
    <2> QED
      BY <2>1, TracksQuiet DEF At, TiersSame
  <1>2. CASE PutCopy(c)
    <2>1. /\ At(c, "copy") /\ IndexSame /\ t1' = t1 \cup {client[c].key}
          /\ Becomes(c, "upsert", client[c].key, client[c].cost, client[c].entry, client[c].data)
      BY <1>2, PutCopyDoes
    <2> QED
      BY <2>1, TracksQuiet DEF At
  <1>3. CASE PutWrite(c)
    <2>1. /\ At(c, "write") /\ IndexSame /\ t1' = t1
          /\ \E pc, key, cost, entry, data : Becomes(c, pc, key, cost, entry, data)
      BY <1>3, PutWriteDoes
    <2> QED
      BY <2>1, TracksQuiet DEF At
  <1>4. CASE PutUpsert(c)
    <2>1. /\ At(c, "upsert") /\ TiersSame /\ client[c].key \in Keys
          /\ index' = [index EXCEPT ![client[c].key] = client[c].entry]
          /\ Becomes(c, "check", None, 0, None, None)
      BY <1>4, PutUpsertDoes
    <2>2. CASE client[c].key = k /\ k \in t1
      BY <2>1, <2>2 DEF Evictable, TiersSame
    <2>3. CASE client[c].key # k
      <3>1. index'[k] = index[k]
        BY <2>1, <2>3 DEF TypeInv
      <3>2. ~Chases(c, k)
        BY <2>3 DEF Chases
      <3> QED
        BY <2>1, <3>1, <3>2, TracksOn DEF TiersSame, Becomes
    <2> QED
      BY <2>1, <2>2, <2>3 DEF LosesTrack
  <1> QED
    BY <1>1, <1>2, <1>3, <1>4

LEMMA EvictTracks ==
    ASSUME TypeInv, NEW c \in Clients, NEW k \in Keys, Evictable(k),
           \/ EvictCheck(c) \/ EvictPick(c) \/ EvictFind(c) \/ EvictDemote(c) \/ EvictUpdate(c)
           \/ EvictFree(c)
    PROVE  Evictable(k)'
  <1>1. CASE EvictCheck(c)
    <2>1. /\ At(c, "check") /\ IndexSame /\ TiersSame
          /\ \E pc, key, cost, entry, data : Becomes(c, pc, key, cost, entry, data)
      BY <1>1, EvictCheckDoes DEF AllSame
    <2> QED
      BY <2>1, TracksQuiet DEF At, TiersSame
  <1>2. CASE EvictPick(c)
    <2>1. /\ At(c, "pick") /\ IndexSame
          /\ \/ t1' = t1 /\ Becomes(c, "idle", None, 0, None, None)
             \/ \E j \in Keys : EvictPicks(c, j)
      BY <1>2, EvictPickDoes
    <2>2. CASE t1' = t1 /\ Becomes(c, "idle", None, 0, None, None)
      BY <2>1, <2>2, TracksQuiet DEF At
    <2>3. CASE \E j \in Keys : EvictPicks(c, j)
      <3>1. PICK j \in Keys : EvictPicks(c, j)
        BY <2>3
      <3>2. /\ t1' = t1 \ {j}
            /\ Becomes(c, "find", j, client[c].cost, client[c].entry, client[c].data)
        BY <3>1 DEF EvictPicks
      <3>3. CASE j = k
        BY <3>2, <3>3 DEF Evictable, Becomes
      <3>4. CASE j # k
        BY <2>1, <3>2, <3>4, TracksQuiet DEF At
      <3> QED
        BY <3>3, <3>4
    <2> QED
      BY <2>1, <2>2, <2>3
  <1>3. CASE EvictFind(c)
    <2>1. /\ At(c, "find") /\ IndexSame /\ TiersSame /\ client[c].key \in Keys
          /\ \/ /\ index[client[c].key] = None \/ index[client[c].key].tier # "t1"
                /\ Becomes(c, "check", None, 0, None, None)
             \/ EvictFinds(c)
      BY <1>3, EvictFindDoes DEF AllSame
    <2>2. CASE EvictFinds(c)
      <3>1. Chases(c, k) => Chases(c, k)'
        BY <2>2 DEF EvictFinds, Becomes, Chases
      <3> QED
        BY <2>1, <2>2, <3>1, TracksOn DEF EvictFinds, Becomes, IndexSame, TiersSame
    <2>3. CASE /\ index[client[c].key] = None \/ index[client[c].key].tier # "t1"
               /\ Becomes(c, "check", None, 0, None, None)
      <3>1. CASE client[c].key = k
        BY <2>1, <2>3, <3>1 DEF Evictable, IndexSame
      <3>2. CASE client[c].key # k
        <4>1. ~Chases(c, k)
          BY <3>2 DEF Chases
        <4> QED
          BY <2>1, <2>3, <4>1, TracksOn DEF Becomes, IndexSame, TiersSame
      <3> QED
        BY <3>1, <3>2
    <2> QED
      BY <2>1, <2>2, <2>3
  <1>4. CASE EvictDemote(c)
    <2>1. /\ At(c, "demote") /\ IndexSame /\ TiersSame
          /\ \E data : Becomes(c, "update", client[c].key, client[c].cost, client[c].entry, data)
      BY <1>4, EvictDemoteDoes DEF AllSame
    <2>2. Chases(c, k) => Chases(c, k)'
      BY <2>1 DEF Becomes, Chases
    <2> QED
      BY <2>1, <2>2, TracksOn DEF Becomes, IndexSame, TiersSame
  <1>5. CASE EvictUpdate(c)
    <2>1. /\ At(c, "update") /\ TiersSame /\ client[c].key \in Keys
          /\ index' = [index EXCEPT ![client[c].key] = Demoted(c)]
          /\ Demoted(c) = None \/ (Demoted(c) \in Entry /\ Demoted(c).tier = "t2")
          /\ Becomes(c, "free", client[c].key, client[c].cost, client[c].entry, client[c].data)
      BY <1>5, EvictUpdateDoes
    <2>2. PICK e : e = Demoted(c)
      OBVIOUS
    <2>3. index'[client[c].key] = e /\ (e = None \/ e.tier = "t2")
      BY <2>1, <2>2 DEF TypeInv
    <2>4. CASE client[c].key = k
      BY <2>3, <2>4 DEF Evictable
    <2>5. CASE client[c].key # k
      <3>1. index'[k] = index[k]
        BY <2>1, <2>5 DEF TypeInv
      <3>2. ~Chases(c, k)
        BY <2>5 DEF Chases
      <3> QED
        BY <2>1, <3>1, <3>2, TracksOn DEF TiersSame, Becomes
    <2> QED
      BY <2>1, <2>4, <2>5
  <1>6. CASE EvictFree(c)
    <2>1. /\ At(c, "free") /\ IndexSame /\ t1' = t1
          /\ Becomes(c, "check", None, 0, None, None)
      BY <1>6, EvictFreeDoes
    <2> QED
      BY <2>1, TracksQuiet DEF At
  <1> QED
    BY <1>1, <1>2, <1>3, <1>4, <1>5, <1>6

LEMMA RestTracks ==
    ASSUME TypeInv, NEW c \in Clients, NEW k \in Keys, Evictable(k),
           \/ GetLoad(c) \/ GetReturn(c)
           \/ DelRelease(c) \/ DelErase(c) \/ DelForget(c)
    PROVE  Evictable(k)' \/ LosesTrack(c, k)
  <1>1. CASE GetLoad(c)
    <2>1. /\ At(c, "load") /\ IndexSame /\ TiersSame
          /\ \E pc, key, cost, entry, data : Becomes(c, pc, key, cost, entry, data)
      BY <1>1, GetLoadDoes DEF AllSame
    <2> QED
      BY <2>1, TracksQuiet DEF At, TiersSame
  <1>2. CASE GetReturn(c)
    <2>1. /\ At(c, "got") /\ IndexSame /\ TiersSame
          /\ Becomes(c, "idle", None, 0, None, None)
      BY <1>2, GetReturnDoes DEF AllSame
    <2> QED
      BY <2>1, TracksQuiet DEF At, TiersSame
  <1>3. CASE DelRelease(c)
    <2>1. /\ At(c, "release") /\ IndexSame /\ TiersSame
          /\ Becomes(c, "erase", client[c].key, client[c].cost, client[c].entry, client[c].data)
      BY <1>3, DelReleaseDoes
    <2> QED
      BY <2>1, TracksQuiet DEF At, TiersSame
  <1>4. CASE DelErase(c)
    <2>1. /\ At(c, "erase") /\ TiersSame /\ client[c].key \in Keys
          /\ index' = [index EXCEPT ![client[c].key] = None]
          /\ Becomes(c, "forget", client[c].key, client[c].cost, client[c].entry, client[c].data)
      BY <1>4, DelEraseDoes
    <2>2. CASE client[c].key = k
      BY <2>1, <2>2 DEF Evictable, TypeInv
    <2>3. CASE client[c].key # k
      <3>1. index'[k] = index[k]
        BY <2>1, <2>3 DEF TypeInv
      <3>2. ~Chases(c, k)
        BY <2>3 DEF Chases
      <3> QED
        BY <2>1, <3>1, <3>2, TracksOn DEF TiersSame, Becomes
    <2> QED
      BY <2>1, <2>2, <2>3
  <1>5. CASE DelForget(c)
    <2>1. /\ At(c, "forget") /\ IndexSame /\ t1' = t1 \ {client[c].key}
          /\ Becomes(c, "idle", None, 0, None, None)
      BY <1>5, DelForgetDoes
    <2>2. CASE client[c].key # k
      BY <2>1, <2>2, TracksQuiet DEF At
    <2> QED
      BY <2>1, <2>2 DEF LosesTrack
  <1> QED
    BY <1>1, <1>2, <1>3, <1>4, <1>5

LEMMA BeginTracks ==
    ASSUME TypeInv, NEW c \in Clients, NEW k \in Keys, Evictable(k),
           \/ \E j \in Keys, isSystemPrompt \in BOOLEAN, cost \in Costs :
                 PutCall(c, j, isSystemPrompt, cost)
           \/ \E j \in Keys : GetFind(c, j) \/ DelFind(c, j)
    PROVE  Evictable(k)'
  <1>1. /\ At(c, "idle") /\ IndexSame /\ TiersSame
        /\ \E pc, key, cost, entry, data : Becomes(c, pc, key, cost, entry, data)
    BY PutCallDoes, GetFindDoes, DelFindDoes DEF AllSame
  <1> QED
    BY <1>1, TracksQuiet DEF At, TiersSame

LEMMA TypeNext ==
    ASSUME TypeInv, [Next]_vars
    PROVE  TypeInv'
  <1>1. ASSUME NEW c \in Clients, Step(c) PROVE TypeInv'
    BY <1>1, PutAllocateDoes, PutCopyDoes, PutWriteDoes, PutUpsertDoes, EvictCheckDoes, EvictPickDoes,
       EvictFindDoes, EvictDemoteDoes, EvictUpdateDoes, EvictFreeDoes, GetLoadDoes, GetReturnDoes,
       DelReleaseDoes, DelEraseDoes, DelForgetDoes, Zenon DEF Step
  <1>2. CASE UNCHANGED vars
    BY <1>2, Stutter
  <1> QED
    BY <1>1, <1>2, PutCallDoes, GetFindDoes, DelFindDoes, Zenon DEF Next

(* For any number of clients and all their calls: a blob in DRAM that can be *)
(* evicted remains so, except by the two steps that the property names.      *)
THEOREM BlobsStayTracked == Spec => StaysTracked
  <1>1. Init => TypeInv
    BY InitSlots
  <1>2. TypeInv /\ [Next]_vars => TypeInv'
    BY TypeNext
  <1> DEFINE Tracks == \A k \in Keys : Evictable(k) /\ ~Evictable(k)' =>
                          \E c \in Clients : /\ client[c].key = k
                                             /\ (At(c, "upsert") /\ k \notin t1) \/ At(c, "forget")
  <1>3. TypeInv /\ [Next]_vars => [Tracks]_vars
    <2> SUFFICES ASSUME TypeInv, Next, NEW k \in Keys, Evictable(k)
                 PROVE  Evictable(k)' \/ \E c \in Clients : LosesTrack(c, k)
      BY DEF LosesTrack
    <2>1. PICK c \in Clients :
             \/ \E j \in Keys, isSystemPrompt \in BOOLEAN, cost \in Costs :
                   PutCall(c, j, isSystemPrompt, cost)
             \/ \E j \in Keys : GetFind(c, j) \/ DelFind(c, j)
             \/ Step(c)
      BY DEF Next
    <2>2. CASE Step(c)
      BY <2>2, PutTracks, EvictTracks, RestTracks DEF Step
    <2> QED
      BY <2>1, <2>2, BeginTracks
  <1> QED
    BY <1>1, <1>2, <1>3, PTL DEF Spec, StaysTracked
=============================================================================
