-------------------------- MODULE CheckpointProofs --------------------------
(***************************************************************************)
(* Theorems about Checkpoint, for every finite set of keys, every set of   *)
(* clients and every number of changes, faults and crashes.                *)
(***************************************************************************)
EXTENDS Checkpoint, FiniteSetTheorems, TLAPS

(***************************************************************************)
(* The inductive invariant for the contents of the checkpoint.  Whatever   *)
(* is left of a file is a remainder of the whole file of one past content  *)
(* of the index, tearing a remainder leaves a remainder, and load()        *)
(* accepts a remainder only if it is the whole.                            *)
(***************************************************************************)
Remains(ix) ==
    {File(Cardinality(Entries(ix)), sum, b) :
        sum \in {{}, Entries(ix)}, b \in SUBSET (Entries(ix) \cup {Zeros})}

FileOK(f) == f = None \/ \E ix \in past : f \in Remains(ix)

FilesInv ==
    /\ TypeOK
    /\ past \subseteq Index /\ Empty \in past /\ index \in past /\ snap \in past
    /\ FileOK(file) /\ FileOK(older)
    /\ saver.pc = "rename" => tmp = Whole(snap)

(***************************************************************************)
(* The inductive invariant for the shutdown.  A change that is not marked  *)
(* yet will be; a mark is cleared only by the save that wrote the index as *)
(* it is, unless a change was marked after that save took its snapshot.    *)
(***************************************************************************)
Unmarked == \E c \in Clients : client[c] \in {"changed", "touched"}

SaverInv ==
    /\ saver.pc \in {"snapshot", "write", "rename", "clear"} => dirty
    /\ saver.last => ~running
    /\ saver.pc = "exited" => ~running /\ (dirty => faults > 0)
    /\ running <=> phase = "open"
    /\ phase # "open" => \A c \in Clients : client[c] = "idle"

SavedInv ==
    /\ Saving /\ ~raced /\ index # snap => Unmarked
    /\ saver.pc = "clear" => file = Whole(snap)
    /\ faults = 0 /\ ~dirty /\ ~raced => Saved \/ Unmarked

Inv == FilesInv /\ (phase # "crashed" => SaverInv /\ SavedInv)

-----------------------------------------------------------------------------
(* The entries of an index *)

LEMMA EntriesFinite ==
    ASSUME NEW ix \in Index
    PROVE  IsFiniteSet(Entries(ix)) /\ Cardinality(Entries(ix)) \in Nat
  <1> DEFINE K == {j \in Keys : ix[j] # None}
  <1> DEFINE f == [k \in K |-> <<k, ix[k]>>]
  <1>1. IsFiniteSet(K)
    BY CheckpointAssumption, FS_Subset
  <1>2. Entries(ix) = {f[k] : k \in K}
    BY DEF Entries
  <1>3. f \in Surjection(K, Entries(ix))
    <2>1. \A e \in Entries(ix) : \E k \in K : f[k] = e
      BY <1>2
    <2>2. f \in [K -> Entries(ix)]
      BY <1>2
    <2> HIDE DEF f, K
    <2> QED
      BY <2>1, <2>2 DEF Surjection
  <1>4. IsFiniteSet(Entries(ix))
    <2> HIDE DEF f, K
    <2> QED
      BY <1>1, <1>3, FS_Surjection
  <1> QED
    BY <1>4, FS_CardinalityType

LEMMA EntryIn ==
    ASSUME NEW ix, NEW k, NEW e
    PROVE  <<k, e>> \in Entries(ix) <=> k \in Keys /\ ix[k] # None /\ e = ix[k]
  BY DEF Entries

LEMMA EntryParts ==
    ASSUME NEW ix, NEW x \in Entries(ix)
    PROVE  x = <<x[1], x[2]>> /\ x[1] \in Keys /\ x[2] = ix[x[1]] /\ x[2] # None
  BY DEF Entries

(* bulk_load() of the entries of an index is that index.                     *)
LEMMA BulkLoadEntries ==
    ASSUME NEW ix \in Index
    PROVE  BulkLoad(Entries(ix)) = ix
  <1> DEFINE E == Entries(ix)
  <1>1. ASSUME NEW k \in Keys
        PROVE  BulkLoad(E)[k] = ix[k]
    <2>1. CASE ix[k] = None
      <3>1. ~\E e \in E : e[1] = k
        BY <2>1, EntryParts
      <3> QED
        BY <2>1, <3>1 DEF BulkLoad
    <2>2. CASE ix[k] # None
      <3>1. <<k, ix[k]>> \in E /\ <<k, ix[k]>>[1] = k
        BY <2>2, EntryIn
      <3>2. \A e \in E : e[1] = k => e[2] = ix[k]
        BY EntryParts
      <3> HIDE DEF E
      <3>3. \E e \in E : e[1] = k
        BY <3>1
      <3>4. (CHOOSE e \in E : e[1] = k)[2] = ix[k]
        BY <3>2, <3>3
      <3> QED
        BY <3>3, <3>4 DEF BulkLoad
    <2> QED
      BY <2>1, <2>2
  <1>2. BulkLoad(E) = [k \in Keys |-> BulkLoad(E)[k]] /\ ix = [k \in Keys |-> ix[k]]
    BY DEF BulkLoad, Index
  <1> QED
    BY <1>1, <1>2

(* The scrub leaves the entries of the NVMe tier.                            *)
LEMMA ScrubEntries ==
    ASSUME NEW ix \in Index
    PROVE  /\ Scrub(ix) \in Index
           /\ Entries(Scrub(ix)) = {e \in Entries(ix) : e[2].tier = "t2"}
  <1>1. Scrub(ix) \in Index
    BY DEF Scrub, Index
  <1>2. \A k \in Keys : ix[k] # None => ix[k].tier \in Tiers
    BY DEF Index, Entry
  <1>3. ASSUME NEW e \in Entries(Scrub(ix))
        PROVE  e \in Entries(ix) /\ e[2].tier = "t2"
    <2>1. e = <<e[1], e[2]>> /\ e[1] \in Keys /\ e[2] = Scrub(ix)[e[1]] /\ e[2] # None
      BY <1>3, EntryParts
    <2>2. e[2] = ix[e[1]] /\ ix[e[1]].tier # "t1"
      BY <2>1 DEF Scrub
    <2>3. <<e[1], e[2]>> \in Entries(ix)
      BY <2>1, <2>2, EntryIn
    <2> QED
      BY <1>2, <2>1, <2>2, <2>3 DEF Tiers
  <1>4. ASSUME NEW e \in Entries(ix), e[2].tier = "t2"
        PROVE  e \in Entries(Scrub(ix))
    <2>1. e = <<e[1], e[2]>> /\ e[1] \in Keys /\ e[2] = ix[e[1]] /\ e[2] # None
      BY <1>4, EntryParts
    <2>2. Scrub(ix)[e[1]] = e[2]
      BY <1>4, <2>1 DEF Scrub
    <2>3. <<e[1], e[2]>> \in Entries(Scrub(ix))
      BY <2>1, <2>2, EntryIn
    <2> QED
      BY <2>1, <2>3
  <1> QED
    BY <1>1, <1>3, <1>4

LEMMA EmptyEntries == Empty \in Index /\ Entries(Empty) = {}
  BY DEF Empty, Index, Entries

-----------------------------------------------------------------------------
(* What is left of a file *)

LEMMA RemainsFields ==
    ASSUME NEW ix, NEW f \in Remains(ix)
    PROVE  /\ f.count = Cardinality(Entries(ix))
           /\ f.sum \in {{}, Entries(ix)}
           /\ f.body \subseteq Entries(ix) \cup {Zeros}
  BY DEF Remains, File

LEMMA WholeRemains ==
    ASSUME NEW ix
    PROVE  Whole(ix) \in Remains(ix)
  BY DEF Whole, Remains

LEMMA TornRemains ==
    ASSUME NEW ix, NEW f \in Remains(ix)
    PROVE  Torn(f) \subseteq Remains(ix)
  <1>1. /\ f.count = Cardinality(Entries(ix))
        /\ f.sum \in {{}, Entries(ix)}
        /\ f.body \subseteq Entries(ix) \cup {Zeros}
    BY RemainsFields
  <1>2. ASSUME NEW sum \in {{}, f.sum}, NEW b \in SUBSET f.body
        PROVE  File(f.count, sum, b) \in Remains(ix)
    BY <1>1 DEF Remains
  <1>3. ASSUME NEW e \in f.body
        PROVE  File(f.count, f.sum, (f.body \ {e}) \cup {Zeros}) \in Remains(ix)
    <2>1. (f.body \ {e}) \cup {Zeros} \in SUBSET (Entries(ix) \cup {Zeros})
      BY <1>1
    <2> QED
      BY <1>1, <2>1 DEF Remains
  <1>4. ASSUME NEW g \in Torn(f)
        PROVE  g \in Remains(ix)
    <2>1. \/ \E sum \in {{}, f.sum}, b \in SUBSET f.body : g = File(f.count, sum, b)
          \/ \E e \in f.body : g = File(f.count, f.sum, (f.body \ {e}) \cup {Zeros})
      BY DEF Torn
    <2> QED
      BY <1>2, <1>3, <2>1
  <1> QED
    BY <1>4

(* load() takes the whole file of an index or nothing.                       *)
LEMMA LoadedRemains ==
    ASSUME NEW ix \in Index, NEW f \in Remains(ix)
    PROVE  Loaded(f) \in {Empty, Scrub(ix)}
  <1>1. /\ f.count = Cardinality(Entries(ix))
        /\ f.sum \in {{}, Entries(ix)}
    BY RemainsFields
  <1>2. CASE ~Accepted(f)
    BY <1>2 DEF Loaded
  <1>3. CASE Accepted(f)
    <2>1. f.count <= Cardinality(f.body) /\ f.sum = f.body
      BY <1>3 DEF Accepted
    <2>2. f.body = Entries(ix)
      <3>1. CASE f.sum = Entries(ix)
        BY <2>1, <3>1
      <3>2. CASE f.sum = {}
        <4>1. Cardinality(f.body) = 0
          BY <2>1, <3>2, FS_EmptySet
        <4>2. Cardinality(Entries(ix)) = 0
          BY <1>1, <2>1, <4>1, EntriesFinite
        <4>3. Entries(ix) = {}
          BY <4>2, EntriesFinite, FS_EmptySet
        <4> QED
          BY <2>1, <3>2, <4>3
      <3> QED
        BY <1>1, <3>1, <3>2
    <2> QED
      BY <1>3, <2>2, BulkLoadEntries DEF Loaded
  <1> QED
    BY <1>2, <1>3

-----------------------------------------------------------------------------
(* The contents of the checkpoint *)

LEMMA FilesInit == Init => FilesInv
  <1> SUFFICES ASSUME Init PROVE FilesInv
    OBVIOUS
  <1>1. TypeOK
    <2>1. index \in Index /\ snap \in Index
      BY EmptyEntries DEF Init
    <2>2. saver \in [pc : {"loop"}, last : BOOLEAN]
      BY DEF Init
    <2>3. dirty \in BOOLEAN /\ running \in BOOLEAN /\ raced \in BOOLEAN
          /\ phase = "open" /\ client \in [Clients -> {"idle"}]
      BY DEF Init
    <2>4. changes \in 0 .. MaxChanges /\ faults \in 0 .. MaxFaults /\ crashes \in 0 .. MaxCrashes
      BY CheckpointAssumption DEF Init
    <2> QED
      BY <2>1, <2>2, <2>3, <2>4 DEF TypeOK
  <1> QED
    BY <1>1, EmptyEntries DEF Init, FilesInv, FileOK

(* A change of one entry makes an index of an index.                         *)
LEMMA SetEntryIndex ==
    ASSUME TypeOK, past \subseteq Index, NEW k \in Keys, NEW e \in {None} \cup Entry, SetEntry(k, e)
    PROVE  /\ index' \in Index /\ past' \subseteq Index /\ index' \in past' /\ past \subseteq past'
           /\ changes' \in 0 .. MaxChanges
  <1>1. index' \in Index
    BY DEF TypeOK, SetEntry, Index
  <1>2. changes' \in 0 .. MaxChanges
    BY CheckpointAssumption DEF TypeOK, SetEntry
  <1> QED
    BY <1>1, <1>2 DEF SetEntry

LEMMA NewEntry ==
    ASSUME TypeOK, changes < MaxChanges, NEW t \in Tiers
    PROVE  [tier |-> t, version |-> changes + 1] \in Entry
  <1>1. changes + 1 \in 1 .. MaxChanges
    BY CheckpointAssumption DEF TypeOK
  <1> QED
    BY <1>1 DEF Entry

(* A step that leaves the files and the snapshot alone and the index among   *)
(* its past contents                                                         *)
LEMMA FilesSame ==
    ASSUME FilesInv, TypeOK', past \subseteq past', past' \subseteq Index, index' \in past',
           snap' \in past', file' = file, older' = older,
           saver'.pc = "rename" => saver.pc = "rename" /\ tmp' = tmp /\ snap' = snap
    PROVE  FilesInv'
  BY DEF FilesInv, FileOK

LEMMA FilesClient ==
    ASSUME FilesInv, NEW c \in Clients, ClientStep(c)
    PROVE  FilesInv'
  <1>1. TypeOK /\ past \subseteq Index /\ index \in past /\ snap \in past
    BY DEF FilesInv
  <1>2. /\ running' = running /\ saver' = saver /\ snap' = snap /\ phase' = phase
        /\ tmp' = tmp /\ file' = file /\ older' = older /\ faults' = faults /\ crashes' = crashes
    BY DEF ClientStep, Change, MarkDirty, Return, Evict, fileVars
  <1>3. dirty' \in BOOLEAN /\ raced' \in BOOLEAN
    BY <1>1 DEF ClientStep, Change, MarkDirty, Return, Evict, TypeOK
  <1>4. client' \in [Clients -> {"idle", "changed", "touched", "evicting"}]
    BY <1>1 DEF ClientStep, Change, Upsert, Erase, Touch, MarkDirty, Return, Evict, TypeOK
  <1>5. /\ index' \in Index /\ past' \subseteq Index /\ index' \in past' /\ past \subseteq past'
        /\ changes' \in 0 .. MaxChanges
    <2>1. CASE UNCHANGED <<index, past, changes>>
      BY <1>1, <2>1 DEF TypeOK
    <2>2. ASSUME NEW k \in Keys, NEW e \in {None} \cup Entry, SetEntry(k, e)
          PROVE  /\ index' \in Index /\ past' \subseteq Index /\ index' \in past'
                 /\ past \subseteq past' /\ changes' \in 0 .. MaxChanges
      BY <1>1, <2>2, SetEntryIndex
    <2>3. ASSUME Change(c)
          PROVE  \/ UNCHANGED <<index, past, changes>>
                 \/ \E k \in Keys, e \in {None} \cup Entry : SetEntry(k, e)
      <3>1. PICK k \in Keys : (\E t \in Tiers : Upsert(c, k, t)) \/ Erase(c, k) \/ Touch(c, k)
        BY <2>3 DEF Change
      <3>2. ASSUME NEW t \in Tiers, Upsert(c, k, t)
            PROVE  \E e \in {None} \cup Entry : SetEntry(k, e)
        <4>1. SetEntry(k, [tier |-> t, version |-> changes + 1]) /\ changes < MaxChanges
          BY <3>2 DEF Upsert, SetEntry
        <4> QED
          BY <1>1, <4>1, NewEntry
      <3>3. CASE Erase(c, k)
        BY <3>3 DEF Erase
      <3>4. CASE Touch(c, k)
        BY <3>4 DEF Touch
      <3> QED
        BY <3>1, <3>2, <3>3, <3>4
    <2>4. ASSUME NEW k \in Keys, Evict(c, k)
          PROVE  \E e \in {None} \cup Entry : SetEntry(k, e)
      <3>1. PICK e \in {None, [tier |-> "t2", version |-> changes + 1]} : SetEntry(k, e)
        BY <2>4 DEF Evict
      <3>2. changes < MaxChanges /\ "t2" \in Tiers
        BY <3>1 DEF SetEntry, Tiers
      <3>3. [tier |-> "t2", version |-> changes + 1] \in Entry
        BY <1>1, <3>2, NewEntry
      <3> QED
        BY <3>1, <3>3
    <2>5. CASE MarkDirty(c) \/ Return(c)
      BY <2>1, <2>5 DEF MarkDirty, Return
    <2> QED
      BY <2>1, <2>2, <2>3, <2>4, <2>5 DEF ClientStep
  <1>6. TypeOK'
    BY <1>1, <1>2, <1>3, <1>4, <1>5 DEF TypeOK
  <1> QED
    BY <1>1, <1>2, <1>5, <1>6, FilesSame

LEMMA FilesSaver ==
    ASSUME FilesInv, SaverStep
    PROVE  FilesInv'
  <1>1. TypeOK /\ past \subseteq Index /\ index \in past /\ snap \in past
    BY DEF FilesInv
  <1>2. /\ index' = index /\ running' = running /\ client' = client /\ phase' = phase
        /\ changes' = changes /\ crashes' = crashes /\ past' = past
    BY DEF SaverStep
  <1>3. CASE Loop \/ Park \/ WakeUp \/ Check \/ ClearDirty
    <2>1. /\ snap' = snap /\ tmp' = tmp /\ file' = file /\ older' = older /\ faults' = faults
          /\ raced' = raced /\ dirty' \in {dirty, FALSE}
      BY <1>3 DEF Loop, Park, WakeUp, Check, ClearDirty, fileVars
    <2>2. saver' \in [pc : {"loop", "parking", "waiting", "check", "snapshot", "exited"},
                      last : BOOLEAN]
      <3> DEFINE P == {"loop", "parking", "waiting", "check", "snapshot", "exited"}
      <3>1. saver.last \in BOOLEAN /\ \A pc \in P : [saver EXCEPT !.pc = pc] \in [pc : P, last : BOOLEAN]
        BY <1>1 DEF TypeOK
      <3>2. CASE Loop
        <4>1. CASE running
          BY <3>1, <3>2, <4>1 DEF Loop, Goto
        <4>2. CASE ~running
          <5>1. saver' \in {[pc |-> "snapshot", last |-> TRUE], [pc |-> "exited", last |-> TRUE]}
            BY <3>2, <4>2 DEF Loop
          <5>2. CASE saver' = [pc |-> "snapshot", last |-> TRUE]
            BY <5>2
          <5>3. CASE saver' = [pc |-> "exited", last |-> TRUE]
            BY <5>3
          <5> QED
            BY <5>1, <5>2, <5>3
        <4> QED
          BY <4>1, <4>2
      <3>3. CASE Park \/ WakeUp
        BY <3>1, <3>3 DEF Park, WakeUp, Goto
      <3>4. CASE Check
        BY <3>1, <3>4 DEF Check, Goto
      <3>5. CASE ClearDirty
        BY <3>1, <3>5 DEF ClearDirty, Back, Goto
      <3> QED
        BY <1>3, <3>2, <3>3, <3>4, <3>5
    <2>3. saver'.pc # "rename" /\ TypeOK'
      BY <1>1, <1>2, <2>1, <2>2 DEF TypeOK
    <2> QED
      BY <1>1, <1>2, <2>1, <2>3, FilesSame
  <1>4. CASE Snapshot
    <2>1. /\ snap' = index /\ tmp' = tmp /\ file' = file /\ older' = older /\ faults' = faults
          /\ raced' = FALSE /\ dirty' = dirty /\ saver' = [saver EXCEPT !.pc = "write"]
      BY <1>4 DEF Snapshot, Goto, fileVars
    <2>2. saver'.pc # "rename" /\ TypeOK'
      BY <1>1, <1>2, <2>1 DEF TypeOK
    <2> QED
      BY <1>1, <1>2, <2>1, <2>2, FilesSame
  <1>5. CASE WriteTmp
    <2>1. /\ snap' = snap /\ file' = file /\ older' = older /\ raced' = raced /\ dirty' = dirty
          /\ \/ /\ tmp' = Whole(snap) /\ faults' = faults
                /\ saver' = [saver EXCEPT !.pc = "rename"]
             \/ /\ faults < MaxFaults /\ faults' = faults + 1
                /\ saver' = [saver EXCEPT !.pc = IF saver.last THEN "exited" ELSE "loop"]
      BY <1>5 DEF WriteTmp, Goto, Back
    <2>2. faults' \in 0 .. MaxFaults
      BY <1>1, <2>1, CheckpointAssumption DEF TypeOK
    <2>3. /\ saver' \in [pc : {"rename", "loop", "exited"}, last : BOOLEAN]
          /\ saver'.pc = "rename" => tmp' = Whole(snap)
      BY <1>1, <2>1 DEF TypeOK
    <2>4. TypeOK'
      BY <1>1, <1>2, <2>1, <2>2, <2>3 DEF TypeOK
    <2>5. FileOK(file)' /\ FileOK(older)'
      BY <1>2, <2>1 DEF FilesInv, FileOK
    <2>6. Whole(snap)' = Whole(snap)
      BY <2>1 DEF Whole, Entries
    <2> QED
      BY <1>2, <2>1, <2>3, <2>4, <2>5, <2>6 DEF FilesInv
  <1>6. CASE Rename
    <2>1. /\ snap' = snap /\ file' = tmp /\ older' = file /\ raced' = raced /\ dirty' = dirty
          /\ faults' = faults /\ saver' = [saver EXCEPT !.pc = "clear"]
          /\ saver.pc = "rename"
      BY <1>6 DEF Rename, Goto, At
    <2>2. saver'.pc = "clear" /\ TypeOK'
      BY <1>1, <1>2, <2>1 DEF TypeOK
    <2>3. tmp = Whole(snap)
      BY <2>1 DEF FilesInv
    <2>4. FileOK(file)' /\ FileOK(older)'
      BY <1>1, <1>2, <2>1, <2>3, WholeRemains DEF FilesInv, FileOK
    <2> QED
      BY <1>2, <2>1, <2>2, <2>4 DEF FilesInv
  <1> QED
    BY <1>3, <1>4, <1>5, <1>6 DEF SaverStep

(* A crash leaves the file, the one before it or a torn one.                 *)
LEMMA FilesCrash ==
    ASSUME FilesInv, Crash
    PROVE  FilesInv'
  <1>1. /\ index' = index /\ dirty' = dirty /\ running' = running /\ saver' = saver
        /\ snap' = snap /\ tmp' = tmp /\ faults' = faults /\ client' = client
        /\ changes' = changes /\ past' = past /\ raced' = raced
        /\ crashes < MaxCrashes /\ crashes' = crashes + 1 /\ phase' = "crashed" /\ older' = file'
    BY DEF Crash
  <1>2. TypeOK'
    BY <1>1, CheckpointAssumption DEF FilesInv, TypeOK
  <1>3. \/ file' = file \/ file' = older
        \/ file # None /\ file' \in Torn(file)
    BY DEF Crash
  <1>4. FileOK(file)'
    <2>1. CASE file' = file \/ file' = older
      BY <1>1, <2>1 DEF FilesInv, FileOK
    <2>2. CASE file # None /\ file' \in Torn(file)
      <3>1. PICK ix \in past : file \in Remains(ix)
        BY <2>2 DEF FilesInv, FileOK
      <3>2. file' \in Remains(ix)
        BY <2>2, <3>1, TornRemains
      <3> QED
        BY <1>1, <3>1, <3>2 DEF FileOK
    <2> QED
      BY <1>3, <2>1, <2>2
  <1>5. FileOK(older)'
    BY <1>1, <1>4 DEF FileOK
  <1>6. Whole(snap)' = Whole(snap)
    BY <1>1 DEF Whole, Entries
  <1> QED
    BY <1>1, <1>2, <1>4, <1>5, <1>6 DEF FilesInv

LEMMA LoadedIndex ==
    ASSUME FilesInv
    PROVE  \/ Loaded(file) = Empty
           \/ \E ix \in past : Loaded(file) = Scrub(ix)
  <1>1. CASE file = None
    BY <1>1 DEF Loaded, Accepted
  <1>2. CASE file # None
    BY <1>2, LoadedRemains DEF FilesInv, FileOK
  <1> QED
    BY <1>1, <1>2

LEMMA FilesNext == FilesInv /\ [Next]_vars => FilesInv'
  <1> SUFFICES ASSUME FilesInv, [Next]_vars PROVE FilesInv'
    OBVIOUS
  <1>1. TypeOK /\ past \subseteq Index /\ index \in past /\ snap \in past
    BY DEF FilesInv
  <1>2. ASSUME NEW c \in Clients, ClientStep(c) PROVE FilesInv'
    BY <1>2, FilesClient
  <1>3. CASE SaverStep
    BY <1>3, FilesSaver
  <1>4. CASE Stop \/ Notify \/ Join \/ UNCHANGED vars
    <2>1. /\ index' = index /\ snap' = snap /\ tmp' = tmp /\ file' = file /\ older' = older
          /\ past' = past
      BY <1>4 DEF Stop, Notify, Join, vars, fileVars
    <2>2. TypeOK'
      BY <1>1, <1>4 DEF TypeOK, Stop, Notify, Join, vars, fileVars, Goto
    <2>3. saver'.pc = "rename" => saver.pc = "rename"
      BY <1>1, <1>4 DEF TypeOK, Stop, Notify, Join, vars, Goto
    <2> QED
      BY <1>1, <2>1, <2>2, <2>3, FilesSame
  <1>5. CASE Crash
    BY <1>5, FilesCrash
  <1>6. CASE Restart
    <2>1. /\ index' = Loaded(file) /\ past' = past \cup {index'} /\ dirty' = FALSE
          /\ running' = TRUE /\ saver' = [pc |-> "loop", last |-> FALSE] /\ snap' = Empty
          /\ client' = [c \in Clients |-> "idle"] /\ phase' = "open" /\ raced' = FALSE
          /\ tmp' = tmp /\ file' = file /\ older' = older /\ faults' = faults
          /\ changes' = changes /\ crashes' = crashes
      BY <1>6 DEF Restart, fileVars
    <2>2. index' \in Index
      BY <1>1, <2>1, LoadedIndex, ScrubEntries, EmptyEntries
    <2>3. TypeOK'
      BY <1>1, <2>1, <2>2, EmptyEntries DEF TypeOK
    <2>4. Empty \in past /\ saver'.pc # "rename"
      BY <2>1 DEF FilesInv
    <2> QED
      BY <1>1, <2>1, <2>2, <2>3, <2>4, FilesSame
  <1> QED
    BY <1>2, <1>3, <1>4, <1>5, <1>6 DEF Next

(* Whatever a crash leaves of index.checkpoint, load() and the scrub return  *)
(* the NVMe entries of one content that the index really had.                *)
THEOREM LoadsOne == Spec => []LoadsOneState
  <1>1. ASSUME FilesInv PROVE LoadsOneState
    <2>1. CASE Loaded(file) = Empty
      <3>1. {e \in Entries(Empty) : e[2].tier = "t2"} = {} /\ Entries(Empty) = {}
        BY EmptyEntries
      <3>2. Empty \in past
        BY <1>1 DEF FilesInv
      <3> QED
        BY <2>1, <3>1, <3>2 DEF LoadsOneState
    <2>2. ASSUME NEW ix \in past, Loaded(file) = Scrub(ix)
          PROVE  LoadsOneState
      <3>1. ix \in Index
        BY <1>1 DEF FilesInv
      <3>2. Entries(Scrub(ix)) = {e \in Entries(ix) : e[2].tier = "t2"}
        BY <3>1, ScrubEntries
      <3> QED
        BY <2>2, <3>2 DEF LoadsOneState
    <2> QED
      BY <1>1, <2>1, <2>2, LoadedIndex
  <1> QED
    BY <1>1, FilesInit, FilesNext, PTL DEF Spec

-----------------------------------------------------------------------------
(* The shutdown *)

(* A restart of a whole file of the index finds the index, but for the DRAM  *)
(* tier; nothing of this changes when neither does.                          *)
LEMMA SavedSame ==
    ASSUME index' = index, file' = file
    PROVE  Saved' = Saved
  BY DEF Saved, Whole, Entries, Loaded, Accepted, Scrub, BulkLoad, File, Empty

LEMMA WholeSame ==
    ASSUME snap' = snap
    PROVE  Whole(snap)' = Whole(snap)
  BY DEF Whole, Entries

LEMMA InitInv == Init => Inv
  <1> SUFFICES ASSUME Init PROVE Inv
    OBVIOUS
  <1>1. FilesInv
    BY FilesInit
  <1>2. SaverInv
    BY DEF Init, SaverInv
  <1>3. Saved
    BY DEF Init, Saved, Loaded, Accepted
  <1>4. SavedInv
    BY <1>3 DEF Init, SavedInv, Saving
  <1> QED
    BY <1>1, <1>2, <1>4 DEF Inv

LEMMA ClientSaves ==
    ASSUME FilesInv, SaverInv, SavedInv, NEW c \in Clients, ClientStep(c)
    PROVE  SaverInv' /\ SavedInv'
  <1>1. /\ running' = running /\ saver' = saver /\ snap' = snap /\ phase' = phase
        /\ file' = file /\ faults' = faults
    BY DEF ClientStep, Change, MarkDirty, Return, Evict, fileVars
  <1>2. client \in [Clients -> {"idle", "changed", "touched", "evicting"}]
        /\ dirty \in BOOLEAN /\ raced \in BOOLEAN
    BY DEF FilesInv, TypeOK
  <1>3. phase = "open" /\ running
    BY DEF ClientStep, Change, MarkDirty, Return, Evict, SaverInv
  <1>4. SaverInv'
    <2>1. dirty => dirty'
      BY DEF ClientStep, Change, MarkDirty, Return, Evict
    <2> QED
      BY <1>1, <1>3, <2>1 DEF SaverInv
  <1>5. Whole(snap)' = Whole(snap)
    BY <1>1, WholeSame
  <1>6. CASE Change(c)
    <2>1. client'[c] \in {"changed", "touched"}
      BY <1>2, <1>6 DEF Change, Upsert, Erase, Touch
    <2>2. Unmarked'
      BY <2>1 DEF Unmarked
    <2> QED
      BY <1>1, <1>4, <1>5, <2>2 DEF SavedInv
  <1>7. CASE MarkDirty(c)
    <2>1. dirty' = TRUE /\ index' = index /\ raced' = (raced \/ (Saving /\ index # snap))
          /\ (Saving' <=> Saving)
      BY <1>1, <1>7 DEF MarkDirty, Saving
    <2> QED
      BY <1>1, <1>4, <1>5, <2>1 DEF SavedInv
  <1>8. CASE Return(c)
    <2>1. dirty' = dirty /\ index' = index /\ raced' = raced /\ (Saving' <=> Saving)
          /\ client[c] = "evicting" /\ client' = [client EXCEPT ![c] = "idle"]
      BY <1>1, <1>8 DEF Return, Saving
    <2>2. Unmarked' <=> Unmarked
      BY <1>2, <2>1 DEF Unmarked
    <2>3. Saved' <=> Saved
      BY <1>1, <2>1, SavedSame
    <2> QED
      BY <1>1, <1>4, <1>5, <2>1, <2>2, <2>3 DEF SavedInv
  <1>9. ASSUME NEW k \in Keys, Evict(c, k)
        PROVE  SavedInv'
    <2>1. dirty' = dirty /\ raced' = (raced \/ Saving \/ ~dirty) /\ (Saving' <=> Saving)
      BY <1>1, <1>9 DEF Evict, Saving
    <2> QED
      BY <1>1, <1>5, <2>1 DEF SavedInv
  <1> QED
    BY <1>4, <1>6, <1>7, <1>8, <1>9 DEF ClientStep

LEMMA SaverSaves ==
    ASSUME FilesInv, SaverInv, SavedInv, SaverStep
    PROVE  SaverInv' /\ SavedInv'
  <1>1. /\ index' = index /\ running' = running /\ client' = client /\ phase' = phase
    BY DEF SaverStep
  <1>2. /\ dirty \in BOOLEAN /\ raced \in BOOLEAN /\ running \in BOOLEAN /\ faults \in Nat
        /\ saver = [pc |-> saver.pc, last |-> saver.last] /\ saver.last \in BOOLEAN
    BY CheckpointAssumption DEF FilesInv, TypeOK
  <1>3. Unmarked' <=> Unmarked
    BY <1>1 DEF Unmarked
  <1>4. CASE Loop \/ Park \/ WakeUp \/ Check
    <2>1. dirty' = dirty /\ snap' = snap /\ file' = file /\ faults' = faults /\ raced' = raced
      BY <1>4 DEF Loop, Park, WakeUp, Check, fileVars
    <2>2. /\ saver'.pc \in {"parking", "waiting", "check", "snapshot", "loop", "exited"}
          /\ saver'.pc = "snapshot" => dirty
          /\ saver'.pc = "exited" => ~running /\ ~dirty
          /\ saver'.last => saver.last \/ ~running
      <3>1. CASE Loop
        <4>1. \/ running /\ saver' = [saver EXCEPT !.pc = "parking"]
              \/ ~running /\ dirty /\ saver' = [pc |-> "snapshot", last |-> TRUE]
              \/ ~running /\ ~dirty /\ saver' = [pc |-> "exited", last |-> TRUE]
          BY <3>1 DEF Loop, Goto
        <4> QED
          BY <1>2, <4>1
      <3>2. CASE Park \/ WakeUp
        <4>1. \/ saver' = [saver EXCEPT !.pc = "waiting"]
              \/ saver' = [saver EXCEPT !.pc = "check"]
          BY <3>2 DEF Park, WakeUp, Goto
        <4> QED
          BY <1>2, <4>1
      <3>3. CASE Check
        <4>1. \/ dirty /\ saver' = [saver EXCEPT !.pc = "snapshot"]
              \/ saver' = [saver EXCEPT !.pc = "loop"]
          BY <3>3 DEF Check, Goto
        <4> QED
          BY <1>2, <4>1
      <3> QED
        BY <1>4, <3>1, <3>2, <3>3
    <2>3. SaverInv'
      BY <1>1, <2>1, <2>2 DEF SaverInv
    <2>4. Saved' <=> Saved
      BY <1>1, <2>1, SavedSame
    <2>5. SavedInv'
      BY <1>1, <1>3, <2>1, <2>2, <2>4 DEF SavedInv, Saving
    <2> QED
      BY <2>3, <2>5
  <1>5. CASE Snapshot
    <2>1. /\ saver.pc = "snapshot" /\ snap' = index /\ raced' = FALSE /\ dirty' = dirty
          /\ saver' = [saver EXCEPT !.pc = "write"] /\ file' = file /\ faults' = faults
      BY <1>5 DEF Snapshot, At, Goto, fileVars
    <2>2. saver'.pc = "write" /\ saver'.last = saver.last
      BY <1>2, <2>1
    <2> QED
      BY <1>1, <2>1, <2>2 DEF SaverInv, SavedInv
  <1>6. CASE WriteTmp
    <2>1. /\ saver.pc = "write" /\ snap' = snap /\ file' = file /\ raced' = raced /\ dirty' = dirty
          /\ \/ faults' = faults /\ saver' = [saver EXCEPT !.pc = "rename"]
             \/ /\ faults' = faults + 1
                /\ saver' = [saver EXCEPT !.pc = IF saver.last THEN "exited" ELSE "loop"]
      BY <1>6 DEF WriteTmp, Goto, Back, At
    <2>2. saver'.last = saver.last
          /\ \/ faults' = faults /\ saver'.pc = "rename"
             \/ faults' > 0 /\ saver'.pc \in {"exited", "loop"} /\ (saver'.pc = "exited" => saver.last)
      BY <1>2, <2>1
    <2>3. SaverInv'
      BY <1>1, <2>1, <2>2 DEF SaverInv
    <2>4. dirty
      BY <2>1 DEF SaverInv
    <2>5. SavedInv'
      BY <1>1, <1>3, <2>1, <2>2, <2>4 DEF SavedInv, Saving
    <2> QED
      BY <2>3, <2>5
  <1>7. CASE Rename
    <2>1. /\ saver.pc = "rename" /\ snap' = snap /\ file' = tmp /\ raced' = raced /\ dirty' = dirty
          /\ faults' = faults /\ saver' = [saver EXCEPT !.pc = "clear"]
      BY <1>7 DEF Rename, Goto, At
    <2>2. saver'.pc = "clear" /\ saver'.last = saver.last
      BY <1>2, <2>1
    <2>3. tmp = Whole(snap) /\ dirty /\ Whole(snap)' = Whole(snap)
      BY <2>1, WholeSame DEF FilesInv, SaverInv
    <2>4. SaverInv'
      BY <1>1, <2>1, <2>2, <2>3 DEF SaverInv
    <2>5. SavedInv'
      BY <1>1, <1>3, <2>1, <2>2, <2>3 DEF SavedInv, Saving
    <2> QED
      BY <2>4, <2>5
  <1>8. CASE ClearDirty
    <2>1. /\ saver.pc = "clear" /\ snap' = snap /\ file' = file /\ raced' = raced /\ dirty' = FALSE
          /\ faults' = faults
          /\ saver' = [saver EXCEPT !.pc = IF saver.last THEN "exited" ELSE "loop"]
      BY <1>8 DEF ClearDirty, Back, Goto, At, fileVars
    <2>2. saver'.last = saver.last /\ saver'.pc \in {"exited", "loop"}
          /\ (saver'.pc = "exited" => saver.last)
      BY <1>2, <2>1
    <2>3. SaverInv'
      BY <1>1, <2>1, <2>2 DEF SaverInv
    <2>4. ASSUME ~raced, ~Unmarked
          PROVE  Saved'
      <3>1. index = snap /\ file = Whole(snap)
        BY <2>1, <2>4 DEF SavedInv, Saving
      <3>2. Saved
        BY <3>1 DEF Saved
      <3> QED
        BY <1>1, <2>1, <3>2, SavedSame
    <2>5. SavedInv'
      BY <1>3, <2>1, <2>2, <2>4 DEF SavedInv, Saving
    <2> QED
      BY <2>3, <2>5
  <1> QED
    BY <1>4, <1>5, <1>6, <1>7, <1>8 DEF SaverStep

LEMMA NextInv == Inv /\ [Next]_vars => Inv'
  <1> SUFFICES ASSUME Inv, [Next]_vars, phase' # "crashed" PROVE SaverInv' /\ SavedInv'
    BY FilesNext DEF Inv
  <1>1. FilesInv
    BY DEF Inv
  <1>2. CASE Restart
    <2>1. /\ index' = Loaded(file) /\ dirty' = FALSE /\ running' = TRUE
          /\ saver' = [pc |-> "loop", last |-> FALSE]
          /\ client' = [c \in Clients |-> "idle"] /\ phase' = "open" /\ file' = file
      BY <1>2 DEF Restart, fileVars
    <2>2. saver'.pc = "loop" /\ saver'.last = FALSE
      BY <2>1
    <2>3. Loaded(file)' = Loaded(file)
      BY <2>1 DEF Loaded, Accepted, Scrub, BulkLoad, Empty
    <2>4. Saved'
      BY <2>1, <2>3 DEF Saved
    <2> QED
      BY <2>1, <2>2, <2>4 DEF SaverInv, SavedInv, Saving
  <1>3. phase = "crashed" => Restart \/ UNCHANGED vars
    BY DEF Next, ClientStep, SaverStep, Stop, Notify, Join, Crash
  <1>4. phase = "crashed" => Restart
    BY <1>3 DEF vars
  <1>5. ~Crash
    BY DEF Crash
  <1>6. CASE phase # "crashed"
    <2>1. SaverInv /\ SavedInv
      BY <1>6 DEF Inv
    <2>2. ASSUME NEW c \in Clients, ClientStep(c) PROVE SaverInv' /\ SavedInv'
      BY <1>1, <2>1, <2>2, ClientSaves
    <2>3. CASE SaverStep
      BY <1>1, <2>1, <2>3, SaverSaves
    <2>4. ASSUME index' = index, dirty' = dirty, snap' = snap, file' = file, faults' = faults,
                 client' = client, raced' = raced,
                 saver'.pc = saver.pc \/ {saver.pc, saver'.pc} \subseteq {"waiting", "check"}
          PROVE  SavedInv'
      <3>1. (Unmarked' <=> Unmarked) /\ (Saving' <=> Saving) /\ (Saved' <=> Saved)
            /\ Whole(snap)' = Whole(snap)
        BY <2>4, SavedSame, WholeSame DEF Unmarked, Saving
      <3> QED
        BY <2>1, <2>4, <3>1 DEF SavedInv
    <2>5. CASE Stop
      <3>1. /\ index' = index /\ dirty' = dirty /\ snap' = snap /\ file' = file /\ faults' = faults
            /\ client' = client /\ raced' = raced /\ saver' = saver
            /\ running' = FALSE /\ phase' = "stopping" /\ \A c \in Clients : client[c] = "idle"
        BY <2>5 DEF Stop, fileVars
      <3> QED
        BY <2>1, <2>4, <3>1 DEF SaverInv
    <2>6. CASE Notify
      <3>1. /\ index' = index /\ dirty' = dirty /\ snap' = snap /\ file' = file /\ faults' = faults
            /\ client' = client /\ raced' = raced /\ running' = running
            /\ phase = "stopping" /\ phase' = "joining"
            /\ \/ saver' = saver
               \/ saver.pc = "waiting" /\ saver' = [saver EXCEPT !.pc = "check"]
        BY <2>6 DEF Notify, fileVars, At, Goto
      <3>2. \/ saver' = saver
            \/ saver.pc = "waiting" /\ saver'.pc = "check" /\ saver'.last = saver.last
        BY <1>1, <3>1 DEF FilesInv, TypeOK
      <3>3. SavedInv'
        BY <2>4, <3>1, <3>2
      <3>4. SaverInv'
        BY <2>1, <3>1, <3>2 DEF SaverInv
      <3> QED
        BY <3>3, <3>4
    <2>7. CASE Join
      <3>1. /\ index' = index /\ dirty' = dirty /\ snap' = snap /\ file' = file /\ faults' = faults
            /\ client' = client /\ raced' = raced /\ saver' = saver /\ running' = running
            /\ phase = "joining" /\ phase' = "stopped"
        BY <2>7 DEF Join, fileVars
      <3> QED
        BY <2>1, <2>4, <3>1 DEF SaverInv
    <2>8. CASE UNCHANGED vars
      <3>1. /\ index' = index /\ dirty' = dirty /\ snap' = snap /\ file' = file /\ faults' = faults
            /\ client' = client /\ raced' = raced /\ saver' = saver /\ running' = running
            /\ phase' = phase
        BY <2>8 DEF vars, fileVars
      <3> QED
        BY <2>1, <2>4, <3>1 DEF SaverInv
    <2> QED
      BY <1>2, <1>5, <2>2, <2>3, <2>5, <2>6, <2>7, <2>8 DEF Next
  <1> QED
    BY <1>2, <1>4, <1>6

(* After close() the checkpoint holds the index, unless a file could not be  *)
(* written, or a change was marked, or an entry evicted, behind the back of  *)
(* the last save(): stop() leaves no change that is marked and not saved,    *)
(* however its steps fall among those of periodic_thread_fn().               *)
THEOREM ShutdownKeeps == Spec => []ShutdownSaves
  <1>1. ASSUME Inv, TypeOK, phase = "stopped" => saver.pc = "exited" PROVE ShutdownSaves
    <2> SUFFICES ASSUME phase = "stopped", faults = 0, ~raced PROVE Saved
      BY DEF ShutdownSaves
    <2>1. SaverInv /\ SavedInv /\ saver.pc = "exited"
      BY <1>1 DEF Inv
    <2>2. ~dirty /\ ~Unmarked
      BY <2>1 DEF SaverInv, Unmarked
    <2> QED
      BY <2>1, <2>2 DEF SavedInv
  <1> DEFINE Exited == phase = "stopped" => saver.pc = "exited"
  <1>2. Init => Exited
    BY DEF Init
  <1>3. Exited /\ [Next]_vars => Exited'
    <2> SUFFICES ASSUME Exited, [Next]_vars, phase' = "stopped" PROVE saver'.pc = "exited"
      OBVIOUS
    <2>1. CASE Join
      BY <2>1 DEF Join, At
    <2>2. CASE ~Join
      <3>1. phase = "stopped" /\ (saver' = saver \/ SaverStep)
        BY <2>2 DEF Next, ClientStep, Change, MarkDirty, Return, Evict, SaverStep, Stop, Notify,
                    Crash, Restart, vars
      <3>2. saver.pc = "exited"
        BY <3>1
      <3>3. ~SaverStep
        BY <3>2 DEF SaverStep, Loop, Park, WakeUp, Check, Snapshot, WriteTmp, Rename, ClearDirty, At
      <3> QED
        BY <3>1, <3>2, <3>3
    <2> QED
      BY <2>1, <2>2
  <1>4. Inv => TypeOK
    BY DEF Inv, FilesInv
  <1> QED
    BY <1>1, <1>2, <1>3, <1>4, InitInv, NextInv, PTL DEF Spec

=============================================================================
