--------------------------- MODULE RecoveryProofs ---------------------------
(***************************************************************************)
(* Theorems about Recovery, for any set of keys, any sizes and any number  *)
(* of crashes, power cuts, failing calls and restarts.                     *)
(*                                                                         *)
(* All of them rest on where an entry may be.  An entry of the index, of   *)
(* the snapshot being saved or of a checkpoint is found (Found): in a      *)
(* block, on disk, or known to be lost; and no two of these hold of one    *)
(* location (StoreInv), since a location is given out once in the life of  *)
(* a file.  A segment's counts lack the entries that mark_dead() was       *)
(* called for, and no entry that a restart may load with a header is       *)
(* among those which the header has as dead (CountInv, AliveInv).          *)
(***************************************************************************)
EXTENDS Recovery, FiniteSetTheorems, SequenceTheorems, WellFoundedInduction, TLAPS

-----------------------------------------------------------------------------
(* The invariant *)

Counts == [entry_count : Nat, live_count : Nat, dead : SUBSET Nat, twice : BOOLEAN]
Blocks == [at : Nat \X Nat, key : Keys]
Up == phase \in {"open", "save", "drain"}

IsFile(f) == f = [hdr |-> f.hdr, blobs |-> f.blobs] /\ f.hdr \in Counts

FilesOK ==
    /\ DOMAIN files \subseteq Nat
    /\ \E n \in Nat : \A s \in DOMAIN files : s <= n
    /\ \A s \in DOMAIN files : IsFile(files[s])

SegsOK ==
    /\ DOMAIN segs \subseteq DOMAIN files
    /\ \A s \in DOMAIN segs : segs[s] \in Counts

ActiveOK ==
    /\ Up => /\ active \in [id : Nat, offset : Nat \ {0}]
             /\ active.id \in DOMAIN files
    /\ phase = "open" => active.id \in DOMAIN segs

PendingOK ==
    /\ pending \in Seq(Blocks)
    /\ Down => pending = <<>>
    /\ \A i, j \in 1 .. Len(pending) : pending[i].at = pending[j].at => i = j

(* The blob of k is in a block, or in a file, at offset o of segment s *)
InBlock(s, o, k) == \E i \in 1 .. Len(pending) : pending[i] = [at |-> <<s, o>>, key |-> k]
InFile(s, o, k) ==
    s \in DOMAIN files /\ o \in DOMAIN files[s].blobs /\ files[s].blobs[o] = k
Stored(s, o) == s \in DOMAIN files /\ o \in DOMAIN files[s].blobs

(* The location was given out, if the segment is the active one *)
Given(s, o) == Up /\ s = active.id => o < active.offset

BlocksPlaced ==
    \A s, o \in Nat, k \in Keys : InBlock(s, o, k) =>
        s \in DOMAIN files /\ ~Stored(s, o) /\ Given(s, o)

StoredPlaced == \A s, o \in Nat : Stored(s, o) => Given(s, o)

LostPlaced ==
    \A s, o \in Nat : <<s, o>> \in lost /\ s \notin vanished =>
        /\ s \in DOMAIN files
        /\ ~Stored(s, o)
        /\ \A k \in Keys : ~InBlock(s, o, k)
        /\ Given(s, o)

StoreInv ==
    /\ phase \in {"open", "save", "drain", "closed", "crashed"}
    /\ FilesOK /\ SegsOK /\ ActiveOK /\ PendingOK
    /\ BlocksPlaced /\ StoredPlaced /\ LostPlaced

Found(s, o, k) == s \in vanished \/ <<s, o>> \in lost \/ InBlock(s, o, k) \/ InFile(s, o, k)

Good(m) ==
    /\ m = [k \in Keys |-> m[k]]
    /\ \A k \in Keys : m[k] # None =>
          \E s, o \in Nat : m[k] = <<s, o>> /\ Found(s, o, k)

(* The location that a del() has found, until it marks it dead and after *)
Deleting(pc, k, l) == [pc |-> pc, key |-> k, at |-> l]

CallOK(x) ==
    \/ x = Idle
    \/ \E k \in Keys : x = Deleting("erase", k, None)
    \/ \E k \in Keys, s, o \in Nat, pc \in {"mark", "erase"} :
          x = Deleting(pc, k, <<s, o>>) /\ Found(s, o, k)

CallsGood == call = [c \in Clients |-> call[c]] /\ \A c \in Clients : CallOK(call[c])

AllGood ==
    /\ Good(index) /\ Good(Loaded(snap)) /\ Good(Loaded(ckpt)) /\ Good(Loaded(older))
    /\ CallsGood

-----------------------------------------------------------------------------
(* Numbers of files *)

LEMMA MaxIs ==
    ASSUME NEW S, S \subseteq Nat, S # {}, \E n \in Nat : \A s \in S : s <= n
    PROVE  Max(S) \in S /\ \A s \in S : Max(S) >= s
  <1> DEFINE T == {n \in Nat : \A s \in S : s <= n}
  <1>1. T \subseteq Nat /\ T # {}
    OBVIOUS
  <1>2. PICK n \in T : \A x \in T : ~(<<x, n>> \in OpToRel(<, Nat))
    BY <1>1, NatLessThanWellFounded, WFMin
  <1>3. n \in Nat /\ (\A s \in S : s <= n) /\ \A x \in T : ~(x < n)
    BY <1>1, <1>2 DEF OpToRel
  <1>4. n \in S
    <2> SUFFICES ASSUME n \notin S PROVE FALSE
      OBVIOUS
    <2>1. \A s \in S : s \in Nat /\ s < n
      BY <1>3
    <2>0. PICK z \in S : z \in Nat /\ z < n
      BY <2>1
    <2> HIDE DEF T
    <2>2. n - 1 \in Nat /\ \A s \in S : s <= n - 1
      BY <1>3, <2>0, <2>1
    <2> USE DEF T
    <2>3. n - 1 \in T
      BY <2>2
    <2> QED
      BY <1>3, <2>2, <2>3
  <1>5. \E x \in S : \A y \in S : x >= y
    BY <1>3, <1>4
  <1> QED
    BY <1>5 DEF Max

(* A new file gets an id that no file has *)
LEMMA NewIds ==
    ASSUME FilesOK
    PROVE  /\ DOMAIN files # {} => NewId \in Nat \ DOMAIN files
           /\ \A opened : FirstFree(opened) \in Nat \ DOMAIN files
  <1>1. ASSUME DOMAIN files # {} PROVE Max(DOMAIN files) + 1 \in Nat \ DOMAIN files
    <2>1. Max(DOMAIN files) \in DOMAIN files /\ \A s \in DOMAIN files : Max(DOMAIN files) >= s
      BY <1>1, MaxIs DEF FilesOK
    <2> QED
      BY <2>1 DEF FilesOK
  <1> QED
    BY <1>1 DEF NewId, FirstFree

(* A location that an entry can have *)
LEMMA BlockAt ==
    ASSUME PendingOK, NEW i \in 1 .. Len(pending)
    PROVE  /\ pending[i].at = <<pending[i].at[1], pending[i].at[2]>>
           /\ pending[i].at[1] \in Nat /\ pending[i].at[2] \in Nat
           /\ pending[i].key \in Keys
           /\ pending[i] = [at |-> <<pending[i].at[1], pending[i].at[2]>>, key |-> pending[i].key]
           /\ InBlock(pending[i].at[1], pending[i].at[2], pending[i].key)
  <1>1. pending[i] \in Blocks
    BY DEF PendingOK
  <1>2. pending[i].at \in Nat \X Nat /\ pending[i].key \in Keys
    BY <1>1 DEF Blocks
  <1>3. pending[i].at = <<pending[i].at[1], pending[i].at[2]>>
    BY <1>2
  <1>4. pending[i] = [at |-> pending[i].at, key |-> pending[i].key]
    BY <1>1 DEF Blocks
  <1> QED
    BY <1>2, <1>3, <1>4 DEF InBlock

-----------------------------------------------------------------------------
(* Steps that move no entry *)

LEMMA FoundSame ==
    ASSUME UNCHANGED <<files, pending, lost, vanished>>
    PROVE  /\ \A s, o, k : InBlock(s, o, k)' <=> InBlock(s, o, k)
           /\ \A s, o, k : InFile(s, o, k)' <=> InFile(s, o, k)
           /\ \A s, o : Stored(s, o)' <=> Stored(s, o)
           /\ \A s, o, k : Found(s, o, k)' <=> Found(s, o, k)
  BY DEF InBlock, InFile, Stored, Found

LEMMA StoreSame ==
    ASSUME StoreInv, UNCHANGED <<files, active, pending, lost, vanished>>,
           SegsOK', phase' \in {"open", "save", "drain"}, Up,
           phase' = "open" => phase = "open" /\ DOMAIN segs' = DOMAIN segs
    PROVE  StoreInv'
  <1>0. Up' /\ ~Down'
    BY DEF Up, Down
  <1>1. FilesOK' /\ PendingOK'
    BY <1>0 DEF StoreInv, FilesOK, PendingOK, IsFile
  <1>2. ActiveOK'
    BY DEF StoreInv, ActiveOK, Up
  <1>3. \A s, o : Given(s, o)' <=> Given(s, o)
    BY <1>0 DEF Given
  <1>4. BlocksPlaced'
    BY <1>3, FoundSame DEF StoreInv, BlocksPlaced
  <1>5. StoredPlaced'
    BY <1>3, FoundSame DEF StoreInv, StoredPlaced
  <1>6. LostPlaced'
    BY <1>3, FoundSame DEF StoreInv, LostPlaced
  <1> QED
    BY <1>1, <1>2, <1>4, <1>5, <1>6 DEF StoreInv

-----------------------------------------------------------------------------
(* write() *)

SegOr0(s) == IF s \in DOMAIN segs THEN segs[s] ELSE NewSegment
OneMore(c) == [entry_count |-> c.entry_count + 1, live_count |-> c.live_count + 1,
               dead |-> c.dead, twice |-> c.twice]

(* The location that a write gives out is that of the next unit of the       *)
(* active segment, or the first of a new file.                               *)
WritesAt(a, b, k) ==
    /\ Target = <<a, b>>
    /\ \/ a = active.id /\ b = active.offset
       \/ a \notin DOMAIN files /\ b = 1
    /\ DOMAIN files' = DOMAIN files \cup {a}
    /\ \A s \in DOMAIN files : files'[s] = files[s]
    /\ a \notin DOMAIN files => files'[a] = NewFile
    /\ active' = [id |-> a, offset |-> b + 1]
    /\ pending' = Append(pending, [at |-> <<a, b>>, key |-> k])
    /\ DOMAIN segs' = DOMAIN segs \cup {a}
    /\ \A s \in DOMAIN segs : s # a => segs'[s] = segs[s]
    /\ segs'[a] = OneMore(SegOr0(a))
    /\ UNCHANGED <<lost, vanished>>

LEMMA OneMoreCounts ==
    ASSUME NEW c \in Counts
    PROVE  /\ [[c EXCEPT !.entry_count = @ + 1] EXCEPT !.live_count = @ + 1] = OneMore(c)
           /\ OneMore(c) \in Counts
           /\ OneMore(c).live_count = c.live_count + 1
           /\ OneMore(c).entry_count = c.entry_count + 1
           /\ OneMore(c).dead = c.dead /\ OneMore(c).twice = c.twice
  <1>1. PICK x, y \in Nat, d \in SUBSET Nat, t \in BOOLEAN :
            c = [entry_count |-> x, live_count |-> y, dead |-> d, twice |-> t]
    BY DEF Counts
  <1>2. c.entry_count = x /\ c.live_count = y /\ c.dead = d /\ c.twice = t
    BY <1>1
  <1>3. OneMore(c) = [entry_count |-> x + 1, live_count |-> y + 1, dead |-> d, twice |-> t]
    BY <1>2 DEF OneMore
  <1>4. [c EXCEPT !.entry_count = @ + 1]
          = [entry_count |-> x + 1, live_count |-> y, dead |-> d, twice |-> t]
    BY <1>1
  <1>5. [[entry_count |-> x + 1, live_count |-> y, dead |-> d, twice |-> t]
            EXCEPT !.live_count = @ + 1]
          = [entry_count |-> x + 1, live_count |-> y + 1, dead |-> d, twice |-> t]
    OBVIOUS
  <1>6. OneMore(c) \in Counts
    BY <1>3 DEF Counts
  <1> QED
    BY <1>2, <1>3, <1>4, <1>5, <1>6

LEMMA WriteIs ==
    ASSUME StoreInv, phase = "open", NEW k \in Keys, Write(k)
    PROVE  \E a \in Nat, b \in Nat \ {0} : WritesAt(a, b, k)
  <1>1. /\ active.id \in Nat /\ active.offset \in Nat \ {0}
        /\ active.id \in DOMAIN files /\ active.id \in DOMAIN segs
    BY DEF StoreInv, ActiveOK, Up
  <1>2. NewId \in Nat \ DOMAIN files
    BY <1>1, NewIds DEF StoreInv
  <1>3. DOMAIN segs \subseteq DOMAIN files /\ \A s \in DOMAIN segs : segs[s] \in Counts
    BY DEF StoreInv, SegsOK
  <1>4. NewSegment \in Counts
    BY DEF NewSegment, Counts
  <1>5. CASE NeedsSegment
    <2>1. PICK a : a = NewId
      OBVIOUS
    <2>2. Target = <<a, 1>>
      BY <1>5, <2>1 DEF Target
    <2>3. Target[1] = a /\ Target[2] = 1
      BY <2>2
    <2> DEFINE ss == Put1(segs, a, NewSegment)
    <2>4. /\ files' = Put1(files, a, NewFile)
          /\ segs' = [ss EXCEPT ![a].entry_count = @ + 1, ![a].live_count = @ + 1]
          /\ active' = [id |-> a, offset |-> 1 + 1]
          /\ pending' = Append(pending, [at |-> <<a, 1>>, key |-> k])
          /\ UNCHANGED <<lost, vanished>>
      BY <1>5, <2>2, <2>3 DEF Write
    <2>5. a \in Nat /\ a \notin DOMAIN files /\ a \notin DOMAIN segs
      BY <1>2, <1>3, <2>1
    <2>6. /\ DOMAIN files' = DOMAIN files \cup {a}
          /\ \A s \in DOMAIN files : files'[s] = files[s]
          /\ files'[a] = NewFile
      BY <2>4, <2>5 DEF Put1
    <2>7. /\ DOMAIN ss = DOMAIN segs \cup {a}
          /\ \A s \in DOMAIN segs : ss[s] = segs[s]
          /\ ss[a] = NewSegment
      BY <2>5 DEF Put1
    <2> HIDE DEF ss
    <2>8. /\ DOMAIN segs' = DOMAIN segs \cup {a}
          /\ \A s \in DOMAIN segs : segs'[s] = segs[s]
          /\ segs'[a] = OneMore(NewSegment)
      <3>1. [[ss[a] EXCEPT !.entry_count = @ + 1] EXCEPT !.live_count = @ + 1] = OneMore(NewSegment)
        BY <1>4, <2>7, OneMoreCounts
      <3> QED
        BY <2>4, <2>5, <2>7, <3>1
    <2>9. SegOr0(a) = NewSegment
      BY <2>5 DEF SegOr0
    <2>10. WritesAt(a, 1, k)
      BY <2>2, <2>4, <2>5, <2>6, <2>8, <2>9 DEF WritesAt
    <2> QED
      BY <2>5, <2>10
  <1>6. CASE ~NeedsSegment
    <2>1. PICK a, b : a = active.id /\ b = active.offset
      OBVIOUS
    <2>2. Target = <<a, b>>
      BY <1>6, <2>1 DEF Target
    <2>3. Target[1] = a /\ Target[2] = b
      BY <2>2
    <2>4. /\ files' = files
          /\ segs' = [segs EXCEPT ![a].entry_count = @ + 1, ![a].live_count = @ + 1]
          /\ active' = [id |-> a, offset |-> b + 1]
          /\ pending' = Append(pending, [at |-> <<a, b>>, key |-> k])
          /\ UNCHANGED <<lost, vanished>>
      BY <1>6, <2>2, <2>3 DEF Write
    <2>5. a \in DOMAIN segs /\ a \in DOMAIN files /\ a \in Nat /\ b \in Nat \ {0}
      BY <1>1, <2>1
    <2>6. segs[a] \in Counts
      BY <1>3, <2>5
    <2>8. /\ DOMAIN segs' = DOMAIN segs
          /\ \A s \in DOMAIN segs : s # a => segs'[s] = segs[s]
          /\ segs'[a] = OneMore(segs[a])
      <3>1. /\ DOMAIN segs' = DOMAIN segs
            /\ \A s \in DOMAIN segs : s # a => segs'[s] = segs[s]
            /\ segs'[a] = [[segs[a] EXCEPT !.entry_count = @ + 1] EXCEPT !.live_count = @ + 1]
        BY <2>4, <2>5
      <3>2. segs'[a] = OneMore(segs[a])
        BY <2>6, <3>1, OneMoreCounts, Zenon
      <3> QED
        BY <3>1, <3>2
    <2>9. SegOr0(a) = segs[a]
      BY <2>5 DEF SegOr0
    <2>7. /\ DOMAIN files' = DOMAIN files \cup {a}
          /\ DOMAIN segs' = DOMAIN segs \cup {a}
          /\ \A s \in DOMAIN files : files'[s] = files[s]
      BY <2>4, <2>5, <2>8
    <2>10. WritesAt(a, b, k)
      BY <2>1, <2>2, <2>4, <2>5, <2>7, <2>8, <2>9 DEF WritesAt
    <2> QED
      BY <2>5, <2>10
  <1> QED
    BY <1>5, <1>6

(* What a write adds to the blocks, and that nothing was at its location *)
LEMMA WriteAdds ==
    ASSUME StoreInv, phase = "open", phase' = phase, NEW k \in Keys,
           NEW a \in Nat, NEW b \in Nat \ {0}, WritesAt(a, b, k)
    PROVE  /\ \A s, o \in Nat, j \in Keys :
                 InBlock(s, o, j)' <=> InBlock(s, o, j) \/ (s = a /\ o = b /\ j = k)
           /\ \A s, o, j : InFile(s, o, j)' <=> InFile(s, o, j)
           /\ \A s, o : Stored(s, o)' <=> Stored(s, o)
           /\ ~Stored(a, b)
           /\ \A j \in Keys : ~InBlock(a, b, j)
           /\ a \notin vanished => <<a, b>> \notin lost
           /\ PendingOK'
  <1>1. active.id \in Nat /\ active.offset \in Nat \ {0} /\ Up
    BY DEF StoreInv, ActiveOK, Up
  <1>2. \A s, o : Stored(s, o)' <=> Stored(s, o)
    BY DEF Stored, WritesAt, NewFile
  <1>3. \A s, o, j : InFile(s, o, j)' <=> InFile(s, o, j)
    BY DEF InFile, WritesAt, NewFile
  <1>4. ~Stored(a, b) /\ (\A j \in Keys : ~InBlock(a, b, j))
        /\ (a \notin vanished => <<a, b>> \notin lost)
    <2>1. CASE a = active.id /\ b = active.offset
      <3>1. ~Given(a, b)
        BY <1>1, <2>1 DEF Given
      <3> QED
        BY <3>1 DEF StoreInv, StoredPlaced, BlocksPlaced, LostPlaced
    <2>2. CASE a \notin DOMAIN files
      BY <2>2 DEF StoreInv, StoredPlaced, BlocksPlaced, LostPlaced, Stored
    <2> QED
      BY <2>1, <2>2 DEF WritesAt
  <1> DEFINE new == [at |-> <<a, b>>, key |-> k]
  <1>5. pending \in Seq(Blocks) /\ new \in Blocks /\ pending' = Append(pending, new)
    BY DEF StoreInv, PendingOK, Blocks, WritesAt
  <1>6. new.at = <<a, b>> /\ new.key = k
    OBVIOUS
  <1>7. \A s, o, j : new = [at |-> <<s, o>>, key |-> j] <=> s = a /\ o = b /\ j = k
    OBVIOUS
  <1> HIDE DEF new
  <1>8. /\ Len(pending') = Len(pending) + 1 /\ Len(pending) \in Nat
        /\ \A i \in 1 .. Len(pending) : pending'[i] = pending[i]
        /\ pending'[Len(pending) + 1] = new
        /\ pending' \in Seq(Blocks)
    BY <1>5
  <1>9. \A s, o \in Nat, j \in Keys :
            InBlock(s, o, j)' <=> InBlock(s, o, j) \/ (s = a /\ o = b /\ j = k)
    <2> TAKE s, o \in Nat, j \in Keys
    <2>1. ASSUME InBlock(s, o, j)' PROVE InBlock(s, o, j) \/ (s = a /\ o = b /\ j = k)
      <3>1. PICK i \in 1 .. Len(pending') : pending'[i] = [at |-> <<s, o>>, key |-> j]
        BY <2>1 DEF InBlock
      <3>2. CASE i = Len(pending) + 1
        <4>1. pending'[Len(pending) + 1] = new
          BY <1>8
        <4>2. new = [at |-> <<s, o>>, key |-> j]
          BY <3>1, <3>2, <4>1, Zenon
        <4>3. new.at = <<s, o>> /\ new.key = j
          BY <4>2
        <4>4. s = a /\ o = b /\ j = k
          BY <1>6, <4>3
        <4> QED
          BY <4>4, Zenon
      <3>3. CASE i \in 1 .. Len(pending)
        <4>1. pending[i] = [at |-> <<s, o>>, key |-> j]
          BY <1>8, <3>1, <3>3, Zenon
        <4> QED
          BY <3>3, <4>1, Zenon DEF InBlock
      <3>4. i = Len(pending) + 1 \/ i \in 1 .. Len(pending)
        BY <1>8
      <3> QED
        BY <3>2, <3>3, <3>4, Zenon
    <2>2. ASSUME InBlock(s, o, j) PROVE InBlock(s, o, j)'
      <3>1. PICK i \in 1 .. Len(pending) : pending[i] = [at |-> <<s, o>>, key |-> j]
        BY <2>2 DEF InBlock
      <3>2. i \in 1 .. Len(pending') /\ pending'[i] = [at |-> <<s, o>>, key |-> j]
        BY <1>8, <3>1
      <3> QED
        BY <3>2 DEF InBlock
    <2>3. ASSUME s = a /\ o = b /\ j = k PROVE InBlock(s, o, j)'
      <3>1. Len(pending) + 1 \in 1 .. Len(pending')
        BY <1>8
      <3>2. pending'[Len(pending) + 1] = [at |-> <<s, o>>, key |-> j]
        BY <1>7, <1>8, <2>3
      <3> QED
        BY <3>1, <3>2 DEF InBlock
    <2> QED
      BY <2>1, <2>2, <2>3
  <1>10. \A i \in 1 .. Len(pending) : pending[i].at # <<a, b>>
    <2> TAKE i \in 1 .. Len(pending)
    <2>1. PendingOK
      BY DEF StoreInv
    <2>2. /\ pending[i].at = <<pending[i].at[1], pending[i].at[2]>>
          /\ pending[i].key \in Keys
          /\ InBlock(pending[i].at[1], pending[i].at[2], pending[i].key)
      BY <2>1, BlockAt
    <2> QED
      BY <1>4, <2>2
  <1>11. \A i, j \in 1 .. Len(pending') : pending'[i].at = pending'[j].at => i = j
    <2> TAKE i, j \in 1 .. Len(pending')
    <2>1. \A x, y \in 1 .. Len(pending) : pending[x].at = pending[y].at => x = y
      BY DEF StoreInv, PendingOK
    <2>2. CASE i \in 1 .. Len(pending) /\ j \in 1 .. Len(pending)
      BY <1>8, <2>1, <2>2
    <2>3. CASE i \in 1 .. Len(pending) /\ j = Len(pending) + 1
      BY <1>6, <1>8, <1>10, <2>3
    <2>4. CASE j \in 1 .. Len(pending) /\ i = Len(pending) + 1
      BY <1>6, <1>8, <1>10, <2>4
    <2>5. CASE j = Len(pending) + 1 /\ i = Len(pending) + 1
      BY <2>5
    <2> QED
      BY <1>8, <2>2, <2>3, <2>4, <2>5
  <1>12. ~Down'
    BY DEF Down
  <1>13. PendingOK'
    BY <1>8, <1>11, <1>12 DEF PendingOK
  <1> QED
    BY <1>2, <1>3, <1>4, <1>9, <1>13

LEMMA WriteKeeps ==
    ASSUME StoreInv, phase = "open", phase' = phase, NEW k \in Keys,
           NEW a \in Nat, NEW b \in Nat \ {0}, WritesAt(a, b, k)
    PROVE  /\ StoreInv'
           /\ \A s, o \in Nat, j \in Keys : Found(s, o, j) => Found(s, o, j)'
           /\ Found(a, b, k)'
  <1>1. /\ \A s, o \in Nat, j \in Keys :
              InBlock(s, o, j)' <=> InBlock(s, o, j) \/ (s = a /\ o = b /\ j = k)
        /\ \A s, o, j : InFile(s, o, j)' <=> InFile(s, o, j)
        /\ \A s, o : Stored(s, o)' <=> Stored(s, o)
        /\ ~Stored(a, b)
        /\ \A j \in Keys : ~InBlock(a, b, j)
        /\ a \notin vanished => <<a, b>> \notin lost
        /\ PendingOK'
    BY WriteAdds
  <1>2. Up /\ Up' /\ phase' = "open"
    BY DEF Up
  <1>3. active'.id = a /\ active'.offset = b + 1
        /\ active' \in [id : Nat, offset : Nat \ {0}]
    <2>1. active' = [id |-> a, offset |-> b + 1]
      BY DEF WritesAt
    <2> QED
      BY <2>1
  <1>4. DOMAIN files' = DOMAIN files \cup {a} /\ DOMAIN segs' = DOMAIN segs \cup {a}
    BY DEF WritesAt
  <1>5. ActiveOK'
    BY <1>2, <1>3, <1>4 DEF ActiveOK
  <1>6. FilesOK'
    <2>1. DOMAIN files' \subseteq Nat
      BY <1>4 DEF StoreInv, FilesOK
    <2>2. PICK n \in Nat : \A s \in DOMAIN files : s \in Nat /\ s <= n
      BY DEF StoreInv, FilesOK
    <2>3. n + a \in Nat /\ \A s \in DOMAIN files' : s <= n + a
      BY <1>4, <2>2
    <2>4. IsFile(NewFile)
      BY DEF IsFile, NewFile, NewSegment, Counts
    <2>5. \A s \in DOMAIN files : IsFile(files[s])
      BY DEF StoreInv, FilesOK
    <2>6. \A s \in DOMAIN files' : files'[s] = NewFile \/ (s \in DOMAIN files /\ files'[s] = files[s])
      BY <1>4 DEF WritesAt
    <2>7. \A s \in DOMAIN files' : IsFile(files'[s])
      BY <2>4, <2>5, <2>6
    <2> QED
      BY <2>1, <2>3, <2>7 DEF FilesOK, IsFile
  <1>7. SegsOK'
    <2>1. DOMAIN segs \subseteq DOMAIN files /\ \A s \in DOMAIN segs : segs[s] \in Counts
      BY DEF StoreInv, SegsOK
    <2>2. SegOr0(a) \in Counts
      BY <2>1 DEF SegOr0, NewSegment, Counts
    <2>3. segs'[a] \in Counts
      BY <2>2, OneMoreCounts DEF WritesAt
    <2>4. \A s \in DOMAIN segs : s # a => segs'[s] = segs[s]
      BY DEF WritesAt
    <2> QED
      BY <1>4, <2>1, <2>3, <2>4 DEF SegsOK
  <1>8. \A s, o \in Nat : s \in DOMAIN files /\ Given(s, o) => Given(s, o)'
    <2> SUFFICES ASSUME NEW s \in Nat, NEW o \in Nat, s \in DOMAIN files, Given(s, o), s = a
                 PROVE  o < b + 1
      BY <1>2, <1>3 DEF Given
    <2>1. a = active.id /\ b = active.offset
      BY DEF WritesAt
    <2> QED
      BY <1>2, <2>1 DEF Given
  <1>9. Given(a, b)'
    BY <1>3 DEF Given
  <1>10. \A s, o : Stored(s, o) => s \in DOMAIN files
    BY DEF Stored
  <1>11. BlocksPlaced'
    BY <1>1, <1>4, <1>8, <1>9 DEF StoreInv, BlocksPlaced
  <1>12. StoredPlaced'
    BY <1>1, <1>8, <1>10 DEF StoreInv, StoredPlaced
  <1>13. LostPlaced'
    <2>1. lost' = lost /\ vanished' = vanished
      BY DEF WritesAt
    <2> SUFFICES ASSUME NEW s \in Nat, NEW o \in Nat, <<s, o>> \in lost, s \notin vanished
                 PROVE  /\ s \in DOMAIN files'
                        /\ ~Stored(s, o)'
                        /\ \A j \in Keys : ~InBlock(s, o, j)'
                        /\ Given(s, o)'
      BY <2>1 DEF LostPlaced
    <2>2. /\ s \in DOMAIN files
          /\ ~Stored(s, o)
          /\ \A j \in Keys : ~InBlock(s, o, j)
          /\ Given(s, o)
      BY DEF StoreInv, LostPlaced
    <2>3. ~(s = a /\ o = b)
      BY <1>1
    <2> QED
      BY <1>1, <1>4, <1>8, <2>2, <2>3
  <1>14. StoreInv'
    BY <1>1, <1>2, <1>5, <1>6, <1>7, <1>11, <1>12, <1>13 DEF StoreInv
  <1>15. \A s, o \in Nat, j \in Keys : Found(s, o, j) => Found(s, o, j)'
    <2>1. lost' = lost /\ vanished' = vanished
      BY DEF WritesAt
    <2> QED
      BY <1>1, <2>1 DEF Found
  <1>16. Found(a, b, k)'
    BY <1>1 DEF Found
  <1> QED
    BY <1>14, <1>15, <1>16

-----------------------------------------------------------------------------
(* The flush thread *)

(* What is left of the blocks when the first one is taken off *)
LEMMA FlushTakes ==
    ASSUME StoreInv, pending # <<>>, pending' = Tail(pending), Up, phase' = phase
    PROVE  \E a, b \in Nat, k \in Keys :
              /\ Head(pending) = [at |-> <<a, b>>, key |-> k]
              /\ InBlock(a, b, k)
              /\ \A s, o \in Nat, j \in Keys :
                    InBlock(s, o, j)' <=> InBlock(s, o, j) /\ ~(s = a /\ o = b)
              /\ PendingOK'
  <1>1. pending \in Seq(Blocks) /\ PendingOK
    BY DEF StoreInv, PendingOK
  <1>2. Len(pending) \in Nat \ {0} /\ Head(pending) = pending[1] /\ 1 \in 1 .. Len(pending)
    BY <1>1
  <1>3. PICK a, b, k : a = pending[1].at[1] /\ b = pending[1].at[2] /\ k = pending[1].key
    OBVIOUS
  <1>4. /\ a \in Nat /\ b \in Nat /\ k \in Keys
        /\ pending[1] = [at |-> <<a, b>>, key |-> k]
        /\ InBlock(a, b, k)
        /\ pending[1].at = <<a, b>>
    BY <1>1, <1>2, <1>3, BlockAt
  <1>5. /\ pending' \in Seq(Blocks)
        /\ Len(pending') = Len(pending) - 1
        /\ \A i \in 1 .. Len(pending') : pending'[i] = pending[i + 1]
    BY <1>1
  <1>6. \A i, j \in 1 .. Len(pending) : pending[i].at = pending[j].at => i = j
    BY <1>1 DEF PendingOK
  <1>7. \A s, o \in Nat, j \in Keys :
           InBlock(s, o, j)' <=> InBlock(s, o, j) /\ ~(s = a /\ o = b)
    <2> TAKE s, o \in Nat, j \in Keys
    <2>0. \A i \in 1 .. Len(pending) : pending[i] = [at |-> <<s, o>>, key |-> j]
                                          => pending[i].at = <<s, o>>
      OBVIOUS
    <2>1. ASSUME InBlock(s, o, j)' PROVE InBlock(s, o, j) /\ ~(s = a /\ o = b)
      <3>1. PICK i \in 1 .. Len(pending') : pending'[i] = [at |-> <<s, o>>, key |-> j]
        BY <2>1 DEF InBlock
      <3>2. i + 1 \in 1 .. Len(pending) /\ i + 1 # 1
        BY <1>2, <1>5, <3>1
      <3>3. pending[i + 1] = [at |-> <<s, o>>, key |-> j]
        BY <1>5, <3>1
      <3>4. pending[i + 1].at = <<s, o>>
        BY <2>0, <3>2, <3>3
      <3>5. <<s, o>> # <<a, b>>
        BY <1>2, <1>4, <1>6, <3>2, <3>4
      <3> QED
        BY <3>2, <3>3, <3>5 DEF InBlock
    <2>2. ASSUME InBlock(s, o, j), ~(s = a /\ o = b) PROVE InBlock(s, o, j)'
      <3>1. PICK i \in 1 .. Len(pending) : pending[i] = [at |-> <<s, o>>, key |-> j]
        BY <2>2 DEF InBlock
      <3>2. pending[i].at = <<s, o>>
        BY <2>0, <3>1
      <3>3. i # 1
        BY <1>4, <2>2, <3>2
      <3>4. i - 1 \in 1 .. Len(pending') /\ (i - 1) + 1 = i
        BY <1>2, <1>5, <3>1, <3>3
      <3>5. pending'[i - 1] = [at |-> <<s, o>>, key |-> j]
        BY <1>5, <3>1, <3>4
      <3> QED
        BY <3>4, <3>5 DEF InBlock
    <2> QED
      BY <2>1, <2>2
  <1>8. PendingOK'
    <2>1. \A i, j \in 1 .. Len(pending') : pending'[i].at = pending'[j].at => i = j
      <3> TAKE i, j \in 1 .. Len(pending')
      <3>1. i + 1 \in 1 .. Len(pending) /\ j + 1 \in 1 .. Len(pending)
        BY <1>2, <1>5
      <3>2. pending'[i] = pending[i + 1] /\ pending'[j] = pending[j + 1]
        BY <1>5
      <3>3. i + 1 = j + 1 => i = j
        BY <1>2, <1>5
      <3> QED
        BY <1>6, <3>1, <3>2, <3>3
    <2>2. ~Down'
      BY DEF Up, Down
    <2> QED
      BY <1>5, <2>1, <2>2 DEF PendingOK
  <1> QED
    BY <1>2, <1>4, <1>7, <1>8

(* The files with one more entry in one of them *)
LEMMA FilesPut ==
    ASSUME FilesOK, NEW a \in DOMAIN files, NEW b \in Nat, NEW k \in Keys,
           files' = [files EXCEPT ![a].blobs = Put1(@, b, k)]
    PROVE  /\ FilesOK'
           /\ DOMAIN files' = DOMAIN files
           /\ \A s \in DOMAIN files : files'[s].hdr = files[s].hdr
           /\ \A s, o : Stored(s, o)' <=> Stored(s, o) \/ (s = a /\ o = b)
           /\ \A s, o, j : InFile(s, o, j) /\ ~(s = a /\ o = b) => InFile(s, o, j)'
           /\ InFile(a, b, k)'
  <1>1. IsFile(files[a])
    BY DEF FilesOK
  <1> DEFINE f == [hdr |-> files[a].hdr, blobs |-> Put1(files[a].blobs, b, k)]
  <1>2. [files[a] EXCEPT !.blobs = Put1(@, b, k)] = f
    BY <1>1 DEF IsFile
  <1>3. /\ DOMAIN files' = DOMAIN files
        /\ files'[a] = f
        /\ \A s \in DOMAIN files : s # a => files'[s] = files[s]
    BY <1>2
  <1>4. f.hdr = files[a].hdr /\ f.blobs = Put1(files[a].blobs, b, k)
        /\ f = [hdr |-> f.hdr, blobs |-> f.blobs]
    OBVIOUS
  <1>5. /\ DOMAIN f.blobs = DOMAIN files[a].blobs \cup {b}
        /\ f.blobs[b] = k
        /\ \A o \in DOMAIN files[a].blobs : o # b => f.blobs[o] = files[a].blobs[o]
    BY <1>4 DEF Put1
  <1> HIDE DEF f
  <1>6. IsFile(f)
    BY <1>1, <1>4 DEF IsFile
  <1>7. FilesOK'
    <2>1. \A s \in DOMAIN files : IsFile(files'[s])
      BY <1>3, <1>6 DEF FilesOK
    <2> QED
      BY <1>3, <2>1 DEF FilesOK, IsFile
  <1>8. \A s, o : Stored(s, o)' <=> Stored(s, o) \/ (s = a /\ o = b)
    BY <1>3, <1>5 DEF Stored
  <1>9. \A s, o, j : InFile(s, o, j) /\ ~(s = a /\ o = b) => InFile(s, o, j)'
    BY <1>3, <1>5 DEF InFile
  <1>10. InFile(a, b, k)'
    BY <1>3, <1>5 DEF InFile
  <1>11. \A s \in DOMAIN files : files'[s].hdr = files[s].hdr
    BY <1>3, <1>4
  <1> QED
    BY <1>3, <1>7, <1>8, <1>9, <1>10, <1>11

LEMMA FlushKeeps ==
    ASSUME StoreInv, Flush
    PROVE  /\ StoreInv'
           /\ \A s, o \in Nat, j \in Keys : Found(s, o, j) => Found(s, o, j)'
           /\ \A s \in DOMAIN files : s \in DOMAIN files' /\ files'[s].hdr = files[s].hdr
           /\ \A s, o : Stored(s, o) => Stored(s, o)' /\ files'[s].blobs[o] = files[s].blobs[o]
           /\ DOMAIN files' = DOMAIN files
  <1>1. /\ Up /\ pending # <<>> /\ pending' = Tail(pending)
        /\ segs' = segs /\ active' = active /\ vanished' = vanished /\ phase' = phase
    <2>1. ASSUME Len(pending) > 1 PROVE pending # <<>>
      BY <2>1
    <2> QED
      BY <2>1 DEF Flush, Queued, Up
  <1>2. PICK a, b \in Nat, k \in Keys :
              /\ Head(pending) = [at |-> <<a, b>>, key |-> k]
              /\ InBlock(a, b, k)
              /\ \A s, o \in Nat, j \in Keys :
                    InBlock(s, o, j)' <=> InBlock(s, o, j) /\ ~(s = a /\ o = b)
              /\ PendingOK'
    BY <1>1, FlushTakes
  <1>3. Head(pending).at = <<a, b>> /\ Head(pending).at[1] = a /\ Head(pending).at[2] = b
        /\ Head(pending).key = k
    BY <1>2
  <1>4. a \in DOMAIN files /\ ~Stored(a, b) /\ Given(a, b)
    BY <1>2 DEF StoreInv, BlocksPlaced
  <1>5. \A s, o : Given(s, o)' <=> Given(s, o)
    BY <1>1 DEF Given, Up
  <1>6. FilesOK /\ SegsOK /\ ActiveOK
        /\ phase' \in {"open", "save", "drain", "closed", "crashed"}
    BY <1>1 DEF StoreInv
  <1>6a. \A j \in Keys : InBlock(a, b, j) => j = k
    <2> TAKE j \in Keys
    <2> HAVE InBlock(a, b, j)
    <2>1. PICK i \in 1 .. Len(pending) : pending[i] = [at |-> <<a, b>>, key |-> j]
      BY DEF InBlock
    <2>2. PICK h \in 1 .. Len(pending) : pending[h] = [at |-> <<a, b>>, key |-> k]
      BY <1>2 DEF InBlock
    <2>3. pending[i].at = <<a, b>> /\ pending[h].at = <<a, b>>
          /\ pending[i].key = j /\ pending[h].key = k
      BY <2>1, <2>2
    <2> QED
      BY <2>3 DEF StoreInv, PendingOK
  <1>7. CASE files' = [files EXCEPT ![a].blobs = Put1(@, b, k)] /\ lost' = lost
    <2>1. /\ FilesOK'
          /\ DOMAIN files' = DOMAIN files
          /\ \A s \in DOMAIN files : files'[s].hdr = files[s].hdr
          /\ \A s, o : Stored(s, o)' <=> Stored(s, o) \/ (s = a /\ o = b)
          /\ \A s, o, j : InFile(s, o, j) /\ ~(s = a /\ o = b) => InFile(s, o, j)'
          /\ InFile(a, b, k)'
      BY <1>4, <1>6, <1>7, FilesPut
    <2>2. SegsOK' /\ ActiveOK'
      BY <1>1, <1>6, <2>1 DEF SegsOK, ActiveOK, Up
    <2>3. BlocksPlaced'
      BY <1>2, <1>5, <2>1 DEF StoreInv, BlocksPlaced
    <2>4. StoredPlaced'
      BY <1>4, <1>5, <2>1 DEF StoreInv, StoredPlaced
    <2>5. LostPlaced'
      <3>1. \A s, o \in Nat : <<s, o>> \in lost /\ s \notin vanished => ~(s = a /\ o = b)
        BY <1>2 DEF StoreInv, LostPlaced
      <3> QED
        BY <1>1, <1>2, <1>5, <1>7, <2>1, <3>1 DEF StoreInv, LostPlaced
    <2>6. ASSUME NEW s \in Nat, NEW o \in Nat, NEW j \in Keys, Found(s, o, j)
          PROVE  Found(s, o, j)'
      <3>1. ASSUME InFile(s, o, j) PROVE InFile(s, o, j)'
        <4>1. Stored(s, o)
          BY <3>1 DEF InFile, Stored
        <4> QED
          BY <1>4, <2>1, <3>1, <4>1
      <3>2. ASSUME InBlock(s, o, j) PROVE InBlock(s, o, j)' \/ InFile(s, o, j)'
        BY <1>2, <1>6a, <2>1, <3>2
      <3> QED
        BY <1>1, <1>7, <2>6, <3>1, <3>2 DEF Found
    <2>7. ASSUME NEW s, NEW o, Stored(s, o)
          PROVE  Stored(s, o)' /\ files'[s].blobs[o] = files[s].blobs[o]
      <3>1. InFile(s, o, files[s].blobs[o]) /\ ~(s = a /\ o = b)
        BY <1>4, <2>7 DEF InFile, Stored
      <3>2. PICK j : j = files[s].blobs[o]
        OBVIOUS
      <3>3. InFile(s, o, j)'
        BY <2>1, <3>1, <3>2
      <3> QED
        BY <3>2, <3>3 DEF InFile, Stored
    <2> QED
      BY <1>2, <1>6, <2>1, <2>2, <2>3, <2>4, <2>5, <2>6, <2>7 DEF StoreInv
  <1>8. CASE lost' = lost \cup {<<a, b>>} /\ files' = files
    <2>1. /\ \A s, o, j : InFile(s, o, j)' <=> InFile(s, o, j)
          /\ \A s, o : Stored(s, o)' <=> Stored(s, o)
      BY <1>8 DEF InFile, Stored
    <2>2. FilesOK' /\ SegsOK' /\ ActiveOK'
      BY <1>1, <1>6, <1>8 DEF FilesOK, IsFile, SegsOK, ActiveOK, Up
    <2>3. BlocksPlaced'
      BY <1>2, <1>5, <1>8, <2>1 DEF StoreInv, BlocksPlaced
    <2>4. StoredPlaced'
      BY <1>5, <2>1 DEF StoreInv, StoredPlaced
    <2>5. LostPlaced'
      <3> SUFFICES ASSUME NEW s \in Nat, NEW o \in Nat, <<s, o>> \in lost', s \notin vanished
                   PROVE  /\ s \in DOMAIN files
                          /\ ~Stored(s, o)
                          /\ \A j \in Keys : ~InBlock(s, o, j)'
                          /\ Given(s, o)
        BY <1>1, <1>5, <1>8, <2>1 DEF LostPlaced
      <3>1. CASE s = a /\ o = b
        BY <1>2, <1>4, <3>1
      <3>2. CASE <<s, o>> \in lost
        BY <1>2, <3>2 DEF StoreInv, LostPlaced
      <3> QED
        BY <1>8, <3>1, <3>2
    <2>6. \A s, o \in Nat, j \in Keys : Found(s, o, j) => Found(s, o, j)'
      BY <1>1, <1>2, <1>8, <2>1 DEF Found
    <2>7. \A s, o : Stored(s, o) => Stored(s, o)' /\ files'[s].blobs[o] = files[s].blobs[o]
      BY <1>8, <2>1
    <2> QED
      BY <1>2, <1>6, <1>8, <2>2, <2>3, <2>4, <2>5, <2>6, <2>7 DEF StoreInv
  <1> QED
    BY <1>3, <1>7, <1>8 DEF Flush

-----------------------------------------------------------------------------
(* Headers *)

(* Steps that write headers, and nothing else in the files *)
LEMMA HeadersOnly ==
    ASSUME StoreInv, DOMAIN files' = DOMAIN files,
           \A s \in DOMAIN files : IsFile(files'[s]) /\ files'[s].blobs = files[s].blobs,
           UNCHANGED <<active, pending, lost, vanished>>, SegsOK',
           phase' # "open", phase' \in {"drain", "closed", "crashed"}, Up' => Up,
           Down' => pending = <<>>
    PROVE  /\ StoreInv'
           /\ \A s, o, j : Found(s, o, j) => Found(s, o, j)'
           /\ \A s, o : Stored(s, o) => Stored(s, o)' /\ files'[s].blobs[o] = files[s].blobs[o]
  <1>1. /\ \A s, o, j : InBlock(s, o, j)' <=> InBlock(s, o, j)
        /\ \A s, o, j : InFile(s, o, j)' <=> InFile(s, o, j)
        /\ \A s, o : Stored(s, o)' <=> Stored(s, o)
    BY DEF InBlock, InFile, Stored
  <1>2. FilesOK'
    BY DEF StoreInv, FilesOK, IsFile
  <1>3. PendingOK'
    BY DEF StoreInv, PendingOK
  <1>4. ActiveOK'
    BY DEF StoreInv, ActiveOK
  <1>5. \A s, o : Given(s, o) => Given(s, o)'
    BY DEF Given
  <1>6. BlocksPlaced'
    BY <1>1, <1>5 DEF StoreInv, BlocksPlaced
  <1>7. StoredPlaced'
    BY <1>1, <1>5 DEF StoreInv, StoredPlaced
  <1>8. LostPlaced'
    BY <1>1, <1>5 DEF StoreInv, LostPlaced
  <1>9. StoreInv'
    BY <1>2, <1>3, <1>4, <1>6, <1>7, <1>8 DEF StoreInv
  <1>10. \A s, o, j : Found(s, o, j) => Found(s, o, j)'
    BY <1>1 DEF Found
  <1>11. \A s, o : Stored(s, o) => Stored(s, o)' /\ files'[s].blobs[o] = files[s].blobs[o]
    BY <1>1 DEF Stored
  <1> QED
    BY <1>9, <1>10, <1>11

LEMMA CloseSegmentIs ==
    ASSUME StoreInv, NEW t \in DOMAIN segs, CloseSegment(t)
    PROVE  /\ DOMAIN files' = DOMAIN files
           /\ \A s \in DOMAIN files : IsFile(files'[s]) /\ files'[s].blobs = files[s].blobs
           /\ files'[t].hdr = segs[t]
           /\ \A s \in DOMAIN files : s # t => files'[s] = files[s]
           /\ SegsOK'
           /\ \A s \in DOMAIN segs' : s \in DOMAIN segs /\ segs'[s] = segs[s]
           /\ phase = "drain" /\ phase' \in {"drain", "closed"} /\ pending = <<>>
  <1>1. t \in DOMAIN files /\ segs[t] \in Counts /\ DOMAIN segs \subseteq DOMAIN files
        /\ \A s \in DOMAIN segs : segs[s] \in Counts
    BY DEF StoreInv, SegsOK
  <1>2. \A s \in DOMAIN files : IsFile(files[s])
    BY DEF StoreInv, FilesOK
  <1>3. files' = [files EXCEPT ![t].hdr = segs[t]]
    BY DEF CloseSegment
  <1> DEFINE f == [hdr |-> segs[t], blobs |-> files[t].blobs]
  <1>4. [files[t] EXCEPT !.hdr = segs[t]] = f
    BY <1>1, <1>2 DEF IsFile
  <1>5. DOMAIN files' = DOMAIN files /\ files'[t] = f
        /\ \A s \in DOMAIN files : s # t => files'[s] = files[s]
    BY <1>1, <1>3, <1>4
  <1>6. IsFile(f) /\ f.hdr = segs[t] /\ f.blobs = files[t].blobs
    BY <1>1 DEF IsFile
  <1> HIDE DEF f
  <1>7. segs' = [s \in DOMAIN segs \ {t} |-> segs[s]]
    BY DEF CloseSegment, Restrict
  <1>8. \A s \in DOMAIN segs' : s \in DOMAIN segs /\ segs'[s] = segs[s]
    BY <1>7
  <1>9. SegsOK'
    BY <1>1, <1>5, <1>8 DEF SegsOK
  <1>10. phase = "drain" /\ phase' \in {"drain", "closed"} /\ pending = <<>>
    BY DEF CloseSegment, CloseOrder, Joined
  <1>11. \A s \in DOMAIN files : IsFile(files'[s]) /\ files'[s].blobs = files[s].blobs
    BY <1>2, <1>5, <1>6
  <1> QED
    BY <1>5, <1>6, <1>8, <1>9, <1>10, <1>11

LEMMA CloseSegmentKeeps ==
    ASSUME StoreInv, NEW t \in DOMAIN segs, CloseSegment(t)
    PROVE  /\ StoreInv'
           /\ \A s, o, j : Found(s, o, j) => Found(s, o, j)'
           /\ \A s, o : Stored(s, o) => Stored(s, o)' /\ files'[s].blobs[o] = files[s].blobs[o]
  <1>1. /\ DOMAIN files' = DOMAIN files
        /\ \A s \in DOMAIN files : IsFile(files'[s]) /\ files'[s].blobs = files[s].blobs
        /\ SegsOK'
        /\ phase = "drain" /\ phase' \in {"drain", "closed"} /\ pending = <<>>
    BY CloseSegmentIs
  <1>2. UNCHANGED <<active, pending, lost, vanished>>
    BY DEF CloseSegment
  <1>3. phase' # "open" /\ phase' \in {"drain", "closed", "crashed"} /\ Up
    BY <1>1 DEF Up
  <1> QED
    BY <1>1, <1>2, <1>3, HeadersOnly

LEMMA OpenFailsIs ==
    ASSUME StoreInv, OpenFails
    PROVE  /\ DOMAIN files' = DOMAIN files
           /\ \A s \in DOMAIN files : IsFile(files'[s]) /\ files'[s].blobs = files[s].blobs
           /\ \A s \in DOMAIN files : files'[s].hdr \in {files[s].hdr, NewSegment}
  <1>1. \A s \in DOMAIN files : IsFile(files[s])
    BY DEF StoreInv, FilesOK
  <1>2. CASE files' = files
    BY <1>1, <1>2
  <1>3. CASE files' = [s \in DOMAIN files |-> [files[s] EXCEPT !.hdr = NewSegment]]
    <2>1. DOMAIN files' = DOMAIN files
      BY <1>3
    <2>2. ASSUME NEW s \in DOMAIN files
          PROVE  IsFile(files'[s]) /\ files'[s].blobs = files[s].blobs /\ files'[s].hdr = NewSegment
      <3>1. files'[s] = [files[s] EXCEPT !.hdr = NewSegment]
        BY <1>3
      <3>2. files'[s] = [hdr |-> NewSegment, blobs |-> files[s].blobs]
        BY <1>1, <3>1 DEF IsFile
      <3>3. NewSegment \in Counts
        BY DEF NewSegment, Counts
      <3> QED
        BY <3>2, <3>3 DEF IsFile
    <2> QED
      BY <2>1, <2>2
  <1> QED
    BY <1>2, <1>3 DEF OpenFails

LEMMA OpenFailsKeeps ==
    ASSUME StoreInv, OpenFails
    PROVE  /\ StoreInv'
           /\ \A s, o, j : Found(s, o, j) => Found(s, o, j)'
           /\ \A s, o : Stored(s, o) => Stored(s, o)' /\ files'[s].blobs[o] = files[s].blobs[o]
  <1>1. /\ DOMAIN files' = DOMAIN files
        /\ \A s \in DOMAIN files : IsFile(files'[s]) /\ files'[s].blobs = files[s].blobs
    BY OpenFailsIs
  <1>2. UNCHANGED <<active, pending, lost, vanished>> /\ segs' = segs /\ phase' = phase /\ Down
    BY DEF OpenFails
  <1>3. /\ phase' # "open" /\ phase' \in {"drain", "closed", "crashed"} /\ ~Up'
        /\ pending = <<>>
    BY <1>2 DEF Up, Down, StoreInv, PendingOK
  <1>4. SegsOK'
    BY <1>1, <1>2 DEF StoreInv, SegsOK
  <1> QED
    BY <1>1, <1>2, <1>3, <1>4, HeadersOnly

-----------------------------------------------------------------------------
(* Crashes *)

LEMMA InMemoryIs ==
    ASSUME PendingOK
    PROVE  \A s, o \in Nat : <<s, o>> \in InMemory <=> \E k \in Keys : InBlock(s, o, k)
  <1>1. DOMAIN pending = 1 .. Len(pending)
    BY DEF PendingOK
  <1>2. ASSUME NEW s \in Nat, NEW o \in Nat, <<s, o>> \in InMemory
        PROVE  \E k \in Keys : InBlock(s, o, k)
    <2>1. PICK i \in 1 .. Len(pending) : pending[i].at = <<s, o>>
      BY <1>1, <1>2 DEF InMemory
    <2>2. pending[i] \in Blocks
      BY <2>1 DEF PendingOK
    <2>3. pending[i] = [at |-> <<s, o>>, key |-> pending[i].key] /\ pending[i].key \in Keys
      BY <2>1, <2>2 DEF Blocks
    <2> QED
      BY <2>1, <2>3 DEF InBlock
  <1>3. ASSUME NEW s \in Nat, NEW o \in Nat, NEW k \in Keys, InBlock(s, o, k)
        PROVE  <<s, o>> \in InMemory
    <2>1. PICK i \in 1 .. Len(pending) : pending[i] = [at |-> <<s, o>>, key |-> k]
      BY <1>3 DEF InBlock
    <2>2. pending[i].at = <<s, o>>
      BY <2>1
    <2> QED
      BY <1>1, <2>2 DEF InMemory
  <1> QED
    BY <1>2, <1>3

(* A crash and a power cut alike: the blocks are gone, and of the files some *)
(* entries, which count as lost, or the whole of them                        *)
LEMMA CrashKeeps ==
    ASSUME StoreInv, NothingInMemory, phase' = "crashed", FilesOK',
           vanished \subseteq vanished', lost \cup InMemory \subseteq lost',
           \A s \in DOMAIN files : s \in DOMAIN files' \/ s \in vanished',
           \A s, o, j : InFile(s, o, j)' => InFile(s, o, j),
           \A s, o : Stored(s, o)' => Stored(s, o),
           \A s, o \in Nat, j \in Keys :
              InFile(s, o, j) => InFile(s, o, j)' \/ <<s, o>> \in lost' \/ s \in vanished',
           \A s, o \in Nat : <<s, o>> \in lost' =>
              <<s, o>> \in lost \cup InMemory \/ (s \in DOMAIN files /\ ~Stored(s, o)')
    PROVE  /\ StoreInv'
           /\ \A s, o \in Nat, j \in Keys : Found(s, o, j) => Found(s, o, j)'
  <1>1. ~Up' /\ Down'
    BY DEF Up, Down
  <1>2. pending' = <<>> /\ segs' = <<>>
    BY DEF NothingInMemory
  <1>3. \A s, o, j : ~InBlock(s, o, j)'
    BY <1>2 DEF InBlock
  <1>4. PendingOK'
    BY <1>2 DEF PendingOK
  <1>5. SegsOK' /\ ActiveOK'
    BY <1>1, <1>2 DEF SegsOK, ActiveOK
  <1>6. \A s, o : Given(s, o)'
    BY <1>1 DEF Given
  <1>7. BlocksPlaced' /\ StoredPlaced'
    BY <1>3, <1>6 DEF BlocksPlaced, StoredPlaced
  <1>8. PendingOK
    BY DEF StoreInv
  <1>9. LostPlaced'
    <2> SUFFICES ASSUME NEW s \in Nat, NEW o \in Nat, <<s, o>> \in lost', s \notin vanished'
                 PROVE  s \in DOMAIN files' /\ ~Stored(s, o)'
      BY <1>3, <1>6 DEF LostPlaced
    <2>1. CASE <<s, o>> \in lost
      BY <2>1 DEF StoreInv, LostPlaced
    <2>2. CASE <<s, o>> \in InMemory
      <3>1. PICK k \in Keys : InBlock(s, o, k)
        BY <1>8, <2>2, InMemoryIs
      <3> QED
        BY <3>1 DEF StoreInv, BlocksPlaced
    <2>3. CASE s \in DOMAIN files /\ ~Stored(s, o)'
      BY <2>3
    <2> QED
      BY <2>1, <2>2, <2>3
  <1>10. \A s, o \in Nat, j \in Keys : Found(s, o, j) => Found(s, o, j)'
    <2> TAKE s, o \in Nat, j \in Keys
    <2>1. InBlock(s, o, j) => <<s, o>> \in InMemory
      BY <1>8, InMemoryIs
    <2> QED
      BY <2>1 DEF Found
  <1> QED
    BY <1>4, <1>5, <1>7, <1>9, <1>10 DEF StoreInv

LEMMA CrashStep ==
    ASSUME StoreInv, Crash
    PROVE  /\ StoreInv'
           /\ \A s, o \in Nat, j \in Keys : Found(s, o, j) => Found(s, o, j)'
  <1>1. /\ NothingInMemory /\ phase' = "crashed"
        /\ lost' = lost \cup InMemory /\ files' = files /\ vanished' = vanished
    BY DEF Crash
  <1>2. FilesOK'
    BY <1>1 DEF StoreInv, FilesOK, IsFile
  <1>3. /\ \A s, o, j : InFile(s, o, j)' <=> InFile(s, o, j)
        /\ \A s, o : Stored(s, o)' <=> Stored(s, o)
    BY <1>1 DEF InFile, Stored
  <1> QED
    BY <1>1, <1>2, <1>3, CrashKeeps

LEMMA OnDiskIs ==
    \A s, o : <<s, o>> \in OnDisk <=> Stored(s, o)
  BY DEF OnDisk, Stored

(* What a power cut leaves of the files *)
CutTo(kept, entries) ==
    /\ \E headers :
          files' = [s \in kept |->
                      [hdr |-> IF s \in headers THEN files[s].hdr ELSE NewSegment,
                       blobs |-> Restrict(files[s].blobs,
                                          {o \in DOMAIN files[s].blobs : <<s, o>> \in entries})]]
    /\ vanished' = vanished \cup (DOMAIN files \ kept)
    /\ lost' = lost \cup InMemory \cup (OnDisk \ entries)

LEMMA PowerCutIs ==
    ASSUME PowerCut
    PROVE  /\ NothingInMemory /\ phase' = "crashed"
           /\ \E kept \in SUBSET DOMAIN files : \E entries : CutTo(kept, entries)
  <1>1. PICK kept \in SUBSET DOMAIN files :
            \E entries \in SUBSET {l \in OnDisk : l[1] \in kept},
               headers \in SUBSET (kept \cap Headed) :
               /\ files' = [s \in kept |->
                              [hdr |-> IF s \in headers THEN files[s].hdr ELSE NewSegment,
                               blobs |-> Restrict(files[s].blobs,
                                  {o \in DOMAIN files[s].blobs : <<s, o>> \in entries})]]
               /\ vanished' = vanished \cup (DOMAIN files \ kept)
               /\ lost' = lost \cup InMemory \cup (OnDisk \ entries)
    BY Zenon DEF PowerCut
  <1>2. \E entries : CutTo(kept, entries)
    BY <1>1, Zenon DEF CutTo
  <1>3. NothingInMemory /\ phase' = "crashed"
    BY DEF PowerCut
  <1> QED
    BY <1>2, <1>3

LEMMA CutFiles ==
    ASSUME FilesOK, NEW kept \in SUBSET DOMAIN files, NEW entries,
           CutTo(kept, entries)
    PROVE  /\ DOMAIN files' = kept
           /\ \A s \in kept : files'[s].hdr \in {files[s].hdr, NewSegment}
           /\ FilesOK'
           /\ \A s, o : Stored(s, o)' <=> s \in kept /\ Stored(s, o) /\ <<s, o>> \in entries
           /\ \A s, o, j : InFile(s, o, j)' <=> s \in kept /\ InFile(s, o, j) /\ <<s, o>> \in entries
  <1>1. DOMAIN files' = kept
    BY DEF CutTo
  <1>2. ASSUME NEW s \in kept
        PROVE  /\ IsFile(files'[s])
               /\ files'[s].hdr \in {files[s].hdr, NewSegment}
               /\ DOMAIN files'[s].blobs = {o \in DOMAIN files[s].blobs : <<s, o>> \in entries}
               /\ \A o \in DOMAIN files'[s].blobs : files'[s].blobs[o] = files[s].blobs[o]
    <2>0. PICK headers :
             files' = [t \in kept |->
                         [hdr |-> IF t \in headers THEN files[t].hdr ELSE NewSegment,
                          blobs |-> Restrict(files[t].blobs,
                                             {o \in DOMAIN files[t].blobs : <<t, o>> \in entries})]]
      BY DEF CutTo
    <2>1. PICK h : h = IF s \in headers THEN files[s].hdr ELSE NewSegment
      OBVIOUS
    <2>2. PICK g : g = Restrict(files[s].blobs, {o \in DOMAIN files[s].blobs : <<s, o>> \in entries})
      OBVIOUS
    <2>3. files'[s] = [hdr |-> h, blobs |-> g]
      BY <2>0, <2>1, <2>2
    <2>4. h \in {files[s].hdr, NewSegment}
      BY <2>1
    <2>9. NewSegment \in Counts
      BY DEF NewSegment, Counts
    <2>5. h \in Counts
      BY <2>4, <2>9 DEF FilesOK, IsFile
    <2>6. /\ DOMAIN g = {o \in DOMAIN files[s].blobs : <<s, o>> \in entries}
          /\ \A o \in DOMAIN g : g[o] = files[s].blobs[o]
      BY <2>2 DEF Restrict
    <2>7. files'[s].hdr = h /\ files'[s].blobs = g
      BY <2>3
    <2>8. IsFile(files'[s])
      BY <2>3, <2>5, <2>7 DEF IsFile
    <2> QED
      BY <2>4, <2>6, <2>7, <2>8
  <1>3. FilesOK'
    <2>1. DOMAIN files' \subseteq Nat /\ \E n \in Nat : \A s \in DOMAIN files' : s <= n
      BY <1>1 DEF FilesOK
    <2> QED
      BY <1>1, <1>2, <2>1 DEF FilesOK, IsFile
  <1>4. \A s, o : Stored(s, o)' <=> s \in kept /\ Stored(s, o) /\ <<s, o>> \in entries
    BY <1>1, <1>2 DEF Stored
  <1>5. \A s, o, j : InFile(s, o, j)' <=> s \in kept /\ InFile(s, o, j) /\ <<s, o>> \in entries
    BY <1>1, <1>2 DEF InFile
  <1> QED
    BY <1>1, <1>2, <1>3, <1>4, <1>5

LEMMA PowerCutStep ==
    ASSUME StoreInv, PowerCut
    PROVE  /\ StoreInv'
           /\ \A s, o \in Nat, j \in Keys : Found(s, o, j) => Found(s, o, j)'
  <1>1. NothingInMemory /\ phase' = "crashed"
    BY PowerCutIs
  <1>0. PICK kept \in SUBSET DOMAIN files : \E entries : CutTo(kept, entries)
    BY PowerCutIs
  <1>2. PICK entries : CutTo(kept, entries)
    BY <1>0
  <1>3. FilesOK
    BY DEF StoreInv
  <1>4. /\ DOMAIN files' = kept
        /\ FilesOK'
        /\ \A s, o : Stored(s, o)' <=> s \in kept /\ Stored(s, o) /\ <<s, o>> \in entries
        /\ \A s, o, j : InFile(s, o, j)' <=> s \in kept /\ InFile(s, o, j) /\ <<s, o>> \in entries
    BY <1>2, <1>3, CutFiles
  <1>5. /\ vanished' = vanished \cup (DOMAIN files \ kept)
        /\ lost' = lost \cup InMemory \cup (OnDisk \ entries)
    BY <1>2 DEF CutTo
  <1>6. \A s, o \in Nat, j \in Keys :
            InFile(s, o, j) => InFile(s, o, j)' \/ <<s, o>> \in lost' \/ s \in vanished'
    BY <1>4, <1>5, OnDiskIs DEF InFile, Stored
  <1>7. \A s, o \in Nat : <<s, o>> \in OnDisk \ entries => s \in DOMAIN files /\ ~Stored(s, o)'
    BY <1>2, <1>4, OnDiskIs DEF Stored
  <1>8. \A s, o \in Nat : <<s, o>> \in lost' =>
            <<s, o>> \in lost \cup InMemory \/ (s \in DOMAIN files /\ ~Stored(s, o)')
    BY <1>5, <1>7
  <1>9. \A s \in DOMAIN files : s \in DOMAIN files' \/ s \in vanished'
    BY <1>4, <1>5
  <1>10. vanished \subseteq vanished' /\ lost \cup InMemory \subseteq lost'
    BY <1>5
  <1>11. /\ \A s, o, j : InFile(s, o, j)' => InFile(s, o, j)
         /\ \A s, o : Stored(s, o)' => Stored(s, o)
    BY <1>4
  <1> QED
    BY <1>1, <1>4, <1>6, <1>8, <1>9, <1>10, <1>11, CrashKeeps

-----------------------------------------------------------------------------
(* open() *)

(* A restart that gets the new segment a, and can open the given files *)
OpensAs(a, opened) ==
    /\ files' = Put1(files, a, NewFile)
    /\ \E headers \in BOOLEAN :
          segs' = Put1([s \in opened |-> IF headers THEN files[s].hdr ELSE NewSegment], a, NewSegment)
    /\ active' = [id |-> a, offset |-> 1]

LEMMA OpenIs ==
    ASSUME StoreInv, Open
    PROVE  /\ \E a \in Nat \ DOMAIN files, opened \in SUBSET DOMAIN files :
                 OpensAs(a, opened)
           /\ Down /\ pending = <<>> /\ pending' = <<>> /\ phase' = "open"
           /\ UNCHANGED <<lost, vanished>>
  <1>1. PICK opened \in SUBSET DOMAIN files, headers \in BOOLEAN :
            LET id == FirstFree(opened)
            IN  /\ files' = Put1(files, id, NewFile)
                /\ segs' = Put1([s \in opened |-> IF headers THEN files[s].hdr
                                                  ELSE NewSegment], id, NewSegment)
                /\ active' = [id |-> id, offset |-> 1]
    BY DEF Open
  <1>2. FirstFree(opened) \in Nat \ DOMAIN files
    BY NewIds DEF StoreInv
  <1>3. OpensAs(FirstFree(opened), opened)
    BY <1>1 DEF OpensAs
  <1>4. Down /\ pending' = <<>> /\ phase' = "open" /\ UNCHANGED <<lost, vanished>>
    BY DEF Open
  <1>5. pending = <<>>
    BY <1>4 DEF StoreInv, PendingOK
  <1> QED
    BY <1>2, <1>3, <1>4, <1>5

LEMMA OpenFiles ==
    ASSUME StoreInv, NEW a \in Nat \ DOMAIN files, NEW opened \in SUBSET DOMAIN files,
           OpensAs(a, opened)
    PROVE  /\ DOMAIN files' = DOMAIN files \cup {a}
           /\ \A s \in DOMAIN files : files'[s] = files[s]
           /\ files'[a] = NewFile
           /\ DOMAIN segs' = opened \cup {a}
           /\ \A s \in opened : segs'[s] \in {files[s].hdr, NewSegment}
           /\ segs'[a] = NewSegment
           /\ FilesOK' /\ SegsOK'
           /\ active'.id = a /\ active'.offset = 1
           /\ active' \in [id : Nat, offset : Nat \ {0}]
           /\ \A s, o, j : InFile(s, o, j)' <=> InFile(s, o, j)
           /\ \A s, o : Stored(s, o)' <=> Stored(s, o)
  <1>1. /\ DOMAIN files' = DOMAIN files \cup {a}
        /\ \A s \in DOMAIN files : files'[s] = files[s]
        /\ files'[a] = NewFile
    BY DEF OpensAs, Put1
  <1>0. PICK headers \in BOOLEAN :
            segs' = Put1([s \in opened |-> IF headers THEN files[s].hdr ELSE NewSegment],
                         a, NewSegment)
    BY DEF OpensAs
  <1> DEFINE h == [s \in opened |-> IF headers THEN files[s].hdr ELSE NewSegment]
  <1>2. DOMAIN h = opened /\ \A s \in opened : h[s] \in {files[s].hdr, NewSegment}
    OBVIOUS
  <1>3. segs' = Put1(h, a, NewSegment)
    BY <1>0
  <1> HIDE DEF h
  <1>4. /\ DOMAIN segs' = opened \cup {a}
        /\ \A s \in opened : segs'[s] \in {files[s].hdr, NewSegment}
        /\ segs'[a] = NewSegment
    BY <1>2, <1>3 DEF Put1
  <1>5. NewSegment \in Counts /\ IsFile(NewFile)
    BY DEF NewSegment, Counts, IsFile, NewFile
  <1>6. \A s \in DOMAIN files : IsFile(files[s])
    BY DEF StoreInv, FilesOK
  <1>7. SegsOK'
    BY <1>1, <1>4, <1>5, <1>6 DEF SegsOK, IsFile
  <1>8. FilesOK'
    <2>1. DOMAIN files' \subseteq Nat
      BY <1>1 DEF StoreInv, FilesOK
    <2>2. PICK n \in Nat : \A s \in DOMAIN files : s \in Nat /\ s <= n
      BY DEF StoreInv, FilesOK
    <2>3. n + a \in Nat /\ \A s \in DOMAIN files' : s <= n + a
      BY <1>1, <2>2
    <2>4. \A s \in DOMAIN files' : IsFile(files'[s])
      BY <1>1, <1>5, <1>6
    <2> QED
      BY <2>1, <2>3, <2>4 DEF FilesOK, IsFile
  <1>9. active'.id = a /\ active'.offset = 1 /\ active' \in [id : Nat, offset : Nat \ {0}]
    BY DEF OpensAs
  <1>10. \A s, o, j : InFile(s, o, j)' <=> InFile(s, o, j)
    BY <1>1 DEF InFile, NewFile
  <1>11. \A s, o : Stored(s, o)' <=> Stored(s, o)
    BY <1>1 DEF Stored, NewFile
  <1> QED
    BY <1>1, <1>4, <1>7, <1>8, <1>9, <1>10, <1>11

LEMMA OpenStep ==
    ASSUME StoreInv, Open
    PROVE  /\ StoreInv'
           /\ \A s, o \in Nat, j \in Keys : Found(s, o, j) => Found(s, o, j)'
           /\ \A s, o : Stored(s, o) => Stored(s, o)' /\ files'[s].blobs[o] = files[s].blobs[o]
           /\ \A s \in DOMAIN files : s \in DOMAIN files'
  <1>1. PICK a \in Nat \ DOMAIN files, opened \in SUBSET DOMAIN files :
            OpensAs(a, opened)
    BY OpenIs
  <1>2. /\ Down /\ pending = <<>> /\ pending' = <<>> /\ phase' = "open"
        /\ lost' = lost /\ vanished' = vanished
    BY OpenIs
  <1>3. /\ DOMAIN files' = DOMAIN files \cup {a}
        /\ \A s \in DOMAIN files : files'[s] = files[s]
        /\ DOMAIN segs' = opened \cup {a}
        /\ FilesOK' /\ SegsOK'
        /\ active'.id = a /\ active'.offset = 1
        /\ active' \in [id : Nat, offset : Nat \ {0}]
        /\ \A s, o, j : InFile(s, o, j)' <=> InFile(s, o, j)
        /\ \A s, o : Stored(s, o)' <=> Stored(s, o)
    BY <1>1, OpenFiles
  <1>4. ActiveOK'
    BY <1>3 DEF ActiveOK
  <1>5. PendingOK'
    BY <1>2 DEF PendingOK
  <1>6. \A s, o, j : ~InBlock(s, o, j) /\ ~InBlock(s, o, j)'
    BY <1>2 DEF InBlock
  <1>7. \A s, o : s \in DOMAIN files => Given(s, o)'
    BY <1>1, <1>3 DEF Given
  <1>8. BlocksPlaced'
    BY <1>6 DEF BlocksPlaced
  <1>9. StoredPlaced'
    BY <1>3, <1>7 DEF StoredPlaced, Stored
  <1>10. LostPlaced'
    BY <1>2, <1>3, <1>6, <1>7 DEF StoreInv, LostPlaced
  <1>11. StoreInv'
    BY <1>2, <1>3, <1>4, <1>5, <1>8, <1>9, <1>10 DEF StoreInv
  <1>12. \A s, o \in Nat, j \in Keys : Found(s, o, j) => Found(s, o, j)'
    BY <1>2, <1>3, <1>6 DEF Found
  <1>13. \A s, o : Stored(s, o) => Stored(s, o)' /\ files'[s].blobs[o] = files[s].blobs[o]
    BY <1>3 DEF Stored
  <1> QED
    BY <1>3, <1>11, <1>12, <1>13

-----------------------------------------------------------------------------
(* The entries of the index and of its copies *)

LEMMA GoodKept ==
    ASSUME \A s, o \in Nat, j \in Keys : Found(s, o, j) => Found(s, o, j)',
           NEW m, Good(m)
    PROVE  Good(m)'
  <1>1. m = [k \in Keys |-> m[k]]
    BY DEF Good
  <1>2. ASSUME NEW k \in Keys, m[k] # None
        PROVE  \E s, o \in Nat : m[k] = <<s, o>> /\ Found(s, o, k)'
    <2>1. PICK s, o \in Nat : m[k] = <<s, o>> /\ Found(s, o, k)
      BY <1>2 DEF Good
    <2> QED
      BY <2>1
  <1> QED
    BY <1>1, <1>2 DEF Good

LEMMA GoodEmpty == Good(Empty) /\ Good(Empty)' /\ Good(Loaded(None))'
  BY DEF Good, Empty, Loaded

LEMMA GoodLess ==
    ASSUME NEW m, Good(m)', NEW k \in Keys
    PROVE  Good([m EXCEPT ![k] = None])'
  <1>1. PICK n : n = [m EXCEPT ![k] = None]
    OBVIOUS
  <1>2. m = [j \in Keys |-> m[j]]
    BY DEF Good
  <1>3. n = [j \in Keys |-> n[j]] /\ \A j \in Keys : n[j] = IF j = k THEN None ELSE m[j]
    BY <1>1, <1>2
  <1>4. Good(n)'
    BY <1>3 DEF Good
  <1> QED
    BY <1>1, <1>4

LEMMA GoodMore ==
    ASSUME NEW m, Good(m)', NEW k \in Keys, NEW a \in Nat, NEW b \in Nat, Found(a, b, k)'
    PROVE  Good([m EXCEPT ![k] = <<a, b>>])'
  <1>1. PICK n : n = [m EXCEPT ![k] = <<a, b>>]
    OBVIOUS
  <1>2. m = [j \in Keys |-> m[j]]
    BY DEF Good
  <1>3. n = [j \in Keys |-> n[j]] /\ \A j \in Keys : n[j] = IF j = k THEN <<a, b>> ELSE m[j]
    BY <1>1, <1>2
  <1>4. Good(n)'
    <2>1. ASSUME NEW j \in Keys, n[j] # None
          PROVE  \E s, o \in Nat : n[j] = <<s, o>> /\ Found(s, o, j)'
      <3>1. CASE j = k
        BY <1>3, <3>1
      <3>2. CASE j # k
        <4>1. n[j] = m[j]
          BY <1>3, <3>2
        <4> QED
          BY <2>1, <4>1 DEF Good
      <3> QED
        BY <3>1, <3>2
    <2> QED
      BY <1>3, <2>1 DEF Good
  <1> QED
    BY <1>1, <1>4

LEMMA CallKept ==
    ASSUME \A s, o \in Nat, j \in Keys : Found(s, o, j) => Found(s, o, j)',
           NEW x, CallOK(x)
    PROVE  CallOK(x)'
  BY Zenon DEF CallOK

LEMMA CallsKept ==
    ASSUME \A s, o \in Nat, j \in Keys : Found(s, o, j) => Found(s, o, j)',
           CallsGood, call' = call \/ CallsGood'
    PROVE  CallsGood'
  <1> SUFFICES ASSUME call' = call PROVE CallsGood'
    OBVIOUS
  <1>1. PICK f : f = call
    OBVIOUS
  <1>2. f = [c \in Clients |-> f[c]] /\ \A c \in Clients : CallOK(f[c])
    BY <1>1 DEF CallsGood
  <1>3. \A c \in Clients : CallOK(f[c])'
    BY <1>2, CallKept
  <1> QED
    BY <1>1, <1>2, <1>3 DEF CallsGood

(* What the copies of the index become in one step *)
CopiesStep ==
    /\ snap' \in {snap, index, None}
    /\ ckpt' \in {ckpt, snap, older, None}
    /\ older' \in {ckpt, snap, older, None}

LEMMA CopiesGood ==
    ASSUME AllGood, CopiesStep,
           \A s, o \in Nat, j \in Keys : Found(s, o, j) => Found(s, o, j)',
           Good(index)', call' = call \/ CallsGood'
    PROVE  AllGood'
  <1>1. ASSUME NEW m, Good(m) PROVE Good(m)' /\ Good(Loaded(m))'
    <2>1. Good(m)'
      BY <1>1, GoodKept
    <2> QED
      BY <2>1, GoodEmpty DEF Loaded
  <1>2. ASSUME NEW m, Good(Loaded(m)) PROVE Good(Loaded(m))'
    <2>1. CASE m = None
      BY <2>1, GoodEmpty DEF Loaded
    <2>2. CASE m # None
      BY <1>1, <1>2, <2>2 DEF Loaded
    <2> QED
      BY <2>1, <2>2
  <1>3. PICK i, x, c, d : i = index /\ x = snap /\ c = ckpt /\ d = older
    OBVIOUS
  <1>4. Good(i) /\ Good(Loaded(x)) /\ Good(Loaded(c)) /\ Good(Loaded(d))
    BY <1>3 DEF AllGood
  <1>5. Good(Loaded(i))' /\ Good(Loaded(x))' /\ Good(Loaded(c))' /\ Good(Loaded(d))'
    BY <1>1, <1>2, <1>4
  <1>6. snap' \in {x, i, None} /\ ckpt' \in {c, x, d, None} /\ older' \in {c, x, d, None}
    BY <1>3 DEF CopiesStep
  <1>7. Good(Loaded(snap))' /\ Good(Loaded(ckpt))' /\ Good(Loaded(older))'
    BY <1>5, <1>6, GoodEmpty
  <1>8. CallsGood'
    BY CallsKept DEF AllGood
  <1> QED
    BY <1>7, <1>8 DEF AllGood

-----------------------------------------------------------------------------
(* Every step *)

Inv == StoreInv /\ AllGood

AppendsOnly ==
    \A s \in DOMAIN files :
        /\ s \in DOMAIN files'
        /\ \A o \in DOMAIN files[s].blobs :
              /\ o \in DOMAIN files'[s].blobs
              /\ files'[s].blobs[o] = files[s].blobs[o]

LEMMA AppendsIf ==
    ASSUME DOMAIN files \subseteq DOMAIN files',
           \A s, o : Stored(s, o) => Stored(s, o)' /\ files'[s].blobs[o] = files[s].blobs[o]
    PROVE  AppendsOnly
  BY DEF AppendsOnly, Stored

LEMMA SameIndex ==
    ASSUME Good(index), index' = index,
           \A s, o \in Nat, j \in Keys : Found(s, o, j) => Found(s, o, j)'
    PROVE  Good(index)'
  <1>1. PICK i : i = index
    OBVIOUS
  <1>2. Good(i)'
    BY <1>1, GoodKept
  <1> QED
    BY <1>1, <1>2

(* The steps that leave the files and the blocks alone *)
LEMMA QuietStep ==
    ASSUME Inv, Up, UNCHANGED <<files, active, pending, lost, vanished>>, SegsOK',
           phase' \in {"open", "save", "drain"},
           phase' = "open" => phase = "open" /\ DOMAIN segs' = DOMAIN segs,
           CopiesStep, index' = index \/ \E k \in Keys : index' = [index EXCEPT ![k] = None],
           call' = call \/ CallsGood'
    PROVE  Inv' /\ AppendsOnly
  <1>1. StoreInv'
    BY StoreSame DEF Inv
  <1>2. \A s, o \in Nat, j \in Keys : Found(s, o, j) => Found(s, o, j)'
    BY FoundSame
  <1>3. PICK i : i = index
    OBVIOUS
  <1>4. Good(i)'
    BY <1>2, <1>3, GoodKept DEF Inv, AllGood
  <1>5. Good(index)'
    <2>1. CASE index' = index
      BY <1>3, <1>4, <2>1
    <2>2. CASE \E k \in Keys : index' = [index EXCEPT ![k] = None]
      <3>1. PICK k \in Keys : index' = [i EXCEPT ![k] = None]
        BY <1>3, <2>2
      <3> QED
        BY <1>4, <3>1, GoodLess
    <2> QED
      BY <2>1, <2>2
  <1>6. AllGood'
    BY <1>2, <1>5, CopiesGood DEF Inv
  <1>7. AppendsOnly
    BY DEF AppendsOnly
  <1> QED
    BY <1>1, <1>6, <1>7 DEF Inv

LEMMA PutWrites ==
    ASSUME Inv, NEW k \in Keys, phase = "open", phase' = phase, Write(k),
           index' = [index EXCEPT ![k] = LocOut], UNCHANGED <<snap, ckpt, older, call>>
    PROVE  Inv' /\ AppendsOnly
  <1>1. StoreInv
    BY DEF Inv
  <1>2. PICK a \in Nat, b \in Nat \ {0} : WritesAt(a, b, k)
    BY <1>1, WriteIs
  <1>3. /\ StoreInv'
        /\ \A s, o \in Nat, j \in Keys : Found(s, o, j) => Found(s, o, j)'
        /\ Found(a, b, k)'
    BY <1>1, <1>2, WriteKeeps
  <1>4. PICK i : i = index
    OBVIOUS
  <1>5. Good(i)'
    BY <1>3, <1>4, GoodKept DEF Inv, AllGood
  <1>6. index' = [i EXCEPT ![k] = <<a, b>>]
    BY <1>2, <1>4 DEF WritesAt, LocOut
  <1>6a. PICK n : n = [i EXCEPT ![k] = <<a, b>>]
    OBVIOUS
  <1>6b. Good([i EXCEPT ![k] = <<a, b>>])'
    BY <1>3, <1>5, GoodMore
  <1>7. Good(index)'
    BY <1>6, <1>6a, <1>6b
  <1>8. AllGood'
    BY <1>3, <1>7, CopiesGood DEF Inv, CopiesStep
  <1>9. AppendsOnly
    BY <1>2 DEF WritesAt, AppendsOnly
  <1> QED
    BY <1>3, <1>8, <1>9 DEF Inv

OneLess(c, o) ==
    [entry_count |-> c.entry_count, live_count |-> c.live_count - 1,
     dead |-> c.dead \cup {o}, twice |-> c.twice \/ o \in c.dead]

LEMMA OneLessCounts ==
    ASSUME NEW c \in Counts, NEW o \in Nat, c.live_count > 0
    PROVE  /\ OneLess(c, o) \in Counts
           /\ OneLess(c, o).entry_count = c.entry_count
           /\ OneLess(c, o).live_count = c.live_count - 1
           /\ OneLess(c, o).dead = c.dead \cup {o}
           /\ OneLess(c, o).twice = (c.twice \/ o \in c.dead)
  <1>1. c.entry_count \in Nat /\ c.live_count \in Nat /\ c.dead \in SUBSET Nat
    BY DEF Counts
  <1>2. c.live_count - 1 \in Nat /\ c.dead \cup {o} \in SUBSET Nat
    BY <1>1
  <1>3. (c.twice \/ o \in c.dead) \in BOOLEAN
    OBVIOUS
  <1>4. OneLess(c, o) \in Counts
    BY <1>1, <1>2, <1>3 DEF OneLess, Counts
  <1> QED
    BY <1>4 DEF OneLess

LEMMA MarkDeadIs ==
    ASSUME SegsOK, NEW s \in Nat, NEW o \in Nat, MarkDead(<<s, o>>)
    PROVE  /\ DOMAIN segs' = DOMAIN segs
           /\ \A t \in DOMAIN segs : t # s => segs'[t] = segs[t]
           /\ s \in DOMAIN segs /\ segs[s].live_count > 0 => segs'[s] = OneLess(segs[s], o)
           /\ s \in DOMAIN segs /\ ~(segs[s].live_count > 0) => segs'[s] = segs[s]
           /\ \A t \in DOMAIN segs : segs'[t] \in Counts
  <1>0. <<s, o>>[1] = s /\ <<s, o>>[2] = o
    OBVIOUS
  <1>1. \A t \in DOMAIN segs : segs[t] \in Counts
    BY DEF SegsOK
  <1>2. CASE s \in DOMAIN segs /\ segs[s].live_count > 0
    <2>1. segs' = [segs EXCEPT ![s] =
                    [entry_count |-> @.entry_count,
                     live_count |-> @.live_count - 1,
                     dead |-> @.dead \cup {o},
                     twice |-> @.twice \/ o \in @.dead]]
      BY <1>0, <1>2 DEF MarkDead
    <2>2. PICK x : x = OneLess(segs[s], o)
      OBVIOUS
    <2>3. segs' = [segs EXCEPT ![s] = x]
      BY <2>1, <2>2 DEF OneLess
    <2>4. x \in Counts
      BY <1>1, <1>2, <2>2, OneLessCounts
    <2> QED
      BY <1>1, <1>2, <2>2, <2>3, <2>4
  <1>3. CASE ~(s \in DOMAIN segs /\ segs[s].live_count > 0)
    <2>1. segs' = segs
      BY <1>0, <1>3 DEF MarkDead
    <2> QED
      BY <1>1, <1>3, <2>1
  <1> QED
    BY <1>2, <1>3

LEMMA PutStep ==
    ASSUME Inv, NEW k \in Keys, Put(k) \/ Evict(k)
    PROVE  Inv' /\ AppendsOnly
  <1>1. phase = "open" /\ phase' = phase /\ UNCHANGED <<snap, ckpt, older, call>>
    BY DEF Put, Evict, saverVars
  <1>2. CASE Write(k) /\ index' = [index EXCEPT ![k] = LocOut]
    BY <1>1, <1>2, PutWrites
  <1>3. CASE (index' = index \/ index' = [index EXCEPT ![k] = None]) /\ UNCHANGED storeVars
    <2>1. UNCHANGED <<files, active, pending, lost, vanished>> /\ segs' = segs
      BY <1>3 DEF storeVars
    <2>2. SegsOK'
      BY <2>1 DEF Inv, StoreInv, SegsOK
    <2>3. Up /\ CopiesStep
      BY <1>1 DEF Up, CopiesStep
    <2> QED
      BY <1>1, <1>3, <2>1, <2>2, <2>3, QuietStep
  <1> QED
    BY <1>2, <1>3 DEF Put, Evict

(* A client's step in del() *)
LEMMA CallStep ==
    ASSUME CallsGood, NEW c \in Clients, NEW x, CallOK(x)', call' = [call EXCEPT ![c] = x],
           \A s, o \in Nat, j \in Keys : Found(s, o, j) => Found(s, o, j)'
    PROVE  CallsGood'
  <1>1. call = [d \in Clients |-> call[d]] /\ \A d \in Clients : CallOK(call[d])
    BY DEF CallsGood
  <1>2. call' = [d \in Clients |-> call'[d]]
        /\ \A d \in Clients : call'[d] = IF d = c THEN x ELSE call[d]
    BY <1>1
  <1>4. PICK f, g : f = call /\ g = call'
    OBVIOUS
  <1>3. ASSUME NEW d \in Clients PROVE CallOK(g[d])'
    <2>2. CallOK(f[d])'
      BY <1>1, <1>4, CallKept
    <2>4. g[d] = x \/ g[d] = f[d]
      BY <1>2, <1>4
    <2> QED
      BY <2>2, <2>4
  <1>5. g = [d \in Clients |-> g[d]]
    BY <1>2, <1>4
  <1> QED
    BY <1>3, <1>4, <1>5 DEF CallsGood

LEMMA DelFindIs ==
    ASSUME Good(index), NEW c \in Clients, NEW k \in Keys, DelFind(c, k),
           UNCHANGED <<files, pending, lost, vanished>>
    PROVE  \E x : /\ call' = [call EXCEPT ![c] = x]
                  /\ CallOK(x)'
                  /\ \/ x = Deleting("erase", k, None)
                     \/ \E s, o \in Nat : /\ x = Deleting("mark", k, <<s, o>>)
                                          /\ index[k] # None /\ index[k] = <<s, o>>
  <1>1. CASE index[k] = None
    <2>1. call' = [call EXCEPT ![c] = Deleting("erase", k, None)]
      BY <1>1 DEF DelFind, Deleting
    <2> QED
      BY <2>1, Zenon DEF CallOK
  <1>2. CASE index[k] # None
    <2>1. PICK s, o \in Nat : index[k] = <<s, o>> /\ Found(s, o, k)
      BY <1>2 DEF Good
    <2>2. call' = [call EXCEPT ![c] = Deleting("mark", k, <<s, o>>)]
      BY <1>2, <2>1 DEF DelFind, Deleting
    <2>3. Found(s, o, k)'
      BY <2>1, FoundSame
    <2>4. CallOK(Deleting("mark", k, <<s, o>>))'
      BY <2>3, Zenon DEF CallOK
    <2> QED
      BY <1>2, <2>1, <2>2, <2>4
  <1> QED
    BY <1>1, <1>2

LEMMA MarkingIs ==
    ASSUME CallsGood, NEW c \in Clients, DelMark(c)
    PROVE  \E k \in Keys, s, o \in Nat :
              /\ call[c] = Deleting("mark", k, <<s, o>>) /\ Found(s, o, k)
              /\ call' = [call EXCEPT ![c] = Deleting("erase", k, <<s, o>>)]
              /\ MarkDead(<<s, o>>)
  <1>1. CallOK(call[c]) /\ call = [d \in Clients |-> call[d]]
    BY DEF CallsGood
  <1>2. call[c].pc = "mark" /\ MarkDead(call[c].at) /\ call' = [call EXCEPT ![c].pc = "erase"]
    BY DEF DelMark, At
  <1>3. call[c] # Idle /\ \A k : call[c] # Deleting("erase", k, None)
    BY <1>2 DEF Idle, Deleting
  <1>4. PICK k \in Keys, s \in Nat, o \in Nat, pc \in {"mark", "erase"} :
            call[c] = Deleting(pc, k, <<s, o>>) /\ Found(s, o, k)
    BY <1>1, <1>3, Zenon DEF CallOK
  <1>5. call[c] = Deleting("mark", k, <<s, o>>) /\ call[c].at = <<s, o>>
    BY <1>2, <1>4 DEF Deleting
  <1>6. PICK x : x = call[c]
    OBVIOUS
  <1>7. [x EXCEPT !.pc = "erase"] = Deleting("erase", k, <<s, o>>)
    BY <1>5, <1>6 DEF Deleting
  <1>8. call' = [call EXCEPT ![c] = Deleting("erase", k, <<s, o>>)]
    BY <1>2, <1>6, <1>7
  <1>9. MarkDead(<<s, o>>)
    BY <1>2, <1>5
  <1> QED
    BY <1>4, <1>5, <1>8, <1>9, Zenon

LEMMA ErasingIs ==
    ASSUME CallsGood, NEW c \in Clients, DelErase(c)
    PROVE  \E k \in Keys : call[c].key = k /\ \E l : call[c] = Deleting("erase", k, l)
  <1>1. CallOK(call[c]) /\ call[c].pc = "erase"
    BY DEF CallsGood, DelErase, At
  <1>2. call[c] # Idle
    BY <1>1 DEF Idle
  <1>3. \E k \in Keys, pc \in {"mark", "erase"} : \E l : call[c] = Deleting(pc, k, l)
    <2>1. CASE \E k \in Keys : call[c] = Deleting("erase", k, None)
      BY <2>1
    <2>2. CASE \E k \in Keys, s, o \in Nat, pc \in {"mark", "erase"} :
                  call[c] = Deleting(pc, k, <<s, o>>)
      BY <2>2
    <2> QED
      BY <1>1, <1>2, <2>1, <2>2, Zenon DEF CallOK
  <1>6. PICK k \in Keys, pc \in {"mark", "erase"} : \E l : call[c] = Deleting(pc, k, l)
    BY <1>3
  <1>7. PICK l : call[c] = Deleting(pc, k, l)
    BY <1>6
  <1>4. call[c] = Deleting("erase", k, l)
    BY <1>1, <1>7 DEF Deleting
  <1>5. call[c].key = k
    BY <1>4 DEF Deleting
  <1> QED
    BY <1>4, <1>5, Zenon

LEMMA DelStep ==
    ASSUME Inv, NEW c \in Clients, (\E k \in Keys : DelFind(c, k)) \/ DelMark(c) \/ DelErase(c)
    PROVE  Inv' /\ AppendsOnly
  <1>1. /\ phase = "open" /\ phase' = phase /\ UNCHANGED <<snap, ckpt, older>>
        /\ UNCHANGED <<files, active, pending, lost, vanished>>
    BY DEF DelFind, DelMark, DelErase, At, saverVars, storeVars
  <1>2. SegsOK /\ CallsGood /\ Good(index)
    BY DEF Inv, StoreInv, AllGood
  <1>3. \A s, o \in Nat, j \in Keys : Found(s, o, j) => Found(s, o, j)'
    BY <1>1, FoundSame
  <1>4. Up /\ CopiesStep
    BY <1>1 DEF Up, CopiesStep
  <1>5. CASE DelMark(c)
    <2>1. PICK k \in Keys, s \in Nat, o \in Nat :
              /\ Found(s, o, k)
              /\ call' = [call EXCEPT ![c] = Deleting("erase", k, <<s, o>>)]
              /\ MarkDead(<<s, o>>)
      BY <1>2, <1>5, MarkingIs
    <2>2. DOMAIN segs' = DOMAIN segs /\ \A t \in DOMAIN segs : segs'[t] \in Counts
      BY <1>2, <2>1, MarkDeadIs
    <2>3. SegsOK'
      BY <1>1, <1>2, <2>2 DEF SegsOK
    <2>4. Found(s, o, k)'
      BY <1>3, <2>1
    <2>5. CallOK(Deleting("erase", k, <<s, o>>))'
      BY <2>4, Zenon DEF CallOK
    <2>6. CallsGood'
      BY <1>2, <1>3, <2>1, <2>5, CallStep
    <2>7. index' = index
      BY <1>5 DEF DelMark
    <2> QED
      BY <1>1, <1>4, <2>2, <2>3, <2>6, <2>7, QuietStep
  <1>6. CASE ~DelMark(c)
    <2>1. segs' = segs
      BY <1>6 DEF DelFind, DelErase, storeVars
    <2>2. SegsOK'
      BY <1>1, <1>2, <2>1 DEF SegsOK
    <2>4. CASE \E k \in Keys : DelFind(c, k)
      <3>1. PICK k \in Keys : DelFind(c, k)
        BY <2>4
      <3>2. PICK x : call' = [call EXCEPT ![c] = x] /\ CallOK(x)'
        BY <1>1, <1>2, <3>1, DelFindIs
      <3>3. CallsGood'
        BY <1>2, <1>3, <3>2, CallStep
      <3>4. index' = index
        BY <3>1 DEF DelFind
      <3> QED
        BY <1>1, <1>4, <2>1, <2>2, <3>3, <3>4, QuietStep
    <2>5. CASE DelErase(c)
      <3>1. CallOK(Idle)'
        BY DEF CallOK
      <3>2. call' = [call EXCEPT ![c] = Idle]
        BY <2>5 DEF DelErase
      <3>3. CallsGood'
        BY <1>2, <1>3, <3>1, <3>2, CallStep
      <3>4. call[c].key \in Keys
        BY <1>2, <2>5, ErasingIs
      <3>5. \E k \in Keys : index' = [index EXCEPT ![k] = None]
        BY <2>5, <3>4 DEF DelErase
      <3> QED
        BY <1>1, <1>4, <2>1, <2>2, <3>3, <3>5, QuietStep
    <2> QED
      BY <1>6, <2>4, <2>5
  <1> QED
    BY <1>5, <1>6

LEMMA GetStep ==
    ASSUME Inv, NEW k \in Keys, Get(k)
    PROVE  Inv' /\ AppendsOnly
  <1>1. /\ phase = "open" /\ phase' = phase /\ UNCHANGED <<snap, ckpt, older>>
        /\ UNCHANGED <<files, active, pending, lost, vanished>> /\ segs' = segs
        /\ index' = index /\ call' = call
    BY DEF Get, storeVars
  <1>2. SegsOK' /\ Up /\ CopiesStep
    BY <1>1 DEF Inv, StoreInv, SegsOK, Up, CopiesStep
  <1> QED
    BY <1>1, <1>2, QuietStep

LEMMA SaverStep ==
    ASSUME Inv, Snapshot \/ Publish \/ Close \/ LastSave \/ CheckpointStopped
    PROVE  Inv' /\ AppendsOnly
  <1>1. /\ UNCHANGED <<files, active, pending, lost, vanished>> /\ segs' = segs
        /\ index' = index /\ call' = call
    BY DEF Snapshot, Publish, Close, LastSave, CheckpointStopped, storeVars, clientVars
  <1>2. SegsOK'
    BY <1>1 DEF Inv, StoreInv, SegsOK
  <1>3. Up /\ phase' \in {"open", "save", "drain"} /\ (phase' = "open" => phase = "open")
    BY DEF Snapshot, Publish, Close, LastSave, CheckpointStopped, CloseOrder, Up
  <1>4. CopiesStep
    BY DEF Snapshot, Publish, Close, LastSave, CheckpointStopped, saverVars, CopiesStep
  <1> QED
    BY <1>1, <1>2, <1>3, <1>4, QuietStep

LEMMA FlushStep ==
    ASSUME Inv, Flush
    PROVE  Inv' /\ AppendsOnly
  <1>1. StoreInv
    BY DEF Inv
  <1>2. /\ StoreInv'
        /\ \A s, o \in Nat, j \in Keys : Found(s, o, j) => Found(s, o, j)'
        /\ \A s, o : Stored(s, o) => Stored(s, o)' /\ files'[s].blobs[o] = files[s].blobs[o]
        /\ DOMAIN files' = DOMAIN files
    BY <1>1, FlushKeeps
  <1>3. index' = index /\ call' = call /\ CopiesStep
    BY DEF Flush, CopiesStep, saverVars, clientVars
  <1>4. Good(index)'
    BY <1>2, <1>3, SameIndex DEF Inv, AllGood
  <1>5. AllGood'
    BY <1>2, <1>3, <1>4, CopiesGood DEF Inv
  <1>6. AppendsOnly
    BY <1>2, AppendsIf
  <1> QED
    BY <1>2, <1>5, <1>6 DEF Inv

LEMMA CloseSegmentStep ==
    ASSUME Inv, NEW t \in DOMAIN segs, CloseSegment(t)
    PROVE  Inv' /\ AppendsOnly
  <1>1. StoreInv
    BY DEF Inv
  <1>2. /\ StoreInv'
        /\ \A s, o, j : Found(s, o, j) => Found(s, o, j)'
        /\ \A s, o : Stored(s, o) => Stored(s, o)' /\ files'[s].blobs[o] = files[s].blobs[o]
        /\ DOMAIN files' = DOMAIN files
    BY <1>1, CloseSegmentKeeps, CloseSegmentIs
  <1>3. index' = index /\ call' = call /\ CopiesStep
    BY DEF CloseSegment, CopiesStep, saverVars, clientVars
  <1>4. Good(index)'
    BY <1>2, <1>3, SameIndex DEF Inv, AllGood
  <1>5. AllGood'
    BY <1>2, <1>3, <1>4, CopiesGood DEF Inv
  <1>6. AppendsOnly
    BY <1>2, AppendsIf
  <1> QED
    BY <1>2, <1>5, <1>6 DEF Inv

LEMMA OpenFailsStep ==
    ASSUME Inv, OpenFails
    PROVE  Inv' /\ AppendsOnly
  <1>1. StoreInv
    BY DEF Inv
  <1>2. /\ StoreInv'
        /\ \A s, o, j : Found(s, o, j) => Found(s, o, j)'
        /\ \A s, o : Stored(s, o) => Stored(s, o)' /\ files'[s].blobs[o] = files[s].blobs[o]
        /\ DOMAIN files' = DOMAIN files
    BY <1>1, OpenFailsKeeps, OpenFailsIs
  <1>3. index' = index /\ call' = call /\ CopiesStep
    BY DEF OpenFails, CopiesStep, saverVars, clientVars
  <1>4. Good(index)'
    BY <1>2, <1>3, SameIndex DEF Inv, AllGood
  <1>5. AllGood'
    BY <1>2, <1>3, <1>4, CopiesGood DEF Inv
  <1>6. AppendsOnly
    BY <1>2, AppendsIf
  <1> QED
    BY <1>2, <1>5, <1>6 DEF Inv

LEMMA NoCallsGood == call' = [c \in Clients |-> Idle] => CallsGood'
  BY DEF CallsGood, CallOK

LEMMA CrashesStep ==
    ASSUME Inv, Crash \/ PowerCut
    PROVE  Inv' /\ phase' = "crashed"
  <1>1. StoreInv
    BY DEF Inv
  <1>2. /\ StoreInv'
        /\ \A s, o \in Nat, j \in Keys : Found(s, o, j) => Found(s, o, j)'
    BY <1>1, CrashStep, PowerCutStep
  <1>3. index' = Empty /\ CopiesStep /\ phase' = "crashed"
    BY DEF Crash, PowerCut, NothingInMemory, CopiesStep
  <1>4. Good(index)'
    BY <1>3, GoodEmpty
  <1>5. CallsGood'
    BY NoCallsGood DEF Crash, PowerCut, NothingInMemory
  <1>6. AllGood'
    BY <1>2, <1>3, <1>4, <1>5, CopiesGood DEF Inv
  <1> QED
    BY <1>2, <1>3, <1>6 DEF Inv

LEMMA OpenKeeps ==
    ASSUME Inv, Open
    PROVE  Inv' /\ AppendsOnly
  <1>1. StoreInv
    BY DEF Inv
  <1>2. /\ StoreInv'
        /\ \A s, o \in Nat, j \in Keys : Found(s, o, j) => Found(s, o, j)'
        /\ \A s, o : Stored(s, o) => Stored(s, o)' /\ files'[s].blobs[o] = files[s].blobs[o]
        /\ \A s \in DOMAIN files : s \in DOMAIN files'
    BY <1>1, OpenStep
  <1>3. index' = Loaded(ckpt) /\ call' = call /\ CopiesStep
    BY DEF Open, CopiesStep
  <1>4. PICK i : i = Loaded(ckpt)
    OBVIOUS
  <1>5. Good(i)'
    BY <1>2, <1>4, GoodKept DEF Inv, AllGood
  <1>6. Good(index)'
    BY <1>3, <1>4, <1>5
  <1>7. AllGood'
    BY <1>2, <1>3, <1>6, CopiesGood DEF Inv
  <1>8. AppendsOnly
    BY <1>2, AppendsIf
  <1> QED
    BY <1>2, <1>7, <1>8 DEF Inv

LEMMA NoStep ==
    ASSUME Inv, UNCHANGED vars
    PROVE  Inv' /\ AppendsOnly
  <1>1. UNCHANGED <<files, pending, lost, vanished>> /\ active' = active /\ segs' = segs
        /\ phase' = phase /\ index' = index /\ snap' = snap /\ ckpt' = ckpt /\ older' = older
        /\ call' = call
    BY DEF vars, clientVars, saverVars, storeVars
  <1>2. FilesOK' /\ SegsOK' /\ ActiveOK' /\ PendingOK'
    BY <1>1 DEF Inv, StoreInv, FilesOK, IsFile, SegsOK, ActiveOK, PendingOK, Up, Down
  <1>3. \A s, o : Given(s, o)' <=> Given(s, o)
    BY <1>1 DEF Given, Up
  <1>4. BlocksPlaced' /\ StoredPlaced'
    BY <1>1, <1>3, FoundSame DEF Inv, StoreInv, BlocksPlaced, StoredPlaced
  <1>5. LostPlaced'
    BY <1>1, <1>3, FoundSame DEF Inv, StoreInv, LostPlaced
  <1>6. StoreInv'
    BY <1>1, <1>2, <1>4, <1>5 DEF Inv, StoreInv
  <1>7. \A s, o \in Nat, j \in Keys : Found(s, o, j) => Found(s, o, j)'
    BY <1>1, FoundSame
  <1>8. Good(index)'
    BY <1>1, <1>7, SameIndex DEF Inv, AllGood
  <1>9. AllGood'
    BY <1>1, <1>7, <1>8, CopiesGood DEF Inv, CopiesStep
  <1>10. AppendsOnly
    BY <1>1 DEF AppendsOnly
  <1> QED
    BY <1>6, <1>9, <1>10 DEF Inv

LEMMA InitInv == Init => Inv
  <1> SUFFICES ASSUME Init PROVE Inv
    OBVIOUS
  <1>1. /\ files = [s \in {0} |-> NewFile] /\ segs = [s \in {0} |-> NewSegment]
        /\ active = [id |-> 0, offset |-> 1] /\ pending = <<>> /\ phase = "open"
        /\ lost = {} /\ index = Empty /\ snap = None /\ ckpt = None /\ older = None
    BY DEF Init
  <1>2. DOMAIN files = {0} /\ files[0] = NewFile /\ DOMAIN segs = {0} /\ segs[0] = NewSegment
    BY <1>1
  <1>3. NewSegment \in Counts /\ IsFile(NewFile)
    BY DEF NewSegment, Counts, IsFile, NewFile
  <1>4. FilesOK /\ SegsOK
    BY <1>2, <1>3 DEF FilesOK, SegsOK
  <1>5. ActiveOK
    BY <1>1, <1>2 DEF ActiveOK
  <1>6. PendingOK
    BY <1>1 DEF PendingOK
  <1>7. (\A s, o, j : ~InBlock(s, o, j)) /\ \A s, o : ~Stored(s, o)
    BY <1>1, <1>2 DEF InBlock, Stored, NewFile
  <1>8. BlocksPlaced /\ StoredPlaced /\ LostPlaced
    BY <1>1, <1>7 DEF BlocksPlaced, StoredPlaced, LostPlaced
  <1>9. Good(Empty) /\ Loaded(None) = Empty
    BY GoodEmpty DEF Loaded
  <1>10. CallsGood
    BY DEF Init, CallsGood, CallOK
  <1>11. AllGood
    BY <1>1, <1>9, <1>10 DEF AllGood
  <1> QED
    BY <1>1, <1>4, <1>5, <1>6, <1>8, <1>11 DEF Inv, StoreInv

LEMMA Step ==
    ASSUME Inv, [Next]_vars
    PROVE  Inv' /\ (phase' # "crashed" => AppendsOnly)
  <1>1. CASE \E k \in Keys : Put(k) \/ Evict(k)
    BY <1>1, PutStep
  <1>8. CASE \E k \in Keys : Get(k)
    BY <1>8, GetStep
  <1>9. CASE \E c \in Clients : (\E k \in Keys : DelFind(c, k)) \/ DelMark(c) \/ DelErase(c)
    BY <1>9, DelStep
  <1>2. CASE Flush
    BY <1>2, FlushStep
  <1>3. CASE Snapshot \/ Publish \/ Close \/ LastSave \/ CheckpointStopped
    BY <1>3, SaverStep
  <1>4. CASE \E s \in DOMAIN segs : CloseSegment(s)
    BY <1>4, CloseSegmentStep
  <1>5. CASE Crash \/ PowerCut
    BY <1>5, CrashesStep
  <1>6. CASE Open \/ OpenFails
    BY <1>6, OpenKeeps, OpenFailsStep
  <1>7. CASE UNCHANGED vars
    BY <1>7, NoStep
  <1> QED
    BY <1>1, <1>2, <1>3, <1>4, <1>5, <1>6, <1>7, <1>8, <1>9 DEF Next

(* The segment files only grow, whatever the program does and however often  *)
(* it crashes: a location is never written twice, and a new segment never    *)
(* takes the name of a file that is there.                                   *)
THEOREM AppendOnly == Spec => FilesAppendOnly
  <1>1. Init => Inv
    BY InitInv
  <1>2. Inv /\ [Next]_vars => Inv'
    BY Step
  <1>3. Inv /\ [Next]_vars => [phase' # "crashed" => AppendsOnly]_vars
    BY Step
  <1>4. [phase' # "crashed" => AppendsOnly]_vars
          => [phase' # "crashed" => \A s \in DOMAIN files :
                /\ s \in DOMAIN files'
                /\ \A o \in DOMAIN files[s].blobs :
                      /\ o \in DOMAIN files'[s].blobs
                      /\ files'[s].blobs[o] = files[s].blobs[o]]_vars
    BY DEF AppendsOnly
  <1> QED
    BY <1>1, <1>2, <1>3, <1>4, PTL DEF Spec, FilesAppendOnly

LEMMA FoundReads ==
    ASSUME Inv, NEW s \in Nat, NEW o \in Nat, NEW k \in Keys, Found(s, o, k)
    PROVE  LET l == <<s, o>>
           IN  \/ Read(l) = k
               \/ Read(l) = None /\ (l \in lost \/ s \notin DOMAIN segs)
               \/ s \in vanished
  <1> DEFINE l == <<s, o>>
             blocks == {i \in DOMAIN pending : pending[i].at = l}
  <1>0. l[1] = s /\ l[2] = o
    OBVIOUS
  <1>1. PendingOK /\ DOMAIN pending = 1 .. Len(pending) /\ Len(pending) \in Nat
    BY DEF Inv, StoreInv, PendingOK
  <1>2. CASE s \in vanished
    BY <1>2
  <1>3. CASE InBlock(s, o, k)
    <2>1. PICK i \in 1 .. Len(pending) : pending[i] = [at |-> <<s, o>>, key |-> k]
      BY <1>3 DEF InBlock
    <2>2. i \in blocks /\ pending[i].key = k /\ pending[i].at = l
      BY <1>1, <2>1
    <2>3. \A j \in blocks : j = i
      BY <1>1, <2>2 DEF PendingOK
    <2>4. i \in Nat
      BY <1>1, <2>1
    <2>5. blocks = {i}
      BY <2>2, <2>3
    <2>6. Max(blocks) = i
      BY <2>4, <2>5 DEF Max
    <2>7. blocks # {}
      BY <2>2
    <2>8. Read(l) = pending[Max(blocks)].key
      BY <2>7 DEF Read
    <2> QED
      BY <2>2, <2>6, <2>8
  <1>4. ASSUME \A j \in Keys : ~InBlock(s, o, j) PROVE blocks = {}
    <2> SUFFICES ASSUME NEW i \in blocks PROVE FALSE
      OBVIOUS
    <2>1. i \in 1 .. Len(pending) /\ pending[i].at = l
      BY <1>1
    <2>2. pending[i].key \in Keys /\ InBlock(pending[i].at[1], pending[i].at[2], pending[i].key)
      BY <1>1, <2>1, BlockAt
    <2> QED
      BY <1>0, <1>4, <2>1, <2>2
  <1>5. CASE InFile(s, o, k)
    <2>1. Stored(s, o)
      BY <1>5 DEF InFile, Stored
    <2>2. \A j \in Keys : ~InBlock(s, o, j)
      BY <2>1 DEF Inv, StoreInv, BlocksPlaced
    <2>3. blocks = {}
      BY <1>4, <2>2
    <2>4. Read(l) = IF s \in DOMAIN segs /\ o \in DOMAIN files[s].blobs
                    THEN files[s].blobs[o] ELSE None
      BY <2>3, <1>0 DEF Read
    <2> QED
      BY <1>5, <2>4 DEF InFile
  <1>6. CASE l \in lost /\ s \notin vanished
    <2>1. /\ s \in DOMAIN files /\ ~Stored(s, o)
          /\ \A j \in Keys : ~InBlock(s, o, j)
      BY <1>6 DEF Inv, StoreInv, LostPlaced
    <2>2. blocks = {}
      BY <1>4, <2>1
    <2>3. Read(l) = IF s \in DOMAIN segs /\ o \in DOMAIN files[s].blobs
                    THEN files[s].blobs[o] ELSE None
      BY <2>2, <1>0 DEF Read
    <2> QED
      BY <1>6, <2>1, <2>3 DEF Stored
  <1> QED
    BY <1>2, <1>3, <1>5, <1>6 DEF Found

(* After any crashes, power cuts and restarts a location in the index reads  *)
(* its own blob, or nothing if it was lost or its segment not opened; only   *)
(* a segment whose file a power cut took away may hold another's.            *)
THEOREM RestartsRead == Spec => []RestartReads
  <1>1. Init => Inv
    BY InitInv
  <1>2. Inv /\ [Next]_vars => Inv'
    BY Step
  <1>3. Inv => RestartReads
    <2> SUFFICES ASSUME Inv, NEW k \in Keys, index[k] # None
                 PROVE  LET l == index[k]
                        IN  \/ Read(l) = k
                            \/ Read(l) = None /\ (l \in lost \/ l[1] \notin DOMAIN segs)
                            \/ l[1] \in vanished
      BY DEF RestartReads
    <2>1. PICK s, o \in Nat : index[k] = <<s, o>> /\ Found(s, o, k)
      BY DEF Inv, AllGood, Good
    <2>2. index[k][1] = s
      BY <2>1
    <2> QED
      BY <2>1, <2>2, FoundReads
  <1> QED
    BY <1>1, <1>2, <1>3, PTL DEF Spec
-----------------------------------------------------------------------------
(* close() *)

(* What the saver has of the index, unless a change has escaped it *)
SavedInv ==
    /\ phase # "crashed" =>
          /\ ~dirty /\ ~raced => Loaded(ckpt) = index
          /\ snap # None /\ ~raced => snap = index
    /\ phase \in {"drain", "closed"} =>
          /\ dirty => last
          /\ raced \/ dirty => stale

LEMMA SavedByClients ==
    ASSUME SavedInv, phase' = phase, phase = "open", UNCHANGED <<snap, ckpt>>, Races,
           dirty' = TRUE \/ dirty' = dirty
    PROVE  SavedInv'
  <1>1. ~raced' => ~raced /\ (index' = index \/ (snap = None /\ dirty'))
    BY DEF Races
  <1>2. ~dirty' => ~dirty
    OBVIOUS
  <1>3. Loaded(ckpt)' = Loaded(ckpt)
    BY DEF Loaded
  <1> QED
    BY <1>1, <1>2, <1>3 DEF SavedInv

LEMMA SavedStep ==
    ASSUME SavedInv, [Next]_vars
    PROVE  SavedInv'
  <1>1. CASE \E k \in Keys : Put(k) \/ Evict(k)
    BY <1>1, SavedByClients DEF Put, Evict, saverVars
  <1>2. CASE \E k \in Keys : Get(k)
    BY <1>2, SavedByClients DEF Get, SavedInv, Loaded
  <1>3. CASE \E c \in Clients : (\E k \in Keys : DelFind(c, k)) \/ DelMark(c)
    BY <1>3 DEF DelFind, DelMark, At, saverVars, SavedInv, Loaded
  <1>4. CASE \E c \in Clients : DelErase(c)
    BY <1>4, SavedByClients DEF DelErase, At
  <1>5. CASE Flush
    BY <1>5 DEF Flush, saverVars, clientVars, SavedInv, Loaded
  <1>6. CASE Snapshot \/ LastSave
    BY <1>6 DEF Snapshot, LastSave, clientVars, SavedInv, Loaded
  <1>7. CASE Publish
    <2>1. /\ phase \in {"open", "save"} /\ snap # None /\ snap' = None
          /\ phase' = phase /\ index' = index /\ raced' = raced
      BY <1>7 DEF Publish, clientVars
    <2>2. CASE ckpt' = snap /\ dirty' = FALSE
      BY <2>1, <2>2 DEF SavedInv, Loaded
    <2>3. CASE UNCHANGED <<dirty, ckpt>>
      BY <2>1, <2>3 DEF SavedInv, Loaded
    <2> QED
      BY <1>7, <2>2, <2>3 DEF Publish
  <1>8. CASE Close
    BY <1>8 DEF Close, CloseOrder, saverVars, clientVars, SavedInv, Loaded
  <1>9. CASE CheckpointStopped
    BY <1>9 DEF CheckpointStopped, CloseOrder, saverVars, clientVars, SavedInv, Loaded
  <1>10. CASE \E s \in DOMAIN segs : CloseSegment(s)
    BY <1>10 DEF CloseSegment, CloseOrder, saverVars, clientVars, SavedInv, Loaded
  <1>11. CASE Crash \/ PowerCut
    BY <1>11 DEF Crash, PowerCut, SavedInv
  <1>12. CASE Open
    BY <1>12 DEF Open, SavedInv, Loaded
  <1>13. CASE OpenFails \/ UNCHANGED vars
    BY <1>13 DEF OpenFails, vars, saverVars, clientVars, SavedInv, Loaded
  <1> QED
    BY <1>1, <1>2, <1>3, <1>4, <1>5, <1>6, <1>7, <1>8, <1>9, <1>10, <1>11, <1>12, <1>13 DEF Next

LEMMA InitSaved == Init => SavedInv
  BY DEF Init, SavedInv, Loaded

(* When close() has returned the checkpoint has the NVMe entries as the      *)
(* index had them and the files have their blobs, except what could not be   *)
(* written, a failed last save, and changes that raced with a save.          *)
THEOREM ClosesWhole == Spec => []CloseKeepsAll
  <1>1. Init => Inv /\ SavedInv
    BY InitInv, InitSaved
  <1>2. Inv /\ SavedInv /\ [Next]_vars => Inv' /\ SavedInv'
    BY Step, SavedStep
  <1>3. Inv /\ SavedInv => CloseKeepsAll
    <2> SUFFICES ASSUME Inv, SavedInv, phase = "closed"
                 PROVE  /\ Loaded(ckpt) = index \/ raced \/ (last /\ dirty)
                        /\ \A k \in Keys : index[k] # None =>
                              LET l == index[k]
                              IN  \/ l \in lost \/ l[1] \in vanished
                                  \/ /\ l[2] \in DOMAIN files[l[1]].blobs
                                     /\ files[l[1]].blobs[l[2]] = k
      BY DEF CloseKeepsAll
    <2>1. Loaded(ckpt) = index \/ raced \/ (last /\ dirty)
      BY DEF SavedInv
    <2>2. ASSUME NEW k \in Keys, index[k] # None
          PROVE  LET l == index[k]
                 IN  \/ l \in lost \/ l[1] \in vanished
                     \/ l[2] \in DOMAIN files[l[1]].blobs /\ files[l[1]].blobs[l[2]] = k
      <3>1. PICK s, o \in Nat : index[k] = <<s, o>> /\ Found(s, o, k)
        BY <2>2 DEF Inv, AllGood, Good
      <3>2. index[k][1] = s /\ index[k][2] = o
        BY <3>1
      <3>3. pending = <<>>
        BY DEF Inv, StoreInv, PendingOK, Down
      <3>4. ~InBlock(s, o, k)
        BY <3>3 DEF InBlock
      <3> QED
        BY <3>1, <3>2, <3>4 DEF Found, InFile
    <2> QED
      BY <2>1, <2>2
  <1> QED
    BY <1>1, <1>2, <1>3, PTL DEF Spec
-----------------------------------------------------------------------------
(* The counts that GC goes by *)

Has(m, k, s, o) == m[k] # None /\ m[k] = <<s, o>>

(* The index, one of its copies, or a del() before its mark_dead() has the   *)
(* location for k                                                            *)
Points(s, o, k) ==
    \/ Has(index, k, s, o)
    \/ Has(Loaded(snap), k, s, o)
    \/ Has(Loaded(ckpt), k, s, o)
    \/ Has(Loaded(older), k, s, o)
    \/ \E c \in Clients : call[c] = Deleting("mark", k, <<s, o>>)

Unique ==
    \A s, o \in Nat, j, k \in Keys :
        s \notin vanished /\ Points(s, o, j) /\ Points(s, o, k) => j = k

Within(o, c) == c.entry_count = 0 \/ o <= c.entry_count

(* Counts of zero are those of a header that was not written, or not read.   *)
Placed ==
    \A s, o \in Nat, k \in Keys : s \notin vanished /\ Points(s, o, k) =>
        /\ o >= 1
        /\ s \in DOMAIN segs => Within(o, segs[s])
        /\ s \in DOMAIN files => Within(o, files[s].hdr)

(* What was marked dead is what live_count is short of *)
Tally(c) ==
    /\ c.dead \subseteq 1 .. c.entry_count
    /\ c.live_count <= c.entry_count
    /\ c.twice \/ c.live_count + Cardinality(c.dead) = c.entry_count

Tallied ==
    \A s \in Nat : s \notin vanished =>
        /\ s \in DOMAIN segs => Tally(segs[s])
        /\ s \in DOMAIN files => Tally(files[s].hdr)

ActiveCount ==
    phase = "open" => /\ segs[active.id].entry_count + 1 = active.offset
                      /\ files[active.id].hdr = NewSegment

CountInv == Unique /\ Placed /\ Tallied /\ ActiveCount

LEMMA PointsFound ==
    ASSUME Inv, NEW s \in Nat, NEW o \in Nat, NEW k \in Keys, Points(s, o, k)
    PROVE  Found(s, o, k)
  <1>1. ASSUME NEW m, Good(m), Has(m, k, s, o) PROVE Found(s, o, k)
    <2>1. PICK t, u \in Nat : m[k] = <<t, u>> /\ Found(t, u, k)
      BY <1>1 DEF Good, Has
    <2>2. t = s /\ u = o
      BY <1>1, <2>1 DEF Has
    <2> QED
      BY <2>1, <2>2
  <1>2. ASSUME NEW c \in Clients, call[c] = Deleting("mark", k, <<s, o>>) PROVE Found(s, o, k)
    <2>1. CallOK(call[c])
      BY DEF Inv, AllGood, CallsGood
    <2>2. call[c].pc = "mark" /\ call[c].key = k /\ call[c].at = <<s, o>>
      BY <1>2 DEF Deleting
    <2>3. call[c] # Idle /\ \A j : call[c] # Deleting("erase", j, None)
      BY <2>2 DEF Idle, Deleting
    <2>4. PICK j \in Keys, t \in Nat, u \in Nat, pc \in {"mark", "erase"} :
              call[c] = Deleting(pc, j, <<t, u>>) /\ Found(t, u, j)
      BY <2>1, <2>3, Zenon DEF CallOK
    <2>5. call[c].key = j /\ call[c].at = <<t, u>>
      BY <2>4 DEF Deleting
    <2>6. j = k /\ t = s /\ u = o
      BY <2>2, <2>5
    <2> QED
      BY <2>4, <2>6
  <1> QED
    BY <1>1, <1>2 DEF Inv, AllGood, Points

(* The steps that give out no location *)
IndexStep == \A k \in Keys : index'[k] \in {index[k], None, Loaded(ckpt)[k]}
CallsStep ==
    \A c \in Clients, k \in Keys, s, o \in Nat :
        call'[c] = Deleting("mark", k, <<s, o>>) =>
            call[c] = Deleting("mark", k, <<s, o>>) \/ Has(index, k, s, o)
PointsLess == \A s, o \in Nat, k \in Keys : Points(s, o, k)' => Points(s, o, k)

LEMMA PointsStep ==
    ASSUME CopiesStep, IndexStep, CallsStep
    PROVE  PointsLess
  <1> SUFFICES ASSUME NEW s \in Nat, NEW o \in Nat, NEW k \in Keys, Points(s, o, k)'
               PROVE  Points(s, o, k)
    BY DEF PointsLess
  <1>0. ~Has(Empty, k, s, o)
    BY DEF Has, Empty
  <1>1. CASE Has(index, k, s, o)'
    BY <1>1 DEF IndexStep, Has, Points
  <1>2. CASE Has(Loaded(snap), k, s, o)'
    BY <1>0, <1>2 DEF CopiesStep, Has, Loaded, Points
  <1>3. CASE Has(Loaded(ckpt), k, s, o)'
    BY <1>0, <1>3 DEF CopiesStep, Has, Loaded, Points
  <1>4. CASE Has(Loaded(older), k, s, o)'
    BY <1>0, <1>4 DEF CopiesStep, Has, Loaded, Points
  <1>5. CASE \E c \in Clients : call'[c] = Deleting("mark", k, <<s, o>>)
    BY <1>5 DEF CallsStep, Points
  <1> QED
    BY <1>1, <1>2, <1>3, <1>4, <1>5 DEF Points

LEMMA NewTally ==
    /\ Tally(NewSegment)
    /\ \A o : Within(o, NewSegment)
  <1>1. /\ NewSegment.entry_count = 0 /\ NewSegment.live_count = 0
        /\ NewSegment.dead = {} /\ NewSegment.twice = FALSE
    BY DEF NewSegment
  <1>2. Cardinality({}) = 0
    BY FS_EmptySet
  <1> QED
    BY <1>1, <1>2 DEF Tally, Within

(* Counts are moved between headers and memory, or forgotten. *)
LEMMA CountsMoved ==
    ASSUME CountInv, PointsLess, vanished \subseteq vanished',
           DOMAIN segs' \subseteq Nat, DOMAIN files' \subseteq Nat,
           \A s \in DOMAIN segs' :
              \/ s \in DOMAIN segs /\ segs'[s] = segs[s]
              \/ s \in DOMAIN files /\ segs'[s] = files[s].hdr
              \/ segs'[s] = NewSegment,
           \A s \in DOMAIN files' :
              \/ s \in DOMAIN files /\ files'[s].hdr = files[s].hdr
              \/ s \in DOMAIN segs /\ files'[s].hdr = segs[s]
              \/ files'[s].hdr = NewSegment
    PROVE  Unique' /\ Placed' /\ Tallied'
  <1>1. Unique'
    BY DEF CountInv, Unique, PointsLess
  <1>2. Placed'
    <2> SUFFICES ASSUME NEW s \in Nat, NEW o \in Nat, NEW k \in Keys,
                        s \notin vanished', Points(s, o, k)'
                 PROVE  /\ o >= 1
                        /\ s \in DOMAIN segs' => Within(o, segs'[s])
                        /\ s \in DOMAIN files' => Within(o, files'[s].hdr)
      BY DEF Placed, Within
    <2>1. /\ o >= 1
          /\ s \in DOMAIN segs => Within(o, segs[s])
          /\ s \in DOMAIN files => Within(o, files[s].hdr)
      BY DEF CountInv, Placed, PointsLess
    <2>2. Within(o, NewSegment)
      BY NewTally
    <2>3. s \in DOMAIN segs' => Within(o, segs'[s])
      BY <2>1, <2>2
    <2>4. s \in DOMAIN files' => Within(o, files'[s].hdr)
      BY <2>1, <2>2
    <2> QED
      BY <2>1, <2>3, <2>4
  <1>3. Tallied'
    <2> SUFFICES ASSUME NEW s \in Nat, s \notin vanished'
                 PROVE  /\ s \in DOMAIN segs' => Tally(segs'[s])
                        /\ s \in DOMAIN files' => Tally(files'[s].hdr)
      BY DEF Tallied, Tally
    <2>1. /\ s \in DOMAIN segs => Tally(segs[s])
          /\ s \in DOMAIN files => Tally(files[s].hdr)
      BY DEF CountInv, Tallied
    <2>2. Tally(NewSegment)
      BY NewTally
    <2>3. s \in DOMAIN segs' => Tally(segs'[s])
      BY <2>1, <2>2
    <2>4. s \in DOMAIN files' => Tally(files'[s].hdr)
      BY <2>1, <2>2
    <2> QED
      BY <2>3, <2>4
  <1> QED
    BY <1>1, <1>2, <1>3

LEMMA Few ==
    ASSUME NEW n \in Nat, NEW S, S \subseteq 1 .. n
    PROVE  IsFiniteSet(S) /\ Cardinality(S) \in Nat /\ Cardinality(S) <= n
  <1>1. IsFiniteSet(1 .. n) /\ Cardinality(1 .. n) = n
    <2>1. 1 \in Int /\ n \in Int /\ (1 > n => n = 0) /\ n - 1 + 1 = n
      OBVIOUS
    <2> QED
      BY <2>1, FS_Interval
  <1>2. IsFiniteSet(S) /\ Cardinality(S) <= Cardinality(1 .. n)
    BY <1>1, FS_Subset
  <1> QED
    BY <1>1, <1>2, FS_CardinalityType

(* The location that a write gives out is new, and next to those counted *)
LEMMA WriteCounts ==
    ASSUME Inv, CountInv, phase = "open", phase' = phase, NEW k \in Keys,
           NEW a \in Nat, NEW b \in Nat \ {0}, WritesAt(a, b, k),
           index' = [index EXCEPT ![k] = <<a, b>>], UNCHANGED <<snap, ckpt, older, call>>
    PROVE  CountInv' /\ (a \notin vanished => b \notin segs'[a].dead)
  <1>1. /\ StoreInv /\ SegsOK /\ FilesOK
        /\ DOMAIN segs \subseteq DOMAIN files /\ DOMAIN files \subseteq Nat
        /\ \A s \in DOMAIN segs : segs[s] \in Counts
        /\ active.id \in DOMAIN segs
        /\ active.id \in DOMAIN files
    BY DEF Inv, StoreInv, SegsOK, FilesOK, ActiveOK, Up
  <1>2. /\ \A j \in Keys : a \notin vanished => ~Found(a, b, j)
    <2>1. /\ ~Stored(a, b)
          /\ \A j \in Keys : ~InBlock(a, b, j)
          /\ a \notin vanished => <<a, b>> \notin lost
      BY <1>1, WriteAdds
    <2> QED
      BY <2>1 DEF Found, InFile, Stored
  <1>3. \A j \in Keys : a \notin vanished => ~Points(a, b, j)
    BY <1>2, PointsFound
  <1>4. \A s, o \in Nat, j \in Keys :
            Points(s, o, j)' => Points(s, o, j) \/ (s = a /\ o = b /\ j = k)
    <2>1. index = [j \in Keys |-> index[j]]
      BY DEF Inv, AllGood, Good
    <2>2. \A j \in Keys : index'[j] = IF j = k THEN <<a, b>> ELSE index[j]
      BY <2>1
    <2>3. ASSUME NEW s \in Nat, NEW o \in Nat, NEW j \in Keys, Has(index, j, s, o)'
          PROVE  Has(index, j, s, o) \/ (s = a /\ o = b /\ j = k)
      BY <2>2, <2>3 DEF Has
    <2> QED
      BY <2>3 DEF Points, Has, Loaded
  <1>5. vanished' = vanished
    BY DEF WritesAt
  <1>6. Unique'
    BY <1>3, <1>4, <1>5 DEF CountInv, Unique
  <1>7. /\ DOMAIN segs' = DOMAIN segs \cup {a}
        /\ \A s \in DOMAIN segs : s # a => segs'[s] = segs[s]
        /\ segs'[a] = OneMore(SegOr0(a))
        /\ DOMAIN files' = DOMAIN files \cup {a}
        /\ \A s \in DOMAIN files : files'[s] = files[s]
        /\ a \notin DOMAIN files => files'[a] = NewFile
        /\ active' = [id |-> a, offset |-> b + 1]
        /\ (a = active.id /\ b = active.offset) \/ (a \notin DOMAIN files /\ b = 1)
    BY DEF WritesAt
  <1>8. PICK x : x = SegOr0(a)
    OBVIOUS
  <1>9. x \in Counts /\ x.entry_count + 1 = b
    <2>1. CASE a = active.id /\ b = active.offset
      BY <1>1, <1>8, <2>1 DEF SegOr0, CountInv, ActiveCount
    <2>2. CASE a \notin DOMAIN files /\ b = 1
      <3>1. x = NewSegment
        BY <1>1, <1>8, <2>2 DEF SegOr0
      <3> QED
        BY <3>1, <2>2 DEF NewSegment, Counts
    <2> QED
      BY <1>7, <2>1, <2>2
  <1>10. PICK y : y = OneMore(x)
    OBVIOUS
  <1>11. /\ segs'[a] = y /\ y.entry_count = b /\ y.live_count = x.live_count + 1
         /\ y.dead = x.dead /\ y.twice = x.twice /\ y \in Counts
    BY <1>7, <1>8, <1>9, <1>10, OneMoreCounts
  <1>12. files'[a].hdr = NewSegment
    BY <1>7 DEF CountInv, ActiveCount, NewFile
  <1>13. ASSUME a \notin vanished PROVE Tally(x)
    <2>1. CASE a \in DOMAIN segs
      BY <1>1, <1>8, <1>13, <2>1 DEF SegOr0, CountInv, Tallied
    <2>2. CASE a \notin DOMAIN segs
      BY <1>8, <2>2, NewTally DEF SegOr0
    <2> QED
      BY <2>1, <2>2
  <1>14. ASSUME a \notin vanished PROVE Tally(y) /\ b \notin y.dead
    <2>1. /\ x.dead \subseteq 1 .. x.entry_count /\ x.live_count <= x.entry_count
          /\ x.twice \/ x.live_count + Cardinality(x.dead) = x.entry_count
          /\ x.entry_count \in Nat /\ x.live_count \in Nat
      BY <1>9, <1>13, <1>14 DEF Tally, Counts
    <2>2. IsFiniteSet(x.dead) /\ Cardinality(x.dead) \in Nat
      BY <2>1, Few
    <2>3. PICK n, m, d : n = x.entry_count /\ m = x.live_count /\ d = Cardinality(x.dead)
      OBVIOUS
    <2>4. n \in Nat /\ m \in Nat /\ d \in Nat /\ b = n + 1 /\ m <= n
      BY <1>9, <2>1, <2>2, <2>3
    <2>5. y.dead \subseteq 1 .. b /\ b \notin y.dead
      BY <1>11, <2>1, <2>3, <2>4
    <2>6. y.live_count <= y.entry_count
      BY <1>11, <2>3, <2>4
    <2>7. y.twice \/ y.live_count + Cardinality(y.dead) = y.entry_count
      <3>1. x.twice \/ m + d = n
        BY <2>1, <2>3
      <3>2. m + d = n => (m + 1) + d = n + 1
        BY <2>4
      <3> QED
        BY <1>11, <2>3, <2>4, <3>1, <3>2
    <2> QED
      BY <1>11, <2>5, <2>6, <2>7 DEF Tally
  <1>15. Tallied'
    <2> SUFFICES ASSUME NEW s \in Nat, s \notin vanished'
                 PROVE  /\ s \in DOMAIN segs' => Tally(segs'[s])
                        /\ s \in DOMAIN files' => Tally(files'[s].hdr)
      BY DEF Tallied, Tally
    <2>1. CASE s = a
      BY <1>5, <1>11, <1>12, <1>14, <2>1, NewTally
    <2>2. CASE s # a
      BY <1>5, <1>7, <2>2 DEF CountInv, Tallied
    <2> QED
      BY <2>1, <2>2
  <1>16. Placed'
    <2> SUFFICES ASSUME NEW s \in Nat, NEW o \in Nat, NEW j \in Keys,
                        s \notin vanished', Points(s, o, j)'
                 PROVE  /\ o >= 1
                        /\ s \in DOMAIN segs' => Within(o, segs'[s])
                        /\ s \in DOMAIN files' => Within(o, files'[s].hdr)
      BY DEF Placed, Within
    <2>1. CASE s = a /\ o = b
      BY <1>11, <1>12, <2>1, NewTally DEF Within
    <2>2. CASE ~(s = a /\ o = b)
      <3>1. Points(s, o, j)
        BY <1>4, <2>2
      <3>2. /\ o >= 1
            /\ s \in DOMAIN segs => Within(o, segs[s])
            /\ s \in DOMAIN files => Within(o, files[s].hdr)
        BY <1>5, <3>1 DEF CountInv, Placed
      <3>3. CASE s # a
        BY <1>7, <3>2, <3>3
      <3>4. CASE s = a
        <4>1. Found(s, o, j)
          BY <3>1, PointsFound
        <4>2. s \in DOMAIN files /\ Given(s, o)
          BY <1>1, <1>5, <4>1 DEF Found, InFile, Stored, StoreInv, BlocksPlaced, StoredPlaced, LostPlaced
        <4>3. s = active.id /\ b = active.offset
          BY <1>7, <3>4, <4>2
        <4>4. o < b
          BY <4>2, <4>3 DEF Given, Up
        <4>5. Within(o, y)
          BY <1>11, <4>4 DEF Within
        <4> QED
          BY <1>11, <1>12, <3>2, <3>4, <4>5, NewTally
      <3> QED
        BY <3>3, <3>4
    <2> QED
      BY <2>1, <2>2
  <1>17. ActiveCount'
    <2>1. active'.id = a /\ active'.offset = b + 1
      BY <1>7
    <2> QED
      BY <1>11, <1>12, <2>1 DEF ActiveCount
  <1> QED
    BY <1>6, <1>11, <1>14, <1>15, <1>16, <1>17 DEF CountInv

(* mark_dead() *)
LEMMA MarkCounts ==
    ASSUME Inv, CountInv, NEW c \in Clients, DelMark(c)
    PROVE  CountInv'
  <1>1. PICK k \in Keys, s \in Nat, o \in Nat :
            /\ call[c] = Deleting("mark", k, <<s, o>>)
            /\ call' = [call EXCEPT ![c] = Deleting("erase", k, <<s, o>>)]
            /\ MarkDead(<<s, o>>)
    BY MarkingIs DEF Inv, AllGood
  <1>2. /\ UNCHANGED <<index, snap, ckpt, older, files, active, vanished>>
        /\ phase = "open" /\ phase' = "open"
    BY DEF DelMark, At, saverVars
  <1>3. SegsOK /\ DOMAIN segs \subseteq Nat /\ active.id \in DOMAIN segs
        /\ \A t \in DOMAIN segs : segs[t] \in Counts
    BY <1>2 DEF Inv, StoreInv, SegsOK, FilesOK, ActiveOK
  <1>4. /\ DOMAIN segs' = DOMAIN segs
        /\ \A t \in DOMAIN segs : t # s => segs'[t] = segs[t]
        /\ s \in DOMAIN segs /\ segs[s].live_count > 0 => segs'[s] = OneLess(segs[s], o)
        /\ s \in DOMAIN segs /\ ~(segs[s].live_count > 0) => segs'[s] = segs[s]
    BY <1>1, <1>3, MarkDeadIs
  <1>5. PointsLess
    <2>1. call = [d \in Clients |-> call[d]]
      BY DEF Inv, AllGood, CallsGood
    <2>2. Deleting("erase", k, <<s, o>>).pc = "erase"
      BY DEF Deleting
    <2>3. \A j, l : Deleting("mark", j, l).pc = "mark"
      BY DEF Deleting
    <2>4. CallsStep
      BY <1>1, <2>1, <2>2, <2>3 DEF CallsStep
    <2>5. CopiesStep /\ IndexStep
      BY <1>2 DEF CopiesStep, IndexStep
    <2> QED
      BY <2>4, <2>5, PointsStep
  <1>6. Points(s, o, k)
    BY <1>1 DEF Points
  <1>7. Unique'
    BY <1>2, <1>5 DEF CountInv, Unique, PointsLess
  <1>8. \A t \in DOMAIN segs : segs'[t].entry_count = segs[t].entry_count
    BY <1>3, <1>4, OneLessCounts
  <1>9. Placed'
    <2>1. \A t \in DOMAIN segs : \A u : Within(u, segs[t]) => Within(u, segs'[t])
      BY <1>8 DEF Within
    <2> SUFFICES ASSUME NEW t \in Nat, NEW u \in Nat, NEW j \in Keys,
                        t \notin vanished', Points(t, u, j)'
                 PROVE  /\ u >= 1
                        /\ t \in DOMAIN segs' => Within(u, segs'[t])
                        /\ t \in DOMAIN files' => Within(u, files'[t].hdr)
      BY DEF Placed, Within
    <2>2. /\ u >= 1
          /\ t \in DOMAIN segs => Within(u, segs[t])
          /\ t \in DOMAIN files => Within(u, files[t].hdr)
      BY <1>2, <1>5 DEF CountInv, Placed, PointsLess
    <2> QED
      BY <1>2, <1>4, <2>1, <2>2
  <1>10. ASSUME s \in DOMAIN segs, s \notin vanished PROVE Tally(segs'[s])
    <2>1. Tally(segs[s]) /\ o >= 1 /\ Within(o, segs[s])
      BY <1>6, <1>10 DEF CountInv, Tallied, Placed
    <2>2. CASE ~(segs[s].live_count > 0)
      BY <1>4, <1>10, <2>1, <2>2
    <2>3. CASE segs[s].live_count > 0
      <3>1. PICK x : x = segs[s]
        OBVIOUS
      <3>2. x \in Counts /\ x.live_count > 0 /\ Tally(x) /\ Within(o, x)
        BY <1>3, <1>10, <2>1, <2>3, <3>1
      <3>3. PICK y : y = OneLess(x, o)
        OBVIOUS
      <3>4. /\ y.entry_count = x.entry_count /\ y.live_count = x.live_count - 1
            /\ y.dead = x.dead \cup {o} /\ y.twice = (x.twice \/ o \in x.dead)
        BY <3>2, <3>3, OneLessCounts
      <3>5. PICK n, m, d : n = x.entry_count /\ m = x.live_count /\ d = Cardinality(x.dead)
        OBVIOUS
      <3>6. n \in Nat /\ m \in Nat /\ m > 0 /\ m <= n /\ o <= n /\ x.dead \subseteq 1 .. n
        BY <3>2, <3>5 DEF Counts, Tally, Within
      <3>7. IsFiniteSet(x.dead) /\ d \in Nat
        BY <3>5, <3>6, Few
      <3>8. y.dead \subseteq 1 .. y.entry_count /\ y.live_count <= y.entry_count
        BY <2>1, <3>4, <3>5, <3>6
      <3>9. y.twice \/ y.live_count + Cardinality(y.dead) = y.entry_count
        <4>1. CASE o \in x.dead
          BY <3>4, <4>1
        <4>2. CASE o \notin x.dead /\ ~x.twice
          <5>1. m + d = n
            BY <3>2, <3>5, <4>2 DEF Tally
          <5>2. Cardinality(x.dead \cup {o}) = d + 1
            BY <3>5, <3>7, <4>2, FS_AddElement
          <5>3. (m - 1) + (d + 1) = n
            BY <3>6, <3>7, <5>1
          <5> QED
            BY <3>4, <3>5, <5>2, <5>3
        <4>3. CASE x.twice
          BY <3>4, <4>3
        <4> QED
          BY <4>1, <4>2, <4>3
      <3>10. Tally(y)
        BY <3>8, <3>9 DEF Tally
      <3> QED
        BY <1>4, <1>10, <2>3, <3>1, <3>3, <3>10
    <2> QED
      BY <2>2, <2>3
  <1>11. Tallied'
    <2> SUFFICES ASSUME NEW t \in Nat, t \notin vanished'
                 PROVE  /\ t \in DOMAIN segs' => Tally(segs'[t])
                        /\ t \in DOMAIN files' => Tally(files'[t].hdr)
      BY DEF Tallied, Tally
    <2>1. CASE t = s
      BY <1>2, <1>4, <1>10, <2>1 DEF CountInv, Tallied
    <2>2. CASE t # s
      BY <1>2, <1>4, <2>2 DEF CountInv, Tallied
    <2> QED
      BY <2>1, <2>2
  <1>12. ActiveCount'
    BY <1>2, <1>3, <1>8 DEF CountInv, ActiveCount
  <1> QED
    BY <1>7, <1>9, <1>11, <1>12 DEF CountInv

(* The steps that leave all counts alone *)
LEMMA QuietCounts ==
    ASSUME Inv, CountInv, CopiesStep, IndexStep, CallsStep,
           UNCHANGED <<vanished, active, segs>>, DOMAIN files' = DOMAIN files,
           \A s \in DOMAIN files : files'[s].hdr = files[s].hdr,
           phase' = "open" => phase = "open"
    PROVE  CountInv'
  <1>1. DOMAIN files \subseteq Nat /\ DOMAIN segs \subseteq DOMAIN files
        /\ (phase = "open" => active.id \in DOMAIN files)
    BY DEF Inv, StoreInv, FilesOK, SegsOK, ActiveOK, Up
  <1>2. PointsLess
    BY PointsStep
  <1>3. Unique' /\ Placed' /\ Tallied'
    BY <1>1, <1>2, CountsMoved
  <1>4. ActiveCount'
    BY <1>1 DEF CountInv, ActiveCount
  <1> QED
    BY <1>3, <1>4 DEF CountInv

(* The steps that stop the engine, or leave it stopped *)
LEMMA DownCounts ==
    ASSUME Inv, CountInv, CopiesStep, IndexStep, CallsStep, vanished \subseteq vanished',
           DOMAIN files' \subseteq DOMAIN files, phase' # "open",
           \A s \in DOMAIN segs' : s \in DOMAIN segs /\ segs'[s] = segs[s],
           \A s \in DOMAIN files' :
              \/ files'[s].hdr \in {files[s].hdr, NewSegment}
              \/ s \in DOMAIN segs /\ files'[s].hdr = segs[s]
    PROVE  CountInv'
  <1>1. DOMAIN files \subseteq Nat /\ DOMAIN segs \subseteq DOMAIN files
    BY DEF Inv, StoreInv, FilesOK, SegsOK
  <1>2. PointsLess
    BY PointsStep
  <1>3. Unique' /\ Placed' /\ Tallied'
    BY <1>1, <1>2, CountsMoved
  <1> QED
    BY <1>3 DEF CountInv, ActiveCount

LEMMA PutCounts ==
    ASSUME Inv, CountInv, NEW k \in Keys, Put(k) \/ Evict(k)
    PROVE  CountInv'
  <1>1. phase = "open" /\ phase' = phase /\ UNCHANGED <<snap, ckpt, older, call>>
    BY DEF Put, Evict, saverVars
  <1>2. CASE Write(k) /\ index' = [index EXCEPT ![k] = LocOut]
    <2>1. PICK a \in Nat, b \in Nat \ {0} : WritesAt(a, b, k)
      BY <1>1, <1>2, WriteIs DEF Inv
    <2>2. index' = [index EXCEPT ![k] = <<a, b>>]
      BY <1>2, <2>1 DEF WritesAt, LocOut
    <2> QED
      BY <1>1, <2>1, <2>2, WriteCounts
  <1>3. CASE (index' = index \/ index' = [index EXCEPT ![k] = None]) /\ UNCHANGED storeVars
    <2>1. UNCHANGED <<files, active, segs, vanished>>
      BY <1>3 DEF storeVars
    <2>2. index = [j \in Keys |-> index[j]]
      BY DEF Inv, AllGood, Good
    <2>3. CopiesStep /\ IndexStep /\ CallsStep
      BY <1>1, <1>3, <2>2 DEF CopiesStep, IndexStep, CallsStep
    <2> QED
      BY <1>1, <2>1, <2>3, QuietCounts
  <1> QED
    BY <1>2, <1>3 DEF Put, Evict

LEMMA DelCounts ==
    ASSUME Inv, CountInv, NEW c \in Clients, (\E k \in Keys : DelFind(c, k)) \/ DelErase(c)
    PROVE  CountInv'
  <1>1. /\ phase' = phase /\ UNCHANGED <<snap, ckpt, older>>
        /\ UNCHANGED <<files, active, pending, lost, vanished, segs>>
    BY DEF DelFind, DelErase, At, saverVars, storeVars
  <1>2. call = [d \in Clients |-> call[d]] /\ index = [j \in Keys |-> index[j]] /\ CallsGood
        /\ Good(index)
    BY DEF Inv, AllGood, Good, CallsGood
  <1>3. CopiesStep
    BY <1>1 DEF CopiesStep
  <1>4. CASE \E k \in Keys : DelFind(c, k)
    <2>1. PICK k \in Keys : DelFind(c, k)
      BY <1>4
    <2>2. PICK x : /\ call' = [call EXCEPT ![c] = x]
                   /\ \/ x = Deleting("erase", k, None)
                      \/ \E s, o \in Nat : /\ x = Deleting("mark", k, <<s, o>>)
                                           /\ index[k] # None /\ index[k] = <<s, o>>
      <3>1. UNCHANGED <<files, pending, lost, vanished>>
        BY <1>1
      <3>2. \E x : /\ call' = [call EXCEPT ![c] = x]
                   /\ CallOK(x)'
                   /\ \/ x = Deleting("erase", k, None)
                      \/ \E s, o \in Nat : /\ x = Deleting("mark", k, <<s, o>>)
                                           /\ index[k] # None /\ index[k] = <<s, o>>
        BY <1>2, <2>1, <3>1, DelFindIs
      <3> QED
        BY <3>2, Zenon
    <2>3. ASSUME NEW j \in Keys, NEW s \in Nat, NEW o \in Nat, x = Deleting("mark", j, <<s, o>>)
          PROVE  Has(index, j, s, o)
      <3>1. x.pc = "mark" /\ x.key = j /\ x.at = <<s, o>>
        BY <2>3 DEF Deleting
      <3>2. x # Deleting("erase", k, None)
        BY <3>1 DEF Deleting
      <3>3. PICK t, u \in Nat : /\ x = Deleting("mark", k, <<t, u>>)
                                /\ index[k] # None /\ index[k] = <<t, u>>
        BY <2>2, <3>2
      <3>4. x.key = k /\ x.at = <<t, u>>
        BY <3>3 DEF Deleting
      <3> QED
        BY <3>1, <3>3, <3>4 DEF Has
    <2>4. \A d \in Clients : call'[d] = x \/ call'[d] = call[d]
      BY <1>2, <2>2
    <2>5. CallsStep
      <3> SUFFICES ASSUME NEW d \in Clients, NEW j \in Keys, NEW s \in Nat, NEW o \in Nat,
                          call'[d] = Deleting("mark", j, <<s, o>>)
                   PROVE  call[d] = Deleting("mark", j, <<s, o>>) \/ Has(index, j, s, o)
        BY DEF CallsStep
      <3>1. CASE call'[d] = x
        BY <2>3, <3>1
      <3> QED
        BY <2>4, <3>1
    <2>6. IndexStep
      BY <2>1 DEF DelFind, IndexStep
    <2> QED
      BY <1>1, <1>3, <2>5, <2>6, QuietCounts
  <1>5. CASE DelErase(c)
    <2>1. call' = [call EXCEPT ![c] = Idle] /\ index' = [index EXCEPT ![call[c].key] = None]
      BY <1>5 DEF DelErase
    <2>2. \A j, l : Deleting("mark", j, l) # Idle
      <3>1. \A j, l : Deleting("mark", j, l).pc = "mark"
        BY DEF Deleting
      <3>2. Idle.pc = "idle"
        BY DEF Idle
      <3> QED
        BY <3>1, <3>2
    <2>3. CallsStep
      BY <1>2, <2>1, <2>2 DEF CallsStep
    <2>4. IndexStep
      BY <1>2, <2>1 DEF IndexStep
    <2> QED
      BY <1>1, <1>3, <2>3, <2>4, QuietCounts
  <1> QED
    BY <1>4, <1>5

LEMMA OtherCounts ==
    ASSUME Inv, CountInv,
           \/ \E k \in Keys : Get(k)
           \/ Flush \/ Snapshot \/ Publish \/ Close \/ LastSave \/ CheckpointStopped
           \/ UNCHANGED vars
    PROVE  CountInv'
  <1>1. /\ UNCHANGED <<vanished, active, segs, index, call>>
        /\ phase' = "open" => phase = "open"
    BY DEF Get, Flush, Snapshot, Publish, Close, LastSave, CheckpointStopped, CloseOrder, vars,
           storeVars, clientVars
  <1>2. DOMAIN files' = DOMAIN files /\ \A s \in DOMAIN files : files'[s].hdr = files[s].hdr
    <2>1. CASE Flush
      BY <2>1, FlushKeeps DEF Inv
    <2>2. CASE ~Flush
      <3>1. files' = files
        BY <2>2 DEF Get, Snapshot, Publish, Close, LastSave, CheckpointStopped, vars, storeVars
      <3> QED
        BY <3>1
    <2> QED
      BY <2>1, <2>2
  <1>3. CopiesStep
    BY DEF Get, Flush, Snapshot, Publish, Close, LastSave, CheckpointStopped, vars, saverVars,
           CopiesStep
  <1>4. IndexStep /\ CallsStep
    BY <1>1 DEF IndexStep, CallsStep
  <1> QED
    BY <1>1, <1>2, <1>3, <1>4, QuietCounts

LEMMA StopCounts ==
    ASSUME Inv, CountInv,
           \/ \E t \in DOMAIN segs : CloseSegment(t)
           \/ Crash \/ PowerCut \/ OpenFails
    PROVE  CountInv'
  <1>1. StoreInv /\ FilesOK
    BY DEF Inv, StoreInv
  <1>2. \A j, l : Deleting("mark", j, l) # Idle
    <2>1. \A j, l : Deleting("mark", j, l).pc = "mark"
      BY DEF Deleting
    <2>2. Idle.pc = "idle"
      BY DEF Idle
    <2> QED
      BY <2>1, <2>2
  <1>3. CASE \E t \in DOMAIN segs : CloseSegment(t)
    <2>1. PICK t \in DOMAIN segs : CloseSegment(t)
      BY <1>3
    <2>2. /\ DOMAIN files' = DOMAIN files
          /\ files'[t].hdr = segs[t]
          /\ \A s \in DOMAIN files : s # t => files'[s] = files[s]
          /\ \A s \in DOMAIN segs' : s \in DOMAIN segs /\ segs'[s] = segs[s]
          /\ phase' \in {"drain", "closed"}
      BY <1>1, <2>1, CloseSegmentIs
    <2>3. UNCHANGED <<index, call, snap, ckpt, older, vanished>>
      BY <2>1 DEF CloseSegment, clientVars, saverVars
    <2>4. CopiesStep /\ IndexStep /\ CallsStep
      BY <2>3 DEF CopiesStep, IndexStep, CallsStep
    <2>5. \A s \in DOMAIN files' :
             \/ files'[s].hdr \in {files[s].hdr, NewSegment}
             \/ s \in DOMAIN segs /\ files'[s].hdr = segs[s]
      BY <2>2
    <2>6. phase' # "open" /\ vanished \subseteq vanished' /\ DOMAIN files' \subseteq DOMAIN files
      BY <2>2, <2>3
    <2> QED
      BY <2>2, <2>4, <2>5, <2>6, DownCounts
  <1>4. CASE Crash \/ PowerCut
    <2>1. NothingInMemory /\ phase' = "crashed" /\ CopiesStep
      BY <1>4 DEF Crash, PowerCut, CopiesStep, NothingInMemory
    <2>2. IndexStep /\ CallsStep /\ \A s \in DOMAIN segs' : FALSE
      BY <1>2, <2>1 DEF NothingInMemory, IndexStep, CallsStep, Empty
    <2>3. /\ vanished \subseteq vanished' /\ DOMAIN files' \subseteq DOMAIN files
          /\ \A s \in DOMAIN files' : files'[s].hdr \in {files[s].hdr, NewSegment}
      <3>1. CASE Crash
        BY <3>1 DEF Crash
      <3>2. CASE PowerCut
        <4>1. PICK kept \in SUBSET DOMAIN files : \E entries : CutTo(kept, entries)
          BY <3>2, PowerCutIs
        <4>2. PICK entries : CutTo(kept, entries)
          BY <4>1
        <4>3. /\ DOMAIN files' = kept
              /\ \A s \in kept : files'[s].hdr \in {files[s].hdr, NewSegment}
          BY <1>1, <4>2, CutFiles
        <4>4. vanished \subseteq vanished'
          BY <4>2 DEF CutTo
        <4> QED
          BY <4>3, <4>4
      <3> QED
        BY <1>4, <3>1, <3>2
    <2> QED
      BY <2>1, <2>2, <2>3, DownCounts
  <1>5. CASE OpenFails
    <2>1. /\ DOMAIN files' = DOMAIN files
          /\ \A s \in DOMAIN files : files'[s].hdr \in {files[s].hdr, NewSegment}
      BY <1>1, <1>5, OpenFailsIs
    <2>2. UNCHANGED <<index, call, snap, ckpt, older, vanished, segs, phase>> /\ Down
      BY <1>5 DEF OpenFails, clientVars, saverVars
    <2>3. CopiesStep /\ IndexStep /\ CallsStep
      BY <2>2 DEF CopiesStep, IndexStep, CallsStep
    <2>4. phase' # "open" /\ vanished \subseteq vanished' /\ DOMAIN files' \subseteq DOMAIN files
      BY <2>1, <2>2 DEF Down
    <2> QED
      BY <2>1, <2>2, <2>3, <2>4, DownCounts
  <1> QED
    BY <1>3, <1>4, <1>5

LEMMA OpenCounts ==
    ASSUME Inv, CountInv, Open
    PROVE  CountInv'
  <1>1. StoreInv /\ DOMAIN files \subseteq Nat
    BY DEF Inv, StoreInv, FilesOK
  <1>2. PICK a \in Nat \ DOMAIN files, opened \in SUBSET DOMAIN files : OpensAs(a, opened)
    BY <1>1, OpenIs
  <1>3. /\ DOMAIN files' = DOMAIN files \cup {a}
        /\ \A s \in DOMAIN files : files'[s] = files[s]
        /\ files'[a] = NewFile
        /\ DOMAIN segs' = opened \cup {a}
        /\ \A s \in opened : segs'[s] \in {files[s].hdr, NewSegment}
        /\ segs'[a] = NewSegment
        /\ active'.id = a /\ active'.offset = 1
    BY <1>1, <1>2, OpenFiles
  <1>4. /\ UNCHANGED <<vanished, call, ckpt, older>> /\ snap' = None
        /\ index' = Loaded(ckpt)
    BY DEF Open
  <1>5. CopiesStep /\ IndexStep /\ CallsStep
    BY <1>4 DEF CopiesStep, IndexStep, CallsStep
  <1>6. PointsLess
    BY <1>5, PointsStep
  <1>7. NewFile.hdr = NewSegment /\ NewSegment.entry_count = 0
    BY DEF NewFile, NewSegment
  <1>8. Unique' /\ Placed' /\ Tallied'
    <2>1. DOMAIN segs' \subseteq Nat /\ DOMAIN files' \subseteq Nat /\ vanished \subseteq vanished'
      BY <1>1, <1>3, <1>4
    <2>2. \A s \in DOMAIN segs' :
             (s \in DOMAIN files /\ segs'[s] = files[s].hdr) \/ segs'[s] = NewSegment
      BY <1>3
    <2>3. \A s \in DOMAIN files' :
             (s \in DOMAIN files /\ files'[s].hdr = files[s].hdr) \/ files'[s].hdr = NewSegment
      BY <1>3, <1>7
    <2> QED
      BY <1>6, <2>1, <2>2, <2>3, CountsMoved
  <1>9. ActiveCount'
    BY <1>3, <1>7 DEF ActiveCount
  <1> QED
    BY <1>8, <1>9 DEF CountInv

LEMMA CountStep ==
    ASSUME Inv, CountInv, [Next]_vars
    PROVE  CountInv'
  BY PutCounts, MarkCounts, DelCounts, OtherCounts, StopCounts, OpenCounts, Zenon DEF Next

-----------------------------------------------------------------------------
(* What is marked dead is not in the index for long *)

(* The header on disk does not have the entry as dead *)
Alive(s, o) == s \in DOMAIN files /\ s \notin vanished => o \notin files[s].hdr.dead

CkptAlive ==
    ~stale => \A s, o \in Nat, k \in Keys : Has(Loaded(ckpt), k, s, o) => Alive(s, o)

HeldAlive ==
    ~stale /\ phase \in {"open", "save"} =>
        \A s, o \in Nat, k \in Keys :
            Has(index, k, s, o) \/ Has(Loaded(snap), k, s, o) => Alive(s, o)

Erasing(s, o, k) == \E c \in Clients : call[c] = Deleting("erase", k, <<s, o>>)

ErasedSoon ==
    ~stale /\ Up => \A s, o \in Nat, k \in Keys :
        /\ s \in DOMAIN segs /\ s \notin vanished
        /\ Has(index, k, s, o) /\ o \in segs[s].dead
        => Erasing(s, o, k)

NoCalls == phase # "open" => \A c \in Clients : call[c] = Idle

AliveInv == CkptAlive /\ HeldAlive /\ ErasedSoon /\ NoCalls

LEMMA DeadOfNew == NewSegment.dead = {} /\ NewFile.hdr = NewSegment
  BY DEF NewSegment, NewFile

(* Headers are forgotten or kept *)
LEMMA AliveKept ==
    ASSUME vanished \subseteq vanished',
           \A s \in DOMAIN files' :
              \/ s \in DOMAIN files /\ files'[s].hdr = files[s].hdr
              \/ files'[s].hdr = NewSegment
    PROVE  \A s, o : Alive(s, o) => Alive(s, o)'
  BY DeadOfNew DEF Alive

LEMMA NotIdle == \A pc \in {"mark", "erase"} : \A k, l : Deleting(pc, k, l) # Idle
  <1>1. \A pc, k, l : Deleting(pc, k, l).pc = pc
    BY DEF Deleting
  <1>2. Idle.pc = "idle"
    BY DEF Idle
  <1> QED
    BY <1>1, <1>2

LEMMA NothingLoaded == \A s, o, k : k \in Keys => ~Has(Loaded(None), k, s, o)
  BY DEF Has, Loaded, Empty

(* put() and its evictions *)
LEMMA PutAlive ==
    ASSUME Inv, CountInv, AliveInv, NEW k \in Keys, Put(k) \/ Evict(k)
    PROVE  AliveInv'
  <1>1. phase = "open" /\ phase' = phase /\ UNCHANGED <<snap, ckpt, older, call, stale>>
    BY DEF Put, Evict, saverVars
  <1>2. index = [j \in Keys |-> index[j]]
    BY DEF Inv, AllGood, Good
  <1>3. NoCalls'
    BY <1>1 DEF NoCalls
  <1>4. Loaded(ckpt)' = Loaded(ckpt) /\ Loaded(snap)' = Loaded(snap)
    BY <1>1 DEF Loaded
  <1>5. CASE Write(k) /\ index' = [index EXCEPT ![k] = LocOut]
    <2>1. PICK a \in Nat, b \in Nat \ {0} : WritesAt(a, b, k)
      BY <1>1, <1>5, WriteIs DEF Inv
    <2>2. index' = [index EXCEPT ![k] = <<a, b>>]
      BY <1>5, <2>1 DEF WritesAt, LocOut
    <2>3. CountInv' /\ (a \notin vanished => b \notin segs'[a].dead)
      BY <1>1, <2>1, <2>2, WriteCounts
    <2>4. /\ DOMAIN segs' = DOMAIN segs \cup {a}
          /\ \A s \in DOMAIN segs : s # a => segs'[s] = segs[s]
          /\ segs'[a] = OneMore(SegOr0(a))
          /\ DOMAIN files' = DOMAIN files \cup {a}
          /\ \A s \in DOMAIN files : files'[s] = files[s]
          /\ active'.id = a
          /\ vanished' = vanished
      BY <2>1 DEF WritesAt
    <2>5. files'[a].hdr = NewSegment
      BY <1>1, <2>3, <2>4 DEF CountInv, ActiveCount
    <2>6. \A s, o : Alive(s, o) => Alive(s, o)'
      BY <2>4, <2>5, AliveKept
    <2>7. Alive(a, b)'
      BY <2>5, DeadOfNew DEF Alive
    <2>8. \A j \in Keys : index'[j] = IF j = k THEN <<a, b>> ELSE index[j]
      BY <1>2, <2>2
    <2>9. \A s, o \in Nat, j \in Keys :
              Has(index, j, s, o)' => Has(index, j, s, o) \/ (s = a /\ o = b)
      <3> SUFFICES ASSUME NEW s \in Nat, NEW o \in Nat, NEW j \in Keys, Has(index, j, s, o)',
                          ~Has(index, j, s, o)
                   PROVE  s = a /\ o = b
        OBVIOUS
      <3> QED
        BY <2>8 DEF Has
    <2>10. CkptAlive'
      BY <1>1, <1>4, <2>6 DEF AliveInv, CkptAlive, Has
    <2>11. HeldAlive'
      BY <1>1, <1>4, <2>6, <2>7, <2>9 DEF AliveInv, HeldAlive, Has
    <2>12. a \in DOMAIN segs => segs'[a].dead = segs[a].dead
      BY <2>4 DEF SegOr0, OneMore
    <2>13. a \notin DOMAIN segs => segs'[a].dead = {}
      BY <2>4, DeadOfNew DEF SegOr0, OneMore
    <2>14. ErasedSoon'
      <3> SUFFICES ASSUME NEW s \in Nat, NEW o \in Nat, NEW j \in Keys, ~stale,
                          s \in DOMAIN segs', s \notin vanished,
                          Has(index, j, s, o)', o \in segs'[s].dead
                   PROVE  Erasing(s, o, j)
        BY <1>1, <2>4 DEF ErasedSoon, Erasing
      <3>1. ~(s = a /\ o = b)
        BY <2>3
      <3>2. Has(index, j, s, o)
        BY <2>9, <3>1
      <3>3. s \in DOMAIN segs /\ o \in segs[s].dead
        BY <2>4, <2>12, <2>13
      <3> QED
        BY <1>1, <3>2, <3>3 DEF AliveInv, ErasedSoon, Up
    <2> QED
      BY <1>3, <2>10, <2>11, <2>14 DEF AliveInv
  <1>6. CASE (index' = index \/ index' = [index EXCEPT ![k] = None]) /\ UNCHANGED storeVars
    <2>1. UNCHANGED <<files, segs, vanished>>
      BY <1>6 DEF storeVars
    <2>2. \A s, o : Alive(s, o)' <=> Alive(s, o)
      BY <2>1 DEF Alive
    <2>3. \A s, o, j : j \in Keys /\ Has(index, j, s, o)' => Has(index, j, s, o)
      BY <1>2, <1>6 DEF Has
    <2>4. CkptAlive'
      BY <1>1, <1>4, <2>2 DEF AliveInv, CkptAlive, Has
    <2>5. HeldAlive'
      BY <1>1, <1>4, <2>2, <2>3 DEF AliveInv, HeldAlive, Has
    <2>6. ErasedSoon'
      BY <1>1, <2>1, <2>3 DEF AliveInv, ErasedSoon, Erasing, Up
    <2> QED
      BY <1>3, <2>4, <2>5, <2>6 DEF AliveInv
  <1> QED
    BY <1>5, <1>6 DEF Put, Evict

(* del(): before it, a call of a client; after it, another *)
LEMMA DelAlive ==
    ASSUME Inv, CountInv, AliveInv, NEW c \in Clients,
           (\E k \in Keys : DelFind(c, k)) \/ DelMark(c) \/ DelErase(c)
    PROVE  AliveInv'
  <1>1. /\ phase = "open" /\ phase' = phase
        /\ UNCHANGED <<snap, ckpt, older, stale, files, vanished>>
    BY DEF DelFind, DelMark, DelErase, At, saverVars, storeVars
  <1>2. /\ index = [j \in Keys |-> index[j]] /\ call = [d \in Clients |-> call[d]]
        /\ CallsGood /\ StoreInv
    BY DEF Inv, AllGood, Good, CallsGood
  <1>3. Loaded(ckpt)' = Loaded(ckpt) /\ Loaded(snap)' = Loaded(snap)
    BY <1>1 DEF Loaded
  <1>4. \A s, o : Alive(s, o)' <=> Alive(s, o)
    BY <1>1 DEF Alive
  <1>5. \A s, o, j : j \in Keys /\ Has(index, j, s, o)' => Has(index, j, s, o)
    BY <1>2 DEF Has, DelFind, DelMark, DelErase
  <1>6. CkptAlive' /\ HeldAlive' /\ NoCalls'
    <2>1. CkptAlive'
      BY <1>1, <1>3, <1>4 DEF AliveInv, CkptAlive, Has
    <2>2. HeldAlive'
      BY <1>1, <1>3, <1>4, <1>5 DEF AliveInv, HeldAlive, Has
    <2> QED
      BY <1>1, <2>1, <2>2 DEF NoCalls
  <1>7. \A d \in Clients : d # c => call'[d] = call[d]
    BY <1>2 DEF DelFind, DelMark, DelErase
  <1>8. CASE \E k \in Keys : DelFind(c, k)
    <2>1. call[c].pc = "idle" /\ segs' = segs
      BY <1>8 DEF DelFind, At, storeVars
    <2>2. \A s, o, j : call[c] # Deleting("erase", j, <<s, o>>)
      BY <2>1 DEF Deleting
    <2>3. \A s, o, j : Erasing(s, o, j) => Erasing(s, o, j)'
      BY <1>7, <2>2 DEF Erasing
    <2>4. ErasedSoon'
      BY <1>1, <1>5, <2>1, <2>3 DEF AliveInv, ErasedSoon, Up
    <2> QED
      BY <1>6, <2>4 DEF AliveInv
  <1>9. CASE DelErase(c)
    <2>1. segs' = segs /\ index' = [index EXCEPT ![call[c].key] = None]
      BY <1>9 DEF DelErase, storeVars
    <2>2. \A s, o, j : j \in Keys /\ Has(index, j, s, o)' => j # call[c].key
      BY <1>2, <2>1 DEF Has
    <2>3. \A j, l : Deleting("erase", j, l).key = j
      BY DEF Deleting
    <2>4. \A s, o, j : j # call[c].key /\ Erasing(s, o, j) => Erasing(s, o, j)'
      BY <1>7, <2>3 DEF Erasing
    <2>5. ErasedSoon'
      BY <1>1, <1>5, <2>1, <2>2, <2>4 DEF AliveInv, ErasedSoon, Up
    <2> QED
      BY <1>6, <2>5 DEF AliveInv
  <1>10. CASE DelMark(c)
    <2>1. PICK k \in Keys, s \in Nat, o \in Nat :
              /\ call[c] = Deleting("mark", k, <<s, o>>)
              /\ call' = [call EXCEPT ![c] = Deleting("erase", k, <<s, o>>)]
              /\ MarkDead(<<s, o>>)
      BY <1>2, <1>10, MarkingIs
    <2>2. /\ DOMAIN segs' = DOMAIN segs
          /\ \A t \in DOMAIN segs : t # s => segs'[t] = segs[t]
          /\ s \in DOMAIN segs /\ segs[s].live_count > 0 => segs'[s] = OneLess(segs[s], o)
          /\ s \in DOMAIN segs /\ ~(segs[s].live_count > 0) => segs'[s] = segs[s]
      BY <1>2, <2>1, MarkDeadIs DEF StoreInv
    <2>3. \A t \in DOMAIN segs : \A u : u \in segs'[t].dead => u \in segs[t].dead \/ (t = s /\ u = o)
      <3>1. OneLess(segs[s], o).dead = segs[s].dead \cup {o}
        BY DEF OneLess
      <3> QED
        BY <2>2, <3>1
    <2>4. call[c].pc = "mark"
      BY <2>1 DEF Deleting
    <2>5. \A t, u, j : call[c] # Deleting("erase", j, <<t, u>>)
      BY <2>4 DEF Deleting
    <2>6. \A t, u, j : Erasing(t, u, j) => Erasing(t, u, j)'
      BY <1>7, <2>5 DEF Erasing
    <2>7. Erasing(s, o, k)'
      BY <1>2, <2>1 DEF Erasing
    <2>8. Points(s, o, k)
      BY <2>1 DEF Points
    <2>9. ErasedSoon'
      <3> SUFFICES ASSUME NEW t \in Nat, NEW u \in Nat, NEW j \in Keys, ~stale,
                          t \in DOMAIN segs, t \notin vanished,
                          Has(index, j, t, u), u \in segs'[t].dead
                   PROVE  Erasing(t, u, j)'
        BY <1>1, <1>5, <2>2 DEF ErasedSoon
      <3>1. CASE u \in segs[t].dead
        BY <1>1, <2>6, <3>1 DEF AliveInv, ErasedSoon, Up
      <3>2. CASE t = s /\ u = o
        <4>1. Points(s, o, j)
          BY <3>2 DEF Points
        <4>2. j = k
          BY <2>8, <3>2, <4>1 DEF CountInv, Unique
        <4> QED
          BY <2>7, <3>2, <4>2
      <3> QED
        BY <2>3, <3>1, <3>2
    <2> QED
      BY <1>6, <2>9 DEF AliveInv
  <1> QED
    BY <1>8, <1>9, <1>10

(* The saver, the flush thread and the beginning of close() *)
LEMMA OtherAlive ==
    ASSUME Inv, AliveInv,
           \/ \E k \in Keys : Get(k)
           \/ Flush \/ Snapshot \/ Publish \/ Close \/ LastSave \/ CheckpointStopped
           \/ UNCHANGED vars
    PROVE  AliveInv'
  <1>1. /\ UNCHANGED <<vanished, segs, index, call>>
        /\ phase' = "open" => phase = "open"
        /\ phase' \in {"open", "save"} => phase \in {"open", "save"}
        /\ Up' => Up
        /\ ~stale' => ~stale
    <2>1. ~stale' => ~stale
      <3>1. CASE CheckpointStopped
        BY <3>1, Zenon DEF CheckpointStopped
      <3>2. CASE ~CheckpointStopped
        BY <3>2 DEF Get, Flush, Snapshot, Publish, Close, LastSave, vars
      <3> QED
        BY <3>1, <3>2
    <2>2. UNCHANGED <<vanished, segs, index, call>>
      BY DEF Get, Flush, Snapshot, Publish, Close, LastSave, CheckpointStopped, vars, storeVars,
             clientVars
    <2>3. \/ phase' = phase
          \/ phase = "open" /\ phase' = "save"
          \/ phase = "save" /\ phase' = "drain"
      BY DEF Get, Flush, Snapshot, Publish, Close, LastSave, CheckpointStopped, CloseOrder, vars
    <2> QED
      BY <2>1, <2>2, <2>3 DEF Up
  <1>2. \A s, o : Alive(s, o) => Alive(s, o)'
    <2>1. DOMAIN files' = DOMAIN files /\ \A s \in DOMAIN files : files'[s].hdr = files[s].hdr
      <3>1. CASE Flush
        BY <3>1, FlushKeeps DEF Inv
      <3>2. CASE ~Flush
        <4>1. files' = files
          BY <3>2 DEF Get, Snapshot, Publish, Close, LastSave, CheckpointStopped, vars, storeVars
        <4> QED
          BY <4>1
      <3> QED
        BY <3>1, <3>2
    <2> QED
      BY <1>1, <2>1, AliveKept
  <1>3. ckpt' = ckpt \/ (ckpt' = snap /\ phase \in {"open", "save"})
    BY DEF Get, Flush, Snapshot, Publish, Close, LastSave, CheckpointStopped, vars, saverVars
  <1>4. snap' \in {snap, index, None}
    BY DEF Get, Flush, Snapshot, Publish, Close, LastSave, CheckpointStopped, vars, saverVars
  <1>5. \A s, o, k : Has(Loaded(ckpt), k, s, o)' =>
            \/ Has(Loaded(ckpt), k, s, o)
            \/ phase \in {"open", "save"} /\ Has(Loaded(snap), k, s, o)
    BY <1>3 DEF Has, Loaded
  <1>6. \A s, o, k : k \in Keys /\ Has(Loaded(snap), k, s, o)' =>
            Has(Loaded(snap), k, s, o) \/ Has(index, k, s, o)
    BY <1>4 DEF Has, Loaded, Empty
  <1>7. \A s, o, k : Has(index, k, s, o)' <=> Has(index, k, s, o)
    BY <1>1 DEF Has
  <1>8. CkptAlive'
    BY <1>1, <1>2, <1>5 DEF AliveInv, CkptAlive, HeldAlive
  <1>9. HeldAlive'
    BY <1>1, <1>2, <1>6, <1>7 DEF AliveInv, HeldAlive
  <1>10. ErasedSoon'
    BY <1>1, <1>7 DEF AliveInv, ErasedSoon, Erasing
  <1>11. NoCalls'
    BY <1>1 DEF AliveInv, NoCalls, Close, NoCallUnderWay, Get, Flush, Snapshot, Publish, LastSave,
                CheckpointStopped, vars
  <1> QED
    BY <1>8, <1>9, <1>10, <1>11 DEF AliveInv

(* The headers that close() writes have nothing as dead that the checkpoint  *)
(* has, since the saver is done and no del() is under way.                   *)
LEMMA CloseAlive ==
    ASSUME Inv, SavedInv, AliveInv, NEW t \in DOMAIN segs, CloseSegment(t)
    PROVE  AliveInv'
  <1>1. /\ DOMAIN files' = DOMAIN files
        /\ files'[t].hdr = segs[t]
        /\ \A s \in DOMAIN files : s # t => files'[s] = files[s]
        /\ \A s \in DOMAIN segs' : s \in DOMAIN segs /\ segs'[s] = segs[s]
        /\ phase = "drain" /\ phase' \in {"drain", "closed"}
    BY CloseSegmentIs DEF Inv
  <1>2. UNCHANGED <<index, call, snap, ckpt, dirty, raced, stale, vanished>>
    BY DEF CloseSegment, clientVars, saverVars
  <1>3. \A c \in Clients : call[c] = Idle
    BY <1>1 DEF AliveInv, NoCalls
  <1>4. \A s, o, k : ~Erasing(s, o, k)
    BY <1>3, NotIdle DEF Erasing
  <1>5. ~stale => Loaded(ckpt) = index
    BY <1>1 DEF SavedInv
  <1>6. Loaded(ckpt)' = Loaded(ckpt)
    BY <1>2 DEF Loaded
  <1>7. CkptAlive'
    <2> SUFFICES ASSUME ~stale, NEW s \in Nat, NEW o \in Nat, NEW k \in Keys,
                        Has(Loaded(ckpt), k, s, o), s \in DOMAIN files, s \notin vanished,
                        o \in files'[s].hdr.dead
                 PROVE  FALSE
      BY <1>1, <1>2, <1>6 DEF CkptAlive, Alive, Has
    <2>1. CASE s # t
      BY <1>1, <2>1 DEF AliveInv, CkptAlive, Alive
    <2>2. CASE s = t
      <3>1. Has(index, k, s, o) /\ o \in segs[s].dead
        BY <1>1, <1>5, <2>2
      <3> QED
        BY <1>1, <1>4, <2>2, <3>1 DEF AliveInv, ErasedSoon, Up
    <2> QED
      BY <2>1, <2>2
  <1>8. HeldAlive'
    BY <1>1 DEF HeldAlive
  <1>9. ErasedSoon'
    BY <1>1, <1>2 DEF AliveInv, ErasedSoon, Erasing, Up, Has
  <1>10. NoCalls'
    BY <1>2, <1>3 DEF NoCalls
  <1> QED
    BY <1>7, <1>8, <1>9, <1>10 DEF AliveInv

(* Crashes, and what open() finds after them *)
LEMMA CrashAlive ==
    ASSUME Inv, AliveInv, Crash \/ PowerCut \/ OpenFails
    PROVE  AliveInv'
  <1>1. FilesOK /\ StoreInv
    BY DEF Inv, StoreInv
  <1>2. /\ vanished \subseteq vanished' /\ DOMAIN files' \subseteq DOMAIN files
        /\ \A s \in DOMAIN files' : files'[s].hdr \in {files[s].hdr, NewSegment}
    <2>1. CASE Crash
      BY <2>1 DEF Crash
    <2>2. CASE PowerCut
      <3>1. PICK kept \in SUBSET DOMAIN files : \E entries : CutTo(kept, entries)
        BY <2>2, PowerCutIs
      <3>2. PICK entries : CutTo(kept, entries)
        BY <3>1
      <3>3. DOMAIN files' = kept /\ \A s \in kept : files'[s].hdr \in {files[s].hdr, NewSegment}
        BY <1>1, <3>2, CutFiles
      <3>4. vanished \subseteq vanished'
        BY <3>2 DEF CutTo
      <3> QED
        BY <3>3, <3>4
    <2>3. CASE OpenFails
      <3>1. vanished' = vanished
        BY <2>3 DEF OpenFails
      <3> QED
        BY <1>1, <2>3, <3>1, OpenFailsIs
    <2> QED
      BY <2>1, <2>2, <2>3
  <1>3. \A s, o : Alive(s, o) => Alive(s, o)'
    BY <1>2, AliveKept
  <1>4. phase' \in {"closed", "crashed"}
    BY DEF Crash, PowerCut, OpenFails, Down
  <1>5. (ckpt' = ckpt /\ stale' = stale) \/ stale' = TRUE
    BY DEF Crash, PowerCut, OpenFails, saverVars
  <1>6. CkptAlive'
    BY <1>3, <1>5 DEF AliveInv, CkptAlive, Has, Loaded
  <1>7. HeldAlive' /\ ErasedSoon'
    BY <1>4 DEF HeldAlive, ErasedSoon, Up
  <1>8. \A c \in Clients : call'[c] = Idle
    BY DEF AliveInv, NoCalls, Crash, PowerCut, OpenFails, NothingInMemory, Down, clientVars
  <1>9. NoCalls'
    BY <1>8 DEF NoCalls
  <1> QED
    BY <1>6, <1>7, <1>9 DEF AliveInv

LEMMA OpenAlive ==
    ASSUME Inv, AliveInv, Open
    PROVE  AliveInv'
  <1>1. StoreInv
    BY DEF Inv
  <1>2. PICK a \in Nat \ DOMAIN files, opened \in SUBSET DOMAIN files : OpensAs(a, opened)
    BY <1>1, OpenIs
  <1>3. /\ DOMAIN files' = DOMAIN files \cup {a}
        /\ \A s \in DOMAIN files : files'[s] = files[s]
        /\ files'[a] = NewFile
        /\ DOMAIN segs' = opened \cup {a}
        /\ \A s \in opened : segs'[s] \in {files[s].hdr, NewSegment}
        /\ segs'[a] = NewSegment
    BY <1>1, <1>2, OpenFiles
  <1>4. /\ UNCHANGED <<vanished, ckpt, stale>> /\ snap' = None
        /\ index' = Loaded(ckpt) /\ phase' = "open"
    BY DEF Open
  <1>5. \A s \in DOMAIN files' :
            (s \in DOMAIN files /\ files'[s].hdr = files[s].hdr) \/ files'[s].hdr = NewSegment
    BY <1>3, DeadOfNew
  <1>6. \A s, o : Alive(s, o) => Alive(s, o)'
    BY <1>4, <1>5, AliveKept
  <1>7. CkptAlive'
    BY <1>4, <1>6 DEF AliveInv, CkptAlive, Has, Loaded
  <1>8. HeldAlive'
    BY <1>4, <1>6, NothingLoaded DEF AliveInv, CkptAlive, HeldAlive, Has, Loaded
  <1>9. ErasedSoon'
    <2> SUFFICES ASSUME ~stale, NEW s \in Nat, NEW o \in Nat, NEW k \in Keys,
                        s \in DOMAIN segs', s \notin vanished,
                        Has(Loaded(ckpt), k, s, o), o \in segs'[s].dead
                 PROVE  FALSE
      BY <1>4 DEF ErasedSoon, Has
    <2>1. s \in DOMAIN files /\ segs'[s] = files[s].hdr
      BY <1>3, DeadOfNew
    <2> QED
      BY <2>1 DEF AliveInv, CkptAlive, Alive
  <1>10. NoCalls'
    BY <1>4 DEF NoCalls
  <1> QED
    BY <1>7, <1>8, <1>9, <1>10 DEF AliveInv

LEMMA AliveStep ==
    ASSUME Inv, CountInv, SavedInv, AliveInv, [Next]_vars
    PROVE  AliveInv'
  BY PutAlive, DelAlive, OtherAlive, CloseAlive, CrashAlive, OpenAlive, Zenon DEF Next

LEMMA InitCounts == Init => CountInv /\ AliveInv
  <1> SUFFICES ASSUME Init PROVE CountInv /\ AliveInv
    OBVIOUS
  <1>1. /\ index = Empty /\ snap = None /\ ckpt = None /\ older = None
        /\ call = [c \in Clients |-> Idle]
        /\ DOMAIN files = {0} /\ files[0] = NewFile /\ DOMAIN segs = {0} /\ segs[0] = NewSegment
        /\ active.id = 0 /\ active.offset = 1 /\ phase = "open"
    BY DEF Init
  <1>2. \A s, o, k : k \in Keys => ~Has(Empty, k, s, o)
    BY DEF Has, Empty
  <1>3. Loaded(snap) = Empty /\ Loaded(ckpt) = Empty /\ Loaded(older) = Empty
    BY <1>1 DEF Loaded
  <1>4. \A s, o, k : k \in Keys => ~Points(s, o, k)
    BY <1>1, <1>2, <1>3, NotIdle DEF Points
  <1>5. Unique /\ Placed
    BY <1>4 DEF Unique, Placed
  <1>6. Tallied
    <2>1. files[0].hdr = NewSegment
      BY <1>1, DeadOfNew
    <2>2. \A s \in {0} : Tally(segs[s]) /\ Tally(files[s].hdr)
      BY <1>1, <2>1, NewTally
    <2> QED
      BY <1>1, <2>2 DEF Tallied
  <1>7. ActiveCount
    <2>1. NewSegment.entry_count = 0
      BY DEF NewSegment
    <2>2. segs[active.id].entry_count + 1 = active.offset
      BY <1>1, <2>1
    <2>3. files[active.id].hdr = NewSegment
      BY <1>1, DeadOfNew
    <2> QED
      BY <2>2, <2>3 DEF ActiveCount
  <1>8. CkptAlive /\ HeldAlive /\ ErasedSoon /\ NoCalls
    BY <1>1, <1>2, <1>3 DEF CkptAlive, HeldAlive, ErasedSoon, NoCalls
  <1> QED
    BY <1>5, <1>6, <1>7, <1>8 DEF CountInv, AliveInv

(* As many entries as the index has in a segment, and no del() is about to   *)
(* erase, are counted as alive: their offsets are among those not marked.    *)
LEMMA LiveEntries ==
    ASSUME Inv, CountInv, AliveInv, phase = "open", ~stale,
           NEW s \in DOMAIN segs, s \notin vanished, segs[s].entry_count # 0, ~segs[s].twice
    PROVE  /\ Cardinality(IndexedIn(s) \ BeingErased) \in Nat
           /\ Cardinality(IndexedIn(s) \ BeingErased) <= segs[s].live_count
  <1> DEFINE S == IndexedIn(s) \ BeingErased
             T == (1 .. segs[s].entry_count) \ segs[s].dead
             f == [k \in S |-> index[k][2]]
  <1>1. s \in Nat /\ segs[s] \in Counts
    BY DEF Inv, StoreInv, FilesOK, SegsOK
  <1>2. PICK n, m, d : n = segs[s].entry_count /\ m = segs[s].live_count
                       /\ d = Cardinality(segs[s].dead)
    OBVIOUS
  <1>3. n \in Nat /\ m \in Nat
    BY <1>1, <1>2 DEF Counts
  <1>4. segs[s].dead \subseteq 1 .. n /\ m + d = n
    BY <1>1, <1>2 DEF CountInv, Tallied, Tally
  <1>5. ASSUME NEW k \in S
        PROVE  \E o \in T : index[k] = <<s, o>> /\ index[k][2] = o /\ Points(s, o, k) /\ o \in Nat
    <2>1. k \in Keys /\ index[k] # None /\ index[k][1] = s /\ k \notin BeingErased
      BY DEF IndexedIn
    <2>2. PICK t, o \in Nat : index[k] = <<t, o>>
      BY <2>1 DEF Inv, AllGood, Good
    <2>3. t = s /\ index[k] = <<s, o>> /\ index[k][2] = o
      BY <2>1, <2>2
    <2>4. Has(index, k, s, o) /\ Points(s, o, k)
      BY <2>1, <2>3 DEF Has, Points
    <2>5. o >= 1 /\ Within(o, segs[s])
      BY <1>1, <2>1, <2>2, <2>4 DEF CountInv, Placed
    <2>6. o \in 1 .. n
      BY <1>2, <1>3, <2>2, <2>5 DEF Within
    <2>7. ~Erasing(s, o, k)
      <3> SUFFICES ASSUME NEW c \in Clients, call[c] = Deleting("erase", k, <<s, o>>) PROVE FALSE
        BY DEF Erasing
      <3>1. call[c].pc = "erase" /\ call[c].key = k /\ call[c].at = index[k]
        BY <2>3 DEF Deleting
      <3> QED
        BY <2>1, <3>1 DEF BeingErased
    <2>8. o \notin segs[s].dead
      BY <1>1, <2>1, <2>2, <2>4, <2>7 DEF AliveInv, ErasedSoon, Up
    <2> QED
      BY <1>2, <2>3, <2>4, <2>6, <2>8
  <1>6. f \in [S -> T]
    BY <1>5
  <1>7. ASSUME NEW j \in S, NEW k \in S, f[j] = f[k] PROVE j = k
    <2>1. PICK o \in T : index[j] = <<s, o>> /\ index[j][2] = o /\ Points(s, o, j) /\ o \in Nat
      BY <1>5
    <2>2. PICK u \in T : index[k] = <<s, u>> /\ index[k][2] = u /\ Points(s, u, k)
      BY <1>5
    <2>3. o = u /\ j \in Keys /\ k \in Keys
      BY <1>7, <2>1, <2>2 DEF IndexedIn
    <2> QED
      BY <1>1, <2>1, <2>2, <2>3 DEF CountInv, Unique
  <1> HIDE DEF f, S
  <1>8. f \in Injection(S, T)
    BY <1>6, <1>7 DEF Injection, IsInjective
  <1>9. IsFiniteSet(T) /\ Cardinality(T) = m
    <2>1. IsFiniteSet(1 .. n) /\ Cardinality(1 .. n) = n
      <3>1. 1 \in Int /\ n \in Int /\ (1 > n => n = 0) /\ n - 1 + 1 = n
        BY <1>3
      <3> QED
        BY <3>1, FS_Interval
    <2>2. (1 .. n) \cap segs[s].dead = segs[s].dead
      BY <1>4
    <2>3. IsFiniteSet((1 .. n) \ segs[s].dead)
          /\ Cardinality((1 .. n) \ segs[s].dead) = n - Cardinality((1 .. n) \cap segs[s].dead)
      BY <2>1, FS_Difference
    <2>4. d \in Nat
      BY <1>2, <1>3, <1>4, Few
    <2>5. n - d = m
      BY <1>3, <1>4, <2>4
    <2> QED
      BY <1>2, <2>2, <2>3, <2>5
  <1> HIDE DEF T
  <1>10. IsFiniteSet(S) /\ Cardinality(S) <= Cardinality(T)
    BY <1>8, <1>9, FS_Injection
  <1>11. Cardinality(S) \in Nat /\ Cardinality(S) <= m
    BY <1>9, <1>10, FS_CardinalityType
  <1> QED
    BY <1>2, <1>11 DEF S

(* GC picks a segment only when the entries of the index in it, less those   *)
(* about to be erased, are below the trigger: for any number of calls of     *)
(* del() at once, of crashes and of restarts, as long as no entry of the     *)
(* segment was marked twice and no checkpoint missed a change.               *)
THEOREM GcCounts == Spec => []GcPicksOnlyFragmented
  <1>1. Init => Inv /\ SavedInv /\ CountInv /\ AliveInv
    BY InitInv, InitSaved, InitCounts
  <1>2. Inv /\ SavedInv /\ CountInv /\ AliveInv /\ [Next]_vars
            => Inv' /\ SavedInv' /\ CountInv' /\ AliveInv'
    BY Step, SavedStep, CountStep, AliveStep
  <1>3. Inv /\ CountInv /\ AliveInv => GcPicksOnlyFragmented
    <2> SUFFICES ASSUME Inv, CountInv, AliveInv, phase = "open", ~stale,
                        NEW s \in DOMAIN segs, s \notin vanished, GcCandidate(s), ~segs[s].twice
                 PROVE  Cardinality(IndexedIn(s) \ BeingErased) * 100 < Trigger * segs[s].entry_count
      BY DEF GcPicksOnlyFragmented
    <2>1. segs[s].entry_count # 0
          /\ segs[s].live_count * 100 < Trigger * segs[s].entry_count
      BY DEF GcCandidate
    <2>2. /\ Cardinality(IndexedIn(s) \ BeingErased) \in Nat
          /\ Cardinality(IndexedIn(s) \ BeingErased) <= segs[s].live_count
      BY <2>1, LiveEntries
    <2>3. segs[s].live_count \in Nat /\ segs[s].entry_count \in Nat /\ Trigger \in Nat
      BY RecoveryAssumption DEF Inv, StoreInv, SegsOK, Counts
    <2>4. PICK x, y, z : /\ x = Cardinality(IndexedIn(s) \ BeingErased)
                         /\ y = segs[s].live_count /\ z = Trigger * segs[s].entry_count
      OBVIOUS
    <2>5. x \in Nat /\ y \in Nat /\ z \in Nat /\ x <= y /\ y * 100 < z
      BY <2>1, <2>2, <2>3, <2>4
    <2>6. x * 100 < z
      BY <2>5
    <2> QED
      BY <2>4, <2>6
  <1> QED
    BY <1>1, <1>2, <1>3, PTL DEF Spec
=============================================================================
