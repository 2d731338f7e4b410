--------------------------- MODULE BlobStoreProofs ---------------------------
(***************************************************************************)
(* Theorems about BlobStore, for every pool size, block capacity, segment  *)
(* size, set of writers, readers and lengths.                              *)
(***************************************************************************)
EXTENDS BlobStore, SequenceTheorems, WellFoundedInduction, TLAPS

(***************************************************************************)
(* The type invariant is not inductive by itself: pointers must lead to    *)
(* segments that exist, the flush thread must hold a block while it writes *)
(* one, and a reader must be reading a location that was returned.         *)
(***************************************************************************)
PointersOK ==
    /\ \A b \in Blocks : blocks[b].segment_id \in DOMAIN segs
    /\ \A l \in locs : l.segment_id \in DOMAIN segs
    /\ \A w \in Writers : writer[w].pc = "direct_io" =>
          writer[w].loc.segment_id \in DOMAIN segs
    /\ flusher.pc \in {"writing", "written", "drain_writing"} => flusher.block # Null
    /\ \A r \in Readers : reader[r].pc # "idle" =>
          reader[r].loc \in locs /\ reader[r].errs <= reader[r].attempt

TypeInv == TypeOK /\ PointersOK

-----------------------------------------------------------------------------
(* An entry takes at least one unit, and its cells are that many. *)
LEMMA EntryUnitsType ==
    ASSUME NEW len \in Nat
    PROVE  EntryUnits(len) \in Nat \ {0}
  BY DEF EntryUnits, kEntryHeaderSize, kAlignment

LEMMA EntryCellsType ==
    ASSUME NEW len \in Nat, NEW seq \in Nat
    PROVE  /\ EntryCells(seq, len) \in Seq(Cell)
           /\ Len(EntryCells(seq, len)) = EntryUnits(len)
  <1>1. EntryUnits(len) \in Nat
    BY EntryUnitsType
  <1>2. \A i \in 1 .. EntryUnits(len) : <<seq, i, len>> \in Cell
    BY <1>1 DEF Cell
  <1>3. EntryCells(seq, len) \in [1 .. EntryUnits(len) -> Cell]
    BY <1>2 DEF EntryCells
  <1> QED
    BY <1>1, <1>3

LEMMA ConcatLen ==
    ASSUME NEW s \in Seq(Cell), NEW t \in Seq(Cell)
    PROVE  Len(s \o t) = Len(s) + Len(t)
  BY ConcatProperties

(* What pwrite makes of a file of cells is a file of cells. *)
LEMMA PWriteType ==
    ASSUME NEW file \in Seq(Cell), NEW cells \in Seq(Cell), NEW off \in Nat
    PROVE  PWrite(file, off, cells) \in Seq(Cell)
  <1> DEFINE end == off + Len(cells)
  <1> DEFINE size == IF Len(file) < end THEN end ELSE Len(file)
  <1>1. size \in Nat
    OBVIOUS
  <1>2. Hole \in Cell
    BY DEF Hole, Cell
  <1>3. PWrite(file, off, cells) \in [1 .. size -> Cell]
    BY <1>1, <1>2 DEF PWrite
  <1> QED
    BY <1>1, <1>3

(* What pread returns of a file of cells is a sequence of cells. *)
LEMMA PReadType ==
    ASSUME NEW file \in Seq(Cell), NEW off \in Int, off >= 0, NEW n \in Int
    PROVE  PRead(file, off, n) \in Seq(Cell)
  <1> DEFINE last == IF off + n < Len(file) THEN off + n ELSE Len(file)
  <1>1. last \in Int /\ last <= Len(file)
    OBVIOUS
  <1>2. \A i \in off + 1 .. last : file[i] \in Cell
    BY <1>1
  <1> QED
    BY <1>1, <1>2, SubSeqProperties DEF PRead
-----------------------------------------------------------------------------
(* Type correctness *)

LEMMA NewSegmentType == NewSegment \in Segment
  BY DEF NewSegment, Segment

LEMMA CountedType ==
    ASSUME NEW seg \in Segment, NEW units \in Nat
    PROVE  Counted(seg, units) \in Segment
  BY DEF Counted, Segment

LEMMA BoundType ==
    ASSUME NEW s \in Nat, NEW off \in Nat
    PROVE  /\ Bound(s, off) \in WriteBlock
           /\ Bound(s, off).segment_id = s
  <1>1. <<>> \in Seq(Cell)
    OBVIOUS
  <1> QED
    BY <1>1 DEF Bound, WriteBlock

LEMMA LocationType ==
    ASSUME NEW seq \in Nat, NEW s \in Nat, NEW off \in Nat, NEW len \in Nat
    PROVE  /\ Location(seq, s, off, len) \in BlobLocation
           /\ Location(seq, s, off, len).segment_id = s
  BY EntryUnitsType DEF Location, BlobLocation

LEMMA ReadingType ==
    ASSUME NEW pc \in {"idle", "pending", "fd", "disk"}, NEW attempt \in {0, 1},
           NEW errs \in 0 .. 2, NEW l \in BlobLocation, NEW n \in Nat
    PROVE  Reading(pc, attempt, errs, l, n) \in ReaderState
  <1>1. <<>> \in Seq(Cell)
    OBVIOUS
  <1> QED
    BY <1>1 DEF Reading, ReaderState

LEMMA IdleTypes ==
    NoLocation \in BlobLocation /\ IdleWriter \in WriterState /\ IdleReader \in ReaderState
  <1>1. NoLocation \in BlobLocation
    BY LocationType DEF NoLocation
  <1>2. IdleWriter \in WriterState
    BY <1>1 DEF IdleWriter, WriterState
  <1>3. IdleReader \in ReaderState
    BY <1>1, ReadingType DEF IdleReader
  <1> QED
    BY <1>1, <1>2, <1>3

LEMMA TypeInit == Init => TypeInv
  <1> SUFFICES ASSUME Init PROVE TypeInv
    OBVIOUS
  <1> USE ConfigAssumption
  <1>1. segs \in [{0} -> Segment] /\ DOMAIN segs = {0}
    BY NewSegmentType DEF Init
  <1>2. disk \in [{0} -> Seq(Cell)]
    <2>1. SegHeader \in Cell
      BY DEF SegHeader, Cell
    <2>2. <<SegHeader>> \in Seq(Cell)
      BY <2>1
    <2> QED
      BY <2>2 DEF Init
  <1>3. /\ blocks \in [Blocks -> WriteBlock]
        /\ \A b \in Blocks : blocks[b].segment_id \in DOMAIN segs
    BY <1>1, BoundType DEF Init
  <1>4. PoolSize \in Blocks
    BY DEF Blocks
  <1>5. free_pool \in Seq(Blocks) /\ flush_queue \in Seq(Blocks)
    <2>1. free_pool \in [1 .. PoolSize - 1 -> Blocks] /\ PoolSize - 1 \in Nat
      BY DEF Init, Blocks
    <2> QED
      BY <2>1 DEF Init
  <1>6. writer \in [Writers -> WriterState] /\ reader \in [Readers -> ReaderState]
    BY IdleTypes DEF Init
  <1>7. TypeOK
    BY <1>1, <1>2, <1>3, <1>4, <1>5, <1>6 DEF Init, TypeOK, FlusherState
  <1>8. PointersOK
    BY <1>3, IdleTypes DEF Init, PointersOK, IdleWriter, IdleReader, Reading
  <1> QED
    BY <1>7, <1>8 DEF TypeInv

(* What one append into a block leaves behind. *)
LEMMA AppendEntryType ==
    ASSUME TypeInv,
           NEW w \in Writers, NEW len \in Nat, NEW b \in Blocks,
           NEW blk \in WriteBlock, NEW S \in SUBSET Nat, NEW sg \in [S -> Segment],
           NEW a \in S, DOMAIN segs \subseteq S, blk.segment_id \in S,
           AppendEntry(w, len, b, blk, a, sg)
    PROVE  /\ segs' \in [S -> Segment]
           /\ write_sequence' \in Nat
           /\ blocks' \in [Blocks -> WriteBlock]
           /\ \A c \in Blocks : blocks'[c].segment_id \in S
           /\ locs' \subseteq BlobLocation
           /\ \A l \in locs' : l.segment_id \in S
           /\ locs \subseteq locs'
           /\ writer' \in [Writers -> WriterState]
           /\ \A v \in Writers : writer'[v].pc = "direct_io" => writer'[v] = writer[v]
  <1> DEFINE units == EntryUnits(len)
  <1> DEFINE cells == EntryCells(write_sequence, len)
  <1>1. /\ units \in Nat
        /\ write_sequence \in Nat
        /\ cells \in Seq(Cell)
    BY EntryUnitsType, EntryCellsType DEF TypeInv, TypeOK
  <1>2. segs' \in [S -> Segment]
    <2>1. Counted(sg[a], units) \in Segment
      BY <1>1, CountedType
    <2> QED
      BY <2>1 DEF AppendEntry
  <1>3. /\ blocks' \in [Blocks -> WriteBlock]
        /\ \A c \in Blocks : blocks'[c].segment_id \in S
    <2> DEFINE new == [blk EXCEPT !.buf = @ \o cells]
    <2>1. new \in WriteBlock /\ new.segment_id = blk.segment_id
      <3>1. blk.buf \in Seq(Cell)
        BY DEF WriteBlock
      <3>2. blk.buf \o cells \in Seq(Cell)
        BY <3>1, <1>1, ConcatProperties
      <3> HIDE DEF cells
      <3> QED
        BY <3>2 DEF WriteBlock
    <2>2. blocks' = [blocks EXCEPT ![b] = new]
      BY DEF AppendEntry
    <2> HIDE DEF new
    <2> QED
      BY <2>1, <2>2 DEF TypeInv, TypeOK, PointersOK
  <1>4. /\ locs' \subseteq BlobLocation
        /\ \A l \in locs' : l.segment_id \in S
        /\ locs \subseteq locs'
    <2> DEFINE new == Location(write_sequence, blk.segment_id,
                               blk.segment_offset + Len(blk.buf), len)
    <2>1. new \in BlobLocation /\ new.segment_id = blk.segment_id
      <3> DEFINE off == blk.segment_offset + Len(blk.buf)
      <3>1. blk.segment_id \in Nat /\ off \in Nat /\ write_sequence \in Nat
        BY <1>1 DEF WriteBlock
      <3> HIDE DEF off
      <3>2. Location(write_sequence, blk.segment_id, off, len) \in BlobLocation
        BY <3>1, LocationType
      <3>3. Location(write_sequence, blk.segment_id, off, len).segment_id = blk.segment_id
        BY DEF Location
      <3> QED
        BY <3>2, <3>3 DEF off
    <2>2. locs' = locs \cup {new}
      BY DEF AppendEntry
    <2> HIDE DEF new
    <2> QED
      BY <2>1, <2>2 DEF TypeInv, TypeOK, PointersOK
  <1>5. /\ writer' \in [Writers -> WriterState]
        /\ \A v \in Writers : writer'[v].pc = "direct_io" => writer'[v] = writer[v]
    <2>1. writer' = [writer EXCEPT ![w] = IdleWriter]
      BY DEF AppendEntry, Return
    <2> QED
      BY <2>1, IdleTypes DEF TypeInv, TypeOK, IdleWriter
  <1> QED
    BY <1>1, <1>2, <1>3, <1>4, <1>5 DEF AppendEntry

LEMMA NullNotBlock == Null \notin Blocks
  BY ConfigAssumption DEF Blocks

LEMMA PoolTypes ==
    ASSUME NEW q \in Seq(Blocks), q # <<>>
    PROVE  /\ Last(q) \in Blocks /\ Front(q) \in Seq(Blocks)
           /\ Head(q) \in Blocks /\ Tail(q) \in Seq(Blocks)
  <1>1. Len(q) \in Nat \ {0}
    BY EmptySeq, LenProperties
  <1>2. Last(q) \in Blocks
    BY <1>1 DEF Last
  <1>3. Front(q) \in Seq(Blocks)
    BY <1>1, SubSeqProperties DEF Front
  <1>4. Head(q) \in Blocks /\ Tail(q) \in Seq(Blocks)
    BY HeadTailProperties
  <1> QED
    BY <1>2, <1>3, <1>4

LEMMA WithType ==
    ASSUME NEW T, NEW f, f \in [DOMAIN f -> T], NEW id, NEW v \in T
    PROVE  /\ With(f, id, v) \in [DOMAIN f \cup {id} -> T]
           /\ With(f, id, v)[id] = v
           /\ \A s \in DOMAIN f : s # id => With(f, id, v)[s] = f[s]
  BY DEF With

(* acquire_block() and the rotation keep the types. *)
LEMMA AcquireBlockType ==
    ASSUME TypeInv, NEW w \in Writers, NEW len \in Nat, AcquireBlock(w, len)
    PROVE  /\ DOMAIN segs \subseteq DOMAIN segs'
           /\ DOMAIN segs' \subseteq Nat
           /\ segs' \in [DOMAIN segs' -> Segment]
           /\ disk' \in [DOMAIN segs' -> Seq(Cell)]
           /\ next_segment_id' \in Nat
           /\ active_segment' \in DOMAIN segs' \cup {Null}
           /\ write_sequence' \in Nat
           /\ blocks' \in [Blocks -> WriteBlock]
           /\ \A b \in Blocks : blocks'[b].segment_id \in DOMAIN segs'
           /\ active_block' \in Blocks \cup {Null}
           /\ free_pool' \in Seq(Blocks)
           /\ faults' \in Nat
           /\ locs' \subseteq BlobLocation
           /\ \A l \in locs' : l.segment_id \in DOMAIN segs'
           /\ locs \subseteq locs'
           /\ writer' \in [Writers -> WriterState]
           /\ \A v \in Writers : writer'[v].pc = "direct_io" => writer'[v] = writer[v]
  <1> USE ConfigAssumption
  <1> DEFINE id == next_segment_id
  <1>1. CASE WaitForBlock(w, len)
    <2>1. [pc |-> "parking", len |-> len, loc |-> NoLocation] \in WriterState
      BY IdleTypes DEF WriterState
    <2>2. /\ writer' \in [Writers -> WriterState]
          /\ \A v \in Writers : writer'[v].pc = "direct_io" => writer'[v] = writer[v]
      BY <1>1, <2>1 DEF WaitForBlock, TypeInv, TypeOK
    <2> QED
      BY <1>1, <2>2 DEF WaitForBlock, TypeInv, TypeOK, PointersOK, segVars
  <1>2. CASE GiveUp(w)
    <2>1. /\ writer' \in [Writers -> WriterState]
          /\ \A v \in Writers : writer'[v].pc = "direct_io" => writer'[v] = writer[v]
      BY <1>2, IdleTypes DEF GiveUp, Return, TypeInv, TypeOK, IdleWriter
    <2> QED
      BY <1>2, <2>1 DEF GiveUp, TypeInv, TypeOK, PointersOK, segVars
  <1>3. CASE TakeBlock(w, len)
    <2> DEFINE b == Last(free_pool)
    <2>1. b \in Blocks /\ free_pool' \in Seq(Blocks) /\ active_block' = b
      BY <1>3, PoolTypes DEF TakeBlock, TypeInv, TypeOK
    <2> HIDE DEF b
    <2>2. CASE /\ ~SegmentFull(Cap)
               /\ AppendEntry(w, len, b,
                              Bound(active_segment, segs[active_segment].write_offset),
                              active_segment, segs)
               /\ UNCHANGED <<active_segment, next_segment_id, disk, faults>>
      <3>1. active_segment \in DOMAIN segs
        BY <2>2 DEF SegmentFull, TypeInv, TypeOK
      <3>2. active_segment \in Nat /\ segs[active_segment].write_offset \in Nat
        BY <3>1 DEF TypeInv, TypeOK, Segment
      <3> DEFINE blk == Bound(active_segment, segs[active_segment].write_offset)
      <3>3. blk \in WriteBlock /\ blk.segment_id = active_segment
        BY <3>2, BoundType
      <3>4. AppendEntry(w, len, b, blk, active_segment, segs)
        BY <2>2
      <3>5. segs \in [DOMAIN segs -> Segment] /\ DOMAIN segs \in SUBSET Nat
        BY DEF TypeInv, TypeOK
      <3> HIDE DEF blk
      <3>6. /\ segs' \in [DOMAIN segs -> Segment]
            /\ write_sequence' \in Nat
            /\ blocks' \in [Blocks -> WriteBlock]
            /\ \A c \in Blocks : blocks'[c].segment_id \in DOMAIN segs
            /\ locs' \subseteq BlobLocation
            /\ \A l \in locs' : l.segment_id \in DOMAIN segs
            /\ locs \subseteq locs'
            /\ writer' \in [Writers -> WriterState]
            /\ \A v \in Writers : writer'[v].pc = "direct_io" => writer'[v] = writer[v]
        BY <2>1, <3>1, <3>3, <3>4, <3>5, AppendEntryType
      <3> QED
        BY <2>1, <2>2, <3>1, <3>5, <3>6 DEF TypeInv, TypeOK
    <2>3. CASE /\ SegmentCreated
               /\ AppendEntry(w, len, b, Bound(id, 1), id, With(segs, id, NewSegment))
      <3> DEFINE S == DOMAIN segs \cup {id}
      <3> DEFINE sg == With(segs, id, NewSegment)
      <3>1. id \in Nat /\ S \in SUBSET Nat /\ DOMAIN segs \subseteq S
        BY DEF TypeInv, TypeOK
      <3>2. sg \in [S -> Segment]
        BY NewSegmentType, WithType DEF TypeInv, TypeOK
      <3>3. disk' \in [S -> Seq(Cell)]
        <4>1. SegHeader \in Cell
          BY DEF SegHeader, Cell
        <4>2. <<SegHeader>> \in Seq(Cell)
          BY <4>1
        <4>3. disk \in [DOMAIN disk -> Seq(Cell)] /\ DOMAIN disk = DOMAIN segs
          BY DEF TypeInv, TypeOK
        <4> QED
          BY <2>3, <4>2, <4>3, WithType DEF SegmentCreated
      <3> DEFINE blk == Bound(id, 1)
      <3>4. blk \in WriteBlock /\ blk.segment_id = id
        BY <3>1, BoundType
      <3>5. AppendEntry(w, len, b, blk, id, sg)
        BY <2>3
      <3>0. id \in S /\ blk.segment_id \in S
        BY <3>4
      <3> HIDE DEF blk, sg, S, id
      <3>6. /\ segs' \in [S -> Segment]
            /\ write_sequence' \in Nat
            /\ blocks' \in [Blocks -> WriteBlock]
            /\ \A c \in Blocks : blocks'[c].segment_id \in S
            /\ locs' \subseteq BlobLocation
            /\ \A l \in locs' : l.segment_id \in S
            /\ locs \subseteq locs'
            /\ writer' \in [Writers -> WriterState]
            /\ \A v \in Writers : writer'[v].pc = "direct_io" => writer'[v] = writer[v]
        BY <2>1, <3>0, <3>1, <3>2, <3>4, <3>5, AppendEntryType
      <3>7. /\ active_segment' = id /\ next_segment_id' = id + 1 /\ faults' = faults
        BY <2>3 DEF SegmentCreated, id
      <3>8. DOMAIN segs' = S /\ faults \in Nat
        BY <3>6 DEF TypeInv, TypeOK
      <3> QED
        BY <2>1, <3>0, <3>1, <3>3, <3>6, <3>7, <3>8
    <2>4. CASE SegmentNotCreated /\ Return(w) /\ UNCHANGED <<blocks, write_sequence, locs>>
      <3>1. /\ writer' \in [Writers -> WriterState]
            /\ \A v \in Writers : writer'[v].pc = "direct_io" => writer'[v] = writer[v]
        BY <2>4, IdleTypes DEF Return, TypeInv, TypeOK, IdleWriter
      <3>2. /\ segs' = segs /\ disk' = disk /\ active_segment' = Null
            /\ next_segment_id' = id + 1 /\ faults' = faults + 1
            /\ blocks' = blocks /\ write_sequence' = write_sequence /\ locs' = locs
        BY <2>4 DEF SegmentNotCreated
      <3>3. /\ DOMAIN segs \subseteq Nat
            /\ segs \in [DOMAIN segs -> Segment]
            /\ disk \in [DOMAIN segs -> Seq(Cell)]
            /\ next_segment_id \in Nat /\ write_sequence \in Nat /\ faults \in Nat
            /\ blocks \in [Blocks -> WriteBlock]
            /\ \A c \in Blocks : blocks[c].segment_id \in DOMAIN segs
            /\ locs \subseteq BlobLocation
            /\ \A l \in locs : l.segment_id \in DOMAIN segs
        BY DEF TypeInv, TypeOK, PointersOK
      <3>4. DOMAIN segs' = DOMAIN segs
        BY <3>2
      <3>5. next_segment_id' \in Nat /\ faults' \in Nat
        BY <3>2, <3>3
      <3>6. /\ segs' \in [DOMAIN segs' -> Segment]
            /\ disk' \in [DOMAIN segs' -> Seq(Cell)]
        BY <3>2, <3>3, <3>4
      <3>7. /\ blocks' \in [Blocks -> WriteBlock]
            /\ \A c \in Blocks : blocks'[c].segment_id \in DOMAIN segs'
            /\ locs' \subseteq BlobLocation
            /\ \A l \in locs' : l.segment_id \in DOMAIN segs'
            /\ locs \subseteq locs'
        BY <3>2, <3>3, <3>4
      <3> QED
        BY <2>1, <3>1, <3>2, <3>3, <3>4, <3>5, <3>6, <3>7
    <2> QED
      BY <1>3, <2>2, <2>3, <2>4 DEF TakeBlock, b
  <1> QED
    BY <1>1, <1>2, <1>3 DEF AcquireBlock

(* A reader's part of TypeInv survives as long as the locations do. *)
LEMMA ReadersKept ==
    ASSUME TypeInv, locs \subseteq locs', UNCHANGED reader
    PROVE  /\ reader' \in [Readers -> ReaderState]
           /\ \A r \in Readers : reader'[r].pc # "idle" =>
                 reader'[r].loc \in locs' /\ reader'[r].errs <= reader'[r].attempt
  BY DEF TypeInv, TypeOK, PointersOK

LEMMA WriterStartsType ==
    ASSUME TypeInv, NEW w \in Writers, WriterStarts(w)
    PROVE  TypeInv'
  <1> USE ConfigAssumption
  <1>0. PICK len \in Lens : \/ WriteRejected(w, len)
                            \/ WriteBuffered(w, len)
                            \/ WriteRotate(w, len)
                            \/ WriteDirect(w, len)
    BY DEF WriterStarts
  <1>f. UNCHANGED <<flush_running, reader, phase, lost>>
    BY DEF WriterStarts, WriterFrame
  <1>l. len \in Nat
    OBVIOUS
  <1>1. CASE WriteRejected(w, len)
    <2>1. /\ writer' \in [Writers -> WriterState]
          /\ \A v \in Writers : writer'[v].pc = "direct_io" => writer'[v] = writer[v]
      BY <1>1, IdleTypes DEF WriteRejected, Return, TypeInv, TypeOK, IdleWriter
    <2> QED
      BY <1>1, <1>f, <2>1
         DEF WriteRejected, TypeInv, TypeOK, PointersOK, segVars, blockVars
  <1>2. CASE WriteDirect(w, len)
    <2>1. [pc |-> "direct", len |-> len, loc |-> NoLocation] \in WriterState
      BY <1>l, IdleTypes DEF WriterState
    <2>2. /\ writer' \in [Writers -> WriterState]
          /\ \A v \in Writers : writer'[v].pc = "direct_io" => writer'[v] = writer[v]
      BY <1>2, <2>1 DEF WriteDirect, TypeInv, TypeOK
    <2> QED
      BY <1>2, <1>f, <2>2
         DEF WriteDirect, TypeInv, TypeOK, PointersOK, segVars, blockVars
  <1>3. CASE WriteBuffered(w, len)
    <2>1. /\ active_block \in Blocks
          /\ blocks[active_block] \in WriteBlock
          /\ blocks[active_block].segment_id \in DOMAIN segs
          /\ active_segment \in DOMAIN segs
          /\ segs \in [DOMAIN segs -> Segment] /\ DOMAIN segs \in SUBSET Nat
      BY <1>3 DEF WriteBuffered, TypeInv, TypeOK, PointersOK
    <2>2. AppendEntry(w, len, active_block, blocks[active_block], active_segment, segs)
      BY <1>3 DEF WriteBuffered
    <2>3. /\ segs' \in [DOMAIN segs -> Segment]
          /\ write_sequence' \in Nat
          /\ blocks' \in [Blocks -> WriteBlock]
          /\ \A c \in Blocks : blocks'[c].segment_id \in DOMAIN segs
          /\ locs' \subseteq BlobLocation
          /\ \A l \in locs' : l.segment_id \in DOMAIN segs
          /\ locs \subseteq locs'
          /\ writer' \in [Writers -> WriterState]
          /\ \A v \in Writers : writer'[v].pc = "direct_io" => writer'[v] = writer[v]
      BY <1>l, <2>1, <2>2, AppendEntryType
    <2>4. DOMAIN segs' = DOMAIN segs
      BY <2>3
    <2>5. UNCHANGED <<disk, next_segment_id, active_segment, active_block, flush_queue,
                      free_pool, flushing_block, flusher, seg_lock, faults>>
      BY <1>3 DEF WriteBuffered
    <2>6. TypeOK'
      BY <1>f, <2>3, <2>4, <2>5 DEF TypeInv, TypeOK
    <2>7. PointersOK'
      BY <1>f, <2>3, <2>4, <2>5, ReadersKept DEF TypeInv, PointersOK
    <2> QED
      BY <2>6, <2>7 DEF TypeInv
  <1>4. CASE WriteRotate(w, len)
    <2>1. AcquireBlock(w, len) /\ UNCHANGED <<flushing_block, seg_lock>>
      BY <1>4 DEF WriteRotate
    <2>2. flush_queue' \in Seq(Blocks)
      <3>1. active_block \in Blocks /\ flush_queue \in Seq(Blocks)
        BY <1>4 DEF WriteRotate, TypeInv, TypeOK
      <3> QED
        BY <1>4, <3>1, AppendProperties DEF WriteRotate, QueueBlock
    <2>3. /\ flusher' \in FlusherState
          /\ flusher'.pc \in {"writing", "written", "drain_writing"} => flusher' = flusher
      BY <1>4 DEF WriteRotate, QueueBlock, NotifyFlush, FlusherState, TypeInv, TypeOK
    <2>4. TypeOK'
      BY <1>f, <1>l, <2>1, <2>2, <2>3, AcquireBlockType, ReadersKept DEF TypeInv, TypeOK
    <2>5. PointersOK'
      BY <1>f, <1>l, <2>1, <2>2, <2>3, AcquireBlockType, ReadersKept
         DEF TypeInv, PointersOK
    <2> QED
      BY <2>4, <2>5 DEF TypeInv
  <1> QED
    BY <1>0, <1>1, <1>2, <1>3, <1>4

LEMMA WriterGoesOnType ==
    ASSUME TypeInv, NEW w \in Writers, WriterGoesOn(w)
    PROVE  TypeInv'
  <1> USE ConfigAssumption
  <1>f. UNCHANGED <<flush_running, reader, phase, lost>>
    BY DEF WriterGoesOn, WriterFrame
  <1>1. CASE WriterParks(w)
    <2>1. /\ writer' \in [Writers -> WriterState]
          /\ \A v \in Writers : writer'[v].pc = "direct_io" => writer'[v] = writer[v]
      <3>1. writer \in [Writers -> WriterState]
        BY DEF TypeInv, TypeOK
      <3>2. PICK me : me = [writer[w] EXCEPT !.pc = "waiting"]
        OBVIOUS
      <3>3. me \in WriterState /\ me.pc = "waiting"
        BY <3>1, <3>2 DEF WriterState
      <3>4. writer' = [writer EXCEPT ![w] = me]
        BY <1>1, <3>2 DEF WriterParks
      <3> QED
        BY <3>1, <3>3, <3>4
    <2> QED
      BY <1>1, <1>f, <2>1 DEF WriterParks, TypeInv, TypeOK, PointersOK, segVars, blockVars
  <1>2. CASE WriterRetries(w)
    <2>1. /\ AcquireBlock(w, writer[w].len)
          /\ UNCHANGED <<flush_queue, flushing_block, flusher, seg_lock>>
      BY <1>2 DEF WriterRetries
    <2>2. writer[w].len \in Nat
      BY DEF TypeInv, TypeOK, WriterState
    <2>3. TypeOK'
      BY <1>f, <2>1, <2>2, AcquireBlockType, ReadersKept DEF TypeInv, TypeOK
    <2>4. PointersOK'
      BY <1>f, <2>1, <2>2, AcquireBlockType, ReadersKept DEF TypeInv, PointersOK
    <2> QED
      BY <2>3, <2>4 DEF TypeInv
  <1>3. CASE DirectBegin(w)
    <2> DEFINE len == writer[w].len
    <2> DEFINE id == next_segment_id
    <2>0. /\ len \in Nat /\ EntryUnits(len) \in Nat
          /\ write_sequence \in Nat /\ id \in Nat /\ faults \in Nat
          /\ segs \in [DOMAIN segs -> Segment] /\ DOMAIN segs \subseteq Nat
          /\ disk \in [DOMAIN segs -> Seq(Cell)]
      BY EntryUnitsType DEF TypeInv, TypeOK, WriterState
    <2>1. /\ DOMAIN segs \subseteq DOMAIN segs' /\ DOMAIN segs' \subseteq Nat
          /\ segs' \in [DOMAIN segs' -> Segment]
          /\ disk' \in [DOMAIN segs' -> Seq(Cell)]
          /\ next_segment_id' \in Nat
          /\ active_segment' \in DOMAIN segs'
          /\ faults' \in Nat
      <3>1. CASE SegmentFull(EntryUnits(len))
        <4>1. SegmentCreated /\ segs' = With(segs, id, NewSegment)
          BY <1>3, <3>1 DEF DirectBegin
        <4>2. segs' \in [DOMAIN segs \cup {id} -> Segment]
          BY <2>0, <4>1, NewSegmentType, WithType
        <4>3. disk' \in [DOMAIN segs \cup {id} -> Seq(Cell)]
          <5>1. SegHeader \in Cell
            BY DEF SegHeader, Cell
          <5>2. <<SegHeader>> \in Seq(Cell)
            BY <5>1
          <5>3. disk \in [DOMAIN disk -> Seq(Cell)] /\ DOMAIN disk = DOMAIN segs
            BY <2>0
          <5> QED
            BY <4>1, <5>2, <5>3, WithType DEF SegmentCreated
        <4>4. DOMAIN segs' = DOMAIN segs \cup {id}
          BY <4>2
        <4>5. /\ active_segment' = next_segment_id
              /\ next_segment_id' = next_segment_id + 1
              /\ faults' = faults
          BY <4>1 DEF SegmentCreated
        <4> HIDE DEF len
        <4>6. segs' \in [DOMAIN segs' -> Segment] /\ disk' \in [DOMAIN segs' -> Seq(Cell)]
          BY <4>2, <4>3, <4>4
        <4>7. /\ DOMAIN segs \subseteq DOMAIN segs' /\ DOMAIN segs' \subseteq Nat
              /\ active_segment' \in DOMAIN segs'
          BY <2>0, <4>4, <4>5
        <4>8. next_segment_id' \in Nat /\ faults' \in Nat
          BY <2>0, <4>5
        <4> QED
          BY <4>6, <4>7, <4>8
      <3>2. CASE ~SegmentFull(EntryUnits(len))
        <4>1. UNCHANGED <<segs, disk, next_segment_id, active_segment, faults>>
          BY <1>3, <3>2 DEF DirectBegin, segVars
        <4>2. active_segment \in DOMAIN segs
          BY <3>2 DEF SegmentFull, TypeInv, TypeOK
        <4> QED
          BY <2>0, <4>1, <4>2
      <3> QED
        BY <3>1, <3>2
    <2> DEFINE l == Location(write_sequence, active_segment',
                             segs'[active_segment'].write_offset, len)
    <2>2. l \in BlobLocation /\ l.segment_id = active_segment'
      <3> DEFINE off == segs'[active_segment'].write_offset
      <3>1. active_segment' \in Nat /\ off \in Nat
        BY <2>1 DEF Segment
      <3> HIDE DEF off, len
      <3>2. Location(write_sequence, active_segment', off, len) \in BlobLocation
        BY <2>0, <3>1, LocationType
      <3>3. Location(write_sequence, active_segment', off, len).segment_id = active_segment'
        BY DEF Location
      <3> QED
        BY <3>2, <3>3 DEF off
    <2>3. /\ writer' \in [Writers -> WriterState]
          /\ \A v \in Writers : writer'[v].pc = "direct_io" =>
                writer'[v] = writer[v] \/ writer'[v].loc = l
      <3> DEFINE new == [pc |-> "direct_io", len |-> len, loc |-> l]
      <3>1. writer' = [writer EXCEPT ![w] = new]
        BY <1>3 DEF DirectBegin
      <3>2. new \in WriterState /\ new.loc = l
        BY <2>0, <2>2 DEF WriterState
      <3> HIDE DEF new
      <3> QED
        BY <3>1, <3>2 DEF TypeInv, TypeOK
    <2> HIDE DEF l
    <2>5. /\ UNCHANGED <<blocks, active_block, flush_queue, free_pool, flushing_block,
                         flusher, locs>>
          /\ write_sequence' \in Nat /\ seg_lock' \in Writers
      BY <1>3, <2>0 DEF DirectBegin, blockVars
    <2>6. TypeOK'
      BY <1>f, <2>1, <2>3, <2>5 DEF TypeInv, TypeOK
    <2>7. PointersOK'
      BY <1>f, <2>1, <2>2, <2>3, <2>5 DEF TypeInv, PointersOK
    <2> QED
      BY <2>6, <2>7 DEF TypeInv
  <1>4. CASE DirectEnd(w)
    <2> DEFINE l == writer[w].loc
    <2> DEFINE cells == EntryCells(l.seq, l.length)
    <2>0. /\ l \in BlobLocation /\ l.segment_id \in DOMAIN segs
          /\ segs \in [DOMAIN segs -> Segment] /\ DOMAIN segs \subseteq Nat
          /\ disk \in [DOMAIN segs -> Seq(Cell)] /\ faults \in Nat
      BY <1>4 DEF DirectEnd, TypeInv, TypeOK, PointersOK, WriterState
    <2>1. /\ l.seq \in Nat /\ l.length \in Nat /\ l.offset \in Nat /\ l.disk_size \in Nat
      BY <2>0 DEF BlobLocation
    <2>2. cells \in Seq(Cell)
      BY <2>1, EntryCellsType
    <2>3. \A k \in 0 .. Len(cells) - 1 : SubSeq(cells, 1, k) \in Seq(Cell)
      BY <2>2, SubSeqProperties
    <2> HIDE DEF cells, l
    <2>4. /\ seg_lock' = Null
          /\ writer' = [writer EXCEPT ![w] = IdleWriter]
          /\ UNCHANGED <<next_segment_id, active_segment, blocks, active_block, flush_queue,
                         free_pool, flushing_block, write_sequence, flusher>>
      BY <1>4 DEF DirectEnd, Return, blockVars
    <2>5. /\ writer' \in [Writers -> WriterState]
          /\ \A v \in Writers : writer'[v].pc = "direct_io" => writer'[v] = writer[v]
      BY <2>4, IdleTypes DEF TypeInv, TypeOK, IdleWriter
    <2>6. /\ DOMAIN segs' = DOMAIN segs
          /\ segs' \in [DOMAIN segs -> Segment]
          /\ disk' \in [DOMAIN segs -> Seq(Cell)]
          /\ faults' \in Nat
          /\ locs \subseteq locs'
          /\ locs' \subseteq locs \cup {l}
      <3>1. CASE /\ disk' = [disk EXCEPT ![l.segment_id] = PWrite(@, l.offset, cells)]
                 /\ segs' = [segs EXCEPT ![l.segment_id] = Counted(@, l.disk_size)]
                 /\ locs' = locs \cup {l}
                 /\ UNCHANGED faults
        <4>1. Counted(segs[l.segment_id], l.disk_size) \in Segment
          BY <2>0, <2>1, CountedType
        <4>2. PWrite(disk[l.segment_id], l.offset, cells) \in Seq(Cell)
          BY <2>0, <2>1, <2>2, PWriteType
        <4>3. segs' \in [DOMAIN segs -> Segment] /\ DOMAIN segs' = DOMAIN segs
          BY <2>0, <3>1, <4>1
        <4>4. disk' \in [DOMAIN segs -> Seq(Cell)]
          BY <2>0, <3>1, <4>2
        <4>5. faults' \in Nat /\ locs \subseteq locs' /\ locs' \subseteq locs \cup {l}
          BY <2>0, <3>1
        <4> QED
          BY <4>3, <4>4, <4>5
      <3>2. CASE /\ faults' = faults + 1
                 /\ \E k \in 0 .. Len(cells) - 1 :
                      disk' = [disk EXCEPT ![l.segment_id] =
                                 PWrite(@, l.offset, SubSeq(cells, 1, k))]
                 /\ UNCHANGED <<segs, locs>>
        <4>1. PICK k \in 0 .. Len(cells) - 1 :
                disk' = [disk EXCEPT ![l.segment_id] =
                           PWrite(@, l.offset, SubSeq(cells, 1, k))]
          BY <3>2
        <4>2. PWrite(disk[l.segment_id], l.offset, SubSeq(cells, 1, k)) \in Seq(Cell)
          BY <2>0, <2>1, <2>3, PWriteType
        <4>3. disk' \in [DOMAIN segs -> Seq(Cell)]
          BY <2>0, <4>1, <4>2
        <4>4. segs' = segs /\ locs' = locs /\ faults' \in Nat
          BY <2>0, <3>2
        <4>5. segs' \in [DOMAIN segs -> Segment] /\ DOMAIN segs' = DOMAIN segs
          BY <2>0, <4>4, Zenon
        <4> QED
          BY <4>3, <4>4, <4>5
      <3> QED
        BY <1>4, <3>1, <3>2 DEF DirectEnd, cells, l
    <2>7. TypeOK'
      BY <1>f, <2>0, <2>4, <2>5, <2>6 DEF TypeInv, TypeOK
    <2>8. PointersOK'
      BY <1>f, <2>0, <2>4, <2>5, <2>6 DEF TypeInv, PointersOK
    <2> QED
      BY <2>7, <2>8 DEF TypeInv
  <1> QED
    BY <1>1, <1>2, <1>3, <1>4 DEF WriterGoesOn

(* One pwrite of a block keeps the files files of cells. *)
LEMMA WriteOutType ==
    ASSUME TypeInv, NEW b \in Blocks, WriteOut(blocks[b])
    PROVE  /\ disk' \in [DOMAIN segs -> Seq(Cell)]
           /\ faults' \in Nat
           /\ lost' \subseteq Nat
  <1> DEFINE blk == blocks[b]
  <1>0. /\ blk.buf \in Seq(Cell) /\ blk.segment_offset \in Nat
        /\ blk.segment_id \in DOMAIN segs
        /\ disk \in [DOMAIN segs -> Seq(Cell)] /\ faults \in Nat /\ lost \subseteq Nat
    BY DEF TypeInv, TypeOK, PointersOK, WriteBlock
  <1> HIDE DEF blk
  <1>1. CASE /\ disk' = [disk EXCEPT ![blk.segment_id] =
                           PWrite(@, blk.segment_offset, blk.buf)]
             /\ UNCHANGED <<faults, lost>>
    <2>1. PWrite(disk[blk.segment_id], blk.segment_offset, blk.buf) \in Seq(Cell)
      BY <1>0, PWriteType
    <2> QED
      BY <1>0, <1>1, <2>1
  <1>2. CASE /\ faults' = faults + 1
             /\ lost' = lost \cup {c[1] : c \in Range(blk.buf)}
             /\ \E k \in 0 .. Len(blk.buf) - 1 :
                  disk' = [disk EXCEPT ![blk.segment_id] =
                             PWrite(@, blk.segment_offset, SubSeq(blk.buf, 1, k))]
    <2>1. PICK k \in 0 .. Len(blk.buf) - 1 :
            disk' = [disk EXCEPT ![blk.segment_id] =
                       PWrite(@, blk.segment_offset, SubSeq(blk.buf, 1, k))]
      BY <1>2
    <2>2. SubSeq(blk.buf, 1, k) \in Seq(Cell)
      BY <1>0, SubSeqProperties
    <2>3. PWrite(disk[blk.segment_id], blk.segment_offset, SubSeq(blk.buf, 1, k)) \in Seq(Cell)
      BY <1>0, <2>2, PWriteType
    <2>4. disk' \in [DOMAIN segs -> Seq(Cell)]
      BY <1>0, <2>1, <2>3
    <2>5. \A c \in Range(blk.buf) : c \in Cell
      BY <1>0 DEF Range
    <2>6. \A c \in Cell : c[1] \in Nat
      BY DEF Cell
    <2>7. {c[1] : c \in Range(blk.buf)} \subseteq Nat
      BY <2>5, <2>6
    <2> DEFINE gone == {c[1] : c \in Range(blk.buf)}
    <2>8. lost' = lost \cup gone /\ faults' = faults + 1
      BY <1>2
    <2> HIDE DEF gone
    <2>9. lost' \subseteq Nat
      BY <1>0, <2>7, <2>8 DEF gone
    <2> QED
      BY <1>0, <2>4, <2>8, <2>9
  <1> QED
    BY <1>1, <1>2 DEF WriteOut, blk

LEMMA FlushStepType ==
    ASSUME TypeInv, FlushStep
    PROVE  TypeInv'
  <1> USE ConfigAssumption
  <1>f. UNCHANGED <<segs, next_segment_id, active_segment, blocks, active_block,
                    write_sequence, flush_running, reader, seg_lock, phase, locs>>
    BY DEF FlushStep
  <1>1. CASE FlushTake
    <2>1. flush_queue' \in Seq(Blocks) /\ Head(flush_queue) \in Blocks
      BY <1>1, PoolTypes DEF FlushTake, PopQueue, TypeInv, TypeOK
    <2>2. flushing_block' \in Blocks /\ flusher' \in FlusherState
      BY <1>1, <2>1 DEF FlushTake, FlusherState
    <2>3. flusher'.block # Null
      BY <1>1, <2>1, NullNotBlock DEF FlushTake
    <2>4. UNCHANGED <<disk, free_pool, writer, faults, lost>>
      BY <1>1 DEF FlushTake
    <2> QED
      BY <1>f, <2>1, <2>2, <2>3, <2>4 DEF TypeInv, TypeOK, PointersOK
  <1>2. CASE FlushIdle
    <2>1. flusher' \in FlusherState /\ flusher'.pc \in {"parking", "drain"}
      BY <1>2 DEF FlushIdle, FlusherState, TypeInv, TypeOK
    <2> QED
      BY <1>2, <1>f, <2>1 DEF FlushIdle, TypeInv, TypeOK, PointersOK
  <1>3. CASE FlushParks
    <2>1. flusher' \in FlusherState /\ flusher'.pc = "blocked"
      BY <1>3 DEF FlushParks, FlusherState, TypeInv, TypeOK
    <2> QED
      BY <1>3, <1>f, <2>1 DEF FlushParks, TypeInv, TypeOK, PointersOK
  <1>4. CASE FlushWrite
    <2>1. flusher.block \in Blocks
      BY <1>4 DEF FlushWrite, TypeInv, TypeOK, PointersOK, FlusherState
    <2>2. flusher' \in FlusherState /\ flusher'.block = flusher.block
      BY <1>4 DEF FlushWrite, FlusherState, TypeInv, TypeOK
    <2>3. WriteOut(blocks[flusher.block])
      BY <1>4 DEF FlushWrite
    <2> QED
      BY <1>4, <1>f, <2>1, <2>2, <2>3, WriteOutType
         DEF FlushWrite, TypeInv, TypeOK, PointersOK, Blocks
  <1>5. CASE FlushReturn
    <2>1. flusher.block \in Blocks
      BY <1>5 DEF FlushReturn, TypeInv, TypeOK, PointersOK, FlusherState
    <2>2. free_pool' \in Seq(Blocks)
      BY <1>5, <2>1, AppendProperties DEF FlushReturn, TypeInv, TypeOK
    <2>3. flusher' \in FlusherState /\ flusher'.pc = "eval"
      BY <1>5 DEF FlushReturn, FlusherState
    <2>4. /\ writer' \in [Writers -> WriterState]
          /\ \A v \in Writers : writer'[v].pc = "direct_io" => writer'[v] = writer[v]
      <3>1. CASE UNCHANGED writer
        BY <3>1 DEF TypeInv, TypeOK
      <3>2. CASE \E w \in Writers : writer' = [writer EXCEPT ![w].pc = "woken"]
        <4>1. PICK w \in Writers : writer' = [writer EXCEPT ![w].pc = "woken"]
          BY <3>2
        <4> DEFINE new == [writer[w] EXCEPT !.pc = "woken"]
        <4>2. new \in WriterState /\ new.pc = "woken"
          BY DEF TypeInv, TypeOK, WriterState
        <4>3. writer' = [writer EXCEPT ![w] = new]
          BY <4>1
        <4> HIDE DEF new
        <4> QED
          BY <4>2, <4>3 DEF TypeInv, TypeOK
      <3> QED
        BY <1>5, <3>1, <3>2 DEF FlushReturn, NotifyFree
    <2> QED
      BY <1>5, <1>f, <2>2, <2>3, <2>4 DEF FlushReturn, TypeInv, TypeOK, PointersOK
  <1>6. CASE DrainTake
    <2>1. /\ flush_queue' \in Seq(Blocks)
          /\ flusher' \in FlusherState
          /\ flusher'.pc = "drain_writing" => flusher'.block # Null
          /\ flusher'.pc \in {"exited", "drain_writing"}
      <3>1. CASE flush_queue = <<>>
        BY <1>6, <3>1 DEF DrainTake, FlusherState, TypeInv, TypeOK
      <3>2. CASE flush_queue # <<>>
        <4>1. Head(flush_queue) \in Blocks /\ Tail(flush_queue) \in Seq(Blocks)
          BY <3>2, PoolTypes DEF TypeInv, TypeOK
        <4>2. /\ flush_queue' = Tail(flush_queue)
              /\ flusher' = [pc |-> "drain_writing", block |-> Head(flush_queue)]
          BY <1>6, <3>2 DEF DrainTake, PopQueue
        <4>3. Head(flush_queue) # Null
          BY <4>1, NullNotBlock
        <4> QED
          BY <4>1, <4>2, <4>3 DEF FlusherState
      <3> QED
        BY <3>1, <3>2
    <2> QED
      BY <1>6, <1>f, <2>1 DEF DrainTake, TypeInv, TypeOK, PointersOK
  <1>7. CASE DrainWrite
    <2>1. flusher.block \in Blocks
      BY <1>7 DEF DrainWrite, TypeInv, TypeOK, PointersOK, FlusherState
    <2>2. flusher' \in FlusherState /\ flusher'.pc = "drain"
      BY <1>7 DEF DrainWrite, FlusherState, TypeInv, TypeOK
    <2>3. WriteOut(blocks[flusher.block])
      BY <1>7 DEF DrainWrite
    <2> QED
      BY <1>7, <1>f, <2>1, <2>2, <2>3, WriteOutType
         DEF DrainWrite, TypeInv, TypeOK, PointersOK
  <1> QED
    BY <1>1, <1>2, <1>3, <1>4, <1>5, <1>6, <1>7 DEF FlushStep

(* The reader's own operators *)
LEMMA FinishedType ==
    ASSUME NEW rd \in ReaderState, NEW data \in Seq(Cell),
           NEW st \in {"none", "ok", "not_found", "too_small"}
    PROVE  Finished(rd, st, data) \in ReaderState /\ Finished(rd, st, data).pc = "idle"
  BY DEF Finished, ReaderState

LEMMA DeliverType ==
    ASSUME NEW rd \in ReaderState, NEW cells \in Seq(Cell)
    PROVE  Deliver(rd, cells) \in ReaderState /\ Deliver(rd, cells).pc = "idle"
  <1>1. <<>> \in Seq(Cell)
    OBVIOUS
  <1> QED
    BY <1>1, FinishedType DEF Deliver

LEMMA RetryOrMissType ==
    ASSUME NEW rd \in ReaderState, rd.errs <= 1 + rd.attempt
    PROVE  /\ RetryOrMiss(rd) \in ReaderState
           /\ \/ RetryOrMiss(rd).pc = "idle"
              \/ RetryOrMiss(rd).loc = rd.loc /\ RetryOrMiss(rd).errs <= RetryOrMiss(rd).attempt
  <1>1. /\ <<>> \in Seq(Cell) /\ rd.errs \in 0 .. 2 /\ rd.loc \in BlobLocation
        /\ rd.buf_len \in Nat /\ rd.attempt \in {0, 1}
    BY DEF ReaderState
  <1>2. CASE rd.attempt = 0
    <2>1. RetryOrMiss(rd) = Reading("pending", 1, rd.errs, rd.loc, rd.buf_len)
      BY <1>2 DEF RetryOrMiss
    <2>2. Reading("pending", 1, rd.errs, rd.loc, rd.buf_len) \in ReaderState
      BY <1>1, ReadingType
    <2> QED
      BY <1>1, <1>2, <2>1, <2>2 DEF Reading
  <1>3. CASE rd.attempt # 0
    BY <1>1, <1>3, FinishedType DEF RetryOrMiss
  <1> QED
    BY <1>2, <1>3

(* The first block that covers a location is a block, and it covers it. *)
LEMMA HoldingBlock ==
    ASSUME TypeInv, NEW l, Holding(l) # {}
    PROVE  LET b == PendingBlocks[Min(Holding(l))] IN b \in Blocks /\ Holds(b, l)
  <1>1. PendingBlocks \in Seq(Blocks \cup {Null})
    <2>1. /\ active_block \in Blocks \cup {Null} /\ flushing_block \in Blocks \cup {Null}
          /\ flush_queue \in Seq(Blocks)
      BY DEF TypeInv, TypeOK
    <2>2. <<active_block, flushing_block>> \in Seq(Blocks \cup {Null})
      BY <2>1
    <2>3. flush_queue \in Seq(Blocks \cup {Null})
      BY <2>1
    <2> QED
      BY <2>2, <2>3, ConcatProperties DEF PendingBlocks
  <1> DEFINE H == Holding(l)
  <1>2. H \subseteq Nat /\ \A i \in H : PendingBlocks[i] \in Blocks \cup {Null} /\ Holds(PendingBlocks[i], l)
    BY <1>1 DEF Holding
  <1> HIDE DEF H
  <1>3. \E n \in H : \A m \in H : n <= m
    <2> DEFINE R == OpToRel(<, Nat)
    <2>1. IsWellFoundedOn(R, Nat)
      BY NatLessThanWellFounded
    <2>2. \A x, y \in Nat : y < x => <<y, x>> \in R
      BY DEF OpToRel
    <2> HIDE DEF R
    <2>3. \E x \in H : \A y \in H : <<y, x>> \notin R
      BY <1>2, <2>1, WFMin DEF H
    <2>4. PICK x \in H : \A y \in H : <<y, x>> \notin R
      BY <2>3
    <2>5. \A y \in H : ~(y < x)
      BY <1>2, <2>2, <2>4
    <2>6. \A y \in H : x <= y
      BY <1>2, <2>5
    <2> QED
      BY <2>6
  <1>4. Min(H) \in H
    BY <1>3 DEF Min
  <1> QED
    BY <1>2, <1>4 DEF H, Holds

LEMMA PendingCellsType ==
    ASSUME TypeInv, NEW l \in BlobLocation, Holding(l) # {}
    PROVE  PendingCells(l) \in Seq(Cell)
  <1> DEFINE b == PendingBlocks[Min(Holding(l))]
  <1>1. b \in Blocks /\ Holds(b, l)
    BY HoldingBlock
  <1> DEFINE blk == blocks[b]
  <1> DEFINE at == l.offset - blk.segment_offset
  <1>2. PendingCells(l) = PRead(blk.buf, at, EntryUnits(blk.buf[at + 1][3]))
    BY DEF PendingCells
  <1> HIDE DEF b
  <1>3. blk.buf \in Seq(Cell) /\ blk.segment_offset \in Nat /\ l.offset \in Nat
    BY <1>1 DEF TypeInv, TypeOK, WriteBlock, BlobLocation
  <1>4. at \in Int /\ at >= 0 /\ at + 1 \in 1 .. Len(blk.buf)
    BY <1>1, <1>3 DEF Holds
  <1> HIDE DEF blk, at
  <1>5. blk.buf[at + 1] \in Cell
    BY <1>3, <1>4
  <1>6. blk.buf[at + 1][3] \in Nat
    BY <1>5 DEF Cell
  <1>7. EntryUnits(blk.buf[at + 1][3]) \in Int
    BY <1>6, EntryUnitsType
  <1> QED
    BY <1>2, <1>3, <1>4, <1>7, PReadType

LEMMA ReaderStepType ==
    ASSUME TypeInv, NEW r \in Readers, ReaderStep(r)
    PROVE  TypeInv'
  <1> USE ConfigAssumption
  <1> DEFINE rd == reader[r]
  <1>f. UNCHANGED <<segs, disk, next_segment_id, active_segment, blocks, active_block,
                    flush_queue, free_pool, flushing_block, write_sequence, flush_running,
                    flusher, writer, seg_lock, phase, locs, lost>>
    BY DEF ReaderStep, segVars, blockVars
  <1>t. /\ rd \in ReaderState /\ faults \in Nat /\ locs \subseteq BlobLocation
        /\ rd.pc # "idle" => rd.loc \in locs /\ rd.errs <= rd.attempt
    BY DEF TypeInv, TypeOK, PointersOK
  <1>s. SUFFICES \E new \in ReaderState :
                    /\ reader' = [reader EXCEPT ![r] = new]
                    /\ new.pc # "idle" => new.loc \in locs /\ new.errs <= new.attempt
                    /\ faults' \in Nat
    BY <1>f, SMTT(30) DEF TypeInv, TypeOK, PointersOK
  <1>1. CASE \E l \in locs, n \in BufLens : ReadStart(r, l, n)
    <2>1. PICK l \in locs, n \in BufLens : ReadStart(r, l, n)
      BY <1>1
    <2> DEFINE new == Reading("pending", 0, 0, l, n)
    <2>2. new \in ReaderState
      <3>1. l \in BlobLocation /\ n \in Nat
        BY <1>t
      <3> QED
        BY <3>1, ReadingType
    <2>3. new.loc \in locs /\ new.errs <= new.attempt
      BY DEF Reading
    <2>4. reader' = [reader EXCEPT ![r] = new] /\ faults' = faults
      BY <2>1 DEF ReadStart
    <2> HIDE DEF new
    <2> QED
      BY <1>t, <2>2, <2>3, <2>4
  <1>2. CASE ReadPending(r)
    <2>0. rd.loc \in locs /\ rd.loc \in BlobLocation /\ rd.errs <= rd.attempt
      BY <1>2, <1>t DEF ReadPending
    <2>1. CASE Holding(rd.loc) # {}
      <3> DEFINE new == Deliver(rd, PendingCells(rd.loc))
      <3>1. new \in ReaderState /\ new.pc = "idle"
        BY <1>t, <2>0, <2>1, PendingCellsType, DeliverType
      <3>2. reader' = [reader EXCEPT ![r] = new] /\ faults' = faults
        BY <1>2, <2>1 DEF ReadPending
      <3> HIDE DEF new
      <3> QED
        BY <1>t, <3>1, <3>2
    <2>2. CASE Holding(rd.loc) = {}
      <3> DEFINE new == [rd EXCEPT !.pc = "fd"]
      <3>1. new \in ReaderState /\ new.loc = rd.loc /\ new.errs = rd.errs /\ new.attempt = rd.attempt
        BY <1>t DEF ReaderState
      <3>2. reader' = [reader EXCEPT ![r] = new] /\ faults' = faults
        BY <1>2, <2>2 DEF ReadPending
      <3> HIDE DEF new
      <3> QED
        BY <1>t, <2>0, <3>1, <3>2
    <2> QED
      BY <2>1, <2>2
  <1>3. CASE ReadFd(r)
    <2>0. rd.loc \in locs /\ rd.errs <= rd.attempt
      BY <1>3, <1>t DEF ReadFd
    <2>1. CASE segs[rd.loc.segment_id].open
      <3> DEFINE new == [rd EXCEPT !.pc = "disk"]
      <3>1. new \in ReaderState /\ new.loc = rd.loc /\ new.errs = rd.errs /\ new.attempt = rd.attempt
        BY <1>t DEF ReaderState
      <3>2. reader' = [reader EXCEPT ![r] = new] /\ faults' = faults
        BY <1>3, <2>1 DEF ReadFd
      <3> HIDE DEF new
      <3> QED
        BY <1>t, <2>0, <3>1, <3>2
    <2>2. CASE ~segs[rd.loc.segment_id].open
      <3> DEFINE new == Finished(rd, "not_found", <<>>)
      <3>1. <<>> \in Seq(Cell)
        OBVIOUS
      <3>2. new \in ReaderState /\ new.pc = "idle"
        BY <1>t, <3>1, FinishedType
      <3>3. reader' = [reader EXCEPT ![r] = new] /\ faults' = faults
        BY <1>3, <2>2 DEF ReadFd
      <3> HIDE DEF new
      <3> QED
        BY <1>t, <3>2, <3>3
    <2> QED
      BY <2>1, <2>2
  <1>4. CASE ReadDisk(r)
    <2>0. rd.loc \in locs /\ rd.loc \in BlobLocation /\ rd.errs <= rd.attempt
      BY <1>4, <1>t DEF ReadDisk
    <2> DEFINE got == PRead(disk[rd.loc.segment_id], rd.loc.offset, rd.loc.disk_size)
    <2>1. got \in Seq(Cell)
      <3>1. rd.loc.segment_id \in DOMAIN segs /\ disk \in [DOMAIN segs -> Seq(Cell)]
        BY <2>0 DEF TypeInv, TypeOK, PointersOK
      <3>2. rd.loc.offset \in Int /\ rd.loc.offset >= 0 /\ rd.loc.disk_size \in Int
        BY <2>0 DEF BlobLocation
      <3>3. disk[rd.loc.segment_id] \in Seq(Cell)
        BY <3>1
      <3> HIDE DEF rd
      <3> QED
        BY <3>2, <3>3, PReadType
    <2>2. CASE reader' = [reader EXCEPT ![r] = Deliver(rd, got)] /\ faults' = faults
      <3> DEFINE new == Deliver(rd, got)
      <3> HIDE DEF got
      <3>1. new \in ReaderState /\ new.pc = "idle"
        BY <1>t, <2>1, DeliverType
      <3> HIDE DEF new
      <3> QED
        BY <1>t, <2>2, <3>1 DEF new
    <2>3. CASE reader' = [reader EXCEPT ![r] = RetryOrMiss(rd)] /\ faults' = faults
      <3> DEFINE new == RetryOrMiss(rd)
      <3>0. rd.errs <= 1 + rd.attempt
        BY <1>t, <2>0 DEF ReaderState
      <3>1. /\ new \in ReaderState
            /\ new.pc # "idle" => new.loc = rd.loc /\ new.errs <= new.attempt
        BY <1>t, <3>0, RetryOrMissType
      <3>2. reader' = [reader EXCEPT ![r] = new]
        BY <2>3
      <3> HIDE DEF new
      <3> QED
        BY <1>t, <2>0, <2>3, <3>1, <3>2
    <2>4. CASE /\ reader' = [reader EXCEPT ![r] = RetryOrMiss(Failed(rd))]
               /\ faults' = faults + 1
      <3> DEFINE one == Failed(rd)
      <3>0. one \in ReaderState /\ one.errs <= 1 + one.attempt /\ one.loc = rd.loc
        <4>1. rd.errs \in 0 .. 2 /\ rd.attempt \in {0, 1}
          BY <1>t DEF ReaderState
        <4>2. rd.errs + 1 \in 0 .. 2 /\ rd.errs + 1 <= 1 + rd.attempt
          BY <4>1, <2>0
        <4>3. /\ one.errs = rd.errs + 1 /\ one.attempt = rd.attempt /\ one.loc = rd.loc
              /\ one \in ReaderState
          BY <1>t, <4>2 DEF ReaderState, Failed
        <4> QED
          BY <4>2, <4>3
      <3> HIDE DEF one
      <3> DEFINE new == RetryOrMiss(one)
      <3>1. /\ new \in ReaderState
            /\ new.pc # "idle" => new.loc = rd.loc /\ new.errs <= new.attempt
        BY <3>0, RetryOrMissType
      <3>2. reader' = [reader EXCEPT ![r] = new]
        BY <2>4 DEF one
      <3>3. faults' \in Nat
        BY <1>t, <2>4
      <3> HIDE DEF new
      <3> QED
        BY <2>0, <3>1, <3>2, <3>3
    <2>5. \/ reader' = [reader EXCEPT ![r] = Deliver(rd, got)] /\ faults' = faults
          \/ reader' = [reader EXCEPT ![r] = RetryOrMiss(rd)] /\ faults' = faults
          \/ /\ reader' = [reader EXCEPT ![r] = RetryOrMiss(Failed(rd))]
             /\ faults' = faults + 1
      <3> DEFINE usable == /\ segs[rd.loc.segment_id].open
                           /\ Len(got) = rd.loc.disk_size
                           /\ BlobSize(got) # 0
      <3>1. \/ /\ reader' = [reader EXCEPT ![r] = IF usable THEN Deliver(rd, got)
                                                  ELSE RetryOrMiss(rd)]
               /\ faults' = faults
            \/ /\ reader' = [reader EXCEPT ![r] = RetryOrMiss(Failed(rd))]
               /\ faults' = faults + 1
        BY <1>4 DEF ReadDisk
      <3> HIDE DEF usable, got
      <3> QED
        BY <3>1
    <2> QED
      BY <2>2, <2>3, <2>4, <2>5
  <1> QED
    BY <1>1, <1>2, <1>3, <1>4 DEF ReaderStep

LEMMA MarkDeadType ==
    ASSUME TypeInv, NEW l \in locs, MarkDead(l)
    PROVE  TypeInv'
  <1>1. /\ l.segment_id \in DOMAIN segs /\ l.seq \in Nat
        /\ segs \in [DOMAIN segs -> Segment]
    BY DEF TypeInv, TypeOK, PointersOK, BlobLocation
  <1> DEFINE seg == segs[l.segment_id]
  <1> DEFINE new == [seg EXCEPT !.live_count = IF @ > 0 THEN @ - 1 ELSE @]
  <1>2. new \in Segment
    <2>1. seg \in Segment /\ seg.live_count \in Nat
      BY <1>1 DEF Segment
    <2>2. (IF seg.live_count > 0 THEN seg.live_count - 1 ELSE seg.live_count) \in Nat
      BY <2>1
    <2> QED
      BY <2>1, <2>2 DEF Segment
  <1>3. segs' = [segs EXCEPT ![l.segment_id] = new]
    BY DEF MarkDead
  <1> HIDE DEF new
  <1>4. segs' \in [DOMAIN segs -> Segment] /\ DOMAIN segs' = DOMAIN segs
    BY <1>1, <1>2, <1>3
  <1>6. UNCHANGED <<disk, next_segment_id, active_segment, blocks, active_block,
                    flush_queue, free_pool, flushing_block, write_sequence, flush_running,
                    flusher, writer, reader, seg_lock, phase, faults, locs, lost>>
    BY DEF MarkDead, blockVars
  <1> QED
    BY <1>4, <1>6 DEF TypeInv, TypeOK, PointersOK

LEMMA CrashType ==
    ASSUME TypeInv, NEW w \in Writers, NEW len \in Lens, Crash(w, len)
    PROVE  TypeInv'
  BY DEF Crash, segVars, blockVars, TypeInv, TypeOK, PointersOK

LEMMA CloseType ==
    ASSUME TypeInv, CloseStarts \/ CloseGoesOn
    PROVE  TypeInv'
  <1>f. UNCHANGED <<disk, next_segment_id, write_sequence, blocks, free_pool,
                    flushing_block, reader, seg_lock, faults, locs, lost>>
    BY DEF CloseStarts, CloseGoesOn, CloseFrame
  <1>n. ASSUME NotifyFlush
        PROVE  /\ flusher' \in FlusherState
               /\ flusher'.pc \in {"writing", "written", "drain_writing"} => flusher' = flusher
    BY <1>n DEF NotifyFlush, FlusherState, TypeInv, TypeOK
  <1>1. CASE CloseQueue
    <2>1. /\ flush_queue' \in Seq(Blocks) /\ active_block' \in Blocks \cup {Null}
          /\ flusher' \in FlusherState
          /\ flusher'.pc \in {"writing", "written", "drain_writing"} => flusher' = flusher
      <3>1. CASE ActiveBlockDirty
        <4>1. active_block \in Blocks /\ flush_queue \in Seq(Blocks)
          BY <3>1 DEF ActiveBlockDirty, TypeInv, TypeOK
        <4>2. NotifyFlush /\ flush_queue' = Append(flush_queue, active_block)
              /\ active_block' = Null
          BY <1>1, <3>1 DEF CloseQueue, QueueBlock
        <4> QED
          BY <1>n, <4>1, <4>2, AppendProperties
      <3>2. CASE ~ActiveBlockDirty
        BY <1>1, <3>2 DEF CloseQueue, TypeInv, TypeOK
      <3> QED
        BY <3>1, <3>2
    <2>2. phase' = "stopping" /\ UNCHANGED <<segs, active_segment, flush_running, writer>>
      BY <1>1 DEF CloseQueue
    <2> QED
      BY <1>f, <2>1, <2>2 DEF TypeInv, TypeOK, PointersOK
  <1>2. CASE CloseStop
    BY <1>2, <1>f DEF CloseStop, TypeInv, TypeOK, PointersOK
  <1>3. CASE CloseNotify
    <2>1. /\ writer' \in [Writers -> WriterState]
          /\ \A v \in Writers : writer'[v].pc = "direct_io" => writer'[v] = writer[v]
      <3>1. \A v \in Writers : writer[v] \in WriterState
        BY DEF TypeInv, TypeOK
      <3>2. \A ws \in WriterState : [ws EXCEPT !.pc = "woken"] \in WriterState
        BY DEF WriterState
      <3>3. \A ws \in WriterState : [ws EXCEPT !.pc = "woken"].pc = "woken"
        BY DEF WriterState
      <3>4. writer' = [v \in Writers |-> IF writer[v].pc = "waiting"
                                        THEN [writer[v] EXCEPT !.pc = "woken"]
                                        ELSE writer[v]]
        BY <1>3 DEF CloseNotify
      <3>5. \A v \in Writers : writer'[v] \in WriterState
        BY <3>1, <3>2, <3>4
      <3>6. \A v \in Writers : writer'[v].pc = "direct_io" => writer'[v] = writer[v]
        BY <3>1, <3>3, <3>4
      <3> QED
        BY <3>4, <3>5, <3>6
    <2>2. /\ flusher' \in FlusherState
          /\ flusher'.pc \in {"writing", "written", "drain_writing"} => flusher' = flusher
      BY <1>3, <1>n DEF CloseNotify
    <2>3. /\ phase' = "joining"
          /\ UNCHANGED <<segs, active_segment, active_block, flush_queue, flush_running>>
      BY <1>3 DEF CloseNotify
    <2> QED
      BY <1>f, <2>1, <2>2, <2>3 DEF TypeInv, TypeOK, PointersOK
  <1>4. CASE CloseFinish
    <2>1. \A seg \in Segment : Closed(seg) \in Segment
      BY DEF Closed, Segment
    <2>2. segs' \in [DOMAIN segs -> Segment] /\ DOMAIN segs' = DOMAIN segs
      BY <1>4, <2>1 DEF CloseFinish, TypeInv, TypeOK
    <2>3. /\ active_segment' = Null /\ phase' = "closed"
          /\ UNCHANGED <<active_block, flush_queue, flush_running, flusher, writer>>
      BY <1>4 DEF CloseFinish
    <2> QED
      BY <1>f, <2>2, <2>3 DEF TypeInv, TypeOK, PointersOK
  <1> QED
    BY <1>1, <1>2, <1>3, <1>4 DEF CloseStarts, CloseGoesOn

LEMMA TypeNext == TypeInv /\ [Next]_vars => TypeInv'
  <1> SUFFICES ASSUME TypeInv, [Next]_vars PROVE TypeInv'
    OBVIOUS
  <1>1. CASE UNCHANGED vars
    BY <1>1 DEF vars, segVars, blockVars, TypeInv, TypeOK, PointersOK
  <1>2. ASSUME NEW w \in Writers, WriterStarts(w) PROVE TypeInv'
    BY <1>2, WriterStartsType
  <1>3. ASSUME NEW w \in Writers, WriterGoesOn(w) PROVE TypeInv'
    BY <1>3, WriterGoesOnType
  <1>4. ASSUME NEW w \in Writers, NEW len \in Lens, Crash(w, len) PROVE TypeInv'
    BY <1>4, CrashType
  <1>5. ASSUME NEW r \in Readers, ReaderStep(r) PROVE TypeInv'
    BY <1>5, ReaderStepType
  <1>6. ASSUME NEW l \in locs, MarkDead(l) PROVE TypeInv'
    BY <1>6, MarkDeadType
  <1>7. CASE FlushStep
    BY <1>7, FlushStepType
  <1>8. CASE CloseStarts \/ CloseGoesOn
    BY <1>8, CloseType
  <1> QED
    BY <1>1, <1>2, <1>3, <1>4, <1>5, <1>6, <1>7, <1>8 DEF Next, Quiescent

(***************************************************************************)
(* Type correctness, for every configuration: every pointer of the store,  *)
(* of the flush thread and of the readers leads to a block or to a segment *)
(* that exists, through every interleaving of write(), read(), mark_dead(),*)
(* flush_thread_fn() and close(), I/O failures included.                   *)
(***************************************************************************)
THEOREM TypeCorrect == Spec => []TypeOK
  <1>1. Init => TypeInv
    BY TypeInit
  <1>2. TypeInv /\ [Next]_vars => TypeInv'
    BY TypeNext
  <1>3. TypeInv => TypeOK
    BY DEF TypeInv
  <1> QED
    BY <1>1, <1>2, <1>3, PTL DEF Spec

-----------------------------------------------------------------------------
(***************************************************************************)
(* Layout.  The locations handed out never overlap because each new one    *)
(* starts where its segment ends: the end of the active block's data is    *)
(* the write offset of the active segment (BlockAtEnd), and every earlier  *)
(* location lies below that offset (LocsBelow).  Direct writes move the    *)
(* write offset without moving the active block, so the argument needs     *)
(* every entry to fit a block (NoDirect).                                  *)
(***************************************************************************)
LocsBelow == \A l \in locs : l.offset + l.disk_size <= segs[l.segment_id].write_offset

BlockAtEnd ==
    active_block # Null /\ active_segment # Null =>
        /\ blocks[active_block].segment_id = active_segment
        /\ blocks[active_block].segment_offset + Len(blocks[active_block].buf)
              = segs[active_segment].write_offset
        /\ blocks[active_block].segment_offset + Cap <= SegmentSize

IdsFresh == \A s \in DOMAIN segs : s < next_segment_id

WaitersFit == \A w \in Writers :
    writer[w].pc \in {"parking", "waiting", "woken"} => EntryUnits(writer[w].len) <= Cap

NoDirect == \A w \in Writers : writer[w].pc \notin {"direct", "direct_io"}

Layout ==
    /\ LocsBelow
    /\ BlockAtEnd
    /\ IdsFresh
    /\ WaitersFit
    /\ NoDirect
    /\ NoOverlap
    /\ SegmentsBounded

LayoutInv == TypeInv /\ Layout

LEMMA LayoutInit == Init => Layout
  <1> SUFFICES ASSUME Init PROVE Layout
    OBVIOUS
  <1> USE ConfigAssumption
  <1>1. PoolSize \in Blocks /\ active_block = PoolSize /\ active_segment = 0
    BY DEF Init, Blocks
  <1>2. segs = [s \in {0} |-> NewSegment] /\ NewSegment.write_offset = 1
    BY DEF Init, NewSegment
  <1>3. blocks[PoolSize] = Bound(0, 1)
    BY <1>1 DEF Init
  <1>4. /\ Bound(0, 1).segment_id = 0 /\ Bound(0, 1).segment_offset = 1
        /\ Len(Bound(0, 1).buf) = 0
    BY DEF Bound
  <1>5. BlockAtEnd
    BY <1>1, <1>2, <1>3, <1>4 DEF BlockAtEnd
  <1>6. LocsBelow /\ NoOverlap
    BY DEF Init, LocsBelow, NoOverlap
  <1>7. IdsFresh /\ SegmentsBounded
    BY <1>2 DEF Init, IdsFresh, SegmentsBounded
  <1>8. WaitersFit /\ NoDirect
    BY DEF Init, IdleWriter, WaitersFit, NoDirect
  <1> QED
    BY <1>5, <1>6, <1>7, <1>8 DEF Layout

(* Block b, which holds blk, is bound to segment a of the segments sg and    *)
(* ends where that segment ends; an entry of length len fits into both.      *)
AppendsAtEnd(len, b, blk, S, sg, a) ==
    /\ b \in Blocks
    /\ blk \in WriteBlock
    /\ S \in SUBSET Nat
    /\ sg \in [S -> Segment]
    /\ a \in S
    /\ DOMAIN segs \subseteq S
    /\ \A s \in DOMAIN segs : sg[s] = segs[s]
    /\ \A s \in S : sg[s].write_offset <= SegmentSize
    /\ blk.segment_id = a
    /\ blk.segment_offset + Len(blk.buf) = sg[a].write_offset
    /\ blk.segment_offset + Cap <= SegmentSize
    /\ Len(blk.buf) + EntryUnits(len) <= Cap

(* An append at the end of segment a, into a block that ends there. *)
LEMMA AppendEntryLayout ==
    ASSUME TypeInv, LocsBelow, NoOverlap, NEW w \in Writers, NEW len \in Nat,
           NEW b, NEW blk, NEW S, NEW sg, NEW a,
           AppendsAtEnd(len, b, blk, S, sg, a),
           AppendEntry(w, len, b, blk, a, sg)
    PROVE  /\ LocsBelow'
           /\ NoOverlap'
           /\ SegmentsBounded'
           /\ blocks'[b].segment_id = a
           /\ blocks'[b].segment_offset + Len(blocks'[b].buf) = segs'[a].write_offset
           /\ blocks'[b].segment_offset + Cap <= SegmentSize
  <1> USE ConfigAssumption DEF AppendsAtEnd
  <1> DEFINE units == EntryUnits(len)
  <1> DEFINE cells == EntryCells(write_sequence, len)
  <1> DEFINE end == sg[a].write_offset
  <1> DEFINE new == Location(write_sequence, a, end, len)
  <1>1. /\ units \in Nat /\ cells \in Seq(Cell) /\ Len(cells) = units
        /\ end \in Nat /\ blk.segment_offset \in Nat /\ blk.buf \in Seq(Cell)
    BY EntryUnitsType, EntryCellsType DEF TypeInv, TypeOK, Segment, WriteBlock
  <1>2. segs' = [sg EXCEPT ![a] = Counted(sg[a], units)]
    BY DEF AppendEntry
  <1>3. Counted(sg[a], units).write_offset = end + units
    BY DEF Counted
  <1>4. locs' = locs \cup {new}
    BY DEF AppendEntry
  <1>5. new.segment_id = a /\ new.offset = end /\ new.disk_size = units
    BY DEF Location
  <1>6. blocks'[b] = [blk EXCEPT !.buf = blk.buf \o cells]
    BY DEF AppendEntry, TypeInv, TypeOK
  <1> HIDE DEF new, cells, units, end
  <1>7. segs'[a].write_offset = end + units
    BY <1>2, <1>3
  <1>8. \A s \in S : s # a => segs'[s].write_offset = sg[s].write_offset
    BY <1>2
  <1>9. \A l \in locs : /\ l.segment_id \in DOMAIN segs /\ l.segment_id \in S
                        /\ l.offset \in Nat /\ l.disk_size \in Nat
                        /\ sg[l.segment_id].write_offset \in Nat
                        /\ l.offset + l.disk_size <= sg[l.segment_id].write_offset
    BY DEF TypeInv, TypeOK, PointersOK, BlobLocation, LocsBelow, Segment
  <1>10. LocsBelow'
    <2>1. \A l \in locs : l.offset + l.disk_size <= segs'[l.segment_id].write_offset
      <3> TAKE l \in locs
      <3>1. CASE l.segment_id = a
        <4>1. l.offset + l.disk_size <= end /\ l.offset + l.disk_size \in Nat
          BY <1>9, <3>1 DEF end
        <4> QED
          BY <1>1, <1>7, <3>1, <4>1
      <3>2. CASE l.segment_id # a
        BY <1>8, <1>9, <3>2
      <3> QED
        BY <3>1, <3>2
    <2>2. new.offset + new.disk_size <= segs'[new.segment_id].write_offset
      BY <1>1, <1>5, <1>7
    <2> QED
      BY <1>4, <2>1, <2>2 DEF LocsBelow
  <1>11. NoOverlap'
    <2>1. \A l \in locs : l.segment_id = a => l.offset + l.disk_size <= new.offset
      BY <1>5, <1>9 DEF end
    <2>2. \A l, m \in locs' :
             l # m /\ l.segment_id = m.segment_id =>
                \/ l.offset + l.disk_size <= m.offset
                \/ m.offset + m.disk_size <= l.offset
      BY <1>4, <1>5, <2>1 DEF NoOverlap
    <2> QED
      BY <2>2 DEF NoOverlap
  <1>12. SegmentsBounded'
    <2>1. end + units <= SegmentSize
      <3>1. Len(blk.buf) \in Nat /\ Len(blk.buf) + units <= Cap
        BY <1>1 DEF units
      <3>2. blk.segment_offset + Len(blk.buf) = end
        BY DEF end
      <3> QED
        BY <1>1, <3>1, <3>2
    <2>2. \A s \in S : segs'[s].write_offset <= SegmentSize
      BY <1>7, <1>8, <2>1
    <2> QED
      BY <1>2, <2>2 DEF SegmentsBounded
  <1>13. /\ blocks'[b].segment_id = a
         /\ blocks'[b].segment_offset + Cap <= SegmentSize
    BY <1>6 DEF WriteBlock
  <1>14. blocks'[b].segment_offset + Len(blocks'[b].buf) = segs'[a].write_offset
    <2>1. blocks'[b].segment_offset = blk.segment_offset /\ blocks'[b].buf = blk.buf \o cells
      BY <1>6 DEF WriteBlock
    <2>2. Len(blk.buf \o cells) = Len(blk.buf) + Len(cells)
      BY <1>1, ConcatLen
    <2>3. Len(blk.buf) \in Nat /\ blk.segment_offset + Len(blk.buf) = end
      BY <1>1 DEF end
    <2> DEFINE n == Len(blk.buf)
    <2>4. blocks'[b].segment_offset + Len(blocks'[b].buf) = blk.segment_offset + (n + units)
      BY <1>1, <2>1, <2>2
    <2> HIDE DEF n, AppendsAtEnd
    <2>5. blk.segment_offset + (n + units) = end + units
      BY <1>1, <2>3, SMTT(20) DEF n
    <2> QED
      BY <1>7, <2>4, <2>5
  <1> QED
    BY <1>10, <1>11, <1>12, <1>13, <1>14

(* acquire_block() and the rotation, for an entry that fits a block. *)
LEMMA AcquireBlockLayout ==
    ASSUME TypeInv, Layout, NEW w \in Writers, NEW len \in Nat,
           EntryUnits(len) <= Cap, AcquireBlock(w, len)
    PROVE  Layout'
  <1> USE ConfigAssumption
  <1> DEFINE id == next_segment_id
  <1>u. EntryUnits(len) \in Nat /\ id \in Nat
    BY EntryUnitsType DEF TypeInv, TypeOK
  <1>i. ASSUME Return(w) PROVE WaitersFit' /\ NoDirect'
    <2>1. writer' = [writer EXCEPT ![w] = IdleWriter] /\ writer \in [Writers -> WriterState]
      BY <1>i DEF Return, TypeInv, TypeOK
    <2>2. \A v \in Writers : writer'[v] = writer[v] \/ writer'[v].pc = "idle"
      BY <2>1 DEF IdleWriter
    <2> QED
      BY <2>2 DEF Layout, WaitersFit, NoDirect
  <1>1. CASE WaitForBlock(w, len)
    <2> DEFINE new == [pc |-> "parking", len |-> len, loc |-> NoLocation]
    <2>1. /\ writer' = [writer EXCEPT ![w] = new]
          /\ UNCHANGED <<segs, next_segment_id, active_segment, blocks, active_block, locs>>
      BY <1>1 DEF WaitForBlock, segVars
    <2>2. new.pc = "parking" /\ new.len = len
      OBVIOUS
    <2> HIDE DEF new
    <2>3. \A v \in Writers : writer'[v] = writer[v] \/ writer'[v] = new
      BY <2>1 DEF TypeInv, TypeOK
    <2>4. WaitersFit' /\ NoDirect'
      BY <2>2, <2>3 DEF Layout, WaitersFit, NoDirect
    <2> QED
      BY <2>1, <2>4 DEF Layout, LocsBelow, BlockAtEnd, IdsFresh, NoOverlap, SegmentsBounded
  <1>2. CASE GiveUp(w)
    <2>1. /\ Return(w) /\ active_block' = Null
          /\ UNCHANGED <<segs, next_segment_id, active_segment, blocks, locs>>
      BY <1>2 DEF GiveUp, segVars
    <2> QED
      BY <1>i, <2>1 DEF Layout, LocsBelow, BlockAtEnd, IdsFresh, NoOverlap, SegmentsBounded
  <1>3. CASE TakeBlock(w, len)
    <2> DEFINE b == Last(free_pool)
    <2>1. b \in Blocks /\ active_block' = b
      BY <1>3, PoolTypes DEF TakeBlock, TypeInv, TypeOK
    <2> HIDE DEF b
    <2>2. CASE /\ ~SegmentFull(Cap)
               /\ AppendEntry(w, len, b,
                              Bound(active_segment, segs[active_segment].write_offset),
                              active_segment, segs)
               /\ UNCHANGED <<active_segment, next_segment_id, disk, faults>>
      <3> DEFINE off == segs[active_segment].write_offset
      <3> DEFINE blk == Bound(active_segment, off)
      <3>1. active_segment \in DOMAIN segs /\ ~(off + Cap > SegmentSize)
        BY <2>2 DEF SegmentFull, TypeInv, TypeOK
      <3>2. active_segment \in Nat /\ off \in Nat
        BY <3>1 DEF TypeInv, TypeOK, Segment
      <3>3. blk \in WriteBlock
        BY <3>2, BoundType
      <3>4. blk.segment_id = active_segment /\ blk.segment_offset = off /\ Len(blk.buf) = 0
        BY DEF Bound
      <3>5. AppendEntry(w, len, b, blk, active_segment, segs)
        BY <2>2
      <3> HIDE DEF blk
      <3>6. /\ segs \in [DOMAIN segs -> Segment] /\ DOMAIN segs \in SUBSET Nat
            /\ \A s \in DOMAIN segs : segs[s].write_offset <= SegmentSize
        BY DEF TypeInv, TypeOK, Layout, SegmentsBounded
      <3>7. /\ blk.segment_offset + Len(blk.buf) = segs[active_segment].write_offset
            /\ blk.segment_offset + Cap <= SegmentSize
            /\ Len(blk.buf) + EntryUnits(len) <= Cap
        BY <1>u, <3>1, <3>2, <3>4
      <3>0. LocsBelow /\ NoOverlap
        BY DEF Layout
      <3> DEFINE S == DOMAIN segs
      <3> DEFINE sg == segs
      <3> DEFINE a == active_segment
      <3>a. S \in SUBSET Nat /\ sg \in [S -> Segment] /\ a \in S /\ DOMAIN segs \subseteq S
        BY <3>1, <3>6
      <3>b. \A s \in DOMAIN segs : sg[s] = segs[s]
        OBVIOUS
      <3>c. \A s \in S : sg[s].write_offset <= SegmentSize
        BY <3>6
      <3>d. /\ blk.segment_id = a
            /\ blk.segment_offset + Len(blk.buf) = sg[a].write_offset
            /\ blk.segment_offset + Cap <= SegmentSize
            /\ Len(blk.buf) + EntryUnits(len) <= Cap
        BY <3>4, <3>7
      <3>e. AppendEntry(w, len, b, blk, a, sg)
        BY <3>5
      <3> HIDE DEF off, S, sg, a
      <3>8. /\ LocsBelow' /\ NoOverlap' /\ SegmentsBounded'
            /\ blocks'[b].segment_id = a
            /\ blocks'[b].segment_offset + Len(blocks'[b].buf) = segs'[a].write_offset
            /\ blocks'[b].segment_offset + Cap <= SegmentSize
        <4>1. AppendsAtEnd(len, b, blk, S, sg, a)
          BY <2>1, <3>3, <3>a, <3>b, <3>c, <3>d DEF AppendsAtEnd
        <4> QED
          BY <3>0, <3>e, <4>1, AppendEntryLayout
      <3>9. BlockAtEnd'
        BY <2>1, <2>2, <3>8 DEF BlockAtEnd, a
      <3>10. IdsFresh'
        <4>1. DOMAIN segs' = DOMAIN segs
          BY <3>5 DEF AppendEntry
        <4> QED
          BY <2>2, <4>1 DEF Layout, IdsFresh
      <3> QED
        BY <1>i, <3>5, <3>8, <3>9, <3>10 DEF Layout, AppendEntry
    <2>3. CASE /\ SegmentCreated
               /\ AppendEntry(w, len, b, Bound(id, 1), id, With(segs, id, NewSegment))
      <3> DEFINE S == DOMAIN segs \cup {id}
      <3> DEFINE sg == With(segs, id, NewSegment)
      <3> DEFINE blk == Bound(id, 1)
      <3>1. S \in SUBSET Nat /\ DOMAIN segs \subseteq S /\ id \in S
        BY <1>u DEF TypeInv, TypeOK
      <3>0. segs \in [DOMAIN segs -> Segment]
        BY DEF TypeInv, TypeOK
      <3>2. /\ sg \in [S -> Segment] /\ sg[id] = NewSegment
            /\ \A s \in DOMAIN segs : s # id => sg[s] = segs[s]
        <4>1. sg \in [S -> Segment]
          BY <3>0, NewSegmentType, WithType
        <4>2. sg[id] = NewSegment
          BY DEF With
        <4>3. \A s \in DOMAIN segs : s # id => sg[s] = segs[s]
          BY DEF With
        <4> QED
          BY <4>1, <4>2, <4>3
      <3>3. \A s \in DOMAIN segs : s # id
        BY <1>u DEF Layout, IdsFresh, TypeInv, TypeOK
      <3>4. blk \in WriteBlock
        BY <1>u, BoundType
      <3>5. blk.segment_id = id /\ blk.segment_offset = 1 /\ Len(blk.buf) = 0
        BY DEF Bound
      <3>6. NewSegment.write_offset = 1
        BY DEF NewSegment
      <3>7. AppendEntry(w, len, b, blk, id, sg)
        BY <2>3
      <3>8. /\ active_segment' = id /\ next_segment_id' = id + 1
        BY <2>3 DEF SegmentCreated
      <3> HIDE DEF blk, sg
      <3>9. /\ \A s \in DOMAIN segs : sg[s] = segs[s]
            /\ \A s \in S : sg[s].write_offset <= SegmentSize
        BY <3>2, <3>3, <3>6 DEF Layout, SegmentsBounded
      <3>10. /\ blk.segment_offset + Len(blk.buf) = sg[id].write_offset
             /\ blk.segment_offset + Cap <= SegmentSize
             /\ Len(blk.buf) + EntryUnits(len) <= Cap
        BY <1>u, <3>2, <3>5, <3>6
      <3> HIDE DEF S, id
      <3>11. /\ LocsBelow' /\ NoOverlap' /\ SegmentsBounded'
             /\ blocks'[b].segment_id = id
             /\ blocks'[b].segment_offset + Len(blocks'[b].buf) = segs'[id].write_offset
             /\ blocks'[b].segment_offset + Cap <= SegmentSize
        <4>1. LocsBelow /\ NoOverlap
          BY DEF Layout
        <4>2. AppendsAtEnd(len, b, blk, S, sg, id)
          BY <2>1, <3>1, <3>2, <3>4, <3>5, <3>9, <3>10 DEF AppendsAtEnd
        <4> QED
          BY <3>7, <4>1, <4>2, AppendEntryLayout
      <3>12. BlockAtEnd'
        BY <2>1, <3>8, <3>11 DEF BlockAtEnd
      <3>13. IdsFresh'
        <4>1. DOMAIN segs' = S
          BY <3>2, <3>7 DEF AppendEntry
        <4>2. \A s \in S : s < id + 1
          BY <1>u, <3>1 DEF S, id, Layout, IdsFresh
        <4> QED
          BY <3>8, <4>1, <4>2 DEF IdsFresh
      <3> QED
        BY <1>i, <3>7, <3>11, <3>12, <3>13 DEF Layout, AppendEntry
    <2>4. CASE SegmentNotCreated /\ Return(w) /\ UNCHANGED <<blocks, write_sequence, locs>>
      <3>1. /\ segs' = segs /\ active_segment' = Null /\ next_segment_id' = id + 1
            /\ locs' = locs
        BY <2>4 DEF SegmentNotCreated
      <3>2. IdsFresh'
        <4>1. DOMAIN segs \subseteq Nat /\ id \in Nat
          BY DEF TypeInv, TypeOK, id
        <4>2. \A s \in DOMAIN segs : s < id
          BY <1>u DEF Layout, IdsFresh, id
        <4> HIDE DEF id
        <4>3. \A s \in DOMAIN segs' : s < next_segment_id'
          BY <3>1, <4>1, <4>2
        <4> QED
          BY <4>3 DEF IdsFresh
      <3>3. LocsBelow' /\ BlockAtEnd' /\ NoOverlap' /\ SegmentsBounded'
        BY <3>1 DEF Layout, LocsBelow, BlockAtEnd, NoOverlap, SegmentsBounded
      <3> QED
        BY <1>i, <2>4, <3>2, <3>3 DEF Layout
    <2> QED
      BY <1>3, <2>2, <2>3, <2>4 DEF TakeBlock, b
  <1> QED
    BY <1>1, <1>2, <1>3 DEF AcquireBlock

(* Steps that move neither the segments' ends nor the active block. *)
LEMMA LayoutKept ==
    ASSUME TypeInv, Layout,
           UNCHANGED <<next_segment_id, blocks, locs>>,
           DOMAIN segs' = DOMAIN segs,
           \A s \in DOMAIN segs : segs'[s].write_offset = segs[s].write_offset,
           active_segment' \in {active_segment, Null},
           active_block' \in {active_block, Null},
           \A w \in Writers : /\ writer'[w].len = writer[w].len
                              /\ \/ writer'[w].pc = writer[w].pc
                                 \/ /\ writer[w].pc \in {"parking", "waiting", "woken"}
                                    /\ writer'[w].pc \in {"waiting", "woken"}
    PROVE  Layout'
  <1>1. \A l \in locs : l.segment_id \in DOMAIN segs
    BY DEF TypeInv, PointersOK
  <1>2. LocsBelow'
    BY <1>1 DEF Layout, LocsBelow
  <1>3. BlockAtEnd'
    <2>1. active_segment \in DOMAIN segs \cup {Null}
      BY DEF TypeInv, TypeOK
    <2> SUFFICES ASSUME active_block' # Null, active_segment' # Null
                 PROVE  /\ blocks'[active_block'].segment_id = active_segment'
                        /\ blocks'[active_block'].segment_offset + Len(blocks'[active_block'].buf)
                              = segs'[active_segment'].write_offset
                        /\ blocks'[active_block'].segment_offset + Cap <= SegmentSize
      BY DEF BlockAtEnd
    <2>2. active_block' = active_block /\ active_segment' = active_segment
      OBVIOUS
    <2>3. segs'[active_segment].write_offset = segs[active_segment].write_offset
      BY <2>1, <2>2
    <2> QED
      BY <2>2, <2>3 DEF Layout, BlockAtEnd
  <1>4. IdsFresh' /\ NoOverlap' /\ SegmentsBounded'
    BY DEF Layout, IdsFresh, NoOverlap, SegmentsBounded
  <1>5. WaitersFit' /\ NoDirect'
    BY DEF Layout, WaitersFit, NoDirect
  <1> QED
    BY <1>2, <1>3, <1>4, <1>5 DEF Layout

(* Every entry that a writer asks for fits into a block. *)
SmallEntries == \A len \in Lens : EntryUnits(len) <= Cap

LEMMA WriterLayout ==
    ASSUME SmallEntries, TypeInv, Layout,
           NEW w \in Writers, WriterStarts(w) \/ WriterGoesOn(w)
    PROVE  Layout'
  <1> USE ConfigAssumption
  <1>w. writer \in [Writers -> WriterState]
    BY DEF TypeInv, TypeOK
  <1>1. ASSUME NEW len \in Lens, WriteRejected(w, len) PROVE Layout'
    <2>1. /\ UNCHANGED <<segs, next_segment_id, active_segment, blocks, active_block, locs>>
          /\ writer' = [writer EXCEPT ![w] = IdleWriter]
          /\ writer[w].pc = "idle"
      BY <1>1 DEF WriteRejected, MayWrite, Return, segVars, blockVars
    <2>2. \A v \in Writers : writer'[v] = writer[v] \/ writer'[v].pc = "idle"
      BY <1>w, <2>1 DEF IdleWriter
    <2>3. WaitersFit' /\ NoDirect'
      BY <2>2 DEF Layout, WaitersFit, NoDirect
    <2> QED
      BY <2>1, <2>3 DEF Layout, LocsBelow, BlockAtEnd, IdsFresh, NoOverlap, SegmentsBounded
  <1>2. ASSUME NEW len \in Lens, WriteBuffered(w, len) PROVE Layout'
    <2> DEFINE b == active_block
    <2> DEFINE a == active_segment
    <2> DEFINE blk == blocks[b]
    <2> DEFINE sg == segs
    <2> DEFINE S == DOMAIN segs
    <2>1. /\ b \in Blocks /\ blk \in WriteBlock /\ len \in Nat
          /\ a \in S /\ S \in SUBSET Nat /\ sg \in [S -> Segment] /\ DOMAIN segs \subseteq S
      BY <1>2 DEF WriteBuffered, TypeInv, TypeOK
    <2>2. \A s \in DOMAIN segs : sg[s] = segs[s]
      OBVIOUS
    <2>3. \A s \in S : sg[s].write_offset <= SegmentSize
      BY DEF Layout, SegmentsBounded
    <2>4. /\ blk.segment_id = a
          /\ blk.segment_offset + Len(blk.buf) = sg[a].write_offset
          /\ blk.segment_offset + Cap <= SegmentSize
          /\ Len(blk.buf) + EntryUnits(len) <= Cap
      BY <1>2 DEF WriteBuffered, Fits, Layout, BlockAtEnd
    <2>5. AppendEntry(w, len, b, blk, a, sg)
      BY <1>2 DEF WriteBuffered
    <2>6. LocsBelow /\ NoOverlap
      BY DEF Layout
    <2>7. active_block' = b /\ active_segment' = a /\ next_segment_id' = next_segment_id
      BY <1>2 DEF WriteBuffered
    <2>8. DOMAIN segs' = DOMAIN segs /\ writer' = [writer EXCEPT ![w] = IdleWriter]
      BY <2>5 DEF AppendEntry, Return
    <2> HIDE DEF b, a, blk, sg, S
    <2>9. /\ LocsBelow' /\ NoOverlap' /\ SegmentsBounded'
          /\ blocks'[b].segment_id = a
          /\ blocks'[b].segment_offset + Len(blocks'[b].buf) = segs'[a].write_offset
          /\ blocks'[b].segment_offset + Cap <= SegmentSize
      <3>1. AppendsAtEnd(len, b, blk, S, sg, a)
        BY <2>1, <2>2, <2>3, <2>4 DEF AppendsAtEnd
      <3> QED
        BY <2>5, <2>6, <3>1, AppendEntryLayout
    <2>10. BlockAtEnd'
      BY <2>7, <2>9 DEF BlockAtEnd
    <2>11. IdsFresh'
      BY <2>7, <2>8 DEF Layout, IdsFresh
    <2>12. \A v \in Writers : writer'[v] = writer[v] \/ writer'[v].pc = "idle"
      BY <1>w, <2>8 DEF IdleWriter
    <2>13. WaitersFit' /\ NoDirect'
      BY <2>12 DEF Layout, WaitersFit, NoDirect
    <2> QED
      BY <2>9, <2>10, <2>11, <2>13 DEF Layout
  <1>3. ASSUME NEW len \in Lens, WriteRotate(w, len) PROVE Layout'
    <2>1. AcquireBlock(w, len) /\ EntryUnits(len) <= Cap /\ len \in Nat
      BY <1>3 DEF WriteRotate
    <2> QED
      BY <2>1, AcquireBlockLayout
  <1>4. ASSUME NEW len \in Lens, WriteDirect(w, len) PROVE FALSE
    <2>1. len \in Nat /\ EntryUnits(len) > Cap /\ EntryUnits(len) <= Cap
      BY <1>4 DEF WriteDirect, SmallEntries
    <2>2. EntryUnits(len) \in Nat
      BY <2>1, EntryUnitsType
    <2> QED
      BY <2>1, <2>2
  <1>5. CASE WriterParks(w)
    <2>1. /\ UNCHANGED <<segs, next_segment_id, active_segment, blocks, active_block, locs>>
          /\ writer[w].pc = "parking"
          /\ writer' = [writer EXCEPT ![w].pc = "waiting"]
      BY <1>5 DEF WriterParks, segVars, blockVars
    <2>2. \A v \in Writers : /\ writer'[v].len = writer[v].len
                             /\ \/ writer'[v].pc = writer[v].pc
                                \/ /\ writer[v].pc = "parking"
                                   /\ writer'[v].pc = "waiting"
      BY <1>w, <2>1 DEF WriterState
    <2> QED
      BY <2>1, <2>2, LayoutKept
  <1>6. CASE WriterRetries(w)
    <2>1. AcquireBlock(w, writer[w].len) /\ writer[w].pc = "woken"
      BY <1>6 DEF WriterRetries
    <2>2. writer[w].len \in Nat /\ EntryUnits(writer[w].len) <= Cap
      BY <1>w, <2>1 DEF Layout, WaitersFit, WriterState
    <2> QED
      BY <2>1, <2>2, AcquireBlockLayout
  <1>7. CASE DirectBegin(w) \/ DirectEnd(w)
    BY <1>7 DEF DirectBegin, DirectEnd, Layout, NoDirect
  <1> QED
    BY <1>1, <1>2, <1>3, <1>4, <1>5, <1>6, <1>7 DEF WriterStarts, WriterGoesOn

LEMMA LayoutNext == SmallEntries /\ LayoutInv /\ [Next]_vars => Layout'
  <1> SUFFICES ASSUME SmallEntries, TypeInv, Layout, [Next]_vars PROVE Layout'
    BY DEF LayoutInv
  <1>w. writer \in [Writers -> WriterState]
    BY DEF TypeInv, TypeOK
  <1>1. CASE UNCHANGED vars
    <2>1. UNCHANGED <<segs, next_segment_id, active_segment, blocks, active_block, locs, writer>>
      BY <1>1 DEF vars, segVars, blockVars
    <2> QED
      BY <2>1, LayoutKept
  <1>2. ASSUME NEW w \in Writers, WriterStarts(w) \/ WriterGoesOn(w) PROVE Layout'
    BY <1>2, WriterLayout
  <1>3. ASSUME NEW w \in Writers, NEW len \in Lens, Crash(w, len) PROVE Layout'
    <2>1. UNCHANGED <<segs, next_segment_id, active_segment, blocks, active_block, locs, writer>>
      BY <1>3 DEF Crash, segVars, blockVars
    <2> QED
      BY <2>1, LayoutKept
  <1>4. ASSUME NEW r \in Readers, ReaderStep(r) PROVE Layout'
    <2>1. UNCHANGED <<segs, next_segment_id, active_segment, blocks, active_block, locs, writer>>
      BY <1>4 DEF ReaderStep, segVars, blockVars
    <2> QED
      BY <2>1, LayoutKept
  <1>5. ASSUME NEW l \in locs, MarkDead(l) PROVE Layout'
    <2>1. UNCHANGED <<next_segment_id, active_segment, blocks, active_block, locs, writer>>
      BY <1>5 DEF MarkDead, blockVars
    <2>2. /\ l.segment_id \in DOMAIN segs /\ segs \in [DOMAIN segs -> Segment]
      BY DEF TypeInv, TypeOK, PointersOK
    <2>3. segs' = [segs EXCEPT ![l.segment_id].live_count = IF @ > 0 THEN @ - 1 ELSE @]
      BY <1>5 DEF MarkDead
    <2>4. /\ DOMAIN segs' = DOMAIN segs
          /\ \A s \in DOMAIN segs : segs'[s].write_offset = segs[s].write_offset
      BY <2>2, <2>3 DEF Segment
    <2> QED
      BY <2>1, <2>4, LayoutKept
  <1>6. CASE FlushStep
    <2>1. UNCHANGED <<segs, next_segment_id, active_segment, blocks, active_block, locs>>
      BY <1>6 DEF FlushStep
    <2>2. \/ UNCHANGED writer
          \/ \E w \in Writers : /\ writer[w].pc = "waiting"
                                /\ writer' = [writer EXCEPT ![w].pc = "woken"]
      BY <1>6 DEF FlushStep, FlushTake, FlushIdle, FlushParks, FlushWrite, FlushReturn,
                  DrainTake, DrainWrite, NotifyFree
    <2>3. \A v \in Writers : /\ writer'[v].len = writer[v].len
                             /\ \/ writer'[v].pc = writer[v].pc
                                \/ writer[v].pc = "waiting" /\ writer'[v].pc = "woken"
      BY <1>w, <2>2 DEF WriterState
    <2> QED
      BY <2>1, <2>3, LayoutKept
  <1>7. CASE CloseStarts \/ CloseGoesOn
    <2>1. UNCHANGED <<next_segment_id, blocks, locs>>
      BY <1>7 DEF CloseStarts, CloseGoesOn, CloseFrame
    <2>2. CASE CloseQueue
      BY <2>1, <2>2, LayoutKept DEF CloseQueue
    <2>3. CASE CloseStop
      BY <2>1, <2>3, LayoutKept DEF CloseStop
    <2>4. CASE CloseNotify
      <3>1. \A v \in Writers : /\ writer'[v].len = writer[v].len
                               /\ \/ writer'[v].pc = writer[v].pc
                                  \/ writer[v].pc = "waiting" /\ writer'[v].pc = "woken"
        BY <1>w, <2>4 DEF CloseNotify, WriterState
      <3>2. UNCHANGED <<segs, active_segment, active_block>>
        BY <2>4 DEF CloseNotify
      <3> QED
        BY <2>1, <3>1, <3>2, LayoutKept
    <2>5. CASE CloseFinish
      <3>1. \A seg \in Segment : Closed(seg).write_offset = seg.write_offset
        BY DEF Closed, Segment
      <3>2. /\ DOMAIN segs' = DOMAIN segs
            /\ \A s \in DOMAIN segs : segs'[s].write_offset = segs[s].write_offset
        BY <2>5, <3>1 DEF CloseFinish, TypeInv, TypeOK
      <3>3. active_segment' = Null /\ UNCHANGED <<active_block, writer>>
        BY <2>5 DEF CloseFinish
      <3> QED
        BY <2>1, <3>2, <3>3, LayoutKept
    <2> QED
      BY <1>7, <2>2, <2>3, <2>4, <2>5 DEF CloseStarts, CloseGoesOn
  <1> QED
    BY <1>1, <1>2, <1>3, <1>4, <1>5, <1>6, <1>7 DEF Next, Quiescent

(***************************************************************************)
(* When every entry fits a block, no two locations that write() returned   *)
(* share a unit of a segment, with any number of writers, whether or not   *)
(* close() runs beside them, and whatever I/O fails.                       *)
(***************************************************************************)
THEOREM LocationsDisjoint == SmallEntries => (Spec => []NoOverlap)
  <1> SUFFICES ASSUME SmallEntries PROVE Spec => []NoOverlap
    OBVIOUS
  <1>1. Init => LayoutInv
    BY TypeInit, LayoutInit DEF LayoutInv
  <1>2. LayoutInv /\ [Next]_vars => LayoutInv'
    BY TypeNext, LayoutNext DEF LayoutInv
  <1>3. LayoutInv => NoOverlap
    BY DEF LayoutInv, Layout
  <1> QED
    BY <1>1, <1>2, <1>3, PTL DEF Spec

(***************************************************************************)
(* Under the same condition no segment grows past segment_size: the block  *)
(* the rotation binds always has room for its whole capacity.              *)
(***************************************************************************)
THEOREM SegmentsNeverOverflow == SmallEntries => (Spec => []SegmentsBounded)
  <1> SUFFICES ASSUME SmallEntries PROVE Spec => []SegmentsBounded
    OBVIOUS
  <1>1. Init => LayoutInv
    BY TypeInit, LayoutInit DEF LayoutInv
  <1>2. LayoutInv /\ [Next]_vars => LayoutInv'
    BY TypeNext, LayoutNext DEF LayoutInv
  <1>3. LayoutInv => SegmentsBounded
    BY DEF LayoutInv, Layout
  <1> QED
    BY <1>1, <1>2, <1>3, PTL DEF Spec

-----------------------------------------------------------------------------
(***************************************************************************)
(* Durability, for one writer whose entries fit a block, and no write()    *)
(* beside close().  A location that was returned is on disk, or lost to a  *)
(* failed pwrite, or pending; a pending one is held by a block that is     *)
(* still to be written (Kept), blocks are written in the order of their    *)
(* offsets (InOrder), and so a file never reaches past a pending location  *)
(* (AtEnd).  All of it rests on what blocks and files hold of the          *)
(* locations they meet (BlockContent, DiskContent), which is true of the   *)
(* blocks in the pool too, and on a block having one role at a time.       *)
(***************************************************************************)
SingleWriter == \A v, w \in Writers : v = w

Pausing == {"parking", "waiting", "woken"}

(* The block the writer fills: while it waits for another one, that block is *)
(* active_block_ still, but the flush thread has it.                         *)
Owned(b) == b = active_block /\ \A w \in Writers : writer[w].pc \notin Pausing

(* The block the flush thread has taken, before and after its pwrite *)
Taken(b) == b = flusher.block /\ flusher.pc \in {"writing", "drain_writing"}
Written(b) == b = flusher.block /\ flusher.pc = "written"

Has(q, b) == \E i \in 1 .. Len(q) : q[i] = b
Before(q, b, c) == \E i, j \in 1 .. Len(q) : i <= j /\ q[i] = b /\ q[j] = c
Distinct(q) == \A i, j \in 1 .. Len(q) : q[i] = q[j] => i = j

Queued(b) == Has(flush_queue, b)
Free(b) == Has(free_pool, b)

(* Still to be written, and in which order *)
InFlow(b) == Taken(b) \/ Queued(b)

Ahead(b, c) == (Taken(b) /\ InFlow(c)) \/ Before(flush_queue, b, c)

Roles ==
    /\ Distinct(flush_queue)
    /\ Distinct(free_pool)
    /\ \A b \in Blocks : Queued(b) => ~Free(b)
    /\ \A b \in Blocks : Taken(b) \/ Written(b) => ~Queued(b) /\ ~Free(b)
    /\ \A b \in Blocks : Owned(b) => ~InFlow(b) /\ ~Written(b) /\ ~Free(b)
    /\ flushing_block = IF flusher.pc \in {"writing", "written"} THEN flusher.block ELSE Null

Stages ==
    /\ phase \in {"open", "stopping"} => flush_running
    /\ phase \notin {"open", "crashed"} =>
          /\ \A w \in Writers : writer[w].pc = "idle"
          /\ active_block # Null => Len(blocks[active_block].buf) = 0
    /\ flusher.pc \in {"drain", "drain_writing", "exited"} => ~flush_running
    /\ flusher.pc = "exited" => flush_queue = <<>>
    /\ phase = "closed" => flusher.pc = "exited"
    /\ phase = "open" => \A s \in DOMAIN segs : segs[s].open

-----------------------------------------------------------------------------
(* What blocks and files hold *)

End(b) == blocks[b].segment_offset + Len(blocks[b].buf)

Meets(b, l) ==
    /\ blocks[b].segment_id = l.segment_id
    /\ l.offset < End(b)
    /\ blocks[b].segment_offset < l.offset + l.disk_size

LocsSized == \A l \in locs : l.disk_size = EntryUnits(l.length) /\ l.seq < write_sequence

SeqOrder == \A l, m \in locs :
    l.segment_id = m.segment_id /\ l.seq < m.seq => l.offset < m.offset

BlocksBelow == \A b \in Blocks : End(b) <= segs[blocks[b].segment_id].write_offset
FilesBelow == \A s \in DOMAIN segs : Len(disk[s]) <= segs[s].write_offset

BlockContent == \A b \in Blocks, l \in locs : Meets(b, l) =>
    /\ blocks[b].segment_offset <= l.offset
    /\ l.offset + l.disk_size <= End(b)
    /\ \A i \in 1 .. l.disk_size :
          blocks[b].buf[l.offset - blocks[b].segment_offset + i] = <<l.seq, i, l.length>>

DiskContent == \A l \in locs : \A i \in 1 .. l.disk_size :
    l.offset + i <= Len(disk[l.segment_id]) =>
        disk[l.segment_id][l.offset + i] \in {<<l.seq, i, l.length>>, Hole}

Content ==
    LocsSized /\ SeqOrder /\ BlocksBelow /\ FilesBelow /\ BlockContent /\ DiskContent

-----------------------------------------------------------------------------
(* What is still to be written *)

Pending(l) == ~OnDisk(l) /\ l.seq \notin lost

Kept == \A l \in locs : Pending(l) => \E b \in Blocks : (Owned(b) \/ InFlow(b)) /\ Holds(b, l)

InOrder == \A c \in Blocks, l \in locs :
    InFlow(c) /\ Pending(l) /\ blocks[c].segment_id = l.segment_id =>
        \/ \E b \in Blocks : Ahead(b, c) /\ Holds(b, l)
        \/ End(c) <= l.offset

AtEnd == \A l \in locs : Pending(l) => Len(disk[l.segment_id]) <= l.offset

Flow == Kept /\ InOrder /\ AtEnd

(* A reader goes to the file only for what is there, and its second attempt  *)
(* follows an error of the first or has an excuse.                           *)
Excused(l) == l.seq \in lost \/ l.length = 0 \/ phase # "open"

Tries(rd) ==
    /\ rd.pc \in {"fd", "disk"} => OnDisk(rd.loc) \/ rd.loc.seq \in lost \/ phase # "open"
    /\ rd.attempt = 1 => rd.errs = 1 \/ Excused(rd.loc)

(* What ReadCorrect says of one reader *)
Served(rd) == rd.pc = "idle" =>
    /\ rd.status = "ok" =>
          \/ rd.data = EntryCells(rd.loc.seq, rd.loc.length)
          \/ /\ rd.loc.seq \in lost
             /\ \A i \in DOMAIN rd.data :
                   rd.data[i] \in {EntryCells(rd.loc.seq, rd.loc.length)[i], Hole}
    /\ rd.status = "too_small" => rd.loc.length > rd.buf_len
    /\ rd.status = "not_found" => Excused(rd.loc) \/ rd.errs = 2

ReadersInv == \A r \in Readers : Tries(reader[r]) /\ Served(reader[r])

StoreInv == LayoutInv /\ Roles /\ Stages /\ Content /\ Flow

-----------------------------------------------------------------------------
(* Reading and writing runs of units *)

(* A run of d units at offset o that lies within the k units from s on *)
LEMMA WithinRun ==
    ASSUME NEW o \in Nat, NEW d \in Nat, NEW s \in Nat, NEW k \in Nat
    PROVE  s <= o /\ o + d <= s + k =>
              /\ o - s \in Nat /\ (o - s) + d <= k
              /\ \A i \in 1 .. d : o - s + i \in 1 .. k /\ s + (o - s + i) = o + i
  OBVIOUS

LEMMA UnitWithin ==
    ASSUME NEW o \in Nat, NEW d \in Nat, NEW s \in Nat, NEW k \in Nat, NEW i \in 1 .. d,
           \/ s <= o /\ o + d <= s + k
           \/ s < o + i /\ o + i <= s + k
    PROVE  /\ o - s + i \in 1 .. k /\ s + (o - s + i) = o + i
           /\ o < s + k /\ s < o + d
  OBVIOUS

LEMMA PReadIs ==
    ASSUME NEW file \in Seq(Cell), NEW off \in Nat, NEW n \in Nat \ {0}
    PROVE  /\ Len(PRead(file, off, n)) = n <=> off + n <= Len(file)
           /\ off + n <= Len(file) =>
                 \A i \in 1 .. n : PRead(file, off, n)[i] = file[off + i]
  <1> DEFINE last == IF off + n < Len(file) THEN off + n ELSE Len(file)
  <1>1. Len(file) \in Nat /\ last \in Nat /\ last <= Len(file)
    OBVIOUS
  <1>2. PRead(file, off, n) = SubSeq(file, off + 1, last)
    BY DEF PRead
  <1>3. \A i \in off + 1 .. last : file[i] \in Cell
    BY <1>1
  <1>4. /\ Len(SubSeq(file, off + 1, last)) = IF off + 1 <= last THEN last - (off + 1) + 1 ELSE 0
        /\ \A i \in 1 .. last - (off + 1) + 1 : SubSeq(file, off + 1, last)[i] = file[(off + 1) + i - 1]
    BY <1>1, <1>3, SubSeqProperties
  <1>5. Len(PRead(file, off, n)) = n <=> off + n <= Len(file)
    BY <1>1, <1>2, <1>4
  <1>6. ASSUME off + n <= Len(file), NEW i \in 1 .. n
        PROVE  PRead(file, off, n)[i] = file[off + i]
    <2>1. last = off + n
      BY <1>1, <1>6
    <2>2. i \in 1 .. last - (off + 1) + 1 /\ (off + 1) + i - 1 = off + i
      BY <2>1
    <2> QED
      BY <1>2, <1>4, <2>2
  <1> QED
    BY <1>5, <1>6

(* What writing the first k units of buf at off makes of a file *)
Overwritten(new, file, off, buf, k) ==
    /\ Len(file) <= Len(new) /\ off + k <= Len(new)
    /\ Len(new) = Len(file) \/ Len(new) = off + k
    /\ \A i \in 1 .. k : new[off + i] = buf[i]
    /\ \A i \in 1 .. Len(new) : i <= off \/ off + k < i =>
          new[i] = IF i <= Len(file) THEN file[i] ELSE Hole

LEMMA PWriteIs ==
    ASSUME NEW file \in Seq(Cell), NEW cells \in Seq(Cell), NEW off \in Nat
    PROVE  Overwritten(PWrite(file, off, cells), file, off, cells, Len(cells))
  <1> DEFINE end == off + Len(cells)
  <1> DEFINE size == IF Len(file) < end THEN end ELSE Len(file)
  <1> DEFINE new == PWrite(file, off, cells)
  <1>1. Len(file) \in Nat /\ Len(cells) \in Nat /\ size \in Nat
    OBVIOUS
  <1>2. new = [i \in 1 .. size |->
            IF i \in off + 1 .. end THEN cells[i - off]
            ELSE IF i <= Len(file) THEN file[i] ELSE Hole]
    BY DEF PWrite
  <1>3. new \in Seq(Cell)
    BY PWriteType
  <1>4. Len(new) = size
    BY <1>1, <1>2, <1>3
  <1>5. ASSUME NEW i \in 1 .. Len(cells) PROVE new[off + i] = cells[i]
    <2>1. off + i \in 1 .. size /\ off + i \in off + 1 .. end /\ (off + i) - off = i
      BY <1>1
    <2> QED
      BY <1>2, <2>1
  <1>6. ASSUME NEW i \in 1 .. Len(new), i <= off \/ off + Len(cells) < i
        PROVE  new[i] = IF i <= Len(file) THEN file[i] ELSE Hole
    <2>1. i \notin off + 1 .. end /\ i \in 1 .. size
      BY <1>1, <1>4, <1>6
    <2> QED
      BY <1>2, <2>1
  <1> HIDE DEF new
  <1>7. /\ Len(file) <= Len(new) /\ off + Len(cells) <= Len(new)
        /\ Len(new) = Len(file) \/ Len(new) = off + Len(cells)
    BY <1>1, <1>4
  <1> QED
    BY <1>5, <1>6, <1>7 DEF new, Overwritten

(* A run of n units equals an entry's cells when it is one cell after the    *)
(* other.                                                                    *)
LEMMA EntryIs ==
    ASSUME NEW s \in Seq(Cell), NEW seq \in Nat, NEW len \in Nat
    PROVE  s = EntryCells(seq, len) <=>
              /\ Len(s) = EntryUnits(len)
              /\ \A i \in 1 .. EntryUnits(len) : s[i] = <<seq, i, len>>
  <1>1. EntryUnits(len) \in Nat
    BY EntryUnitsType
  <1>2. /\ EntryCells(seq, len) \in Seq(Cell) /\ Len(EntryCells(seq, len)) = EntryUnits(len)
    BY EntryCellsType
  <1>3. \A i \in 1 .. EntryUnits(len) : EntryCells(seq, len)[i] = <<seq, i, len>>
    BY DEF EntryCells
  <1> HIDE DEF EntryCells
  <1>4. ASSUME Len(s) = EntryUnits(len),
               \A i \in 1 .. EntryUnits(len) : s[i] = EntryCells(seq, len)[i]
        PROVE  s = EntryCells(seq, len)
    BY <1>2, <1>4, SeqEqual
  <1> QED
    BY <1>2, <1>3, <1>4
(* A file holds an entry, and the entry at a location. *)
RunHas(file, off, n, seq, len) ==
    off + n <= Len(file) /\ \A i \in 1 .. n : file[off + i] = <<seq, i, len>>

FileHas(file, l) == RunHas(file, l.offset, l.disk_size, l.seq, l.length)

LEMMA RunIsEntry ==
    ASSUME NEW file \in Seq(Cell), NEW seq \in Nat, NEW off \in Nat, NEW len \in Nat,
           NEW n, n = EntryUnits(len)
    PROVE  PRead(file, off, n) = EntryCells(seq, len) <=> RunHas(file, off, n, seq, len)
  <1>1. n \in Nat \ {0} /\ off \in Int /\ off >= 0 /\ n \in Int
    BY EntryUnitsType
  <1>2. PICK run : run = PRead(file, off, n)
    OBVIOUS
  <1>3. run \in Seq(Cell)
    BY <1>1, <1>2, PReadType, Zenon
  <1>4. run = EntryCells(seq, len) <=>
            Len(run) = n /\ \A i \in 1 .. n : run[i] = <<seq, i, len>>
    BY <1>3, EntryIs
  <1>5. /\ Len(run) = n <=> off + n <= Len(file)
        /\ off + n <= Len(file) => \A i \in 1 .. n : run[i] = file[off + i]
    BY <1>1, <1>2, PReadIs
  <1>6. ASSUME off + n <= Len(file), \A i \in 1 .. n : file[off + i] = <<seq, i, len>>
        PROVE  run = EntryCells(seq, len)
    <2>1. \A i \in 1 .. n : run[i] = <<seq, i, len>>
      BY <1>5, <1>6, Zenon
    <2> QED
      BY <1>4, <1>5, <1>6, <2>1, Zenon
  <1>7. ASSUME run = EntryCells(seq, len)
        PROVE  off + n <= Len(file) /\ \A i \in 1 .. n : file[off + i] = <<seq, i, len>>
    <2>1. Len(run) = n /\ \A i \in 1 .. n : run[i] = <<seq, i, len>>
      BY <1>4, <1>7, Zenon
    <2> QED
      BY <1>5, <2>1, Zenon
  <1> QED
    BY <1>2, <1>6, <1>7, Zenon DEF RunHas

LEMMA FileHasIs ==
    ASSUME NEW l \in BlobLocation, l.disk_size = EntryUnits(l.length), NEW file \in Seq(Cell)
    PROVE  /\ PRead(file, l.offset, l.disk_size) = EntryCells(l.seq, l.length)
                 <=> FileHas(file, l)
           /\ l.disk_size \in Nat \ {0}
  <1>1. l.seq \in Nat /\ l.length \in Nat /\ l.offset \in Nat /\ l.disk_size \in Nat \ {0}
    BY EntryUnitsType DEF BlobLocation
  <1> QED
    BY <1>1, RunIsEntry, Zenon DEF FileHas

LEMMA LocFacts ==
    ASSUME TypeInv, LocsSized, NEW l \in locs
    PROVE  /\ l \in BlobLocation
           /\ l.disk_size = EntryUnits(l.length)
           /\ l.disk_size \in Nat \ {0} /\ l.offset \in Nat /\ l.length \in Nat
           /\ l.seq \in Nat /\ l.segment_id \in DOMAIN segs
           /\ disk[l.segment_id] \in Seq(Cell) /\ segs[l.segment_id].write_offset \in Nat
           /\ OnDisk(l) <=> FileHas(disk[l.segment_id], l)
  <1>1. /\ l \in BlobLocation /\ l.disk_size = EntryUnits(l.length)
        /\ l.segment_id \in DOMAIN segs /\ disk[l.segment_id] \in Seq(Cell)
    BY DEF TypeInv, TypeOK, PointersOK, LocsSized
  <1>2. segs[l.segment_id].write_offset \in Nat
    BY <1>1 DEF TypeInv, TypeOK, Segment
  <1>3. l.offset \in Nat /\ l.length \in Nat /\ l.seq \in Nat
    BY <1>1 DEF BlobLocation
  <1> QED
    BY <1>1, <1>2, <1>3, FileHasIs DEF OnDisk

LEMMA BlockFacts ==
    ASSUME TypeInv, NEW b \in Blocks
    PROVE  /\ blocks[b] \in WriteBlock
           /\ blocks[b].segment_id \in DOMAIN segs /\ blocks[b].segment_offset \in Nat
           /\ blocks[b].buf \in Seq(Cell) /\ Len(blocks[b].buf) \in Nat
           /\ End(b) \in Nat /\ blocks[b].segment_offset <= End(b)
           /\ disk[blocks[b].segment_id] \in Seq(Cell)
           /\ segs[blocks[b].segment_id].write_offset \in Nat
  <1>1. /\ blocks[b] \in WriteBlock /\ blocks[b].segment_id \in DOMAIN segs
    BY DEF TypeInv, TypeOK, PointersOK
  <1>2. disk[blocks[b].segment_id] \in Seq(Cell) /\ segs[blocks[b].segment_id] \in Segment
    BY <1>1 DEF TypeInv, TypeOK
  <1>3. /\ blocks[b].segment_offset \in Nat /\ blocks[b].buf \in Seq(Cell)
        /\ segs[blocks[b].segment_id].write_offset \in Nat
    BY <1>1, <1>2 DEF WriteBlock, Segment
  <1>4. Len(blocks[b].buf) \in Nat
    BY <1>3
  <1> QED
    BY <1>1, <1>2, <1>3, <1>4 DEF End

(* A block that holds a location's first unit holds all of the entry. *)
LEMMA HoldsAll ==
    ASSUME TypeInv, LocsSized, BlockContent, NEW b \in Blocks, NEW l \in locs, Holds(b, l)
    PROVE  /\ blocks[b].segment_id = l.segment_id
           /\ blocks[b].segment_offset <= l.offset
           /\ l.offset + l.disk_size <= End(b)
           /\ \A i \in 1 .. l.disk_size :
                 blocks[b].buf[l.offset - blocks[b].segment_offset + i] = <<l.seq, i, l.length>>
  <1>1. Meets(b, l)
    BY LocFacts, BlockFacts DEF Holds, Meets, End
  <1> QED
    BY <1>1 DEF BlockContent, Meets

(***************************************************************************)
(* A pwrite of the first k units of block b.                               *)
(***************************************************************************)
LEMMA WriteOutFirst ==
    ASSUME NEW blk \in WriteBlock, WriteOut(blk)
    PROVE  \E k \in 0 .. Len(blk.buf) :
              /\ disk' = [disk EXCEPT ![blk.segment_id] =
                            PWrite(@, blk.segment_offset, SubSeq(blk.buf, 1, k))]
              /\ \/ k = Len(blk.buf) /\ lost' = lost
                 \/ lost' = lost \cup {c[1] : c \in Range(blk.buf)}
  <1>1. blk.buf \in Seq(Cell) /\ Len(blk.buf) \in Nat
    BY DEF WriteBlock
  <1>2. SubSeq(blk.buf, 1, Len(blk.buf)) = blk.buf
    BY <1>1, SubSeqFull
  <1>3. CASE /\ disk' = [disk EXCEPT ![blk.segment_id] = PWrite(@, blk.segment_offset, blk.buf)]
             /\ UNCHANGED <<faults, lost>>
    <2>1. Len(blk.buf) \in 0 .. Len(blk.buf)
      BY <1>1
    <2> QED
      BY <1>2, <1>3, <2>1
  <1>4. CASE /\ lost' = lost \cup {c[1] : c \in Range(blk.buf)}
             /\ \E k \in 0 .. Len(blk.buf) - 1 :
                  disk' = [disk EXCEPT ![blk.segment_id] =
                             PWrite(@, blk.segment_offset, SubSeq(blk.buf, 1, k))]
    <2>1. PICK k \in 0 .. Len(blk.buf) - 1 :
                  disk' = [disk EXCEPT ![blk.segment_id] =
                             PWrite(@, blk.segment_offset, SubSeq(blk.buf, 1, k))]
      BY <1>4
    <2>2. k \in 0 .. Len(blk.buf)
      BY <1>1
    <2> QED
      BY <1>4, <2>1, <2>2
  <1> QED
    BY <1>3, <1>4 DEF WriteOut
(* The cells of an entry that lies in a block are in the block's Range. *)
LEMMA HeldIsLost ==
    ASSUME TypeInv, LocsSized, BlockContent, NEW b \in Blocks, NEW l \in locs, Holds(b, l)
    PROVE  l.seq \in {c[1] : c \in Range(blocks[b].buf)}
  <1>1. PICK at \in 1 .. Len(blocks[b].buf) : blocks[b].buf[at] = <<l.seq, 1, l.length>>
    <2> DEFINE at == l.offset - blocks[b].segment_offset + 1
    <2>1. /\ blocks[b].segment_offset <= l.offset /\ l.offset + l.disk_size <= End(b)
          /\ \A i \in 1 .. l.disk_size :
                 blocks[b].buf[l.offset - blocks[b].segment_offset + i] = <<l.seq, i, l.length>>
      BY HoldsAll
    <2>2. 1 \in 1 .. l.disk_size
      BY LocFacts
    <2>3. blocks[b].buf[at] = <<l.seq, 1, l.length>>
      BY <2>1, <2>2
    <2>4. at \in 1 .. Len(blocks[b].buf)
      <3>1. /\ l.offset \in Nat /\ l.disk_size \in Nat /\ blocks[b].segment_offset \in Nat
            /\ Len(blocks[b].buf) \in Nat
        BY LocFacts, BlockFacts
      <3>2. l.offset + l.disk_size <= blocks[b].segment_offset + Len(blocks[b].buf)
        BY <2>1 DEF End
      <3> QED
        BY <2>1, <2>2, <3>1, <3>2, WithinRun
    <2> QED
      BY <2>3, <2>4
  <1>2. blocks[b].buf \in Seq(Cell)
    BY BlockFacts
  <1>3. blocks[b].buf[at] \in Range(blocks[b].buf)
    BY <1>2 DEF Range
  <1>4. blocks[b].buf[at][1] = l.seq
    BY <1>1
  <1> QED
    BY <1>3, <1>4

(* A pwrite of the first k units of buf *)
LEMMA PWriteFirst ==
    ASSUME NEW file \in Seq(Cell), NEW buf \in Seq(Cell), NEW so \in Nat,
           NEW k \in 0 .. Len(buf), NEW new, new = PWrite(file, so, SubSeq(buf, 1, k))
    PROVE  new \in Seq(Cell) /\ Len(new) \in Nat /\ Overwritten(new, file, so, buf, k)
  <1>1. PICK cells : cells = SubSeq(buf, 1, k)
    OBVIOUS
  <1>2. cells \in Seq(Cell) /\ Len(cells) = k /\ \A i \in 1 .. k : cells[i] = buf[i]
    <2>1. \A i \in 1 .. k : buf[i] \in Cell
      OBVIOUS
    <2>2. k \in Int /\ 1 \in Int
      OBVIOUS
    <2>3. /\ SubSeq(buf, 1, k) \in Seq(Cell)
          /\ Len(SubSeq(buf, 1, k)) = IF 1 <= k THEN k - 1 + 1 ELSE 0
          /\ \A i \in 1 .. k - 1 + 1 : SubSeq(buf, 1, k)[i] = buf[1 + i - 1]
      BY <2>1, <2>2, SubSeqProperties
    <2>4. k - 1 + 1 = k /\ \A i \in 1 .. k : 1 + i - 1 = i
      OBVIOUS
    <2> QED
      BY <1>1, <2>3, <2>4
  <1>3. new = PWrite(file, so, cells)
    BY <1>1
  <1>4. new \in Seq(Cell) /\ Len(new) \in Nat
    BY <1>2, <1>3, PWriteType, LenProperties
  <1>5. Overwritten(new, file, so, cells, Len(cells))
    BY <1>2, <1>3, PWriteIs
  <1>6. Overwritten(new, file, so, buf, k)
    BY <1>2, <1>5 DEF Overwritten
  <1> QED
    BY <1>4, <1>6

(***************************************************************************)
(* A pwrite of block b, whole or in part: what is on disk stays, what the  *)
(* block holds is on disk or lost, and the file grows at most to the end   *)
(* of the block.                                                           *)
(***************************************************************************)
LEMMA WriteOutKeeps ==
    ASSUME TypeInv, TypeInv', Content, NEW b \in Blocks, WriteOut(blocks[b]),
           UNCHANGED <<segs, blocks, locs, write_sequence>>
    PROVE  /\ Content'
           /\ lost \subseteq lost'
           /\ \A l \in locs : OnDisk(l) => OnDisk(l)'
           /\ \A l \in locs : Holds(b, l) => ~Pending(l)'
           /\ \A s \in DOMAIN segs :
                 \/ Len(disk'[s]) = Len(disk[s])
                 \/ s = blocks[b].segment_id /\ Len(disk'[s]) <= End(b)
  <1>c. LocsSized /\ SeqOrder /\ BlocksBelow /\ FilesBelow /\ BlockContent /\ DiskContent
    BY DEF Content
  <1>d. LocsSized' /\ SeqOrder' /\ BlocksBelow' /\ BlockContent'
    BY <1>c DEF LocsSized, SeqOrder, BlocksBelow, BlockContent, End, Meets
  <1>e. /\ b \in Blocks /\ blocks[b] \in WriteBlock
        /\ blocks[b].segment_id \in DOMAIN segs /\ blocks[b].segment_offset \in Nat
        /\ blocks[b].buf \in Seq(Cell) /\ Len(blocks[b].buf) \in Nat
        /\ disk[blocks[b].segment_id] \in Seq(Cell)
    BY BlockFacts
  <1> DEFINE s == blocks[b].segment_id
  <1> DEFINE so == blocks[b].segment_offset
  <1> DEFINE buf == blocks[b].buf
  <1> DEFINE file == disk[s]
  <1>1. PICK k \in 0 .. Len(buf) :
              /\ disk' = [disk EXCEPT ![s] = PWrite(@, so, SubSeq(buf, 1, k))]
              /\ \/ k = Len(buf) /\ lost' = lost
                 \/ lost' = lost \cup {c[1] : c \in Range(buf)}
    BY <1>e, WriteOutFirst
  <1>2. PICK new : new = PWrite(file, so, SubSeq(buf, 1, k))
    OBVIOUS
  <1>3. disk' = [disk EXCEPT ![s] = new] /\ DOMAIN disk = DOMAIN segs
    BY <1>1, <1>2 DEF TypeInv, TypeOK
  <1>4. /\ new \in Seq(Cell) /\ Len(new) \in Nat
        /\ Len(file) <= Len(new) /\ so + k <= Len(new)
        /\ Len(new) = Len(file) \/ Len(new) = so + k
        /\ \A i \in 1 .. k : new[so + i] = buf[i]
        /\ \A i \in 1 .. Len(new) : i <= so \/ so + k < i =>
               new[i] = IF i <= Len(file) THEN file[i] ELSE Hole
    <2>1. new \in Seq(Cell) /\ Len(new) \in Nat /\ Overwritten(new, file, so, buf, k)
      BY <1>2, <1>e, PWriteFirst
    <2> QED
      BY <2>1 DEF Overwritten
  <1>5. new \in Seq(Cell) /\ Len(new) \in Nat
    BY <1>4
  <1>6. disk'[s] = new /\ \A t \in DOMAIN segs : t # s => disk'[t] = disk[t]
    BY <1>3, <1>e
  <1>7. so + k <= End(b) /\ End(b) <= segs[s].write_offset /\ segs[s].write_offset \in Nat
        /\ End(b) \in Nat
    <2>1. End(b) \in Nat /\ segs[s].write_offset \in Nat
      BY BlockFacts
    <2>2. End(b) <= segs[s].write_offset
      BY <1>c DEF BlocksBelow
    <2>3. End(b) = so + Len(buf)
      BY DEF End
    <2>4. k \in Nat /\ k <= Len(buf)
      BY <1>e
    <2>5. so + k <= End(b)
      BY <1>e, <2>3, <2>4
    <2> QED
      BY <2>1, <2>2, <2>5
  <1>8. \A t \in DOMAIN segs : \/ Len(disk'[t]) = Len(disk[t])
                               \/ t = s /\ Len(disk'[t]) <= End(b)
    BY <1>4, <1>5, <1>6, <1>7
  <1>9. FilesBelow'
    <2>1. \A t \in DOMAIN segs : Len(disk[t]) <= segs[t].write_offset
      BY <1>c DEF FilesBelow
    <2>a. Len(new) = Len(file) \/ Len(new) = so + k
      BY <1>4
    <2>b. Len(file) <= segs[s].write_offset
      BY <1>e, <2>1
    <2>c. so + k <= segs[s].write_offset
      <3>1. so \in Nat /\ k \in Nat
        BY <1>e
      <3> QED
        BY <1>7, <3>1
    <2>2. Len(disk'[s]) <= segs[s].write_offset
      BY <1>6, <2>a, <2>b, <2>c, Zenon
    <2>3. \A t \in DOMAIN segs : Len(disk'[t]) <= segs[t].write_offset
      BY <1>6, <2>1, <2>2
    <2> QED
      BY <2>3 DEF FilesBelow
  (* A unit of an entry in this file: the block's own, or as it was. *)
  <1>10. ASSUME NEW l \in locs, l.segment_id = s, NEW i \in 1 .. l.disk_size,
                l.offset + i <= Len(new)
         PROVE  \/ new[l.offset + i] = <<l.seq, i, l.length>>
                \/ new[l.offset + i] = IF l.offset + i <= Len(file) THEN file[l.offset + i]
                                       ELSE Hole
    <2>1. l.offset \in Nat /\ l.disk_size \in Nat /\ i \in Nat /\ i >= 1 /\ i <= l.disk_size
      BY <1>c, LocFacts
    <2>n. so \in Nat /\ k \in Nat /\ Len(new) \in Nat /\ End(b) \in Nat /\ so + k <= End(b)
      BY <1>5, <1>7, <1>e
    <2>2. CASE so < l.offset + i /\ l.offset + i <= so + k
      <3>0. /\ l.offset - so + i \in 1 .. k /\ so + (l.offset - so + i) = l.offset + i
            /\ l.offset < so + k /\ so < l.offset + l.disk_size
        BY <2>1, <2>2, <2>n, UnitWithin, Zenon
      <3>a. l.offset < End(b)
        <4> HIDE DEF so
        <4> QED
          BY <2>1, <2>n, <3>0
      <3>1. Meets(b, l)
        BY <1>10, <3>0, <3>a DEF Meets
      <3>2. buf[l.offset - so + i] = <<l.seq, i, l.length>>
        BY <1>c, <3>1 DEF BlockContent
      <3> QED
        BY <1>4, <3>0, <3>2
    <2>3. CASE ~(so < l.offset + i /\ l.offset + i <= so + k)
      <3>0. l.offset + i <= so \/ so + k < l.offset + i
        BY <2>1, <2>3, <2>n
      <3>1. l.offset + i \in 1 .. Len(new) /\ (l.offset + i <= so \/ so + k < l.offset + i)
        BY <1>10, <2>1, <2>n, <3>0
      <3> QED
        BY <1>4, <3>1
    <2> QED
      BY <2>2, <2>3
  <1>11. DiskContent'
    <2> SUFFICES ASSUME NEW l \in locs, NEW i \in 1 .. l.disk_size,
                        l.offset + i <= Len(disk'[l.segment_id])
                 PROVE  disk'[l.segment_id][l.offset + i] \in {<<l.seq, i, l.length>>, Hole}
      BY DEF DiskContent
    <2>1. CASE l.segment_id # s
      <3>1. disk'[l.segment_id] = disk[l.segment_id]
        BY <1>6, <1>c, <2>1, LocFacts
      <3> QED
        BY <1>c, <3>1 DEF DiskContent
    <2>2. CASE l.segment_id = s
      <3>1. l.offset + i <= Len(new)
        BY <1>6, <2>2
      <3>2. \/ new[l.offset + i] = <<l.seq, i, l.length>>
            \/ new[l.offset + i] = IF l.offset + i <= Len(file) THEN file[l.offset + i] ELSE Hole
        BY <1>10, <2>2, <3>1
      <3>3. l.offset + i <= Len(file) => file[l.offset + i] \in {<<l.seq, i, l.length>>, Hole}
        BY <1>c, <2>2 DEF DiskContent
      <3> QED
        BY <1>6, <2>2, <3>2, <3>3
    <2> QED
      BY <2>1, <2>2
  <1>12. ASSUME NEW l \in locs
         PROVE  /\ OnDisk(l) <=> FileHas(disk[l.segment_id], l)
                /\ OnDisk(l)' <=> FileHas(disk'[l.segment_id], l)
    <2>1. l \in BlobLocation /\ l.disk_size = EntryUnits(l.length) /\ l.segment_id \in DOMAIN segs
          /\ (OnDisk(l) <=> FileHas(disk[l.segment_id], l))
      BY <1>c, LocFacts
    <2>2. disk'[l.segment_id] \in Seq(Cell)
      BY <2>1 DEF TypeInv, TypeOK
    <2>3. PRead(disk'[l.segment_id], l.offset, l.disk_size) = EntryCells(l.seq, l.length)
             <=> FileHas(disk'[l.segment_id], l)
      BY <2>1, <2>2, FileHasIs
    <2> QED
      BY <2>1, <2>3 DEF OnDisk
  <1>13. ASSUME NEW l \in locs, OnDisk(l) PROVE OnDisk(l)'
    <2>1. CASE l.segment_id # s
      <3>1. disk'[l.segment_id] = disk[l.segment_id]
        BY <1>6, <1>c, <2>1, LocFacts
      <3> QED
        BY <1>12, <1>13, <3>1
    <2>2. CASE l.segment_id = s
      <3>0. l.offset \in Nat /\ l.disk_size \in Nat /\ Len(file) \in Nat
        BY <1>c, <1>e, LocFacts
      <3>1. /\ l.offset + l.disk_size <= Len(file)
            /\ \A i \in 1 .. l.disk_size : file[l.offset + i] = <<l.seq, i, l.length>>
        BY <1>12, <1>13, <2>2 DEF FileHas, RunHas
      <3>2. l.offset + l.disk_size <= Len(new)
        BY <1>4, <1>5, <3>0, <3>1
      <3>3. ASSUME NEW i \in 1 .. l.disk_size
            PROVE  new[l.offset + i] = <<l.seq, i, l.length>>
        <4>1. l.offset + i <= Len(new) /\ l.offset + i <= Len(file)
          BY <3>0, <3>1, <3>2, <1>5
        <4> QED
          BY <1>10, <2>2, <3>1, <4>1
      <3>4. FileHas(new, l)
        BY <3>2, <3>3 DEF FileHas, RunHas
      <3> QED
        BY <1>6, <1>12, <2>2, <3>4
    <2> QED
      BY <2>1, <2>2
  <1>14. ASSUME NEW l \in locs, Holds(b, l) PROVE ~Pending(l)'
    <2>1. CASE k = Len(buf)
      <3>1. /\ l.segment_id = s /\ so <= l.offset /\ l.offset + l.disk_size <= End(b)
            /\ \A i \in 1 .. l.disk_size : buf[l.offset - so + i] = <<l.seq, i, l.length>>
        BY <1>c, <1>14, HoldsAll
      <3>2. l.offset \in Nat /\ l.disk_size \in Nat
        BY <1>c, LocFacts
      <3>3. End(b) = so + k
        BY <2>1 DEF End
      <3>4. l.offset + l.disk_size <= Len(new)
        BY <1>4, <1>5, <1>e, <3>1, <3>2, <3>3
      <3>5. ASSUME NEW i \in 1 .. l.disk_size
            PROVE  new[l.offset + i] = <<l.seq, i, l.length>>
        <4>1. /\ so \in Nat /\ k \in Nat /\ so <= l.offset /\ l.offset + l.disk_size <= so + k
              /\ l.offset \in Nat /\ l.disk_size \in Nat
          BY <1>e, <3>1, <3>2, <3>3
        <4>a. PICK o, d, t : o = l.offset /\ d = l.disk_size /\ t = so
          OBVIOUS
        <4>b. /\ o \in Nat /\ d \in Nat /\ t \in Nat /\ k \in Nat /\ i \in 1 .. d
              /\ t <= o /\ o + d <= t + k
          BY <4>1, <4>a
        <4>c. o - t + i \in 1 .. k /\ t + (o - t + i) = o + i
          BY <4>b, UnitWithin
        <4>2. l.offset - so + i \in 1 .. k /\ so + (l.offset - so + i) = l.offset + i
          BY <4>a, <4>c
        <4> QED
          BY <1>4, <3>1, <4>2
      <3>6. FileHas(new, l)
        BY <3>4, <3>5 DEF FileHas, RunHas
      <3> QED
        BY <1>6, <1>12, <3>1, <3>6 DEF Pending
    <2>2. CASE lost' = lost \cup {c[1] : c \in Range(buf)}
      <3>1. l.seq \in lost'
        BY <1>c, <1>14, <2>2, HeldIsLost
      <3> QED
        BY <3>1 DEF Pending
    <2> QED
      BY <1>1, <2>1, <2>2
  <1>15. lost \subseteq lost'
    BY <1>1
  <1> QED
    BY <1>8, <1>9, <1>11, <1>13, <1>14, <1>15, <1>d DEF Content
(***************************************************************************)
(* An entry appended at the end of segment a: to block b as it is, or to b *)
(* newly bound.  The entry's location is new.                              *)
(***************************************************************************)
EntryAppended(len, b, blk, a, new) ==
    /\ len \in Nat /\ b \in Blocks /\ blk \in WriteBlock
    /\ blk = blocks[b] \/ Len(blk.buf) = 0
    /\ blk.segment_id = a
    /\ new = Location(write_sequence, a, blk.segment_offset + Len(blk.buf), len)
    /\ locs' = locs \cup {new}
    /\ write_sequence' = write_sequence + 1
    /\ blocks' = [blocks EXCEPT ![b] =
                    [blk EXCEPT !.buf = blk.buf \o EntryCells(write_sequence, len)]]
    /\ DOMAIN segs' = DOMAIN segs \cup {a}
    /\ \A s \in DOMAIN segs : s # a => segs'[s].write_offset = segs[s].write_offset
    /\ segs'[a].write_offset = new.offset + new.disk_size
    /\ a \in DOMAIN segs => segs[a].write_offset = new.offset
    /\ a \notin DOMAIN segs => Len(disk'[a]) <= new.offset
    /\ \A s \in DOMAIN segs : disk'[s] = disk[s]

LEMMA AppendKeeps ==
    ASSUME TypeInv, TypeInv', LocsBelow, Content,
           NEW len, NEW b, NEW blk, NEW a, NEW new, EntryAppended(len, b, blk, a, new)
    PROVE  /\ Content'
           /\ \A l \in locs : OnDisk(l)' <=> OnDisk(l)
           /\ ~OnDisk(new)' /\ Len(disk'[a]) <= new.offset
           /\ \A c \in Blocks : c # b => blocks'[c] = blocks[c]
           /\ blk = blocks[b] => \A l \in locs : Holds(b, l) => Holds(b, l)'
           /\ Holds(b, new)'
           /\ \A c \in Blocks : c # b /\ blocks[c].segment_id = a => End(c) <= new.offset
  <1>c. LocsSized /\ SeqOrder /\ BlocksBelow /\ FilesBelow /\ BlockContent /\ DiskContent
    BY DEF Content
  <1>1. /\ len \in Nat /\ b \in Blocks /\ blk \in WriteBlock /\ blk.segment_id = a
        /\ blk.segment_offset \in Nat /\ blk.buf \in Seq(Cell) /\ Len(blk.buf) \in Nat
        /\ write_sequence \in Nat
    BY DEF EntryAppended, TypeInv, TypeOK, WriteBlock
  <1>2. PICK cells : cells = EntryCells(write_sequence, len)
    OBVIOUS
  <1>3. /\ cells \in Seq(Cell) /\ Len(cells) = EntryUnits(len) /\ EntryUnits(len) \in Nat \ {0}
        /\ \A i \in 1 .. EntryUnits(len) : cells[i] = <<write_sequence, i, len>>
    <2>1. /\ cells \in Seq(Cell) /\ Len(cells) = EntryUnits(len)
          /\ EntryUnits(len) \in Nat \ {0}
      BY <1>1, <1>2, EntryCellsType, EntryUnitsType
    <2>2. \A i \in 1 .. EntryUnits(len) : cells[i] = <<write_sequence, i, len>>
      BY <1>2 DEF EntryCells
    <2> QED
      BY <2>1, <2>2
  <1>4. /\ new.seq = write_sequence /\ new.segment_id = a /\ new.length = len
        /\ new.offset = blk.segment_offset + Len(blk.buf) /\ new.disk_size = EntryUnits(len)
        /\ new.offset \in Nat /\ new.disk_size \in Nat \ {0}
    BY <1>1, <1>3 DEF EntryAppended, Location
  <1>5. /\ locs' = locs \cup {new} /\ write_sequence' = write_sequence + 1
        /\ DOMAIN segs' = DOMAIN segs \cup {a}
        /\ \A s \in DOMAIN segs : s # a => segs'[s].write_offset = segs[s].write_offset
        /\ segs'[a].write_offset = new.offset + new.disk_size
        /\ a \in DOMAIN segs => segs[a].write_offset = new.offset
        /\ a \notin DOMAIN segs => Len(disk'[a]) <= new.offset
        /\ \A s \in DOMAIN segs : disk'[s] = disk[s]
    BY DEF EntryAppended
  <1>6. \A c \in Blocks : c # b => blocks'[c] = blocks[c]
    BY DEF EntryAppended, TypeInv, TypeOK
  <1>7. PICK buf : buf = blk.buf \o cells
    OBVIOUS
  <1>8. /\ blocks'[b].segment_id = a /\ blocks'[b].segment_offset = blk.segment_offset
        /\ blocks'[b].buf = buf
    BY <1>1, <1>2, <1>7 DEF EntryAppended, TypeInv, TypeOK, WriteBlock
  <1>9. /\ buf \in Seq(Cell) /\ Len(buf) = Len(blk.buf) + EntryUnits(len)
        /\ \A i \in 1 .. Len(blk.buf) : buf[i] = blk.buf[i]
        /\ \A i \in 1 .. EntryUnits(len) : buf[Len(blk.buf) + i] = <<write_sequence, i, len>>
    <2>1. /\ buf \in Seq(Cell) /\ Len(buf) = Len(blk.buf) + Len(cells)
          /\ \A i \in 1 .. Len(blk.buf) + Len(cells) :
                buf[i] = IF i <= Len(blk.buf) THEN blk.buf[i] ELSE cells[i - Len(blk.buf)]
      <3>1. blk.buf \in Seq(Cell) /\ cells \in Seq(Cell)
        BY <1>1, <1>3
      <3> QED
        BY <1>7, <3>1, ConcatProperties, Zenon
    <2>2. ASSUME NEW i \in 1 .. EntryUnits(len)
          PROVE  buf[Len(blk.buf) + i] = <<write_sequence, i, len>>
      <3>1. /\ Len(blk.buf) + i \in 1 .. Len(blk.buf) + Len(cells)
            /\ ~(Len(blk.buf) + i <= Len(blk.buf)) /\ (Len(blk.buf) + i) - Len(blk.buf) = i
        BY <1>1, <1>3
      <3> QED
        BY <1>3, <2>1, <3>1
    <2>3. \A i \in 1 .. Len(blk.buf) :
              i \in 1 .. Len(blk.buf) + Len(cells) /\ i <= Len(blk.buf)
      BY <1>1, <1>3
    <2>4. \A i \in 1 .. Len(blk.buf) : buf[i] = blk.buf[i]
      BY <2>1, <2>3
    <2> QED
      BY <1>3, <2>1, <2>2, <2>4
  <1>10. /\ End(b)' = new.offset + new.disk_size
         /\ \A c \in Blocks : c # b => End(c)' = End(c)
    <2>1. blocks'[b].segment_offset + Len(blocks'[b].buf) = new.offset + new.disk_size
      BY <1>1, <1>3, <1>4, <1>8, <1>9
    <2> QED
      BY <1>6, <2>1 DEF End
  (* What was there lies below the new entry. *)
  <1>11. \A l \in locs : /\ l.segment_id \in DOMAIN segs /\ l.offset \in Nat /\ l.disk_size \in Nat \ {0}
                         /\ l.segment_id = a => l.offset + l.disk_size <= new.offset
    <2> TAKE l \in locs
    <2>1. /\ l.segment_id \in DOMAIN segs /\ l.offset \in Nat /\ l.disk_size \in Nat \ {0}
      BY <1>c, LocFacts
    <2>2. l.offset + l.disk_size <= segs[l.segment_id].write_offset
      BY DEF LocsBelow
    <2> QED
      BY <1>5, <2>1, <2>2
  <1>12. \A c \in Blocks : blocks[c].segment_id = a => End(c) <= new.offset
    <2> SUFFICES ASSUME NEW c \in Blocks, blocks[c].segment_id = a PROVE End(c) <= new.offset
      OBVIOUS
    <2>1. a \in DOMAIN segs
      BY BlockFacts
    <2>2. End(c) <= segs[a].write_offset
      BY <1>c DEF BlocksBelow
    <2> QED
      BY <1>5, <2>1, <2>2
  <1>13. Len(disk'[a]) <= new.offset
    BY <1>5, <1>c DEF FilesBelow
  <1>14. LocsSized'
    <2>1. \A l \in locs : l.disk_size = EntryUnits(l.length) /\ l.seq < write_sequence
                          /\ l.seq \in Nat
      BY <1>c, LocFacts DEF LocsSized
    <2> QED
      BY <1>1, <1>4, <1>5, <2>1 DEF LocsSized
  <1>15. SeqOrder'
    <2>1. \A l \in locs : l.seq < write_sequence /\ l.seq \in Nat
      BY <1>c, LocFacts DEF LocsSized
    <2>2. \A l \in locs : l.segment_id = a => l.offset < new.offset
      BY <1>4, <1>11
    <2> SUFFICES ASSUME NEW l \in locs', NEW m \in locs',
                        l.segment_id = m.segment_id, l.seq < m.seq
                 PROVE  l.offset < m.offset
      BY DEF SeqOrder
    <2>3. CASE m = new
      <3>1. l # new
        BY <1>1, <1>4, <2>3
      <3> QED
        BY <1>4, <1>5, <2>2, <2>3, <3>1
    <2>4. CASE m \in locs /\ l = new
      BY <1>1, <1>4, <2>1, <2>4
    <2>5. CASE m \in locs /\ l \in locs
      BY <1>c, <2>5 DEF SeqOrder
    <2> QED
      BY <1>5, <2>3, <2>4, <2>5
  <1>16. BlocksBelow'
    <2> SUFFICES ASSUME NEW c \in Blocks
                 PROVE  End(c)' <= segs'[blocks'[c].segment_id].write_offset
      BY DEF BlocksBelow
    <2>1. CASE c = b
      BY <1>4, <1>5, <1>8, <1>10, <2>1
    <2>2. CASE c # b /\ blocks[c].segment_id = a
      <3>1. End(c) <= new.offset /\ End(c) \in Nat
        BY <1>12, <2>2, BlockFacts
      <3> QED
        BY <1>4, <1>5, <1>6, <1>10, <2>2, <3>1
    <2>3. CASE c # b /\ blocks[c].segment_id # a
      <3>1. blocks[c].segment_id \in DOMAIN segs /\ End(c) <= segs[blocks[c].segment_id].write_offset
        BY <1>c, BlockFacts DEF BlocksBelow
      <3> QED
        BY <1>5, <1>6, <1>10, <2>3, <3>1
    <2> QED
      BY <2>1, <2>2, <2>3
  <1>17. FilesBelow'
    <2> SUFFICES ASSUME NEW s \in DOMAIN segs' PROVE Len(disk'[s]) <= segs'[s].write_offset
      BY DEF FilesBelow
    <2>1. CASE s = a
      <3>1. disk'[a] \in Seq(Cell)
        BY <2>1 DEF TypeInv, TypeOK
      <3>2. Len(disk'[a]) \in Nat
        BY <3>1
      <3> QED
        BY <1>4, <1>5, <1>13, <2>1, <3>2
    <2>2. CASE s # a
      BY <1>5, <1>c, <2>2 DEF FilesBelow
    <2> QED
      BY <2>1, <2>2
  <1>18. BlockContent'
    <2> SUFFICES ASSUME NEW c \in Blocks, NEW l \in locs', Meets(c, l)'
                 PROVE  /\ blocks'[c].segment_offset <= l.offset
                        /\ l.offset + l.disk_size <= End(c)'
                        /\ \A i \in 1 .. l.disk_size :
                              blocks'[c].buf[l.offset - blocks'[c].segment_offset + i]
                                  = <<l.seq, i, l.length>>
      BY DEF BlockContent
    <2>0. /\ blocks'[c].segment_id = l.segment_id /\ l.offset < End(c)'
          /\ blocks'[c].segment_offset < l.offset + l.disk_size
      BY DEF Meets
    <2>1. CASE c # b /\ l = new
      <3>1. blocks[c].segment_id = a
        BY <1>4, <1>6, <2>0, <2>1
      <3>2. End(c) <= new.offset /\ End(c) \in Nat
        BY <1>12, <3>1, BlockFacts
      <3> QED
        BY <1>4, <1>10, <2>0, <2>1, <3>2
    <2>2. CASE c # b /\ l \in locs
      <3>1. blocks'[c] = blocks[c] /\ End(c)' = End(c)
        BY <1>6, <1>10, <2>2
      <3>2. Meets(c, l)
        BY <2>0, <3>1 DEF Meets
      <3> QED
        BY <1>c, <2>2, <3>1, <3>2 DEF BlockContent
    <2>3. CASE c = b /\ l = new
      <3>1. new.offset - blk.segment_offset = Len(blk.buf)
        BY <1>1, <1>4
      <3>2. blk.segment_offset <= new.offset
        BY <1>1, <1>4
      <3>3. blocks'[c].segment_offset = blk.segment_offset /\ blocks'[c].buf = buf
        BY <1>8, <2>3
      <3>4. new.offset + new.disk_size <= End(c)'
        BY <1>4, <1>10, <2>3
      <3>5. \A i \in 1 .. new.disk_size :
               buf[new.offset - blk.segment_offset + i] = <<new.seq, i, new.length>>
        BY <1>4, <1>9, <3>1
      <3> QED
        BY <2>3, <3>2, <3>3, <3>4, <3>5
    <2>4. CASE c = b /\ l \in locs
      <3>1. l.offset + l.disk_size <= new.offset /\ l.offset \in Nat /\ l.disk_size \in Nat \ {0}
        BY <1>8, <1>11, <2>0, <2>4
      <3>2. Len(blk.buf) # 0
        BY <1>1, <1>4, <1>8, <2>0, <2>4, <3>1
      <3>3. blk = blocks[b] /\ End(b) = new.offset
        BY <3>2, <1>4 DEF EntryAppended, End
      <3>a. l.offset < new.offset
        BY <1>4, <3>1
      <3>b. blk.segment_id = l.segment_id /\ blk.segment_offset < l.offset + l.disk_size
        BY <1>1, <1>8, <2>0, <2>4
      <3>4. Meets(b, l)
        BY <3>3, <3>a, <3>b DEF Meets
      <3>5. /\ blk.segment_offset <= l.offset
            /\ \A i \in 1 .. l.disk_size :
                  blk.buf[l.offset - blk.segment_offset + i] = <<l.seq, i, l.length>>
        BY <1>c, <2>4, <3>3, <3>4 DEF BlockContent
      <3>6. ASSUME NEW i \in 1 .. l.disk_size
            PROVE  buf[l.offset - blk.segment_offset + i] = <<l.seq, i, l.length>>
        <4>0. /\ l.offset + l.disk_size <= blk.segment_offset + Len(blk.buf)
              /\ blk.segment_offset \in Nat /\ Len(blk.buf) \in Nat
              /\ l.offset \in Nat /\ l.disk_size \in Nat /\ blk.segment_offset <= l.offset
          BY <1>1, <1>4, <3>1, <3>5
        <4>1. l.offset - blk.segment_offset + i \in 1 .. Len(blk.buf)
          BY <4>0, WithinRun
        <4> QED
          BY <1>9, <3>5, <4>1
      <3>7. l.offset + l.disk_size <= new.offset + new.disk_size
        BY <1>4, <3>1
      <3> QED
        BY <1>8, <1>10, <2>4, <3>5, <3>6, <3>7
    <2> QED
      BY <1>5, <2>1, <2>2, <2>3, <2>4
  <1>19. DiskContent'
    <2> SUFFICES ASSUME NEW l \in locs', NEW i \in 1 .. l.disk_size,
                        l.offset + i <= Len(disk'[l.segment_id])
                 PROVE  disk'[l.segment_id][l.offset + i] \in {<<l.seq, i, l.length>>, Hole}
      BY DEF DiskContent
    <2>1. CASE l \in locs
      <3>1. disk'[l.segment_id] = disk[l.segment_id]
        BY <1>5, <1>11, <2>1
      <3> QED
        BY <1>c, <2>1, <3>1 DEF DiskContent
    <2>2. CASE l = new
      <3>1. disk'[a] \in Seq(Cell)
        BY <1>5 DEF TypeInv, TypeOK
      <3>2. Len(disk'[a]) \in Nat
        BY <3>1
      <3> QED
        BY <1>4, <1>13, <2>2, <3>2
    <2> QED
      BY <1>5, <2>1, <2>2
  <1>20. ASSUME NEW l \in locs PROVE OnDisk(l)' <=> OnDisk(l)
    <2>1. disk'[l.segment_id] = disk[l.segment_id]
      BY <1>5, <1>11
    <2> QED
      BY <2>1 DEF OnDisk
  <1>21. ~OnDisk(new)'
    <2>1. new \in BlobLocation /\ disk'[a] \in Seq(Cell)
      BY <1>5 DEF TypeInv, TypeOK
    <2>2. PRead(disk'[a], new.offset, new.disk_size) = EntryCells(new.seq, new.length)
             <=> FileHas(disk'[a], new)
      BY <1>4, <2>1, FileHasIs
    <2>3. Len(disk'[a]) \in Nat
      BY <2>1
    <2>4. ~FileHas(disk'[a], new)
      BY <1>4, <1>13, <2>3 DEF FileHas, RunHas
    <2> QED
      BY <1>4, <2>2, <2>4 DEF OnDisk
  <1>22. ASSUME blk = blocks[b], NEW l \in locs, Holds(b, l) PROVE Holds(b, l)'
    <2>1. /\ a = l.segment_id /\ l.offset >= blk.segment_offset /\ b # Null
          /\ l.offset < blk.segment_offset + Len(blk.buf)
      BY <1>1, <1>22 DEF Holds
    <2>n. Len(buf) = Len(blk.buf) + EntryUnits(len) /\ EntryUnits(len) \in Nat
      BY <1>3, <1>9
    <2>o. l.offset \in Nat /\ blk.segment_offset \in Nat /\ Len(blk.buf) \in Nat
      BY <1>1, <1>11
    <2>2. l.offset < blk.segment_offset + Len(buf)
      BY <2>1, <2>n, <2>o
    <2> QED
      BY <1>8, <2>1, <2>2 DEF Holds
  <1>23. Holds(b, new)'
    <2>1. b # Null
      BY <1>1, NullNotBlock
    <2>2. new.offset >= blk.segment_offset /\ new.offset < blk.segment_offset + Len(buf)
      BY <1>1, <1>3, <1>4, <1>9
    <2> QED
      BY <1>4, <1>8, <2>1, <2>2 DEF Holds
  <1> QED
    BY <1>6, <1>12, <1>13, <1>14, <1>15, <1>16, <1>17, <1>18, <1>19, <1>20, <1>21, <1>22,
       <1>23 DEF Content
-----------------------------------------------------------------------------
(* Queues and the pool *)

LEMMA AppendHas ==
    ASSUME NEW S, NEW q \in Seq(S), NEW a \in S
    PROVE  /\ \A b : Has(Append(q, a), b) <=> Has(q, b) \/ b = a
           /\ \A b, c : Before(q, b, c) => Before(Append(q, a), b, c)
           /\ \A b : Has(q, b) \/ b = a => Before(Append(q, a), b, a)
           /\ Distinct(q) /\ ~Has(q, a) => Distinct(Append(q, a))
  <1>1. PICK p : p = Append(q, a)
    OBVIOUS
  <1>2. PICK n : n = Len(q)
    OBVIOUS
  <1>3. /\ n \in Nat /\ Len(p) = n + 1 /\ p[n + 1] = a
        /\ \A i \in 1 .. n : p[i] = q[i]
    BY <1>1, <1>2
  <1>4. \A i \in 1 .. n + 1 : i \in 1 .. n \/ i = n + 1
    BY <1>3
  <1>5. /\ n + 1 \in 1 .. n + 1
        /\ \A i \in 1 .. n : i \in 1 .. n + 1 /\ i <= n + 1
        /\ n + 1 <= n + 1
    BY <1>3
  <1>6. \A b : Has(p, b) <=> Has(q, b) \/ b = a
    BY <1>2, <1>3, <1>4, <1>5 DEF Has
  <1>7. \A b, c : Before(q, b, c) => Before(p, b, c)
    BY <1>2, <1>3, <1>5 DEF Before
  <1>8. \A b : Has(q, b) \/ b = a => Before(p, b, a)
    BY <1>2, <1>3, <1>5 DEF Has, Before
  <1>9. Distinct(q) /\ ~Has(q, a) => Distinct(p)
    BY <1>2, <1>3, <1>4 DEF Has, Distinct
  <1> QED
    BY <1>1, <1>6, <1>7, <1>8, <1>9

LEMMA TailHas ==
    ASSUME NEW S, NEW q \in Seq(S), q # <<>>, Distinct(q)
    PROVE  /\ \A b : Has(q, b) <=> b = Head(q) \/ Has(Tail(q), b)
           /\ ~Has(Tail(q), Head(q))
           /\ \A b, c : Before(q, b, c) =>
                 \/ b = Head(q) /\ (c = Head(q) \/ Has(Tail(q), c))
                 \/ Before(Tail(q), b, c)
           /\ Distinct(Tail(q))
           /\ Head(q) \in S
  <1>1. PICK p : p = Tail(q)
    OBVIOUS
  <1>2. PICK n : n = Len(p)
    OBVIOUS
  <1>3. /\ n \in Nat /\ Len(q) = n + 1 /\ q[1] = Head(q) /\ Head(q) \in S
        /\ \A i \in 1 .. n : p[i] = q[i + 1]
    BY <1>1, <1>2
  <1>4. \A i \in 1 .. n + 1 : i = 1 \/ (i - 1 \in 1 .. n /\ q[i] = p[i - 1])
    <2> SUFFICES ASSUME NEW i \in 1 .. n + 1, i # 1
                 PROVE  i - 1 \in 1 .. n /\ q[i] = p[i - 1]
      OBVIOUS
    <2>1. i - 1 \in 1 .. n /\ (i - 1) + 1 = i
      BY <1>3
    <2> QED
      BY <1>3, <2>1
  <1>5. /\ 1 \in 1 .. n + 1
        /\ \A i \in 1 .. n : i + 1 \in 1 .. n + 1 /\ i + 1 # 1
        /\ \A i, j \in 1 .. n : i + 1 = j + 1 => i = j
        /\ \A i, j \in 1 .. n + 1 : i <= j => i - 1 <= j - 1
        /\ \A i, j \in 1 .. n + 1 : i <= j /\ j = 1 => i = 1
    BY <1>3
  <1>6. \A b : Has(q, b) <=> b = Head(q) \/ Has(p, b)
    <2>1. \A b : Has(q, b) => b = Head(q) \/ Has(p, b)
      BY <1>2, <1>3, <1>4 DEF Has
    <2>2. \A b : b = Head(q) => Has(q, b)
      BY <1>3, <1>5 DEF Has
    <2>3. \A b : Has(p, b) => Has(q, b)
      BY <1>2, <1>3, <1>5 DEF Has
    <2> QED
      BY <2>1, <2>2, <2>3
  <1>7. ~Has(p, Head(q))
    BY <1>2, <1>3, <1>5 DEF Has, Distinct
  <1>8. ASSUME NEW b, NEW c, Before(q, b, c)
        PROVE  (b = Head(q) /\ (c = Head(q) \/ Has(p, c))) \/ Before(p, b, c)
    <2>1. PICK i \in 1 .. n + 1, j \in 1 .. n + 1 : i <= j /\ q[i] = b /\ q[j] = c
      BY <1>3, <1>8 DEF Before
    <2>2. CASE i = 1
      BY <1>2, <1>3, <1>4, <2>1, <2>2 DEF Has
    <2>3. CASE i # 1
      <3>1. j # 1
        BY <1>5, <2>1, <2>3
      <3>2. i - 1 \in 1 .. n /\ q[i] = p[i - 1] /\ j - 1 \in 1 .. n /\ q[j] = p[j - 1]
        BY <1>4, <2>3, <3>1
      <3> QED
        BY <1>2, <1>5, <2>1, <3>2 DEF Before
    <2> QED
      BY <2>2, <2>3
  <1>9. Distinct(p)
    BY <1>2, <1>3, <1>5 DEF Distinct
  <1> QED
    BY <1>1, <1>3, <1>6, <1>7, <1>8, <1>9

LEMMA FrontHas ==
    ASSUME NEW S, NEW q \in Seq(S), q # <<>>, Distinct(q)
    PROVE  /\ \A b : Has(Front(q), b) => Has(q, b) /\ b # Last(q)
           /\ Has(q, Last(q)) /\ Last(q) \in S
           /\ Distinct(Front(q))
  <1>1. PICK p : p = Front(q)
    OBVIOUS
  <1>2. PICK n : n = Len(q) - 1
    OBVIOUS
  <1>3. n \in Nat /\ Len(q) = n + 1 /\ Last(q) = q[n + 1] /\ q[n + 1] \in S
    BY <1>2 DEF Last
  <1>4. p = SubSeq(q, 1, n)
    BY <1>1, <1>2 DEF Front
  <1>5. Len(p) = n /\ \A i \in 1 .. n : p[i] = q[i]
    <2>1. \A i \in 1 .. n : q[i] \in S
      BY <1>3
    <2>2. /\ Len(p) = IF 1 <= n THEN n - 1 + 1 ELSE 0
          /\ \A i \in 1 .. n - 1 + 1 : p[i] = q[1 + i - 1]
      BY <1>3, <1>4, <2>1, SubSeqProperties
    <2>3. \A i \in 1 .. n : i \in 1 .. n - 1 + 1 /\ 1 + i - 1 = i
      BY <1>3
    <2> QED
      BY <1>3, <2>2, <2>3
  <1>6. n + 1 \in 1 .. n + 1 /\ \A i \in 1 .. n : i \in 1 .. n + 1 /\ i # n + 1
    BY <1>3
  <1>7. \A b : Has(p, b) => Has(q, b) /\ b # Last(q)
    BY <1>3, <1>5, <1>6 DEF Has, Distinct
  <1>8. Has(q, Last(q))
    BY <1>3, <1>6 DEF Has
  <1>9. Distinct(p)
    BY <1>3, <1>5, <1>6 DEF Distinct
  <1> QED
    BY <1>1, <1>3, <1>7, <1>8, <1>9

LEMMA EmptyHas == \A b : ~Has(<< >>, b)
  BY DEF Has
-----------------------------------------------------------------------------
(* How blocks move *)

(* The pending blocks stay so, and keep their order; one that joins the flow *)
(* comes last.                                                               *)
Moves ==
    /\ \A b \in Blocks : Owned(b) \/ InFlow(b) => Owned(b)' \/ InFlow(b)'
    /\ \A c \in Blocks : InFlow(c)' =>
          InFlow(c) \/ \A b \in Blocks : Owned(b) \/ InFlow(b) => Ahead(b, c)'
    /\ \A b, c \in Blocks : Ahead(b, c) => Ahead(b, c)'

LEMMA MovesSame ==
    ASSUME flush_queue' = flush_queue,
           \A b \in Blocks : Taken(b)' <=> Taken(b),
           \A b \in Blocks : Owned(b) => Owned(b)'
    PROVE  Moves
  <1>1. \A b \in Blocks : Queued(b)' <=> Queued(b)
    BY DEF Queued
  <1>2. \A b \in Blocks : InFlow(b)' <=> InFlow(b)
    BY <1>1 DEF InFlow
  <1>3. \A b, c \in Blocks : Ahead(b, c) => Ahead(b, c)'
    BY <1>2 DEF Ahead
  <1> QED
    BY <1>2, <1>3 DEF Moves

LEMMA MovesQueue ==
    ASSUME TypeInv, NEW a \in Blocks, flush_queue' = Append(flush_queue, a),
           \A b \in Blocks : Taken(b)' <=> Taken(b),
           \A b \in Blocks : Owned(b) => b = a
    PROVE  Moves
  <1>0. flush_queue \in Seq(Blocks)
    BY DEF TypeInv, TypeOK
  <1>q. PICK q : q = Append(flush_queue, a)
    OBVIOUS
  <1>h. /\ \A b : Has(q, b) <=> Has(flush_queue, b) \/ b = a
        /\ \A b, c : Before(flush_queue, b, c) => Before(q, b, c)
        /\ \A b : Has(flush_queue, b) \/ b = a => Before(q, b, a)
    BY <1>0, <1>q, AppendHas, Zenon
  <1>1. \A b \in Blocks : Queued(b)' <=> Queued(b) \/ b = a
    BY <1>h, <1>q DEF Queued
  <1>2. \A b \in Blocks : InFlow(b)' <=> InFlow(b) \/ b = a
    BY <1>1 DEF InFlow
  <1>3. \A b, c \in Blocks : Ahead(b, c) => Ahead(b, c)'
    BY <1>2, <1>h, <1>q DEF Ahead
  <1>4. \A b \in Blocks : Owned(b) \/ InFlow(b) => Ahead(b, a)'
    <2> SUFFICES ASSUME NEW b \in Blocks, Owned(b) \/ InFlow(b) PROVE Ahead(b, a)'
      OBVIOUS
    <2>1. CASE Taken(b)
      BY <1>2, <2>1 DEF Ahead
    <2>2. CASE Queued(b) \/ b = a
      BY <1>h, <1>q, <2>2 DEF Ahead, Queued
    <2> QED
      BY <2>1, <2>2 DEF InFlow
  <1> QED
    BY <1>2, <1>3, <1>4 DEF Moves

LEMMA MovesTake ==
    ASSUME TypeInv, Roles, flush_queue # <<>>, flush_queue' = Tail(flush_queue),
           \A b \in Blocks : Taken(b)' <=> b = Head(flush_queue),
           \A b \in Blocks : ~Taken(b),
           \A b \in Blocks : Owned(b) => Owned(b)'
    PROVE  Moves
  <1>0. flush_queue \in Seq(Blocks) /\ Distinct(flush_queue)
    BY DEF TypeInv, TypeOK, Roles
  <1>h. PICK h : h = Head(flush_queue)
    OBVIOUS
  <1>q. PICK q : q = Tail(flush_queue)
    OBVIOUS
  <1>1. /\ \A b : Has(flush_queue, b) <=> b = h \/ Has(q, b)
        /\ \A b, c : Before(flush_queue, b, c) =>
              (b = h /\ (c = h \/ Has(q, c))) \/ Before(q, b, c)
    BY <1>0, <1>h, <1>q, TailHas, Zenon
  <1>2. \A b \in Blocks : Taken(b)' <=> b = h
    BY <1>h
  <1>3. \A b \in Blocks : Queued(b)' <=> Has(q, b)
    BY <1>q DEF Queued
  <1>4. \A b \in Blocks : InFlow(b)' <=> InFlow(b)
    BY <1>1, <1>2, <1>3 DEF InFlow, Queued
  <1>5. ASSUME NEW b \in Blocks, NEW c \in Blocks, Ahead(b, c) PROVE Ahead(b, c)'
    <2>1. Before(flush_queue, b, c)
      BY <1>5 DEF Ahead
    <2>2. CASE b = h /\ (c = h \/ Has(q, c))
      <3>1. Taken(b)' /\ InFlow(c)'
        BY <1>2, <1>3, <2>2 DEF InFlow
      <3> QED
        BY <3>1 DEF Ahead
    <2>3. CASE Before(q, b, c)
      BY <1>q, <2>3 DEF Ahead
    <2> QED
      BY <1>1, <2>1, <2>2, <2>3
  <1> QED
    BY <1>4, <1>5 DEF Moves

(* A step that leaves the data alone *)
Still ==
    /\ UNCHANGED <<disk, blocks, locs, write_sequence, lost>>
    /\ DOMAIN segs' = DOMAIN segs
    /\ \A s \in DOMAIN segs : segs'[s].write_offset = segs[s].write_offset

LEMMA StillKeeps ==
    ASSUME TypeInv, Content, Still
    PROVE  /\ Content'
           /\ \A l \in locs : Pending(l)' <=> Pending(l)
           /\ \A l \in locs : OnDisk(l)' <=> OnDisk(l)
           /\ \A b, l : Holds(b, l)' <=> Holds(b, l)
           /\ \A b \in Blocks : End(b)' = End(b)
           /\ AtEnd => AtEnd'
  <1>1. /\ disk' = disk /\ blocks' = blocks /\ locs' = locs
        /\ write_sequence' = write_sequence /\ lost' = lost
        /\ DOMAIN segs' = DOMAIN segs
        /\ \A s \in DOMAIN segs : segs'[s].write_offset = segs[s].write_offset
    BY DEF Still
  <1>2. \A b \in Blocks : End(b)' = End(b)
    BY <1>1 DEF End
  <1>3. LocsSized' /\ SeqOrder' /\ DiskContent'
    BY <1>1 DEF Content, LocsSized, SeqOrder, DiskContent
  <1>4. \A b \in Blocks : blocks[b].segment_id \in DOMAIN segs
    BY BlockFacts
  <1>5. BlocksBelow'
    BY <1>1, <1>2, <1>4 DEF Content, BlocksBelow
  <1>6. FilesBelow'
    BY <1>1 DEF Content, FilesBelow
  <1>7. \A b \in Blocks, l \in locs : Meets(b, l)' <=> Meets(b, l)
    BY <1>1, <1>2 DEF Meets
  <1>8. BlockContent'
    BY <1>1, <1>2, <1>7 DEF Content, BlockContent
  <1>9. \A l \in locs : OnDisk(l)' <=> OnDisk(l)
    BY <1>1 DEF OnDisk
  <1>10. \A l \in locs : Pending(l)' <=> Pending(l)
    BY <1>1, <1>9 DEF Pending
  <1>11. AtEnd => AtEnd'
    BY <1>1, <1>10 DEF AtEnd
  <1>12. \A b, l : Holds(b, l)' <=> Holds(b, l)
    BY <1>1 DEF Holds
  <1> QED
    BY <1>2, <1>3, <1>5, <1>6, <1>8, <1>9, <1>10, <1>11, <1>12 DEF Content

(* Kept and InOrder survive a step that moves blocks like that, makes no old *)
(* location pending, and puts a new one into the block being filled, beyond  *)
(* every block in the flow.                                                  *)
LEMMA FlowKept ==
    ASSUME Kept, InOrder, Moves,
           \A l \in locs : Pending(l)' => Pending(l),
           \A l \in locs' : \/ l \in locs
                            \/ /\ \E b \in Blocks : Owned(b)' /\ Holds(b, l)'
                               /\ \A c \in Blocks :
                                     InFlow(c)' /\ blocks'[c].segment_id = l.segment_id =>
                                         End(c)' <= l.offset,
           \A b \in Blocks, l \in locs : (Owned(b) \/ InFlow(b)) /\ Holds(b, l) => Holds(b, l)',
           \A c \in Blocks : InFlow(c)' => blocks'[c] = blocks[c]
    PROVE  Kept' /\ InOrder'
  <1>1. Kept'
    <2> SUFFICES ASSUME NEW l \in locs', Pending(l)'
                 PROVE  \E b \in Blocks : (Owned(b)' \/ InFlow(b)') /\ Holds(b, l)'
      BY DEF Kept
    <2>1. CASE l \in locs
      <3>1. PICK b \in Blocks : (Owned(b) \/ InFlow(b)) /\ Holds(b, l)
        BY <2>1 DEF Kept
      <3> QED
        BY <2>1, <3>1 DEF Moves
    <2>2. CASE l \notin locs
      BY <2>2
    <2> QED
      BY <2>1, <2>2
  <1>2. InOrder'
    <2> SUFFICES ASSUME NEW c \in Blocks, NEW l \in locs', InFlow(c)', Pending(l)',
                        blocks'[c].segment_id = l.segment_id
                 PROVE  \/ \E b \in Blocks : Ahead(b, c)' /\ Holds(b, l)'
                        \/ End(c)' <= l.offset
      BY DEF InOrder
    <2>0. blocks'[c] = blocks[c] /\ End(c)' = End(c)
      BY DEF End
    <2>1. CASE l \in locs /\ InFlow(c)
      <3>1. \/ \E b \in Blocks : Ahead(b, c) /\ Holds(b, l)
            \/ End(c) <= l.offset
        BY <2>0, <2>1 DEF InOrder
      <3>2. ASSUME NEW b \in Blocks, Ahead(b, c), Holds(b, l)
            PROVE  Ahead(b, c)' /\ Holds(b, l)'
        <4>1. InFlow(b)
          BY <3>2 DEF Ahead, InFlow, Queued, Before, Has
        <4> QED
          BY <2>1, <3>2, <4>1 DEF Moves
      <3> QED
        BY <2>0, <3>1, <3>2
    <2>2. CASE l \in locs /\ ~InFlow(c)
      <3>1. PICK b \in Blocks : (Owned(b) \/ InFlow(b)) /\ Holds(b, l)
        BY <2>2 DEF Kept
      <3>2. Ahead(b, c)'
        BY <2>2, <3>1 DEF Moves
      <3> QED
        BY <2>2, <3>1, <3>2
    <2>3. CASE l \notin locs
      BY <2>3
    <2> QED
      BY <2>1, <2>2, <2>3
  <1> QED
    BY <1>1, <1>2

LEMMA FlowStill ==
    ASSUME TypeInv, Content, Flow, Still, Moves
    PROVE  Content' /\ Flow'
  <1>1. /\ \A l \in locs : Pending(l)' => Pending(l)
        /\ locs' = locs /\ blocks' = blocks
        /\ \A b, l : Holds(b, l)' <=> Holds(b, l)
        /\ Content' /\ AtEnd'
    BY StillKeeps DEF Still, Flow
  <1>2. Kept' /\ InOrder'
    BY <1>1, FlowKept DEF Flow
  <1> QED
    BY <1>1, <1>2 DEF Flow
(* A pwrite of the block taken: what is still pending lies in other blocks,  *)
(* all behind it, so the file does not reach past it.                        *)
LEMMA FlowWrite ==
    ASSUME TypeInv, TypeInv', Content, Flow, Roles, NEW b \in Blocks, Taken(b),
           WriteOut(blocks[b]),
           UNCHANGED <<segs, blocks, locs, write_sequence, flush_queue>>,
           \A x \in Blocks : ~Taken(x)',
           \A x \in Blocks : Owned(x)' <=> Owned(x)
    PROVE  Content' /\ Flow'
  <1>1. /\ Content' /\ lost \subseteq lost'
        /\ \A l \in locs : OnDisk(l) => OnDisk(l)'
        /\ \A l \in locs : Holds(b, l) => ~Pending(l)'
        /\ \A t \in DOMAIN segs : \/ Len(disk'[t]) = Len(disk[t])
                                  \/ t = blocks[b].segment_id /\ Len(disk'[t]) <= End(b)
    BY WriteOutKeeps
  <1>2. \A l \in locs : Pending(l)' => Pending(l) /\ ~Holds(b, l)
    BY <1>1 DEF Pending
  <1>3. \A x \in Blocks : Taken(x) => x = b
    BY DEF Taken
  <1>4. /\ \A x \in Blocks : Queued(x)' <=> Queued(x)
        /\ \A x \in Blocks : InFlow(x)' <=> Queued(x)
        /\ \A x, y \in Blocks : Ahead(x, y)' <=> Before(flush_queue, x, y)
        /\ ~Queued(b)
    BY DEF Queued, InFlow, Ahead, Roles
  <1>5. \A x \in Blocks, l \in locs : Holds(x, l)' <=> Holds(x, l)
    BY DEF Holds
  <1>6. Kept'
    <2> SUFFICES ASSUME NEW l \in locs, Pending(l)'
                 PROVE  \E x \in Blocks : (Owned(x)' \/ InFlow(x)') /\ Holds(x, l)'
      BY DEF Kept
    <2>1. PICK x \in Blocks : (Owned(x) \/ InFlow(x)) /\ Holds(x, l)
      BY <1>2 DEF Flow, Kept
    <2>2. ~Taken(x)
      BY <1>2, <1>3, <2>1
    <2> QED
      BY <1>4, <1>5, <2>1, <2>2 DEF InFlow
  <1>7. ASSUME NEW c \in Blocks, NEW l \in locs, InFlow(c), Pending(l)',
               blocks[c].segment_id = l.segment_id
        PROVE  \/ \E x \in Blocks : Before(flush_queue, x, c) /\ Holds(x, l)
               \/ End(c) <= l.offset
    <2>1. \/ \E x \in Blocks : Ahead(x, c) /\ Holds(x, l)
          \/ End(c) <= l.offset
      BY <1>2, <1>7 DEF Flow, InOrder
    <2> QED
      BY <1>2, <1>3, <1>7, <2>1 DEF Ahead
  <1>8. InOrder'
    <2> SUFFICES ASSUME NEW c \in Blocks, NEW l \in locs, InFlow(c)', Pending(l)',
                        blocks[c].segment_id = l.segment_id
                 PROVE  \/ \E x \in Blocks : Ahead(x, c)' /\ Holds(x, l)'
                        \/ End(c)' <= l.offset
      BY DEF InOrder
    <2>1. InFlow(c) /\ End(c)' = End(c)
      BY <1>4 DEF InFlow, End
    <2>2. \/ \E x \in Blocks : Before(flush_queue, x, c) /\ Holds(x, l)
          \/ End(c) <= l.offset
      BY <1>7, <2>1
    <2> QED
      BY <1>4, <1>5, <2>1, <2>2
  <1>9. AtEnd'
    <2> SUFFICES ASSUME NEW l \in locs, Pending(l)' PROVE Len(disk'[l.segment_id]) <= l.offset
      BY DEF AtEnd
    <2>1. l.segment_id \in DOMAIN segs /\ l.offset \in Nat
      BY LocFacts DEF Content
    <2>2. disk'[l.segment_id] \in Seq(Cell)
      BY <2>1 DEF TypeInv, TypeOK
    <2>3. CASE Len(disk'[l.segment_id]) = Len(disk[l.segment_id])
      BY <1>2, <2>3 DEF Flow, AtEnd
    <2>4. CASE l.segment_id = blocks[b].segment_id /\ Len(disk'[l.segment_id]) <= End(b)
      <3>1. \A x : ~Before(flush_queue, x, b)
        BY <1>4 DEF Queued, Has, Before
      <3>2. End(b) <= l.offset
        BY <1>7, <2>4, <3>1 DEF InFlow
      <3>3. End(b) \in Nat /\ Len(disk'[l.segment_id]) \in Nat
        BY <2>2, BlockFacts
      <3> QED
        BY <2>1, <2>4, <3>2, <3>3
    <2> QED
      BY <1>1, <2>1, <2>3, <2>4
  <1> QED
    BY <1>1, <1>6, <1>8, <1>9 DEF Flow

(* An entry appended to the block being filled *)
LEMMA FlowAppend ==
    ASSUME TypeInv, TypeInv', LocsBelow, Content, Flow, Moves, lost' = lost,
           NEW len, NEW b, NEW blk, NEW a, NEW new, EntryAppended(len, b, blk, a, new),
           Owned(b)', ~InFlow(b)', ~InFlow(b), Owned(b) => blk = blocks[b]
    PROVE  Content' /\ Flow' /\ \A l \in locs : OnDisk(l)' <=> OnDisk(l)
  <1>1. /\ Content'
        /\ \A l \in locs : OnDisk(l)' <=> OnDisk(l)
        /\ ~OnDisk(new)' /\ Len(disk'[a]) <= new.offset
        /\ \A c \in Blocks : c # b => blocks'[c] = blocks[c]
        /\ blk = blocks[b] => \A l \in locs : Holds(b, l) => Holds(b, l)'
        /\ Holds(b, new)'
        /\ \A c \in Blocks : c # b /\ blocks[c].segment_id = a => End(c) <= new.offset
    BY AppendKeeps
  <1>2. /\ locs' = locs \cup {new} /\ new.segment_id = a /\ b \in Blocks
        /\ \A s \in DOMAIN segs : disk'[s] = disk[s]
    BY DEF EntryAppended, Location
  <1>3. \A l \in locs : Pending(l)' => Pending(l)
    BY <1>1 DEF Pending
  <1>4. \A c \in Blocks : InFlow(c)' => c # b /\ blocks'[c] = blocks[c] /\ End(c)' = End(c)
    BY <1>1 DEF End
  <1>5. \A c \in Blocks : InFlow(c)' /\ blocks'[c].segment_id = new.segment_id => End(c)' <= new.offset
    BY <1>1, <1>2, <1>4
  <1>6. \A l \in locs' : \/ l \in locs
                         \/ /\ \E x \in Blocks : Owned(x)' /\ Holds(x, l)'
                            /\ \A c \in Blocks :
                                  InFlow(c)' /\ blocks'[c].segment_id = l.segment_id =>
                                      End(c)' <= l.offset
    BY <1>1, <1>2, <1>5
  <1>7. ASSUME NEW x \in Blocks, NEW l \in locs, Owned(x) \/ InFlow(x), Holds(x, l)
        PROVE  Holds(x, l)'
    <2>1. CASE x = b
      BY <1>1, <1>7, <2>1
    <2>2. CASE x # b
      <3>1. blocks'[x] = blocks[x]
        BY <1>1, <2>2
      <3> QED
        BY <1>7, <3>1 DEF Holds
    <2> QED
      BY <2>1, <2>2
  <1>8. Kept' /\ InOrder'
    BY <1>3, <1>4, <1>6, <1>7, FlowKept DEF Flow
  <1>9. AtEnd'
    <2> SUFFICES ASSUME NEW l \in locs', Pending(l)' PROVE Len(disk'[l.segment_id]) <= l.offset
      BY DEF AtEnd
    <2>1. CASE l = new
      BY <1>1, <1>2, <2>1
    <2>2. CASE l \in locs
      <3>1. l.segment_id \in DOMAIN segs
        BY <2>2, LocFacts DEF Content
      <3> QED
        BY <1>2, <1>3, <2>2, <3>1 DEF Flow, AtEnd
    <2> QED
      BY <1>2, <2>1, <2>2
  <1> QED
    BY <1>1, <1>8, <1>9 DEF Flow
-----------------------------------------------------------------------------
(* write() *)

(* The segments sg are the present ones, segment a among them or new, and a  *)
(* ends at offset at.                                                        *)
SegmentEnds(sg, a, at) ==
    /\ sg \in [DOMAIN sg -> Segment] /\ DOMAIN sg = DOMAIN segs \cup {a}
    /\ \A s \in DOMAIN segs : sg[s] = segs[s]
    /\ sg[a].write_offset = at
    /\ a \notin DOMAIN segs => Len(disk'[a]) <= at
    /\ \A s \in DOMAIN segs : disk'[s] = disk[s]

LEMMA AppendEntryIs ==
    ASSUME TypeInv, NEW w, NEW len \in Nat, NEW b \in Blocks, NEW blk \in WriteBlock,
           blk = blocks[b] \/ Len(blk.buf) = 0,
           NEW a, blk.segment_id = a, NEW sg,
           SegmentEnds(sg, a, blk.segment_offset + Len(blk.buf)),
           AppendEntry(w, len, b, blk, a, sg)
    PROVE  \E new : EntryAppended(len, b, blk, a, new)
  <1>1. PICK new : new = Location(write_sequence, a, blk.segment_offset + Len(blk.buf), len)
    OBVIOUS
  <1>2. /\ new.offset = blk.segment_offset + Len(blk.buf) /\ new.disk_size = EntryUnits(len)
    BY <1>1 DEF Location
  <1>e. /\ sg \in [DOMAIN sg -> Segment] /\ DOMAIN sg = DOMAIN segs \cup {a}
        /\ \A s \in DOMAIN segs : sg[s] = segs[s]
        /\ sg[a].write_offset = new.offset
        /\ a \notin DOMAIN segs => Len(disk'[a]) <= new.offset
        /\ \A s \in DOMAIN segs : disk'[s] = disk[s]
    BY <1>2 DEF SegmentEnds
  <1>3. segs' = [sg EXCEPT ![a] = Counted(sg[a], EntryUnits(len))]
    BY DEF AppendEntry
  <1>4. /\ DOMAIN segs' = DOMAIN segs \cup {a}
        /\ \A s \in DOMAIN segs : s # a => segs'[s] = segs[s]
        /\ segs'[a] = Counted(sg[a], EntryUnits(len))
    BY <1>3, <1>e
  <1>5. segs'[a].write_offset = new.offset + new.disk_size
    BY <1>2, <1>4, <1>e DEF Counted
  <1>6. a \in DOMAIN segs => segs[a].write_offset = new.offset
    BY <1>e
  <1>7. /\ locs' = locs \cup {new} /\ write_sequence' = write_sequence + 1
        /\ blocks' = [blocks EXCEPT ![b] =
                        [blk EXCEPT !.buf = blk.buf \o EntryCells(write_sequence, len)]]
    BY <1>1 DEF AppendEntry
  <1> QED
    <2>1. EntryAppended(len, b, blk, a, new)
      BY <1>1, <1>4, <1>5, <1>6, <1>7, <1>e DEF EntryAppended
    <2> QED
      BY <2>1

(* The writer takes a free block, or waits for one, its last block queued    *)
(* now or before.                                                            *)
LEMMA AcquireStore ==
    ASSUME SingleWriter, TypeInv, TypeInv', Layout, Roles, Content, Flow,
           NEW w \in Writers, NEW len \in Nat, AcquireBlock(w, len),
           flush_running, lost' = lost, Moves, Distinct(flush_queue'),
           \A b \in Blocks : Queued(b)' <=> Queued(b) \/ Owned(b),
           \A b \in Blocks : Taken(b)' <=> Taken(b),
           \A b \in Blocks : Written(b)' <=> Written(b),
           (flushing_block = IF flusher.pc \in {"writing", "written"} THEN flusher.block
                             ELSE Null)'
    PROVE  Roles' /\ Content' /\ Flow' /\ \A l \in locs : OnDisk(l) => OnDisk(l)'
  <1>t. /\ free_pool \in Seq(Blocks) /\ writer \in [Writers -> WriterState]
        /\ write_sequence \in Nat /\ segs \in [DOMAIN segs -> Segment]
        /\ disk \in [DOMAIN segs -> Seq(Cell)]
        /\ active_segment \in DOMAIN segs \cup {Null} /\ next_segment_id \in Nat
    BY DEF TypeInv, TypeOK
  <1>r. /\ Distinct(free_pool)
        /\ \A b \in Blocks : Queued(b) => ~Free(b)
        /\ \A b \in Blocks : Taken(b) \/ Written(b) => ~Queued(b) /\ ~Free(b)
        /\ \A b \in Blocks : Owned(b) => ~InFlow(b) /\ ~Written(b) /\ ~Free(b)
    BY DEF Roles
  <1>1. CASE TakeBlock(w, len)
    <2>1. PICK n : n = Last(free_pool)
      OBVIOUS
    <2>2. free_pool # <<>> /\ free_pool' = Front(free_pool) /\ active_block' = n
      BY <1>1, <2>1 DEF TakeBlock
    <2>3. /\ \A b : Has(Front(free_pool), b) => Has(free_pool, b) /\ b # n
          /\ Has(free_pool, n) /\ n \in Blocks /\ Distinct(Front(free_pool))
      BY <1>r, <1>t, <2>1, <2>2, FrontHas, Zenon
    <2>4. Free(n) /\ \A b \in Blocks : Free(b)' => Free(b) /\ b # n
      BY <2>2, <2>3 DEF Free
    <2>5. ~Queued(n) /\ ~Taken(n) /\ ~Written(n) /\ ~Owned(n) /\ ~InFlow(n)
      BY <1>r, <2>3, <2>4 DEF InFlow
    <2>6. Return(w)
      BY <1>1 DEF TakeBlock, AppendEntry
    <2>7. \A v \in Writers : writer'[v].pc \notin Pausing
      BY <1>t, <2>6 DEF Return, IdleWriter, SingleWriter, Pausing
    <2>8. \A b \in Blocks : Owned(b)' <=> b = n
      BY <2>2, <2>7 DEF Owned
    <2>9. ~InFlow(n)'
      BY <2>3, <2>5 DEF InFlow
    <2>10. Roles'
      <3>1. Distinct(free_pool')
        BY <2>2, <2>3
      <3>2. \A b \in Blocks : Queued(b)' => ~Free(b)'
        BY <1>r, <2>4
      <3>3. \A b \in Blocks : Taken(b)' \/ Written(b)' => ~Queued(b)' /\ ~Free(b)'
        BY <1>r, <2>4 DEF InFlow
      <3>4. \A b \in Blocks : Owned(b)' => ~InFlow(b)' /\ ~Written(b)' /\ ~Free(b)'
        BY <2>4, <2>5, <2>8, <2>9
      <3> QED
        BY <3>1, <3>2, <3>3, <3>4 DEF Roles
    <2>11. CASE /\ ~SegmentFull(Cap)
                /\ AppendEntry(w, len, Last(free_pool),
                       Bound(active_segment, segs[active_segment].write_offset),
                       active_segment, segs)
                /\ UNCHANGED disk
      <3>1. active_segment \in DOMAIN segs
        BY <1>t, <2>11 DEF SegmentFull
      <3>2. segs[active_segment] \in Segment /\ segs[active_segment].write_offset \in Nat
        BY <1>t, <3>1 DEF Segment
      <3>3. PICK blk : blk = Bound(active_segment, segs[active_segment].write_offset)
        OBVIOUS
      <3>4. /\ blk \in WriteBlock /\ Len(blk.buf) = 0 /\ blk.segment_id = active_segment
            /\ blk.segment_offset = segs[active_segment].write_offset
        BY <3>2, <3>1, <3>3 DEF Bound, WriteBlock, TypeInv, TypeOK
      <3>5. DOMAIN segs = DOMAIN segs \cup {active_segment}
        BY <3>1
      <3>6. segs[active_segment].write_offset = blk.segment_offset + Len(blk.buf)
        BY <3>2, <3>4
      <3>a. AppendEntry(w, len, n, blk, active_segment, segs)
        BY <2>1, <2>11, <3>3
      <3>7. \E new : EntryAppended(len, n, blk, active_segment, new)
        <4>1. SegmentEnds(segs, active_segment, blk.segment_offset + Len(blk.buf))
          BY <1>t, <2>11, <3>1, <3>5, <3>6 DEF SegmentEnds
        <4> QED
          BY <2>3, <3>4, <3>a, <4>1, AppendEntryIs
      <3> QED
        BY <2>5, <2>8, <2>3, <2>9, <2>10, <3>7, FlowAppend DEF Layout
    <2>12. CASE /\ SegmentCreated
                /\ AppendEntry(w, len, Last(free_pool), Bound(next_segment_id, 1),
                       next_segment_id, With(segs, next_segment_id, NewSegment))
      <3>1. next_segment_id \notin DOMAIN segs
        BY <1>t DEF Layout, IdsFresh
      <3>2. PICK blk : blk = Bound(next_segment_id, 1)
        OBVIOUS
      <3>3. /\ blk \in WriteBlock /\ Len(blk.buf) = 0 /\ blk.segment_id = next_segment_id
            /\ blk.segment_offset = 1
        BY <1>t, <3>2 DEF Bound, WriteBlock
      <3>4. PICK sg : sg = With(segs, next_segment_id, NewSegment)
        OBVIOUS
      <3>5. /\ sg \in [DOMAIN sg -> Segment] /\ DOMAIN sg = DOMAIN segs \cup {next_segment_id}
            /\ \A s \in DOMAIN segs : sg[s] = segs[s]
            /\ sg[next_segment_id] = NewSegment
        BY <1>t, <3>1, <3>4, NewSegmentType DEF With
      <3>6. sg[next_segment_id].write_offset = blk.segment_offset + Len(blk.buf)
        BY <3>3, <3>5 DEF NewSegment
      <3>7. /\ \A s \in DOMAIN segs : disk'[s] = disk[s]
            /\ disk'[next_segment_id] = <<SegHeader>>
        BY <1>t, <2>12, <3>1 DEF SegmentCreated, With
      <3>8. Len(disk'[next_segment_id]) <= blk.segment_offset + Len(blk.buf)
        BY <3>3, <3>7
      <3>a. AppendEntry(w, len, n, blk, next_segment_id, sg)
        BY <2>1, <2>12, <3>2, <3>4
      <3>9. \E new : EntryAppended(len, n, blk, next_segment_id, new)
        <4>1. SegmentEnds(sg, next_segment_id, blk.segment_offset + Len(blk.buf))
          BY <3>5, <3>6, <3>7, <3>8 DEF SegmentEnds
        <4> QED
          BY <2>3, <3>3, <3>a, <4>1, AppendEntryIs
      <3> QED
        BY <2>5, <2>8, <2>3, <2>9, <2>10, <3>9, FlowAppend DEF Layout
    <2>13. CASE SegmentNotCreated /\ UNCHANGED <<blocks, write_sequence, locs>>
      <3>1. Still
        BY <2>13 DEF Still, SegmentNotCreated
      <3> QED
        BY <2>10, <3>1, FlowStill, StillKeeps
    <2> QED
      BY <1>1, <2>11, <2>12, <2>13 DEF TakeBlock
  <1>2. CASE WaitForBlock(w, len)
    <2>1. Still /\ free_pool' = free_pool
      BY <1>2 DEF Still, WaitForBlock, segVars
    <2>2. writer'[w].pc \in Pausing
      BY <1>2, <1>t DEF WaitForBlock, Pausing
    <2>3. \A b \in Blocks : ~Owned(b)'
      BY <2>2 DEF Owned
    <2>4. \A b \in Blocks : Free(b)' <=> Free(b)
      BY <2>1 DEF Free
    <2>5. Roles'
      BY <1>r, <2>1, <2>3, <2>4 DEF Roles, InFlow
    <2> QED
      BY <2>1, <2>5, FlowStill, StillKeeps
  <1> QED
    BY <1>1, <1>2 DEF AcquireBlock, GiveUp
LEMMA NotifyKeeps ==
    ASSUME TypeInv, Roles, NotifyFlush \/ UNCHANGED flusher, UNCHANGED flushing_block
    PROVE  /\ \A b \in Blocks : Taken(b)' <=> Taken(b)
           /\ \A b \in Blocks : Written(b)' <=> Written(b)
           /\ (flushing_block = IF flusher.pc \in {"writing", "written"} THEN flusher.block
                                ELSE Null)'
           /\ flusher'.pc \in {flusher.pc, "eval"}
  <1>1. flusher \in FlusherState
    BY DEF TypeInv, TypeOK
  <1>2. flushing_block = IF flusher.pc \in {"writing", "written"} THEN flusher.block ELSE Null
    BY DEF Roles
  <1>3. CASE UNCHANGED flusher
    BY <1>2, <1>3 DEF Taken, Written
  <1>4. CASE NotifyFlush /\ flusher.pc = "blocked"
    <2>1. flusher'.pc = "eval" /\ flusher'.block = flusher.block
      BY <1>1, <1>4 DEF NotifyFlush, FlusherState
    <2> QED
      BY <1>2, <1>4, <2>1 DEF Taken, Written
  <1>5. CASE NotifyFlush /\ flusher.pc # "blocked"
    BY <1>3, <1>5 DEF NotifyFlush
  <1> QED
    BY <1>3, <1>4, <1>5

(* A step that leaves every block in its place *)
LEMMA BlocksStay ==
    ASSUME TypeInv, Roles, Content, Flow, Still,
           UNCHANGED <<flush_queue, free_pool, active_block, flushing_block>>,
           NotifyFlush \/ UNCHANGED flusher,
           \A v \in Writers : writer'[v].pc \in Pausing <=> writer[v].pc \in Pausing
    PROVE  Roles' /\ Content' /\ Flow' /\ \A l \in locs : OnDisk(l) => OnDisk(l)'
  <1>r. /\ Distinct(flush_queue)
        /\ Distinct(free_pool)
        /\ \A b \in Blocks : Queued(b) => ~Free(b)
        /\ \A b \in Blocks : Taken(b) \/ Written(b) => ~Queued(b) /\ ~Free(b)
        /\ \A b \in Blocks : Owned(b) => ~InFlow(b) /\ ~Written(b) /\ ~Free(b)
    BY DEF Roles
  <1>1. \A b \in Blocks : Owned(b)' <=> Owned(b)
    BY DEF Owned
  <1>2. /\ \A b \in Blocks : Taken(b)' <=> Taken(b)
        /\ \A b \in Blocks : Written(b)' <=> Written(b)
        /\ (flushing_block = IF flusher.pc \in {"writing", "written"} THEN flusher.block
                             ELSE Null)'
    BY NotifyKeeps
  <1>3. \A b \in Blocks : (Queued(b)' <=> Queued(b)) /\ (Free(b)' <=> Free(b))
    BY DEF Queued, Free
  <1>4. Moves
    BY <1>1, <1>2, MovesSame
  <1>5. Distinct(flush_queue') /\ Distinct(free_pool')
    BY <1>r
  <1>6. Roles'
    BY <1>r, <1>1, <1>2, <1>3, <1>5 DEF Roles, InFlow
  <1> QED
    BY <1>4, <1>6, FlowStill, StillKeeps

SegsOpen == \A s \in DOMAIN segs : segs[s].open

LEMMA AppendOpen ==
    ASSUME NEW w, NEW len, NEW b, NEW blk, NEW a, NEW sg,
           \A s \in DOMAIN sg : sg[s].open, AppendEntry(w, len, b, blk, a, sg)
    PROVE  SegsOpen'
  <1>1. segs' = [sg EXCEPT ![a] = Counted(sg[a], EntryUnits(len))]
    BY DEF AppendEntry
  <1>2. Counted(sg[a], EntryUnits(len)).open = sg[a].open
    BY DEF Counted
  <1>3. \A s \in DOMAIN segs' :
           s \in DOMAIN sg /\ segs'[s] = IF s = a THEN Counted(sg[a], EntryUnits(len)) ELSE sg[s]
    BY <1>1
  <1> QED
    BY <1>2, <1>3 DEF SegsOpen

LEMMA AcquireOpen ==
    ASSUME NEW w, NEW len, SegsOpen, AcquireBlock(w, len)
    PROVE  SegsOpen'
  <1>1. \A s \in DOMAIN With(segs, next_segment_id, NewSegment) :
            With(segs, next_segment_id, NewSegment)[s].open
    BY DEF With, NewSegment, SegsOpen
  <1>2. CASE UNCHANGED segs
    BY <1>2 DEF SegsOpen
  <1>3. CASE \E b, blk, a : AppendEntry(w, len, b, blk, a, segs)
    BY <1>3, AppendOpen DEF SegsOpen
  <1>4. CASE \E b, blk, a : AppendEntry(w, len, b, blk, a, With(segs, next_segment_id, NewSegment))
    BY <1>1, <1>4, AppendOpen
  <1> QED
    BY <1>2, <1>3, <1>4 DEF AcquireBlock, TakeBlock, WaitForBlock, GiveUp, segVars,
       SegmentNotCreated

LEMMA StagesOpen ==
    ASSUME Stages, phase = "open", UNCHANGED <<phase, flush_running>>, SegsOpen',
           flusher'.pc \in {flusher.pc, "eval"}
    PROVE  Stages'
  BY DEF Stages, SegsOpen

LEMMA WriterStore ==
    ASSUME SingleWriter, SmallEntries, ~CloseRace, StoreInv, TypeInv', phase # "crashed",
           NEW w \in Writers, WriterStarts(w) \/ WriterGoesOn(w)
    PROVE  /\ Roles' /\ Stages' /\ Content' /\ Flow'
           /\ \A l \in locs : OnDisk(l) => OnDisk(l)'
  <1>i. TypeInv /\ Layout /\ Roles /\ Stages /\ Content /\ Flow /\ lost' = lost
    BY DEF StoreInv, LayoutInv, WriterStarts, WriterGoesOn, WriterFrame
  <1>f. UNCHANGED <<phase, flush_running>>
    BY DEF WriterStarts, WriterGoesOn, WriterFrame
  <1>t. /\ writer \in [Writers -> WriterState] /\ active_block \in Blocks \cup {Null}
        /\ flush_queue \in Seq(Blocks)
    BY <1>i DEF TypeInv, TypeOK
  <1>r. /\ Distinct(flush_queue)
        /\ Distinct(free_pool)
        /\ \A b \in Blocks : Queued(b) => ~Free(b)
        /\ \A b \in Blocks : Taken(b) \/ Written(b) => ~Queued(b) /\ ~Free(b)
        /\ \A b \in Blocks : Owned(b) => ~InFlow(b) /\ ~Written(b) /\ ~Free(b)
    BY <1>i DEF Roles
  <1>1. ASSUME \/ writer[w].pc \in Pausing
               \/ writer[w].pc = "idle" /\ (phase # "open" => CloseRace)
        PROVE  phase = "open" /\ flush_running /\ SegsOpen
    BY <1>1, <1>i DEF Stages, Pausing, SegsOpen
  <1>2. writer[w].pc = "idle" => \A v \in Writers : writer[v].pc \notin Pausing
    BY DEF SingleWriter, Pausing
  (* Steps that leave every block in its place *)
  <1>3. ASSUME Still, flusher' = flusher, UNCHANGED <<segs, blockVars>>,
               \A v \in Writers : writer'[v].pc \in Pausing <=> writer[v].pc \in Pausing,
               phase = "open", SegsOpen
        PROVE  /\ Roles' /\ Stages' /\ Content' /\ Flow'
               /\ \A l \in locs : OnDisk(l) => OnDisk(l)'
    <2>1. SegsOpen'
      BY <1>3 DEF SegsOpen
    <2>2. Stages'
      BY <1>3, <1>f, <1>i, <2>1, StagesOpen
    <2> QED
      BY <1>3, <1>i, <2>2, BlocksStay DEF blockVars
  <1>4. ASSUME NEW len \in Lens, WriteRejected(w, len)
        PROVE  /\ Roles' /\ Stages' /\ Content' /\ Flow'
               /\ \A l \in locs : OnDisk(l) => OnDisk(l)'
    <2>1. phase = "open" /\ flush_running /\ SegsOpen /\ writer[w].pc = "idle"
      BY <1>1, <1>4 DEF WriteRejected, MayWrite
    <2>2. Still /\ flusher' = flusher /\ UNCHANGED <<segs, blockVars>>
      BY <1>4, <1>i DEF WriteRejected, Still, segVars, blockVars
    <2>3. writer' = [writer EXCEPT ![w] = IdleWriter]
      BY <1>4 DEF WriteRejected, Return
    <2>4. \A v \in Writers : writer'[v].pc \in Pausing <=> writer[v].pc \in Pausing
      BY <1>t, <2>1, <2>3 DEF IdleWriter, Pausing
    <2> QED
      BY <1>3, <2>1, <2>2, <2>4
  <1>5. ASSUME NEW len \in Lens, WriteBuffered(w, len)
        PROVE  /\ Roles' /\ Stages' /\ Content' /\ Flow'
               /\ \A l \in locs : OnDisk(l) => OnDisk(l)'
    <2>1. phase = "open" /\ flush_running /\ SegsOpen /\ writer[w].pc = "idle"
      BY <1>1, <1>5 DEF WriteBuffered, MayWrite
    <2>2. PICK b : b = active_block
      OBVIOUS
    <2>3. b \in Blocks /\ active_segment \in DOMAIN segs
      BY <1>5, <1>i, <1>t, <2>2 DEF WriteBuffered, TypeInv, TypeOK
    <2>4. PICK blk : blk = blocks[b]
      OBVIOUS
    <2>5. AppendEntry(w, len, b, blk, active_segment, segs)
      BY <1>5, <2>2, <2>4 DEF WriteBuffered
    <2>6. /\ blk \in WriteBlock /\ segs \in [DOMAIN segs -> Segment]
          /\ DOMAIN segs = DOMAIN segs \cup {active_segment}
      BY <1>i, <2>3, <2>4 DEF TypeInv, TypeOK
    <2>7. /\ blk.segment_id = active_segment
          /\ segs[active_segment].write_offset = blk.segment_offset + Len(blk.buf)
      BY <1>5, <1>i, <2>2, <2>4 DEF WriteBuffered, Layout, BlockAtEnd
    <2>8. len \in Nat /\ disk' = disk
      BY <1>5, ConfigAssumption DEF WriteBuffered
    <2>9. \E new : EntryAppended(len, b, blk, active_segment, new)
      <3>1. SegmentEnds(segs, active_segment, blk.segment_offset + Len(blk.buf))
        BY <2>3, <2>6, <2>7, <2>8 DEF SegmentEnds
      <3> QED
        BY <1>i, <2>3, <2>4, <2>5, <2>6, <2>7, <2>8, <3>1, AppendEntryIs
    <2>10. /\ flush_queue' = flush_queue /\ free_pool' = free_pool
           /\ active_block' = active_block /\ flushing_block' = flushing_block
           /\ flusher' = flusher
      BY <1>5 DEF WriteBuffered
    <2>11. /\ \A x \in Blocks : Taken(x)' <=> Taken(x)
           /\ \A x \in Blocks : Written(x)' <=> Written(x)
           /\ (flushing_block = IF flusher.pc \in {"writing", "written"} THEN flusher.block
                                ELSE Null)'
           /\ flusher'.pc \in {flusher.pc, "eval"}
      BY <1>i, <2>10, NotifyKeeps
    <2>12. writer' = [writer EXCEPT ![w] = IdleWriter]
      BY <2>5 DEF AppendEntry, Return
    <2>13. \A v \in Writers : writer'[v].pc \in Pausing <=> writer[v].pc \in Pausing
      BY <1>t, <2>1, <2>12 DEF IdleWriter, Pausing
    <2>14. \A x \in Blocks : Owned(x)' <=> Owned(x)
      BY <2>10, <2>13 DEF Owned
    <2>15. \A x \in Blocks : (Queued(x)' <=> Queued(x)) /\ (Free(x)' <=> Free(x))
      BY <2>10 DEF Queued, Free
    <2>16. Moves
      BY <2>10, <2>11, <2>14, MovesSame
    <2>17. Roles'
      BY <1>r, <2>10, <2>11, <2>14, <2>15 DEF Roles, InFlow
    <2>18. Owned(b)
      BY <1>2, <2>1, <2>2 DEF Owned
    <2>19. Owned(b)' /\ ~InFlow(b) /\ ~InFlow(b)'
      BY <1>r, <2>3, <2>11, <2>14, <2>15, <2>18 DEF InFlow
    <2>20. SegsOpen'
      BY <2>1, <2>5, AppendOpen DEF SegsOpen
    <2>21. Stages'
      BY <1>f, <1>i, <2>1, <2>11, <2>20, StagesOpen
    <2> QED
      BY <1>i, <2>4, <2>9, <2>16, <2>17, <2>19, <2>21, FlowAppend DEF Layout
  <1>6. ASSUME NEW len \in Nat, AcquireBlock(w, len), phase = "open", flush_running, SegsOpen,
               NotifyFlush \/ UNCHANGED flusher, UNCHANGED flushing_block,
               Moves, Distinct(flush_queue'),
               \A b \in Blocks : Queued(b)' <=> Queued(b) \/ Owned(b)
        PROVE  /\ Roles' /\ Stages' /\ Content' /\ Flow'
               /\ \A l \in locs : OnDisk(l) => OnDisk(l)'
    <2>1. /\ \A x \in Blocks : Taken(x)' <=> Taken(x)
          /\ \A x \in Blocks : Written(x)' <=> Written(x)
          /\ (flushing_block = IF flusher.pc \in {"writing", "written"} THEN flusher.block
                               ELSE Null)'
          /\ flusher'.pc \in {flusher.pc, "eval"}
      BY <1>i, <1>6, NotifyKeeps
    <2>2. Stages'
      BY <1>f, <1>i, <1>6, <2>1, AcquireOpen, StagesOpen
    <2> QED
      BY <1>i, <1>6, <2>1, <2>2, AcquireStore
  <1>7. ASSUME NEW len \in Lens, WriteRotate(w, len)
        PROVE  /\ Roles' /\ Stages' /\ Content' /\ Flow'
               /\ \A l \in locs : OnDisk(l) => OnDisk(l)'
    <2>1. phase = "open" /\ flush_running /\ SegsOpen /\ writer[w].pc = "idle"
      BY <1>1, <1>7 DEF WriteRotate, MayWrite
    <2>2. PICK b : b = active_block
      OBVIOUS
    <2>3. /\ b \in Blocks /\ flush_queue' = Append(flush_queue, b) /\ NotifyFlush
          /\ AcquireBlock(w, len) /\ flushing_block' = flushing_block /\ len \in Nat
      BY <1>7, <1>t, <2>2, ConfigAssumption DEF WriteRotate, QueueBlock
    <2>4. \A x \in Blocks : Owned(x) <=> x = b
      BY <1>2, <2>1, <2>2 DEF Owned
    <2>5. ~Queued(b)
      BY <1>r, <2>3, <2>4 DEF InFlow
    <2>6. /\ \A x : Has(Append(flush_queue, b), x) <=> Has(flush_queue, x) \/ x = b
          /\ Distinct(Append(flush_queue, b))
      BY <1>r, <1>t, <2>3, <2>5, AppendHas, Zenon DEF Queued
    <2>7. \A x \in Blocks : Queued(x)' <=> Queued(x) \/ Owned(x)
      BY <2>3, <2>4, <2>6 DEF Queued
    <2>8. \A x \in Blocks : Taken(x)' <=> Taken(x)
      BY <1>i, <2>3, NotifyKeeps
    <2>9. Moves
      BY <1>i, <2>3, <2>4, <2>8, MovesQueue
    <2>10. Distinct(flush_queue')
      BY <2>3, <2>6
    <2> QED
      BY <1>6, <2>1, <2>3, <2>7, <2>9, <2>10
  <1>8. ASSUME WriterParks(w)
        PROVE  /\ Roles' /\ Stages' /\ Content' /\ Flow'
               /\ \A l \in locs : OnDisk(l) => OnDisk(l)'
    <2>1. phase = "open" /\ flush_running /\ SegsOpen /\ writer[w].pc = "parking"
      BY <1>1, <1>8 DEF WriterParks, Pausing
    <2>2. Still /\ flusher' = flusher /\ UNCHANGED <<segs, blockVars>>
      BY <1>8, <1>i DEF WriterParks, Still, segVars, blockVars
    <2>3. writer' = [writer EXCEPT ![w].pc = "waiting"]
      BY <1>8 DEF WriterParks
    <2>4. \A v \in Writers : writer'[v].pc \in Pausing <=> writer[v].pc \in Pausing
      BY <1>t, <2>1, <2>3 DEF Pausing, WriterState
    <2> QED
      BY <1>3, <2>1, <2>2, <2>4
  <1>9. ASSUME WriterRetries(w)
        PROVE  /\ Roles' /\ Stages' /\ Content' /\ Flow'
               /\ \A l \in locs : OnDisk(l) => OnDisk(l)'
    <2>1. phase = "open" /\ flush_running /\ SegsOpen /\ writer[w].pc = "woken"
      BY <1>1, <1>9 DEF WriterRetries, Pausing
    <2>2. /\ AcquireBlock(w, writer[w].len) /\ flush_queue' = flush_queue
          /\ flusher' = flusher /\ flushing_block' = flushing_block
      BY <1>9 DEF WriterRetries
    <2>3. writer[w].len \in Nat
      BY <1>t DEF WriterState
    <2>4. \A x \in Blocks : ~Owned(x)
      BY <2>1 DEF Owned, Pausing
    <2>5. \A x \in Blocks : Queued(x)' <=> Queued(x) \/ Owned(x)
      BY <2>2, <2>4 DEF Queued
    <2>6. \A x \in Blocks : Taken(x)' <=> Taken(x)
      BY <1>i, <2>2, NotifyKeeps
    <2>7. Moves
      BY <2>2, <2>4, <2>6, MovesSame
    <2>8. Distinct(flush_queue')
      BY <1>r, <2>2
    <2> QED
      BY <1>6, <2>1, <2>2, <2>3, <2>5, <2>7, <2>8
  <1>10. ~DirectBegin(w) /\ ~DirectEnd(w) /\ \A len \in Lens : ~WriteDirect(w, len)
    <2>1. \A len \in Lens : EntryUnits(len) \in Nat /\ EntryUnits(len) <= Cap
      BY ConfigAssumption, EntryUnitsType DEF SmallEntries
    <2>2. \A len \in Lens : ~WriteDirect(w, len)
      BY <2>1, ConfigAssumption DEF WriteDirect
    <2> QED
      BY <1>i, <2>2 DEF Layout, NoDirect, DirectBegin, DirectEnd
  <1> QED
    BY <1>4, <1>5, <1>7, <1>8, <1>9, <1>10 DEF WriterStarts, WriterGoesOn
-----------------------------------------------------------------------------
(* The flush thread *)

LEMMA FlushStore ==
    ASSUME StoreInv, TypeInv', FlushStep
    PROVE  /\ Roles' /\ Stages' /\ Content' /\ Flow'
           /\ \A l \in locs : OnDisk(l) => OnDisk(l)'
  <1>i. TypeInv /\ Layout /\ Roles /\ Stages /\ Content /\ Flow
    BY DEF StoreInv, LayoutInv
  <1>f. UNCHANGED <<segs, next_segment_id, active_segment, blocks, active_block,
                    write_sequence, flush_running, reader, seg_lock, phase, locs>>
    BY DEF FlushStep
  <1>t. /\ writer \in [Writers -> WriterState] /\ free_pool \in Seq(Blocks)
        /\ flush_queue \in Seq(Blocks) /\ flusher \in FlusherState
        /\ flusher.pc \in {"writing", "written", "drain_writing"} => flusher.block # Null
    BY <1>i DEF TypeInv, TypeOK, PointersOK
  <1>r. /\ Distinct(flush_queue)
        /\ Distinct(free_pool)
        /\ \A b \in Blocks : Queued(b) => ~Free(b)
        /\ \A b \in Blocks : Taken(b) \/ Written(b) => ~Queued(b) /\ ~Free(b)
        /\ \A b \in Blocks : Owned(b) => ~InFlow(b) /\ ~Written(b) /\ ~Free(b)
        /\ flushing_block = IF flusher.pc \in {"writing", "written"} THEN flusher.block ELSE Null
    BY <1>i DEF Roles
  <1>w. /\ \A w \in Writers : writer'[w].pc \in Pausing <=> writer[w].pc \in Pausing
        /\ (\A w \in Writers : writer[w].pc = "idle") => writer' = writer
    <2>1. CASE UNCHANGED writer
      BY <2>1
    <2>2. CASE NotifyFree
      <3>1. CASE \E w \in {v \in Writers : writer[v].pc = "waiting"} :
                    writer' = [writer EXCEPT ![w].pc = "woken"]
        BY <1>t, <3>1 DEF Pausing, WriterState
      <3> QED
        BY <2>1, <2>2, <3>1 DEF NotifyFree
    <2> QED
      BY <2>1, <2>2 DEF FlushStep, FlushTake, FlushIdle, FlushParks, FlushWrite, FlushReturn,
         DrainTake, DrainWrite
  <1>o. \A b \in Blocks : Owned(b)' <=> Owned(b)
    BY <1>f, <1>w DEF Owned
  <1>n. flusher.pc # "exited" /\ phase # "closed"
    <2>1. flusher.pc # "exited"
      BY DEF FlushStep, FlushTake, FlushIdle, FlushParks, FlushWrite, FlushReturn,
         DrainTake, DrainWrite
    <2> QED
      BY <1>i, <2>1 DEF Stages
  <1>s. ASSUME flusher'.pc \in {"drain", "drain_writing", "exited"} => ~flush_running,
               flusher'.pc = "exited" => flush_queue' = <<>>
        PROVE  Stages'
    BY <1>s, <1>i, <1>f, <1>n, <1>w DEF Stages
  (* A block taken from the queue *)
  <1>1. ASSUME flush_queue # <<>>, flush_queue' = Tail(flush_queue),
               UNCHANGED <<disk, free_pool, lost>>,
               \/ /\ flusher.pc = "eval" /\ flushing_block' = Head(flush_queue)
                  /\ flusher' = [pc |-> "writing", block |-> Head(flush_queue)]
               \/ /\ flusher.pc = "drain" /\ flushing_block' = flushing_block
                  /\ flusher' = [pc |-> "drain_writing", block |-> Head(flush_queue)]
        PROVE  /\ Roles' /\ Stages' /\ Content' /\ Flow'
               /\ \A l \in locs : OnDisk(l) => OnDisk(l)'
    <2>1. PICK h : h = Head(flush_queue)
      OBVIOUS
    <2>2. /\ \A b : Has(flush_queue, b) <=> b = h \/ Has(Tail(flush_queue), b)
          /\ ~Has(Tail(flush_queue), h)
          /\ Distinct(Tail(flush_queue))
          /\ h \in Blocks
      BY <1>1, <1>r, <1>t, <2>1, TailHas, Zenon
    <2>3. \A b \in Blocks : ~Taken(b) /\ ~Written(b) /\ (Taken(b)' <=> b = h) /\ ~Written(b)'
      BY <1>1, <2>1 DEF Taken, Written
    <2>4. Queued(h) /\ ~Queued(h)' /\ \A b \in Blocks : Queued(b)' => Queued(b)
      BY <1>1, <2>2 DEF Queued
    <2>5. \A b \in Blocks : Free(b)' <=> Free(b)
      BY <1>1 DEF Free
    <2>6. flushing_block' = IF flusher'.pc \in {"writing", "written"} THEN flusher'.block ELSE Null
      BY <1>1, <1>r
    <2>7. Roles'
      <3>1. Distinct(flush_queue') /\ Distinct(free_pool')
        BY <1>1, <1>r, <2>2
      <3>2. \A b \in Blocks : Queued(b)' => ~Free(b)'
        BY <1>r, <2>4, <2>5
      <3>3. \A b \in Blocks : Taken(b)' \/ Written(b)' => ~Queued(b)' /\ ~Free(b)'
        BY <1>r, <2>2, <2>3, <2>4, <2>5
      <3>4. \A b \in Blocks : Owned(b)' => ~InFlow(b)' /\ ~Written(b)' /\ ~Free(b)'
        BY <1>o, <1>r, <2>2, <2>3, <2>4, <2>5 DEF InFlow
      <3> QED
        BY <2>6, <3>1, <3>2, <3>3, <3>4 DEF Roles
    <2>8. Moves
      BY <1>1, <1>i, <1>o, <2>1, <2>3, MovesTake
    <2>9. Still
      BY <1>1, <1>f DEF Still
    <2>10. Stages'
      BY <1>1, <1>i, <1>s DEF Stages
    <2> QED
      BY <1>i, <2>7, <2>8, <2>9, <2>10, FlowStill, StillKeeps
  (* A change of the thread's own state, between two blocks *)
  <1>2. ASSUME UNCHANGED <<disk, flush_queue, free_pool, lost, flushing_block>>,
               flusher.pc \notin {"writing", "written", "drain_writing"},
               flusher'.pc \notin {"writing", "written", "drain_writing"}
        PROVE  Roles' /\ Content' /\ Flow' /\ \A l \in locs : OnDisk(l) => OnDisk(l)'
    <2>1. \A b \in Blocks : ~Taken(b) /\ ~Written(b) /\ ~Taken(b)' /\ ~Written(b)'
      BY <1>2 DEF Taken, Written
    <2>2. \A b \in Blocks : (Queued(b)' <=> Queued(b)) /\ (Free(b)' <=> Free(b))
      BY <1>2 DEF Queued, Free
    <2>3. flushing_block' = IF flusher'.pc \in {"writing", "written"} THEN flusher'.block ELSE Null
      BY <1>2, <1>r
    <2>4. Distinct(flush_queue') /\ Distinct(free_pool')
      BY <1>2, <1>r
    <2>5. Roles'
      BY <1>o, <1>r, <2>1, <2>2, <2>3, <2>4 DEF Roles, InFlow
    <2>6. Moves
      BY <1>2, <1>o, <2>1, MovesSame
    <2>7. Still
      BY <1>2, <1>f DEF Still
    <2> QED
      BY <1>i, <2>5, <2>6, <2>7, FlowStill, StillKeeps
  (* The pwrite of the block taken *)
  <1>3. ASSUME flusher.pc \in {"writing", "drain_writing"}, WriteOut(blocks[flusher.block]),
               UNCHANGED <<flush_queue, flushing_block, free_pool>>,
               \/ flusher.pc = "writing" /\ flusher' = [flusher EXCEPT !.pc = "written"]
               \/ flusher.pc = "drain_writing" /\ flusher' = [pc |-> "drain", block |-> Null]
        PROVE  /\ Roles' /\ Stages' /\ Content' /\ Flow'
               /\ \A l \in locs : OnDisk(l) => OnDisk(l)'
    <2>1. PICK b : b = flusher.block
      OBVIOUS
    <2>2. b \in Blocks
      BY <1>3, <1>t, <2>1 DEF FlusherState
    <2>3. \A x \in Blocks : (Taken(x) <=> x = b) /\ ~Taken(x)' /\ (Written(x)' => x = b)
      BY <1>3, <1>t, <2>1 DEF Taken, Written, FlusherState
    <2>4. \A x \in Blocks : (Queued(x)' <=> Queued(x)) /\ (Free(x)' <=> Free(x))
      BY <1>3 DEF Queued, Free
    <2>5. flushing_block' = IF flusher'.pc \in {"writing", "written"} THEN flusher'.block ELSE Null
      BY <1>3, <1>r, <1>t DEF FlusherState
    <2>6. Distinct(flush_queue') /\ Distinct(free_pool')
      BY <1>3, <1>r
    <2>7. Roles'
      BY <1>o, <1>r, <2>3, <2>4, <2>5, <2>6 DEF Roles, InFlow
    <2>8. flusher'.pc \in {"written", "drain"} /\ (flusher'.pc = "drain" => flusher.pc = "drain_writing")
      BY <1>3, <1>t DEF FlusherState
    <2>9. Stages'
      BY <1>i, <1>s, <2>8 DEF Stages
    <2>10. Taken(b) /\ WriteOut(blocks[b])
      BY <1>3, <2>1, <2>2, <2>3
    <2>11. Content' /\ Flow'
      BY <1>3, <1>f, <1>i, <1>o, <2>2, <2>3, <2>10, FlowWrite
    <2>12. \A l \in locs : OnDisk(l) => OnDisk(l)'
      BY <1>f, <1>i, <2>2, <2>10, WriteOutKeeps
    <2> QED
      BY <2>7, <2>9, <2>11, <2>12
  <1>4. CASE FlushTake
    BY <1>1, <1>4 DEF FlushTake, PopQueue
  <1>5. CASE FlushIdle
    <2>1. /\ flusher'.pc = IF flush_running THEN "parking" ELSE "drain"
      BY <1>5, <1>t DEF FlushIdle, FlusherState
    <2>2. Stages'
      BY <1>s, <2>1
    <2> QED
      BY <1>2, <1>5, <2>1, <2>2 DEF FlushIdle
  <1>6. CASE FlushParks
    <2>1. flusher'.pc = "blocked"
      BY <1>6, <1>t DEF FlushParks, FlusherState
    <2>2. Stages'
      BY <1>s, <2>1
    <2> QED
      BY <1>2, <1>6, <2>1, <2>2 DEF FlushParks
  <1>7. CASE FlushWrite
    BY <1>3, <1>7 DEF FlushWrite
  <1>8. CASE FlushReturn
    <2>1. PICK b : b = flusher.block
      OBVIOUS
    <2>2. b \in Blocks
      BY <1>8, <1>t, <2>1 DEF FlusherState, FlushReturn
    <2>3. /\ flush_queue' = flush_queue /\ free_pool' = Append(free_pool, b)
          /\ flushing_block' = Null /\ flusher' = [pc |-> "eval", block |-> Null]
          /\ disk' = disk /\ lost' = lost
      BY <1>8, <2>1 DEF FlushReturn
    <2>4. \A x \in Blocks : ~Taken(x) /\ ~Taken(x)' /\ ~Written(x)' /\ (Written(x) <=> x = b)
      BY <1>8, <2>1, <2>3 DEF FlushReturn, Taken, Written
    <2>5. /\ \A x : Has(Append(free_pool, b), x) <=> Has(free_pool, x) \/ x = b
          /\ ~Has(free_pool, b) => Distinct(Append(free_pool, b))
      BY <1>r, <1>t, <2>2, AppendHas, Zenon
    <2>6. \A x \in Blocks : (Queued(x)' <=> Queued(x)) /\ (Free(x)' <=> Free(x) \/ x = b)
      BY <2>3, <2>5 DEF Queued, Free
    <2>7. ~Has(free_pool, b)
      BY <1>r, <2>2, <2>4 DEF Free
    <2>8. Distinct(flush_queue') /\ Distinct(free_pool')
      BY <1>r, <2>3, <2>5, <2>7
    <2>9. flushing_block' = IF flusher'.pc \in {"writing", "written"} THEN flusher'.block ELSE Null
      BY <2>3
    <2>10. Roles'
      BY <1>o, <1>r, <2>2, <2>4, <2>6, <2>8, <2>9 DEF Roles, InFlow
    <2>11. Moves
      BY <1>o, <2>3, <2>4, MovesSame
    <2>12. Still
      BY <1>f, <2>3 DEF Still
    <2>13. Stages'
      BY <1>s, <2>3
    <2> QED
      BY <1>i, <2>10, <2>11, <2>12, <2>13, FlowStill, StillKeeps
  <1>9. CASE DrainTake /\ flush_queue # <<>>
    BY <1>1, <1>9 DEF DrainTake, PopQueue
  <1>10. CASE DrainTake /\ flush_queue = <<>>
    <2>1. flusher'.pc = "exited" /\ flush_queue' = flush_queue /\ flusher.pc = "drain"
      BY <1>10 DEF DrainTake
    <2>2. Stages'
      BY <1>10, <1>i, <1>s, <2>1 DEF Stages
    <2> QED
      BY <1>2, <1>10, <2>1, <2>2 DEF DrainTake
  <1>11. CASE DrainWrite
    BY <1>3, <1>11 DEF DrainWrite
  <1> QED
    BY <1>4, <1>5, <1>6, <1>7, <1>8, <1>9, <1>10, <1>11 DEF FlushStep
-----------------------------------------------------------------------------
(* close(), and the steps that move no block *)

LEMMA CloseStore ==
    ASSUME ~CloseRace, StoreInv, TypeInv', CloseStarts \/ CloseGoesOn
    PROVE  /\ Roles' /\ Stages' /\ Content' /\ Flow'
           /\ \A l \in locs : OnDisk(l) => OnDisk(l)'
  <1>i. TypeInv /\ Layout /\ Roles /\ Stages /\ Content /\ Flow
    BY DEF StoreInv, LayoutInv
  <1>f. CloseFrame
    BY DEF CloseStarts, CloseGoesOn
  <1>t. /\ writer \in [Writers -> WriterState] /\ free_pool \in Seq(Blocks)
        /\ flush_queue \in Seq(Blocks) /\ flusher \in FlusherState
        /\ segs \in [DOMAIN segs -> Segment] /\ active_block \in Blocks \cup {Null}
    BY <1>i DEF TypeInv, TypeOK
  <1>1. ASSUME CloseQueue, ActiveBlockDirty
        PROVE  /\ Roles' /\ Stages' /\ Content' /\ Flow'
               /\ \A l \in locs : OnDisk(l) => OnDisk(l)'
    <2>r. /\ Distinct(flush_queue)
          /\ Distinct(free_pool)
          /\ \A b \in Blocks : Queued(b) => ~Free(b)
          /\ \A b \in Blocks : Taken(b) \/ Written(b) => ~Queued(b) /\ ~Free(b)
          /\ \A b \in Blocks : Owned(b) => ~InFlow(b) /\ ~Written(b) /\ ~Free(b)
      BY <1>i DEF Roles
    <2>1. PICK b : b = active_block
      OBVIOUS
    <2>2. /\ b \in Blocks /\ flush_queue' = Append(flush_queue, b) /\ NotifyFlush
          /\ active_block' = Null /\ flushing_block' = flushing_block
          /\ free_pool' = free_pool /\ writer' = writer
          /\ \A w \in Writers : writer[w].pc = "idle"
      BY <1>1, <1>f, <1>t, <2>1 DEF CloseQueue, ActiveBlockDirty, QueueBlock, CloseFrame
    <2>3. /\ \A x \in Blocks : Owned(x) <=> x = b
          /\ \A x \in Blocks : ~Owned(x)'
      BY <2>1, <2>2, NullNotBlock DEF Owned, Pausing
    <2>4. ~Queued(b)
      BY <2>r, <2>2, <2>3 DEF InFlow
    <2>5. /\ \A x : Has(Append(flush_queue, b), x) <=> Has(flush_queue, x) \/ x = b
          /\ Distinct(Append(flush_queue, b))
      BY <1>t, <2>r, <2>2, <2>4, AppendHas, Zenon DEF Queued
    <2>6. \A x \in Blocks : (Queued(x)' <=> Queued(x) \/ x = b) /\ (Free(x)' <=> Free(x))
      BY <2>2, <2>5 DEF Queued, Free
    <2>7. /\ \A x \in Blocks : Taken(x)' <=> Taken(x)
          /\ \A x \in Blocks : Written(x)' <=> Written(x)
          /\ (flushing_block = IF flusher.pc \in {"writing", "written"} THEN flusher.block
                               ELSE Null)'
          /\ flusher'.pc \in {flusher.pc, "eval"}
      BY <1>i, <2>2, NotifyKeeps
    <2>8. Distinct(flush_queue') /\ Distinct(free_pool')
      BY <2>r, <2>2, <2>5
    <2>9. \A x \in Blocks : Taken(x)' \/ Written(x)' => ~Queued(x)' /\ ~Free(x)'
      BY <2>r, <2>3, <2>6, <2>7 DEF InFlow
    <2>10. Roles'
      BY <2>r, <2>3, <2>6, <2>7, <2>8, <2>9 DEF Roles, InFlow
    <2>11. Moves
      BY <1>i, <2>2, <2>3, <2>7, MovesQueue
    <2>12. Still
      BY <1>1, <1>f DEF Still, CloseFrame, CloseQueue
    <2>13. Stages'
      BY <1>1, <1>i, <2>2, <2>7 DEF Stages, CloseQueue
    <2> QED
      BY <1>i, <2>10, <2>11, <2>12, <2>13, FlowStill, StillKeeps
  <1>2. ASSUME CloseQueue, ~ActiveBlockDirty
        PROVE  /\ Roles' /\ Stages' /\ Content' /\ Flow'
               /\ \A l \in locs : OnDisk(l) => OnDisk(l)'
    <2>1. /\ Still /\ UNCHANGED <<flush_queue, free_pool, active_block, flushing_block>>
          /\ flusher' = flusher /\ writer' = writer
      BY <1>2, <1>f DEF CloseFrame, CloseQueue, Still
    <2>2. active_block # Null => Len(blocks[active_block].buf) = 0
      BY <1>2 DEF ActiveBlockDirty
    <2>3. /\ \A w \in Writers : writer'[w].pc = "idle"
          /\ active_block' # Null => Len(blocks'[active_block'].buf) = 0
      BY <1>2, <2>1, <2>2 DEF CloseQueue, Still
    <2>4. Stages'
      BY <1>2, <1>i, <2>1, <2>3 DEF Stages, CloseQueue
    <2> QED
      BY <1>i, <2>1, <2>4, BlocksStay
  <1>3. ASSUME CloseStop
        PROVE  /\ Roles' /\ Stages' /\ Content' /\ Flow'
               /\ \A l \in locs : OnDisk(l) => OnDisk(l)'
    <2>1. /\ Still /\ UNCHANGED <<flush_queue, free_pool, active_block, flushing_block>>
          /\ flusher' = flusher /\ writer' = writer /\ blocks' = blocks
      BY <1>3, <1>f DEF CloseFrame, CloseStop, Still
    <2>2. Stages'
      BY <1>3, <1>i, <2>1 DEF Stages, CloseStop
    <2> QED
      BY <1>i, <2>1, <2>2, BlocksStay
  <1>4. ASSUME CloseNotify
        PROVE  /\ Roles' /\ Stages' /\ Content' /\ Flow'
               /\ \A l \in locs : OnDisk(l) => OnDisk(l)'
    <2>1. /\ Still /\ UNCHANGED <<flush_queue, free_pool, active_block, flushing_block>>
          /\ NotifyFlush /\ blocks' = blocks
      BY <1>4, <1>f DEF CloseFrame, CloseNotify, Still
    <2>2. \A w \in Writers : writer[w].pc = "idle"
      BY <1>4, <1>i DEF Stages, CloseNotify
    <2>3. \A w \in Writers : writer'[w].pc = "idle"
      BY <1>4, <2>2 DEF CloseNotify
    <2>4. flusher'.pc \in {flusher.pc, "eval"}
      BY <1>i, <2>1, NotifyKeeps
    <2>5. Stages'
      BY <1>4, <1>i, <2>1, <2>3, <2>4 DEF Stages, CloseNotify
    <2> QED
      BY <1>i, <2>1, <2>2, <2>3, <2>5, BlocksStay
  <1>5. ASSUME CloseFinish
        PROVE  /\ Roles' /\ Stages' /\ Content' /\ Flow'
               /\ \A l \in locs : OnDisk(l) => OnDisk(l)'
    <2>1. /\ DOMAIN segs' = DOMAIN segs
          /\ \A s \in DOMAIN segs : segs'[s].write_offset = segs[s].write_offset
      BY <1>5 DEF CloseFinish, Closed
    <2>2. /\ Still /\ UNCHANGED <<flush_queue, free_pool, active_block, flushing_block>>
          /\ flusher' = flusher /\ writer' = writer /\ blocks' = blocks
      BY <1>5, <1>f, <2>1 DEF CloseFrame, CloseFinish, Still
    <2>3. Stages'
      BY <1>5, <1>i, <2>2 DEF Stages, CloseFinish
    <2> QED
      BY <1>i, <2>2, <2>3, BlocksStay
  <1> QED
    BY <1>1, <1>2, <1>3, <1>4, <1>5 DEF CloseStarts, CloseGoesOn

LEMMA OtherStore ==
    ASSUME StoreInv, phase # "crashed",
           \/ \E w \in Writers, len \in Lens : Crash(w, len)
           \/ \E r \in Readers : ReaderStep(r)
           \/ \E l \in locs : MarkDead(l)
           \/ UNCHANGED vars
    PROVE  /\ Roles' /\ Stages' /\ Content' /\ Flow'
           /\ \A l \in locs : OnDisk(l) => OnDisk(l)'
  <1>i. TypeInv /\ Layout /\ Roles /\ Stages /\ Content /\ Flow
    BY DEF StoreInv, LayoutInv
  <1>1. /\ UNCHANGED <<disk, blocks, locs, write_sequence, lost, flush_queue, free_pool,
                       active_block, flushing_block, flusher, writer, flush_running>>
        /\ phase' \in {phase, "crashed"}
        /\ DOMAIN segs' = DOMAIN segs
        /\ \A s \in DOMAIN segs : /\ segs'[s].write_offset = segs[s].write_offset
                                  /\ segs'[s].open = segs[s].open
    <2>1. CASE \E w \in Writers, len \in Lens : Crash(w, len)
      BY <2>1 DEF Crash, segVars, blockVars
    <2>2. CASE \E r \in Readers : ReaderStep(r)
      BY <2>2 DEF ReaderStep, segVars, blockVars
    <2>3. CASE UNCHANGED vars
      BY <2>3 DEF vars, segVars, blockVars
    <2>4. ASSUME NEW l \in locs, MarkDead(l)
          PROVE  /\ DOMAIN segs' = DOMAIN segs
                 /\ \A s \in DOMAIN segs : /\ segs'[s].write_offset = segs[s].write_offset
                                           /\ segs'[s].open = segs[s].open
      <3>1. segs \in [DOMAIN segs -> Segment]
        BY <1>i DEF TypeInv, TypeOK
      <3>2. PICK n : segs' = [segs EXCEPT ![l.segment_id].live_count = n]
        BY <2>4 DEF MarkDead
      <3> QED
        BY <3>1, <3>2 DEF Segment
    <2>5. CASE \E l \in locs : MarkDead(l)
      BY <2>4, <2>5 DEF MarkDead, blockVars
    <2> QED
      BY <2>1, <2>2, <2>3, <2>5
  <1>2. Still
    BY <1>1 DEF Still
  <1>3. Stages'
    BY <1>1, <1>i DEF Stages
  <1> QED
    BY <1>1, <1>2, <1>3, <1>i, BlocksStay

-----------------------------------------------------------------------------
LEMMA StoreInit == Init => Roles /\ Stages /\ Content /\ Flow
  <1> SUFFICES ASSUME Init PROVE Roles /\ Stages /\ Content /\ Flow
    OBVIOUS
  <1>0. PoolSize \in Nat \ {0}
    BY ConfigAssumption
  <1>1. locs = {} /\ flush_queue = << >> /\ flusher.pc = "eval"
    BY DEF Init
  <1>2. \A b \in Blocks : ~Queued(b) /\ ~Taken(b) /\ ~Written(b) /\ ~InFlow(b)
    BY <1>1, EmptyHas DEF Queued, Taken, Written, InFlow
  <1>3. PICK n : n = PoolSize - 1
    OBVIOUS
  <1>4. n \in Nat /\ free_pool = [i \in 1 .. n |-> i]
    BY <1>0, <1>3 DEF Init
  <1>5. Len(free_pool) = n /\ \A i \in 1 .. n : free_pool[i] = i
    BY <1>4
  <1>6. Distinct(free_pool) /\ ~Free(PoolSize)
    BY <1>0, <1>3, <1>5 DEF Distinct, Free, Has
  <1>7. Distinct(flush_queue)
    BY <1>1 DEF Distinct
  <1>8. \A b \in Blocks : Owned(b) => b = PoolSize
    BY DEF Owned, Init
  <1>9. Roles
    BY <1>1, <1>2, <1>6, <1>7, <1>8 DEF Roles, Init
  <1>10. Stages
    BY DEF Stages, Init, NewSegment
  <1>11. LocsSized /\ SeqOrder /\ BlockContent /\ DiskContent
    BY <1>1 DEF LocsSized, SeqOrder, BlockContent, DiskContent
  <1>12. BlocksBelow
    <2> SUFFICES ASSUME NEW b \in Blocks
                 PROVE  End(b) <= segs[blocks[b].segment_id].write_offset
      BY DEF BlocksBelow
    <2>1. /\ blocks[b].segment_id = 0 /\ blocks[b].segment_offset \in {0, 1}
          /\ blocks[b].buf = << >>
      BY DEF Init, Bound
    <2>2. segs[0].write_offset = 1
      BY DEF Init, NewSegment
    <2> QED
      BY <2>1, <2>2 DEF End
  <1>13. FilesBelow
    BY DEF FilesBelow, Init, NewSegment
  <1>14. Flow
    BY <1>1 DEF Flow, Kept, InOrder, AtEnd
  <1> QED
    BY <1>9, <1>10, <1>11, <1>12, <1>13, <1>14 DEF Content

(* What the theorems assume: one writer, whose entries fit a block, and      *)
(* close() called after it has returned.                                     *)
Ordinary == SingleWriter /\ SmallEntries /\ ~CloseRace

LEMMA StoreNext ==
    ASSUME Ordinary, StoreInv, [Next]_vars
    PROVE  StoreInv' /\ \A l \in locs : OnDisk(l) => OnDisk(l)'
  <1>1. LayoutInv /\ TypeInv /\ TypeInv'
    BY TypeNext DEF StoreInv, LayoutInv
  <1>2. LayoutInv'
    BY <1>1, LayoutNext DEF LayoutInv, Ordinary
  <1>3. /\ Roles' /\ Stages' /\ Content' /\ Flow'
        /\ \A l \in locs : OnDisk(l) => OnDisk(l)'
    <2>1. CASE UNCHANGED vars /\ phase = "crashed"
      <3>1. TypeInv /\ Roles /\ Stages /\ Content /\ Flow
        BY <1>1 DEF StoreInv
      <3>2. Still
        BY <2>1 DEF Still, vars, segVars, blockVars
      <3>3. Stages'
        BY <2>1, <3>1 DEF Stages, vars, segVars, blockVars
      <3> QED
        BY <2>1, <3>1, <3>2, <3>3, BlocksStay DEF vars, blockVars
    <2>2. CASE phase # "crashed" /\ UNCHANGED vars
      BY <2>2, OtherStore
    <2>3. CASE Next
      <3>1. phase # "crashed"
        BY <2>3 DEF Next
      <3>2. CASE \E w \in Writers : WriterStarts(w) \/ WriterGoesOn(w)
        BY <1>1, <3>1, <3>2, WriterStore DEF Ordinary
      <3>3. CASE FlushStep
        BY <1>1, <3>3, FlushStore
      <3>4. CASE CloseStarts \/ CloseGoesOn
        BY <1>1, <3>4, CloseStore DEF Ordinary
      <3>5. CASE \/ \E w \in Writers, len \in Lens : Crash(w, len)
                 \/ \E r \in Readers : ReaderStep(r)
                 \/ \E l \in locs : MarkDead(l)
        BY <3>1, <3>5, OtherStore
      <3> QED
        BY <2>2, <2>3, <3>1, <3>2, <3>3, <3>4, <3>5 DEF Next, Quiescent
    <2> QED
      BY <2>1, <2>2, <2>3
  <1> QED
    BY <1>2, <1>3 DEF StoreInv
LEMMA StoreAlways == Ordinary => (Spec => []StoreInv)
  <1> SUFFICES ASSUME Ordinary PROVE Spec => []StoreInv
    OBVIOUS
  <1>1. Init => StoreInv
    BY TypeInit, LayoutInit, StoreInit DEF StoreInv, LayoutInv
  <1>2. StoreInv /\ [Next]_vars => StoreInv'
    BY StoreNext
  <1> QED
    BY <1>1, <1>2, PTL DEF Spec

-----------------------------------------------------------------------------
(* What find_in_pending_blocks() returns *)

LEMMA PendingCellsIs ==
    ASSUME TypeInv, LocsSized, BlockContent, NEW l \in locs, Holding(l) # {}
    PROVE  PendingCells(l) = EntryCells(l.seq, l.length)
  <1>1. PICK b : b = PendingBlocks[Min(Holding(l))]
    OBVIOUS
  <1>2. b \in Blocks /\ Holds(b, l)
    BY <1>1, HoldingBlock
  <1>3. PICK buf, so : buf = blocks[b].buf /\ so = blocks[b].segment_offset
    OBVIOUS
  <1>4. PICK at : at = l.offset - so
    OBVIOUS
  <1>5. PendingCells(l) = PRead(buf, at, EntryUnits(buf[at + 1][3]))
    BY <1>1, <1>3, <1>4 DEF PendingCells
  <1>6. /\ buf \in Seq(Cell) /\ so \in Nat /\ Len(buf) \in Nat /\ End(b) = so + Len(buf)
        /\ l.offset \in Nat /\ l.seq \in Nat /\ l.length \in Nat
        /\ l.disk_size \in Nat \ {0} /\ l.disk_size = EntryUnits(l.length)
    BY <1>2, <1>3, BlockFacts, LocFacts DEF End
  <1>7. /\ so <= l.offset /\ l.offset + l.disk_size <= so + Len(buf)
        /\ \A i \in 1 .. l.disk_size : buf[l.offset - so + i] = <<l.seq, i, l.length>>
    BY <1>2, <1>3, <1>6, HoldsAll
  <1>8. at \in Nat /\ at + l.disk_size <= Len(buf) /\ 1 \in 1 .. l.disk_size
    <2>1. 1 \in 1 .. l.disk_size
      BY <1>6
    <2> QED
      BY <1>4, <1>6, <1>7, <2>1, WithinRun
  <1>9. \A i \in 1 .. l.disk_size : buf[at + i] = <<l.seq, i, l.length>>
    BY <1>4, <1>7
  <1>10. buf[at + 1] = <<l.seq, 1, l.length>>
    BY <1>8, <1>9
  <1>11. buf[at + 1][3] = l.length
    BY <1>10
  <1>12. RunHas(buf, at, l.disk_size, l.seq, l.length)
    BY <1>8, <1>9 DEF RunHas
  <1>13. PRead(buf, at, l.disk_size) = EntryCells(l.seq, l.length)
    BY <1>6, <1>8, <1>12, RunIsEntry
  <1> QED
    BY <1>5, <1>6, <1>11, <1>13

(* While the store is open, the blocks that are still to be written are the  *)
(* ones find_in_pending_blocks() looks at.                                   *)
LEMMA PendingSeen ==
    ASSUME TypeInv, Roles, Stages, phase = "open", NEW b \in Blocks, NEW l,
           Owned(b) \/ InFlow(b), Holds(b, l)
    PROVE  Holding(l) # {}
  <1>1. PICK p : p = PendingBlocks
    OBVIOUS
  <1>2. /\ flush_queue \in Seq(Blocks) /\ active_block \in Blocks \cup {Null}
        /\ flushing_block \in Blocks \cup {Null}
    BY DEF TypeInv, TypeOK
  <1>3. PICK n : n = Len(flush_queue)
    OBVIOUS
  <1>4. /\ n \in Nat /\ DOMAIN p = 1 .. 2 + n
        /\ p[1] = active_block /\ p[2] = flushing_block
        /\ \A i \in 1 .. n : p[2 + i] = flush_queue[i]
    <2>1. PICK q : q = <<active_block, flushing_block>>
      OBVIOUS
    <2>2. /\ q \in Seq(Blocks \cup {Null}) /\ Len(q) = 2
          /\ q[1] = active_block /\ q[2] = flushing_block
      BY <1>2, <2>1
    <2>3. flush_queue \in Seq(Blocks \cup {Null}) /\ n \in Nat
      BY <1>2, <1>3
    <2>4. /\ Len(p) = 2 + n /\ p \in Seq(Blocks \cup {Null})
          /\ \A i \in 1 .. 2 + n : p[i] = IF i <= 2 THEN q[i] ELSE flush_queue[i - 2]
      BY <1>1, <1>3, <2>1, <2>2, <2>3, ConcatProperties DEF PendingBlocks
    <2>5. DOMAIN p = 1 .. 2 + n
      BY <2>4
    <2>6. 1 \in 1 .. 2 + n /\ 2 \in 1 .. 2 + n
      BY <2>3
    <2>7. \A i \in 1 .. n : 2 + i \in 1 .. 2 + n /\ ~(2 + i <= 2) /\ (2 + i) - 2 = i
      BY <2>3
    <2>8. p[1] = active_block /\ p[2] = flushing_block
      BY <2>2, <2>4, <2>6
    <2>9. \A i \in 1 .. n : p[2 + i] = flush_queue[i]
      BY <2>4, <2>7
    <2> QED
      BY <2>3, <2>5, <2>8, <2>9
  <1>5. SUFFICES \E i \in 1 .. 2 + n : p[i] = b
    BY <1>1, <1>4 DEF Holding
  <1>6. CASE Owned(b)
    BY <1>4, <1>6 DEF Owned
  <1>7. CASE Taken(b)
    <2>1. flusher.pc = "writing" /\ b = flusher.block
      BY <1>7 DEF Taken, Stages
    <2>2. flushing_block = b
      BY <2>1 DEF Roles
    <2> QED
      BY <1>4, <2>2
  <1>8. CASE Queued(b)
    <2>1. PICK i \in 1 .. n : flush_queue[i] = b
      BY <1>3, <1>8 DEF Queued, Has
    <2>2. 2 + i \in 1 .. 2 + n
      BY <1>4
    <2> QED
      BY <1>4, <2>1, <2>2
  <1> QED
    BY <1>6, <1>7, <1>8 DEF InFlow

LEMMA StoreVisible ==
    ASSUME StoreInv
    PROVE  /\ VisibleOrDurable
           /\ \A l \in locs : Holding(l) # {} => PendingCells(l) = EntryCells(l.seq, l.length)
  <1>1. TypeInv /\ LocsSized /\ BlockContent /\ Kept /\ Roles /\ Stages
    BY DEF StoreInv, LayoutInv, Content, Flow
  <1>2. \A l \in locs : Holding(l) # {} => PendingCells(l) = EntryCells(l.seq, l.length)
    BY <1>1, PendingCellsIs
  <1>3. ASSUME phase = "open", NEW l \in locs, Holding(l) = {} PROVE ~Pending(l)
    BY <1>1, <1>3, PendingSeen DEF Kept
  <1> QED
    BY <1>2, <1>3 DEF VisibleOrDurable, InMemory, Pending

LEMMA StorePrefix == StoreInv => PrefixDurable
  <1> SUFFICES ASSUME StoreInv, NEW l \in locs, NEW m \in locs, l.segment_id = m.segment_id,
                      l.seq < m.seq, OnDisk(m), Pending(l)
               PROVE  FALSE
    BY DEF PrefixDurable, Pending
  <1>1. TypeInv /\ LocsSized /\ SeqOrder /\ AtEnd
    BY DEF StoreInv, LayoutInv, Content, Flow
  <1>2. l.offset < m.offset
    BY <1>1 DEF SeqOrder
  <1>3. Len(disk[l.segment_id]) <= l.offset
    BY <1>1 DEF AtEnd
  <1>4. /\ m.offset \in Nat /\ m.disk_size \in Nat \ {0} /\ FileHas(disk[m.segment_id], m)
        /\ disk[m.segment_id] \in Seq(Cell) /\ l.offset \in Nat
    BY <1>1, LocFacts
  <1>5. m.offset + m.disk_size <= Len(disk[m.segment_id]) /\ Len(disk[m.segment_id]) \in Nat
    BY <1>4 DEF FileHas, RunHas
  <1> QED
    BY <1>2, <1>3, <1>4, <1>5

LEMMA StoreClosed == StoreInv => ClosedDurable
  <1> SUFFICES ASSUME StoreInv, phase = "closed", NEW l \in locs PROVE ~Pending(l)
    BY DEF ClosedDurable, Pending
  <1>1. TypeInv /\ Stages /\ Kept
    BY DEF StoreInv, LayoutInv, Flow
  <1>2. /\ flusher.pc = "exited" /\ flush_queue = << >>
        /\ active_block # Null => Len(blocks[active_block].buf) = 0
    BY <1>1 DEF Stages
  <1>3. \A b \in Blocks : ~InFlow(b)
    BY <1>2, EmptyHas DEF InFlow, Taken, Queued
  <1>4. ASSUME NEW b \in Blocks, Owned(b) PROVE ~Holds(b, l)
    <2>1. Len(blocks[b].buf) = 0
      BY <1>2, <1>4, NullNotBlock DEF Owned
    <2>2. blocks[b].segment_offset \in Nat /\ l.offset \in Nat
      BY <1>1, BlockFacts, LocFacts DEF StoreInv, Content
    <2> QED
      BY <2>1, <2>2 DEF Holds
  <1> QED
    BY <1>1, <1>3, <1>4 DEF Kept

(***************************************************************************)
(* While the store is open, every entry whose location write() returned    *)
(* can be read: from the first block in memory that covers it, or from its *)
(* file when none does; only a failed pwrite loses entries.  For one       *)
(* writer whose entries fit a block, any pool, sizes, readers and faults.  *)
(***************************************************************************)
THEOREM ReturnedIsReadable == Ordinary => (Spec => []VisibleOrDurable)
  <1> SUFFICES ASSUME Ordinary PROVE Spec => []VisibleOrDurable
    OBVIOUS
  <1>1. Spec => []StoreInv
    BY StoreAlways
  <1>2. StoreInv => VisibleOrDurable
    BY StoreVisible
  <1> QED
    BY <1>1, <1>2, PTL

(***************************************************************************)
(* flush_thread_fn() writes a segment's entries in the order of their      *)
(* sequence numbers: an entry on disk has every earlier one of its segment *)
(* on disk too, but for blocks whose pwrite failed.                        *)
(***************************************************************************)
THEOREM SegmentsFillInOrder == Ordinary => (Spec => []PrefixDurable)
  <1> SUFFICES ASSUME Ordinary PROVE Spec => []PrefixDurable
    OBVIOUS
  <1>1. Spec => []StoreInv
    BY StoreAlways
  <1>2. StoreInv => PrefixDurable
    BY StorePrefix
  <1> QED
    BY <1>1, <1>2, PTL

(***************************************************************************)
(* When close() returns, every location ever returned is on disk, but for  *)
(* the blocks whose pwrite failed: the drain loop leaves nothing behind.   *)
(***************************************************************************)
THEOREM CloseKeepsAll == Ordinary => (Spec => []ClosedDurable)
  <1> SUFFICES ASSUME Ordinary PROVE Spec => []ClosedDurable
    OBVIOUS
  <1>1. Spec => []StoreInv
    BY StoreAlways
  <1>2. StoreInv => ClosedDurable
    BY StoreClosed
  <1> QED
    BY <1>1, <1>2, PTL

(***************************************************************************)
(* No pwrite of the flush thread, whole or cut short, damages an entry     *)
(* that its segment file already holds, and no other step does.            *)
(***************************************************************************)
THEOREM DurableForever == Ordinary => (Spec => DurableStays)
  <1> SUFFICES ASSUME Ordinary PROVE Spec => DurableStays
    OBVIOUS
  <1>1. Spec => []StoreInv
    BY StoreAlways
  <1>2. StoreInv /\ [Next]_vars => [\A l \in locs : OnDisk(l) => OnDisk(l)']_vars
    BY StoreNext
  <1> QED
    BY <1>1, <1>2, PTL DEF Spec, DurableStays
-----------------------------------------------------------------------------
(* read() *)

LEMMA ServedIs == ReadersInv => ReadCorrect
  BY DEF ReadersInv, Served, ReadCorrect, Excused

LEMMA OthersAdvance ==
    ASSUME [Next]_vars
    PROVE  /\ lost \subseteq lost'
           /\ phase' = "open" => phase = "open"
           /\ \/ reader' = reader
              \/ \E r \in Readers : ReaderStep(r)
  <1>1. CASE UNCHANGED vars
    BY <1>1 DEF vars
  <1>2. CASE FlushStep
    <2>1. CASE WriteOut(blocks[flusher.block])
      BY <1>2, <2>1 DEF FlushStep, WriteOut
    <2>2. CASE lost' = lost
      BY <1>2, <2>2 DEF FlushStep
    <2> QED
      BY <1>2, <2>1, <2>2 DEF FlushStep, FlushTake, FlushIdle, FlushParks, FlushWrite,
         FlushReturn, DrainTake, DrainWrite
  <1>3. CASE \E w \in Writers : WriterStarts(w) \/ WriterGoesOn(w)
    BY <1>3 DEF WriterStarts, WriterGoesOn, WriterFrame
  <1>4. CASE CloseStarts \/ CloseGoesOn
    BY <1>4 DEF CloseStarts, CloseGoesOn, CloseFrame, CloseQueue, CloseStop, CloseNotify,
       CloseFinish
  <1>5. CASE \E w \in Writers, len \in Lens : Crash(w, len)
    BY <1>5 DEF Crash
  <1>6. CASE \E l \in locs : MarkDead(l)
    BY <1>6 DEF MarkDead
  <1>7. CASE \E r \in Readers : ReaderStep(r)
    BY <1>7 DEF ReaderStep
  <1> QED
    BY <1>1, <1>2, <1>3, <1>4, <1>5, <1>6, <1>7 DEF Next, Quiescent

LEMMA ReadersKeep ==
    ASSUME TypeInv, ReadersInv, reader' = reader, lost \subseteq lost',
           phase' = "open" => phase = "open",
           \A l \in locs : OnDisk(l) => OnDisk(l)'
    PROVE  ReadersInv'
  <1> SUFFICES ASSUME NEW r \in Readers PROVE Tries(reader[r])' /\ Served(reader[r])'
    BY DEF ReadersInv
  <1>1. PICK rd : rd = reader[r]
    OBVIOUS
  <1>2. Tries(rd) /\ Served(rd) /\ reader'[r] = rd
    BY <1>1 DEF ReadersInv
  <1>3. rd.pc \in {"fd", "disk"} => rd.loc \in locs
    BY <1>1 DEF TypeInv, PointersOK
  <1>4. Excused(rd.loc) => Excused(rd.loc)'
    BY DEF Excused
  <1>5. Tries(rd)'
    BY <1>2, <1>3, <1>4 DEF Tries
  <1>6. Served(rd)'
    BY <1>2, <1>4 DEF Served
  <1> QED
    BY <1>2, <1>5, <1>6 DEF Tries, Served

(* What a pread at a location can bring *)
Brings(l, got) ==
    /\ Len(got) = l.disk_size /\ BlobSize(got) # 0 =>
          /\ BlobSize(got) = l.length
          /\ \/ got = EntryCells(l.seq, l.length)
             \/ /\ l.seq \in lost
                /\ \A i \in DOMAIN got : got[i] \in {EntryCells(l.seq, l.length)[i], Hole}
    /\ OnDisk(l) => Len(got) = l.disk_size /\ BlobSize(got) = l.length

(* What read() can rely on *)
Readable ==
    /\ VisibleOrDurable
    /\ \A l \in locs : Holding(l) # {} => PendingCells(l) = EntryCells(l.seq, l.length)
    /\ \A l \in locs : Brings(l, PRead(disk[l.segment_id], l.offset, l.disk_size))
    /\ phase = "open" => SegsOpen

LEMMA ReadIs ==
    ASSUME StoreInv, NEW l \in locs, NEW got,
           got = PRead(disk[l.segment_id], l.offset, l.disk_size)
    PROVE  Brings(l, got)
  <1>1. TypeInv /\ LocsSized /\ AtEnd /\ DiskContent
    BY DEF StoreInv, LayoutInv, Content, Flow
  <1>2. PICK file : file = disk[l.segment_id]
    OBVIOUS
  <1>3. /\ file \in Seq(Cell) /\ l.offset \in Nat /\ l.disk_size \in Nat \ {0}
        /\ l.disk_size = EntryUnits(l.length) /\ l.seq \in Nat /\ l.length \in Nat
        /\ l.segment_id \in DOMAIN segs
    BY <1>1, <1>2, LocFacts
  <1>4. /\ Len(got) = l.disk_size <=> l.offset + l.disk_size <= Len(file)
        /\ l.offset + l.disk_size <= Len(file) =>
              \A i \in 1 .. l.disk_size : got[i] = file[l.offset + i]
    BY <1>2, <1>3, PReadIs
  <1>5. got \in Seq(Cell)
    <2>1. l.offset \in Int /\ l.offset >= 0 /\ l.disk_size \in Int
      BY <1>3
    <2> QED
      BY <1>2, <1>3, <2>1, PReadType
  <1>6. \A i \in 1 .. l.disk_size : EntryCells(l.seq, l.length)[i] = <<l.seq, i, l.length>>
    BY <1>3 DEF EntryCells
  <1>7. 1 \in 1 .. l.disk_size
    BY <1>3
  <1>8. OnDisk(l) => Len(got) = l.disk_size /\ BlobSize(got) = l.length
    <2> SUFFICES ASSUME OnDisk(l) PROVE Len(got) = l.disk_size /\ BlobSize(got) = l.length
      OBVIOUS
    <2>1. got = EntryCells(l.seq, l.length)
      BY DEF OnDisk
    <2>2. Len(got) = l.disk_size
      BY <1>3, <2>1, EntryCellsType
    <2>3. got[1] = <<l.seq, 1, l.length>>
      BY <1>6, <1>7, <2>1
    <2> QED
      BY <2>2, <2>3 DEF BlobSize
  <1>9. ASSUME Len(got) = l.disk_size, BlobSize(got) # 0
        PROVE  /\ BlobSize(got) = l.length
               /\ \/ got = EntryCells(l.seq, l.length)
                  \/ /\ l.seq \in lost
                     /\ \A i \in DOMAIN got : got[i] \in {EntryCells(l.seq, l.length)[i], Hole}
    <2>1. l.offset + l.disk_size <= Len(file) /\ Len(file) \in Nat
      BY <1>3, <1>4, <1>9
    <2>2. ~Pending(l)
      BY <1>1, <1>2, <1>3, <2>1 DEF AtEnd
    <2>3. \A i \in 1 .. l.disk_size : l.offset + i <= Len(file)
      BY <1>3, <2>1
    <2>4. \A i \in 1 .. l.disk_size : file[l.offset + i] \in {<<l.seq, i, l.length>>, Hole}
      BY <1>1, <1>2, <2>3 DEF DiskContent
    <2>5. \A i \in 1 .. l.disk_size : got[i] \in {EntryCells(l.seq, l.length)[i], Hole}
      BY <1>4, <1>6, <2>1, <2>4
    <2>6. got[1] \in {<<l.seq, 1, l.length>>, Hole}
      BY <1>6, <1>7, <2>5
    <2>7. BlobSize(got) = l.length
      BY <1>9, <2>6 DEF BlobSize, Hole
    <2>8. DOMAIN got = 1 .. l.disk_size
      BY <1>5, <1>9
    <2> QED
      BY <2>2, <2>5, <2>7, <2>8 DEF Pending, OnDisk
  <1> QED
    BY <1>8, <1>9 DEF Brings

LEMMA StoreReadable == StoreInv => Readable
  <1> SUFFICES ASSUME StoreInv PROVE Readable
    OBVIOUS
  <1>1. \A l \in locs : Brings(l, PRead(disk[l.segment_id], l.offset, l.disk_size))
    BY ReadIs, Zenon
  <1>2. phase = "open" => SegsOpen
    BY DEF StoreInv, Stages, SegsOpen
  <1> QED
    BY <1>1, <1>2, StoreVisible DEF Readable

LEMMA ReaderServed ==
    ASSUME TypeInv, Readable, ReadersInv, NEW r \in Readers, ReaderStep(r)
    PROVE  ReadersInv'
  <1>t. /\ TypeInv /\ VisibleOrDurable
        /\ \A l \in locs : Holding(l) # {} => PendingCells(l) = EntryCells(l.seq, l.length)
        /\ phase = "open" => \A s \in DOMAIN segs : segs[s].open
    BY DEF Readable, SegsOpen
  <1>f. UNCHANGED <<segs, disk, lost, phase>>
    BY DEF ReaderStep, segVars
  <1>1. PICK rd : rd = reader[r]
    OBVIOUS
  <1>2. /\ rd \in ReaderState /\ reader \in [Readers -> ReaderState]
        /\ rd.pc # "idle" => rd.loc \in locs /\ rd.errs <= rd.attempt
        /\ Tries(rd) /\ Served(rd)
    BY <1>1, <1>t DEF TypeInv, TypeOK, PointersOK, ReadersInv
  <1>3. \A x : (Tries(x)' <=> Tries(x)) /\ (Served(x)' <=> Served(x))
    BY <1>f DEF Tries, Served, Excused, OnDisk
  <1>4. ASSUME NEW new, reader' = [reader EXCEPT ![r] = new], Tries(new), Served(new)
        PROVE  ReadersInv'
    <2> SUFFICES ASSUME NEW q \in Readers PROVE Tries(reader[q])' /\ Served(reader[q])'
      BY DEF ReadersInv
    <2>1. PICK x : x = reader'[q]
      OBVIOUS
    <2>2. Tries(x) /\ Served(x)
      BY <1>2, <1>4, <2>1 DEF ReadersInv
    <2>3. Tries(x)' /\ Served(x)'
      BY <1>3, <2>2
    <2> QED
      BY <2>1, <2>3 DEF Tries, Served
  <1>5. ASSUME NEW cells, rd.loc \in locs,
               BlobSize(cells) = rd.loc.length,
               \/ cells = EntryCells(rd.loc.seq, rd.loc.length)
               \/ /\ rd.loc.seq \in lost
                  /\ \A i \in DOMAIN cells :
                        cells[i] \in {EntryCells(rd.loc.seq, rd.loc.length)[i], Hole}
        PROVE  Tries(Deliver(rd, cells)) /\ Served(Deliver(rd, cells))
    <2>1. CASE rd.loc.length > rd.buf_len
      <3>1. Deliver(rd, cells) = Finished(rd, "too_small", <<>>)
        BY <1>5, <2>1 DEF Deliver
      <3> QED
        BY <2>1, <3>1 DEF Finished, Tries, Served
    <2>2. CASE ~(rd.loc.length > rd.buf_len)
      <3>1. PICK new : new = Deliver(rd, cells)
        OBVIOUS
      <3>2. /\ new.pc = "idle" /\ new.attempt = 0 /\ new.status = "ok" /\ new.data = cells
            /\ new.loc = rd.loc
        BY <1>5, <2>2, <3>1 DEF Deliver, Finished
      <3>3. Tries(new) /\ Served(new)
        BY <1>5, <3>2 DEF Tries, Served
      <3> QED
        BY <3>1, <3>3
    <2> QED
      BY <2>1, <2>2
  <1>6. ASSUME NEW x, x.attempt = 0 => x.errs = 1 \/ Excused(x.loc),
               x.attempt # 0 => x.errs = 2 \/ Excused(x.loc)
        PROVE  Tries(RetryOrMiss(x)) /\ Served(RetryOrMiss(x))
    <2>1. CASE x.attempt = 0
      <3>1. RetryOrMiss(x) = Reading("pending", 1, x.errs, x.loc, x.buf_len)
        BY <2>1 DEF RetryOrMiss
      <3> QED
        BY <1>6, <2>1, <3>1 DEF Reading, Tries, Served
    <2>2. CASE x.attempt # 0
      <3>1. RetryOrMiss(x) = Finished(x, "not_found", <<>>)
        BY <2>2 DEF RetryOrMiss
      <3> QED
        BY <1>6, <2>2, <3>1 DEF Finished, Tries, Served
    <2> QED
      BY <2>1, <2>2
  <1>7. CASE \E l \in locs, n \in BufLens : ReadStart(r, l, n)
    <2>1. PICK l \in locs, n \in BufLens : ReadStart(r, l, n)
      BY <1>7
    <2>2. PICK new : new = Reading("pending", 0, 0, l, n)
      OBVIOUS
    <2>3. reader' = [reader EXCEPT ![r] = new] /\ new.pc = "pending" /\ new.attempt = 0
      BY <2>1, <2>2 DEF ReadStart, Reading
    <2>4. Tries(new) /\ Served(new)
      BY <2>3 DEF Tries, Served
    <2> QED
      BY <1>4, <2>3, <2>4
  <1>8. CASE ReadPending(r)
    <2>0. rd.loc \in locs /\ rd.pc = "pending"
      BY <1>1, <1>2, <1>8 DEF ReadPending
    <2>1. CASE Holding(rd.loc) # {}
      <3>1. PICK cells : cells = PendingCells(rd.loc)
        OBVIOUS
      <3>2. cells = EntryCells(rd.loc.seq, rd.loc.length)
        BY <1>t, <2>0, <2>1, <3>1
      <3>3. BlobSize(cells) = rd.loc.length
        <4>1. rd.loc.length \in Nat
          BY <1>t, <2>0 DEF TypeInv, TypeOK, BlobLocation
        <4>2. 1 \in 1 .. EntryUnits(rd.loc.length)
          BY <4>1, EntryUnitsType
        <4> QED
          BY <3>2, <4>2 DEF BlobSize, EntryCells
      <3>4. reader' = [reader EXCEPT ![r] = Deliver(rd, cells)]
        BY <1>1, <1>8, <2>1, <3>1 DEF ReadPending
      <3> QED
        BY <1>4, <1>5, <2>0, <3>2, <3>3, <3>4
    <2>2. CASE Holding(rd.loc) = {}
      <3>1. PICK new : new = [rd EXCEPT !.pc = "fd"]
        OBVIOUS
      <3>2. reader' = [reader EXCEPT ![r] = new]
        BY <1>1, <1>8, <2>2, <3>1 DEF ReadPending
      <3>3. /\ new.pc = "fd" /\ new.loc = rd.loc /\ new.attempt = rd.attempt
            /\ new.errs = rd.errs
        BY <1>2, <3>1 DEF ReaderState
      <3>4. phase = "open" => OnDisk(rd.loc) \/ rd.loc.seq \in lost
        BY <1>t, <2>0, <2>2 DEF VisibleOrDurable, InMemory
      <3>5. Tries(new) /\ Served(new)
        BY <1>2, <3>3, <3>4 DEF Tries, Served
      <3> QED
        BY <1>4, <3>2, <3>5
    <2> QED
      BY <2>1, <2>2
  <1>9. CASE ReadFd(r)
    <2>0. rd.loc \in locs /\ rd.pc = "fd"
      BY <1>1, <1>2, <1>9 DEF ReadFd
    <2>1. CASE segs[rd.loc.segment_id].open
      <3>1. PICK new : new = [rd EXCEPT !.pc = "disk"]
        OBVIOUS
      <3>2. reader' = [reader EXCEPT ![r] = new]
        BY <1>1, <1>9, <2>1, <3>1 DEF ReadFd
      <3>3. /\ new.pc = "disk" /\ new.loc = rd.loc /\ new.attempt = rd.attempt
            /\ new.errs = rd.errs
        BY <1>2, <3>1 DEF ReaderState
      <3>4. Tries(new) /\ Served(new)
        BY <1>2, <2>0, <3>3 DEF Tries, Served
      <3> QED
        BY <1>4, <3>2, <3>4
    <2>2. CASE ~segs[rd.loc.segment_id].open
      <3>1. PICK new : new = Finished(rd, "not_found", <<>>)
        OBVIOUS
      <3>2. reader' = [reader EXCEPT ![r] = new]
        BY <1>1, <1>9, <2>2, <3>1 DEF ReadFd
      <3>3. rd.loc.segment_id \in DOMAIN segs
        BY <1>t, <2>0 DEF TypeInv, PointersOK
      <3>4. Excused(rd.loc)
        BY <1>t, <2>2, <3>3 DEF Excused
      <3>5. /\ new.pc = "idle" /\ new.loc = rd.loc /\ new.attempt = 0
            /\ new.status = "not_found"
        BY <3>1 DEF Finished
      <3>6. Tries(new) /\ Served(new)
        BY <3>4, <3>5 DEF Tries, Served
      <3> QED
        BY <1>4, <3>2, <3>6
    <2> QED
      BY <2>1, <2>2
  <1>10. CASE ReadDisk(r)
    <2>0. rd.loc \in locs /\ rd.pc = "disk" /\ rd.errs <= rd.attempt
      BY <1>1, <1>2, <1>10 DEF ReadDisk
    <2>1. PICK got : got = PRead(disk[rd.loc.segment_id], rd.loc.offset, rd.loc.disk_size)
      OBVIOUS
    <2>2. PICK usable : usable = (/\ segs[rd.loc.segment_id].open
                                  /\ Len(got) = rd.loc.disk_size
                                  /\ BlobSize(got) # 0)
      OBVIOUS
    <2>3. \/ reader' = [reader EXCEPT ![r] = IF usable THEN Deliver(rd, got)
                                             ELSE RetryOrMiss(rd)]
          \/ reader' = [reader EXCEPT ![r] = RetryOrMiss(Failed(rd))]
      BY <1>1, <1>10, <2>1, <2>2 DEF ReadDisk
    <2>4. /\ Len(got) = rd.loc.disk_size /\ BlobSize(got) # 0 =>
                /\ BlobSize(got) = rd.loc.length
                /\ \/ got = EntryCells(rd.loc.seq, rd.loc.length)
                   \/ /\ rd.loc.seq \in lost
                      /\ \A i \in DOMAIN got :
                            got[i] \in {EntryCells(rd.loc.seq, rd.loc.length)[i], Hole}
          /\ OnDisk(rd.loc) => Len(got) = rd.loc.disk_size /\ BlobSize(got) = rd.loc.length
      BY <2>0, <2>1 DEF Readable, Brings
    <2>5. CASE usable /\ reader' = [reader EXCEPT ![r] = Deliver(rd, got)]
      <3>1. Tries(Deliver(rd, got)) /\ Served(Deliver(rd, got))
        BY <1>5, <2>0, <2>2, <2>4, <2>5
      <3> QED
        BY <1>4, <2>5, <3>1
    <2>6. CASE ~usable /\ reader' = [reader EXCEPT ![r] = RetryOrMiss(rd)]
      <3>1. rd.loc.segment_id \in DOMAIN segs
        BY <1>t, <2>0 DEF TypeInv, PointersOK
      <3>2. phase = "open" => segs[rd.loc.segment_id].open
        BY <1>t, <3>1
      <3>3. OnDisk(rd.loc) \/ rd.loc.seq \in lost \/ phase # "open"
        BY <1>2, <2>0 DEF Tries
      <3>4. Excused(rd.loc)
        BY <2>2, <2>4, <2>6, <3>2, <3>3 DEF Excused
      <3>5. Tries(RetryOrMiss(rd)) /\ Served(RetryOrMiss(rd))
        BY <1>6, <3>4
      <3> QED
        BY <1>4, <2>6, <3>5
    <2>7. CASE reader' = [reader EXCEPT ![r] = RetryOrMiss(Failed(rd))]
      <3>1. PICK x : x = Failed(rd)
        OBVIOUS
      <3>2. /\ x.errs = rd.errs + 1 /\ x.attempt = rd.attempt /\ x.loc = rd.loc
            /\ rd.errs \in 0 .. 2 /\ rd.attempt \in {0, 1}
        BY <1>2, <3>1 DEF Failed, ReaderState
      <3>3. rd.attempt = 1 => rd.errs = 1 \/ Excused(rd.loc)
        BY <1>2 DEF Tries
      <3>4. /\ x.attempt = 0 => x.errs = 1 \/ Excused(x.loc)
            /\ x.attempt # 0 => x.errs = 2 \/ Excused(x.loc)
        BY <2>0, <3>2, <3>3
      <3>5. Tries(RetryOrMiss(x)) /\ Served(RetryOrMiss(x))
        BY <1>6, <3>4
      <3> QED
        BY <1>4, <2>7, <3>1, <3>5
    <2> QED
      BY <2>3, <2>5, <2>6, <2>7
  <1> QED
    BY <1>7, <1>8, <1>9, <1>10 DEF ReaderStep

(***************************************************************************)
(* A finished read() delivers the entry it was asked for (or zeros for the *)
(* units a failed pwrite left out, as no checksum is compared), complains  *)
(* of a small buffer only when it is small, and misses an entry only if it *)
(* was lost, is empty, both attempts failed, or the store is being closed: *)
(* however the flush thread moves the entry's block between the attempts.  *)
(***************************************************************************)
THEOREM ReadersServed == Ordinary => (Spec => []ReadCorrect)
  <1> SUFFICES ASSUME Ordinary PROVE Spec => []ReadCorrect
    OBVIOUS
  <1>1. Spec => []StoreInv
    BY StoreAlways
  <1>2. Init => ReadersInv
    BY DEF Init, ReadersInv, Tries, Served, IdleReader, Reading
  <1>3. StoreInv /\ ReadersInv /\ [Next]_vars => ReadersInv'
    <2> SUFFICES ASSUME StoreInv, ReadersInv, [Next]_vars PROVE ReadersInv'
      OBVIOUS
    <2>1. \A l \in locs : OnDisk(l) => OnDisk(l)'
      BY StoreNext
    <2>2. TypeInv /\ Readable
      BY StoreReadable DEF StoreInv, LayoutInv
    <2> QED
      BY <2>1, <2>2, OthersAdvance, ReadersKeep, ReaderServed
  <1>4. ReadersInv => ReadCorrect
    BY ServedIs
  <1> QED
    BY <1>1, <1>2, <1>3, <1>4, PTL DEF Spec
-----------------------------------------------------------------------------
(***************************************************************************)
(* Direct writes.  When no entry fits a block, blocks stay empty and       *)
(* nothing is queued; an entry's location is returned only after its       *)
(* pwrite, at the end of the segment, which segments_mu_ keeps in place    *)
(* while the pwrite runs.  So every returned location is on disk, with any *)
(* number of writers and close() beside them.                              *)
(***************************************************************************)
DirectOnly == \A len \in Lens : EntryUnits(len) > Cap

Idling ==
    /\ lost = {}
    /\ flush_queue = << >>
    /\ \A b \in Blocks : Len(blocks[b].buf) = 0
    /\ flusher.pc \in {"eval", "parking", "blocked", "drain", "exited"}
    /\ \A w \in Writers : writer[w].pc \in {"idle", "direct", "direct_io"}

Reserved == \A w \in Writers : writer[w].pc = "direct_io" =>
    /\ seg_lock = w
    /\ writer[w].loc.disk_size = EntryUnits(writer[w].loc.length)
    /\ segs[writer[w].loc.segment_id].write_offset = writer[w].loc.offset

SizesRight == \A l \in locs : l.disk_size = EntryUnits(l.length)
AllOnDisk == \A l \in locs : OnDisk(l)

DirectParts ==
    /\ Idling /\ Reserved /\ LocsBelow /\ IdsFresh /\ SizesRight /\ AllOnDisk
    /\ phase = "open" => SegsOpen

DirectInv == TypeInv /\ DirectParts

LEMMA PWriteBeside ==
    ASSUME NEW file \in Seq(Cell), NEW cells \in Seq(Cell), NEW off \in Nat,
           NEW l \in BlobLocation, FileHas(file, l), l.offset + l.disk_size <= off
    PROVE  FileHas(PWrite(file, off, cells), l)
  <1>1. PICK new : new = PWrite(file, off, cells)
    OBVIOUS
  <1>2. new \in Seq(Cell)
    BY <1>1, PWriteType
  <1>3. /\ Len(file) <= Len(new)
        /\ \A i \in 1 .. Len(new) : i <= off => new[i] = IF i <= Len(file) THEN file[i] ELSE Hole
    BY <1>1, PWriteIs DEF Overwritten
  <1>4. /\ l.offset \in Nat /\ l.disk_size \in Nat /\ Len(new) \in Nat /\ Len(file) \in Nat
    BY <1>2 DEF BlobLocation
  <1>5. /\ l.offset + l.disk_size <= Len(file)
        /\ \A i \in 1 .. l.disk_size : file[l.offset + i] = <<l.seq, i, l.length>>
    BY DEF FileHas, RunHas
  <1>6. ASSUME NEW i \in 1 .. l.disk_size PROVE new[l.offset + i] = <<l.seq, i, l.length>>
    <2>1. PICK o, n, p, q : o = l.offset /\ n = l.disk_size /\ p = Len(file) /\ q = Len(new)
      OBVIOUS
    <2>2. o \in Nat /\ n \in Nat /\ p \in Nat /\ q \in Nat /\ o + n <= p /\ p <= q /\ o + n <= off
      BY <1>3, <1>4, <1>5, <2>1
    <2>3. i \in Nat /\ 1 <= i /\ i <= n
      BY <2>1, <2>2
    <2>4. o + i \in 1 .. q /\ o + i <= off /\ o + i <= p
      BY <2>2, <2>3
    <2>5. l.offset + i \in 1 .. Len(new) /\ l.offset + i <= off /\ l.offset + i <= Len(file)
      BY <2>1, <2>4
    <2> QED
      BY <1>3, <1>5, <2>5
  <1>7. l.offset + l.disk_size <= Len(new)
    BY <1>3, <1>4, <1>5
  <1> QED
    BY <1>1, <1>6, <1>7 DEF FileHas, RunHas

LEMMA PWriteThere ==
    ASSUME NEW file \in Seq(Cell), NEW l \in BlobLocation, l.disk_size = EntryUnits(l.length)
    PROVE  FileHas(PWrite(file, l.offset, EntryCells(l.seq, l.length)), l)
  <1>0. l.offset \in Nat /\ l.seq \in Nat /\ l.length \in Nat
    BY DEF BlobLocation
  <1>1. PICK cells : cells = EntryCells(l.seq, l.length)
    OBVIOUS
  <1>2. /\ cells \in Seq(Cell) /\ Len(cells) = l.disk_size
        /\ \A i \in 1 .. l.disk_size : cells[i] = <<l.seq, i, l.length>>
    <2>1. cells \in Seq(Cell) /\ Len(cells) = l.disk_size
      BY <1>0, <1>1, EntryCellsType
    <2>2. \A i \in 1 .. l.disk_size : cells[i] = <<l.seq, i, l.length>>
      BY <1>1 DEF EntryCells
    <2> QED
      BY <2>1, <2>2
  <1>3. PICK new : new = PWrite(file, l.offset, cells)
    OBVIOUS
  <1>4. /\ l.offset + l.disk_size <= Len(new)
        /\ \A i \in 1 .. l.disk_size : new[l.offset + i] = cells[i]
    BY <1>0, <1>2, <1>3, PWriteIs DEF Overwritten
  <1> QED
    BY <1>1, <1>2, <1>3, <1>4 DEF FileHas, RunHas

(* The entries stay on disk when a file is written at the end of its segment. *)
LEMMA WrittenAtEnd ==
    ASSUME TypeInv, TypeInv', LocsBelow, SizesRight, AllOnDisk, NEW s \in DOMAIN segs,
           NEW cells \in Seq(Cell),
           disk' = [disk EXCEPT ![s] = PWrite(@, segs[s].write_offset, cells)],
           DOMAIN segs' = DOMAIN segs
    PROVE  \A l \in locs : OnDisk(l)'
  <1> SUFFICES ASSUME NEW l \in locs PROVE OnDisk(l)'
    OBVIOUS
  <1>1. /\ l \in BlobLocation /\ l.disk_size = EntryUnits(l.length)
        /\ l.segment_id \in DOMAIN segs /\ disk \in [DOMAIN segs -> Seq(Cell)]
        /\ segs[s].write_offset \in Nat /\ disk'[l.segment_id] \in Seq(Cell)
    BY DEF TypeInv, TypeOK, PointersOK, SizesRight, Segment
  <1>2. FileHas(disk[l.segment_id], l)
    BY <1>1, FileHasIs DEF AllOnDisk, OnDisk
  <1>3. FileHas(disk'[l.segment_id], l)
    <2>1. CASE l.segment_id # s
      BY <1>1, <1>2, <2>1
    <2>2. CASE l.segment_id = s
      <3>1. l.offset + l.disk_size <= segs[s].write_offset
        BY <2>2 DEF LocsBelow
      <3>2. disk'[s] = PWrite(disk[s], segs[s].write_offset, cells) /\ disk[s] \in Seq(Cell)
        BY <1>1
      <3> QED
        BY <1>1, <1>2, <2>2, <3>1, <3>2, PWriteBeside
    <2> QED
      BY <2>1, <2>2
  <1> QED
    BY <1>1, <1>3, FileHasIs DEF OnDisk

(* The files alone, or new ones beside them *)
LEMMA FilesStay ==
    ASSUME TypeInv, AllOnDisk, LocsBelow, SizesRight, locs' = locs,
           \A s \in DOMAIN segs : disk'[s] = disk[s],
           \A s \in DOMAIN segs : segs'[s].write_offset = segs[s].write_offset
    PROVE  AllOnDisk' /\ LocsBelow' /\ SizesRight'
  <1>1. \A l \in locs : l.segment_id \in DOMAIN segs
    BY DEF TypeInv, PointersOK
  <1>2. AllOnDisk'
    BY <1>1 DEF AllOnDisk, OnDisk
  <1> QED
    BY <1>1, <1>2 DEF LocsBelow, SizesRight

LEMMA DirectSame ==
    ASSUME TypeInv, DirectParts,
           UNCHANGED <<disk, locs, lost, flush_queue, blocks, next_segment_id>>,
           DOMAIN segs' = DOMAIN segs,
           \A s \in DOMAIN segs : segs'[s].write_offset = segs[s].write_offset,
           phase' = "open" => SegsOpen',
           flusher'.pc \in {"eval", "parking", "blocked", "drain", "exited"},
           seg_lock' = seg_lock,
           \A w \in Writers : \/ writer'[w] = writer[w]
                              \/ writer'[w].pc \in {"idle", "direct"}
    PROVE  DirectParts'
  <1>1. Idling /\ Reserved /\ LocsBelow /\ IdsFresh /\ SizesRight /\ AllOnDisk
    BY DEF DirectParts
  <1>2. Idling'
    BY <1>1 DEF Idling
  <1>3. \A w \in Writers : writer[w].pc = "direct_io" => writer[w].loc.segment_id \in DOMAIN segs
    BY DEF TypeInv, PointersOK
  <1>4. Reserved'
    BY <1>1, <1>3 DEF Reserved
  <1>5. IdsFresh'
    BY <1>1 DEF IdsFresh
  <1>6. AllOnDisk' /\ LocsBelow' /\ SizesRight'
    BY <1>1, FilesStay
  <1> QED
    BY <1>2, <1>4, <1>5, <1>6 DEF DirectParts

LEMMA DirectWriter ==
    ASSUME DirectOnly, DirectInv, TypeInv', NEW w \in Writers, WriterStarts(w) \/ WriterGoesOn(w)
    PROVE  DirectParts'
  <1>i. /\ TypeInv /\ DirectParts /\ Idling /\ Reserved /\ LocsBelow /\ IdsFresh /\ SizesRight
        /\ AllOnDisk /\ (phase = "open" => SegsOpen)
    BY DEF DirectInv, DirectParts
  <1>f. UNCHANGED <<flush_running, reader, phase, lost>>
    BY DEF WriterStarts, WriterGoesOn, WriterFrame
  <1>t. /\ writer \in [Writers -> WriterState] /\ segs \in [DOMAIN segs -> Segment]
        /\ active_block \in Blocks \cup {Null} /\ disk \in [DOMAIN segs -> Seq(Cell)]
        /\ next_segment_id \in Nat /\ active_segment \in DOMAIN segs \cup {Null}
        /\ write_sequence \in Nat
    BY <1>i DEF TypeInv, TypeOK
  <1>1. ASSUME NEW len \in Lens, WriteRejected(w, len) \/ WriteDirect(w, len)
        PROVE  DirectParts'
    <2>1. UNCHANGED <<segs, disk, locs, flush_queue, blocks, next_segment_id, flusher, seg_lock>>
      BY <1>1 DEF WriteRejected, WriteDirect, segVars, blockVars
    <2>2. PICK new : writer' = [writer EXCEPT ![w] = new] /\ new.pc \in {"idle", "direct"}
      <3>1. CASE WriteRejected(w, len)
        <4>1. writer' = [writer EXCEPT ![w] = IdleWriter] /\ IdleWriter.pc = "idle"
          BY <3>1 DEF WriteRejected, Return, IdleWriter
        <4> QED
          BY <4>1
      <3>2. CASE WriteDirect(w, len)
        <4>1. PICK new : new = [pc |-> "direct", len |-> len, loc |-> NoLocation]
          OBVIOUS
        <4>2. new.pc = "direct" /\ writer' = [writer EXCEPT ![w] = new]
          BY <3>2, <4>1 DEF WriteDirect
        <4> QED
          BY <4>2
      <3> QED
        BY <1>1, <3>1, <3>2
    <2>3. \A v \in Writers : writer'[v] = writer[v] \/ writer'[v].pc \in {"idle", "direct"}
      BY <1>t, <2>2
    <2>4. flusher'.pc \in {"eval", "parking", "blocked", "drain", "exited"}
      BY <1>i, <2>1 DEF Idling
    <2>5. phase' = "open" => SegsOpen'
      BY <1>f, <1>i, <2>1 DEF SegsOpen
    <2> QED
      BY <1>f, <1>i, <2>1, <2>3, <2>4, <2>5, DirectSame
  <1>2. ASSUME NEW len \in Lens, WriteBuffered(w, len) \/ WriteRotate(w, len) PROVE FALSE
    <2>1. EntryUnits(len) \in Nat /\ EntryUnits(len) > Cap /\ Cap \in Nat
      BY ConfigAssumption, EntryUnitsType DEF DirectOnly
    <2>2. active_block \in Blocks
      BY <1>2, <1>t DEF WriteBuffered, WriteRotate
    <2>3. Len(blocks[active_block].buf) = 0
      BY <1>i, <2>2 DEF Idling
    <2> QED
      BY <1>2, <2>1, <2>3 DEF WriteBuffered, WriteRotate, Fits
  <1>3. CASE DirectBegin(w)
    <2>1. PICK len : len = writer[w].len
      OBVIOUS
    <2>2. len \in Nat
      BY <1>t, <2>1 DEF WriterState
    <2>3. /\ seg_lock = Null /\ seg_lock' = w
          /\ UNCHANGED <<blocks, flush_queue, flusher, locs>>
          /\ \/ SegmentCreated /\ segs' = With(segs, next_segment_id, NewSegment)
             \/ ~SegmentFull(EntryUnits(len)) /\ UNCHANGED segVars
          /\ writer' = [writer EXCEPT ![w] =
               [pc |-> "direct_io", len |-> len,
                loc |-> Location(write_sequence, active_segment',
                                 segs'[active_segment'].write_offset, len)]]
      BY <1>3, <2>1 DEF DirectBegin, SegmentsMuFree, blockVars
    <2>4. \A v \in Writers : writer[v].pc # "direct_io"
      BY <1>i, <2>3, ConfigAssumption DEF Reserved
    <2>5. /\ \A s \in DOMAIN segs : disk'[s] = disk[s] /\ segs'[s] = segs[s]
          /\ IdsFresh' /\ (SegsOpen => SegsOpen')
      <3>1. CASE SegmentCreated /\ segs' = With(segs, next_segment_id, NewSegment)
        <4>1. next_segment_id \notin DOMAIN segs
          BY <1>i, <1>t DEF IdsFresh
        <4>2. /\ DOMAIN segs' = DOMAIN segs \cup {next_segment_id}
              /\ segs'[next_segment_id] = NewSegment
              /\ \A s \in DOMAIN segs : disk'[s] = disk[s] /\ segs'[s] = segs[s]
          BY <1>t, <3>1, <4>1 DEF SegmentCreated, With
        <4>3. IdsFresh'
          <5>1. \A s \in DOMAIN segs : s \in Nat /\ s < next_segment_id
            BY <1>i DEF IdsFresh, TypeInv, TypeOK
          <5>2. next_segment_id' = next_segment_id + 1
            BY <3>1 DEF SegmentCreated
          <5> QED
            BY <1>t, <4>2, <5>1, <5>2 DEF IdsFresh
        <4>4. SegsOpen => SegsOpen'
          BY <4>2 DEF SegsOpen, NewSegment
        <4> QED
          BY <4>2, <4>3, <4>4
      <3>2. CASE UNCHANGED segVars
        BY <1>i, <3>2 DEF segVars, IdsFresh, SegsOpen
      <3> QED
        BY <2>3, <3>1, <3>2
    <2>6. Idling'
      <3>1. \A v \in Writers : writer'[v].pc \in {"idle", "direct", "direct_io"}
        BY <1>i, <1>t, <2>3 DEF Idling
      <3> QED
        BY <1>f, <1>i, <2>3, <3>1 DEF Idling
    <2>7. Reserved'
      <3> SUFFICES ASSUME NEW v \in Writers, writer'[v].pc = "direct_io"
                   PROVE  /\ seg_lock' = v
                          /\ writer'[v].loc.disk_size = EntryUnits(writer'[v].loc.length)
                          /\ segs'[writer'[v].loc.segment_id].write_offset = writer'[v].loc.offset
        BY DEF Reserved
      <3>1. v = w
        BY <1>t, <2>3, <2>4
      <3>2. writer'[w].loc = Location(write_sequence, active_segment',
                                      segs'[active_segment'].write_offset, len)
        BY <1>t, <2>3
      <3> QED
        BY <2>3, <3>1, <3>2 DEF Location
    <2>8. AllOnDisk' /\ LocsBelow' /\ SizesRight'
      BY <1>i, <2>3, <2>5, FilesStay
    <2> QED
      BY <1>f, <1>i, <2>5, <2>6, <2>7, <2>8 DEF DirectParts
  <1>4. CASE DirectEnd(w)
    <2>1. PICK l : l = writer[w].loc
      OBVIOUS
    <2>2. PICK cells : cells = EntryCells(l.seq, l.length)
      OBVIOUS
    <2>3. /\ writer[w].pc = "direct_io" /\ seg_lock' = Null
          /\ writer' = [writer EXCEPT ![w] = IdleWriter]
          /\ UNCHANGED <<next_segment_id, blocks, flush_queue, flusher>>
      BY <1>4 DEF DirectEnd, Return, blockVars
    <2>4. /\ seg_lock = w /\ l \in BlobLocation /\ l.segment_id \in DOMAIN segs
          /\ l.disk_size = EntryUnits(l.length)
          /\ segs[l.segment_id].write_offset = l.offset /\ l.offset \in Nat
          /\ l.seq \in Nat /\ l.length \in Nat /\ l.disk_size \in Nat \ {0}
      <3>1. l \in BlobLocation /\ l.segment_id \in DOMAIN segs
        BY <1>i, <1>t, <2>1, <2>3 DEF WriterState, TypeInv, PointersOK
      <3>2. l.offset \in Nat /\ l.seq \in Nat /\ l.length \in Nat
        BY <3>1 DEF BlobLocation
      <3>3. /\ seg_lock = w /\ l.disk_size = EntryUnits(l.length)
            /\ segs[l.segment_id].write_offset = l.offset
        BY <1>i, <2>1, <2>3 DEF Reserved
      <3> QED
        BY <3>1, <3>2, <3>3, EntryUnitsType
    <2>5. \A v \in Writers : v # w => writer[v].pc # "direct_io"
      BY <1>i, <2>4 DEF Reserved
    <2>6. cells \in Seq(Cell) /\ Len(cells) \in Nat
      BY <2>2, <2>4, EntryCellsType
    <2>7. /\ \A v \in Writers : writer'[v].pc \in {"idle", "direct", "direct_io"}
          /\ \A v \in Writers : writer'[v].pc # "direct_io"
      BY <1>i, <1>t, <2>3, <2>5 DEF Idling, IdleWriter
    <2>8. Idling' /\ Reserved'
      BY <1>f, <1>i, <2>3, <2>7 DEF Idling, Reserved
    <2>9. CASE /\ disk' = [disk EXCEPT ![l.segment_id] = PWrite(@, l.offset, cells)]
               /\ segs' = [segs EXCEPT ![l.segment_id] = Counted(@, l.disk_size)]
               /\ locs' = locs \cup {l}
      <3>1. /\ DOMAIN segs' = DOMAIN segs
            /\ \A s \in DOMAIN segs : segs'[s].open = segs[s].open
            /\ \A s \in DOMAIN segs : s # l.segment_id => segs'[s] = segs[s]
            /\ segs'[l.segment_id].write_offset = l.offset + l.disk_size
        BY <1>t, <2>4, <2>9 DEF Counted
      <3>2. \A m \in locs : OnDisk(m)'
        BY <1>i, <2>4, <2>6, <2>9, <3>1, WrittenAtEnd
      <3>3. OnDisk(l)'
        <4>1. disk[l.segment_id] \in Seq(Cell) /\ disk'[l.segment_id] \in Seq(Cell)
          BY <2>4, <3>1, <1>t DEF TypeInv, TypeOK
        <4>2. disk'[l.segment_id] = PWrite(disk[l.segment_id], l.offset, EntryCells(l.seq, l.length))
          BY <1>t, <2>2, <2>4, <2>9
        <4>3. FileHas(disk'[l.segment_id], l)
          BY <2>4, <4>1, <4>2, PWriteThere
        <4> QED
          BY <2>4, <4>1, <4>3, FileHasIs DEF OnDisk
      <3>4. AllOnDisk'
        BY <2>9, <3>2, <3>3 DEF AllOnDisk
      <3>5. LocsBelow'
        <4> SUFFICES ASSUME NEW m \in locs'
                     PROVE  m.offset + m.disk_size <= segs'[m.segment_id].write_offset
          BY DEF LocsBelow
        <4>1. CASE m = l
          BY <2>4, <3>1, <4>1
        <4>2. CASE m \in locs
          <5>1. /\ m.segment_id \in DOMAIN segs /\ m.offset \in Nat /\ m.disk_size \in Nat
                /\ m.offset + m.disk_size <= segs[m.segment_id].write_offset
            BY <1>i, <4>2 DEF TypeInv, TypeOK, PointersOK, BlobLocation, LocsBelow
          <5>2. CASE m.segment_id # l.segment_id
            BY <3>1, <5>1, <5>2
          <5>3. CASE m.segment_id = l.segment_id
            BY <2>4, <3>1, <5>1, <5>3
          <5> QED
            BY <5>2, <5>3
        <4> QED
          BY <2>9, <4>1, <4>2
      <3>6. SizesRight'
        BY <1>i, <2>4, <2>9 DEF SizesRight
      <3>7. IdsFresh' /\ (SegsOpen => SegsOpen')
        BY <1>i, <2>3, <3>1 DEF IdsFresh, SegsOpen
      <3> QED
        BY <1>f, <1>i, <2>8, <3>4, <3>5, <3>6, <3>7 DEF DirectParts
    <2>10. CASE /\ \E k \in 0 .. Len(cells) - 1 :
                     disk' = [disk EXCEPT ![l.segment_id] =
                                PWrite(@, l.offset, SubSeq(cells, 1, k))]
                /\ UNCHANGED <<segs, locs>>
      <3>1. PICK k \in 0 .. Len(cells) - 1 :
                disk' = [disk EXCEPT ![l.segment_id] = PWrite(@, l.offset, SubSeq(cells, 1, k))]
        BY <2>10
      <3>2. SubSeq(cells, 1, k) \in Seq(Cell)
        <4>1. k \in Nat /\ k <= Len(cells)
          BY <2>6
        <4>2. \A i \in 1 .. k : cells[i] \in Cell
          BY <2>6, <4>1
        <4> QED
          BY <4>1, <4>2, SubSeqProperties
      <3>3. \A m \in locs : OnDisk(m)'
        <4>1. PICK part : part = SubSeq(cells, 1, k)
          OBVIOUS
        <4> QED
          BY <1>i, <2>4, <2>10, <3>1, <3>2, <4>1, WrittenAtEnd
      <3>4. AllOnDisk' /\ LocsBelow' /\ SizesRight' /\ IdsFresh' /\ (SegsOpen => SegsOpen')
        BY <1>i, <2>3, <2>10, <3>3 DEF AllOnDisk, LocsBelow, SizesRight, IdsFresh, SegsOpen
      <3> QED
        BY <1>f, <1>i, <2>8, <3>4 DEF DirectParts
    <2> QED
      BY <1>4, <2>1, <2>2, <2>9, <2>10 DEF DirectEnd
  <1>5. ~WriterParks(w) /\ ~WriterRetries(w)
    BY <1>i DEF Idling, WriterParks, WriterRetries
  <1> QED
    BY <1>1, <1>2, <1>3, <1>4, <1>5 DEF WriterStarts, WriterGoesOn

LEMMA LocsGrow ==
    ASSUME [Next]_vars
    PROVE  locs \subseteq locs'
  <1>1. CASE \E w \in Writers : WriterStarts(w) \/ WriterGoesOn(w)
    <2>1. \A w, len, b, blk, a, sg : AppendEntry(w, len, b, blk, a, sg) => locs \subseteq locs'
      BY DEF AppendEntry
    <2>2. \A w, len : TakeBlock(w, len) => locs \subseteq locs'
      BY <2>1, Zenon DEF TakeBlock
    <2>3. \A w, len : AcquireBlock(w, len) => locs \subseteq locs'
      BY <2>2 DEF AcquireBlock, WaitForBlock, GiveUp
    <2>4. \A w, len : WriteBuffered(w, len) => locs \subseteq locs'
      BY <2>1, Zenon DEF WriteBuffered
    <2>5. \A w : WriterStarts(w) => locs \subseteq locs'
      BY <2>3, <2>4 DEF WriterStarts, WriteRejected, WriteRotate, WriteDirect
    <2>6. \A w : WriterGoesOn(w) => locs \subseteq locs'
      BY <2>3 DEF WriterGoesOn, WriterParks, WriterRetries, DirectBegin, DirectEnd
    <2> QED
      BY <1>1, <2>5, <2>6
  <1>2. CASE ~ \E w \in Writers : WriterStarts(w) \/ WriterGoesOn(w)
    BY <1>2 DEF Next, vars, Crash, ReaderStep, MarkDead, FlushStep, CloseStarts, CloseGoesOn,
       CloseFrame, Quiescent
  <1> QED
    BY <1>1, <1>2

LEMMA DirectOther ==
    ASSUME DirectInv, TypeInv', [Next]_vars,
           ~ \E w \in Writers : WriterStarts(w) \/ WriterGoesOn(w)
    PROVE  DirectParts'
  <1>i. /\ TypeInv /\ DirectParts /\ Idling /\ (phase = "open" => SegsOpen)
        /\ flush_queue = << >> /\ \A b \in Blocks : Len(blocks[b].buf) = 0
        /\ flusher.pc \in {"eval", "parking", "blocked", "drain", "exited"}
        /\ \A w \in Writers : writer[w].pc \in {"idle", "direct", "direct_io"}
    BY DEF DirectInv, DirectParts, Idling
  <1>t. /\ writer \in [Writers -> WriterState] /\ segs \in [DOMAIN segs -> Segment]
        /\ active_block \in Blocks \cup {Null} /\ flusher \in FlusherState
        /\ blocks \in [Blocks -> WriteBlock]
    BY <1>i DEF TypeInv, TypeOK
  <1>1. ASSUME UNCHANGED <<disk, locs, lost, flush_queue, blocks, next_segment_id, segs,
                           seg_lock, writer>>,
               flusher'.pc \in {"eval", "parking", "blocked", "drain", "exited"},
               phase' = "open" => phase = "open"
        PROVE  DirectParts'
    <2>1. phase' = "open" => SegsOpen'
      BY <1>i, <1>1 DEF SegsOpen
    <2> QED
      BY <1>i, <1>1, <2>1, DirectSame
  <1>2. CASE UNCHANGED vars
    BY <1>i, <1>1, <1>2 DEF vars, segVars, blockVars
  <1>3. CASE \E w \in Writers, len \in Lens : Crash(w, len)
    BY <1>i, <1>1, <1>3 DEF Crash, segVars, blockVars
  <1>4. CASE \E r \in Readers : ReaderStep(r)
    BY <1>i, <1>1, <1>4 DEF ReaderStep, segVars, blockVars
  <1>5. CASE FlushStep
    <2>1. ~FlushTake /\ ~FlushWrite /\ ~FlushReturn /\ ~DrainWrite
      BY <1>i DEF FlushTake, FlushWrite, FlushReturn, DrainWrite
    <2>2. /\ FlushIdle \/ FlushParks \/ DrainTake
          /\ UNCHANGED <<segs, next_segment_id, blocks, seg_lock, phase, locs>>
      BY <1>5, <2>1 DEF FlushStep
    <2>3. /\ UNCHANGED <<disk, flush_queue, writer, lost>>
          /\ flusher'.pc \in {"parking", "blocked", "drain", "exited"}
      <3>1. CASE FlushIdle
        BY <1>t, <3>1 DEF FlushIdle, FlusherState
      <3>2. CASE FlushParks
        BY <1>t, <3>2 DEF FlushParks, FlusherState
      <3>3. CASE DrainTake
        BY <1>i, <3>3 DEF DrainTake
      <3> QED
        BY <2>2, <3>1, <3>2, <3>3
    <2> QED
      BY <1>1, <2>2, <2>3
  <1>6. CASE \E l \in locs : MarkDead(l)
    <2>1. PICK l \in locs : MarkDead(l)
      BY <1>6
    <2>2. PICK s : s = l.segment_id
      OBVIOUS
    <2>3. /\ UNCHANGED <<disk, locs, lost, flush_queue, blocks, next_segment_id, flusher,
                         seg_lock, writer, phase>>
          /\ segs' = [segs EXCEPT ![s].live_count = IF @ > 0 THEN @ - 1 ELSE @]
      BY <2>1, <2>2 DEF MarkDead, blockVars
    <2>4. /\ DOMAIN segs' = DOMAIN segs
          /\ \A t \in DOMAIN segs : /\ segs'[t].write_offset = segs[t].write_offset
                                    /\ segs'[t].open = segs[t].open
      BY <1>t, <2>3 DEF Segment
    <2>5. phase' = "open" => SegsOpen'
      BY <1>i, <2>3, <2>4 DEF SegsOpen
    <2> QED
      BY <1>i, <2>3, <2>4, <2>5, DirectSame
  <1>7. CASE CloseStarts
    <2>1. ~ActiveBlockDirty
      <3> SUFFICES ASSUME active_block \in Blocks PROVE blocks[active_block].buf = << >>
        BY <1>t DEF ActiveBlockDirty
      <3>1. blocks[active_block].buf \in Seq(Cell) /\ Len(blocks[active_block].buf) = 0
        BY <1>i, <1>t DEF WriteBlock
      <3> QED
        BY <3>1, EmptySeq
    <2>2. /\ UNCHANGED <<disk, locs, lost, flush_queue, blocks, next_segment_id, segs,
                         seg_lock, writer, flusher>>
          /\ phase = "open"
      BY <1>7, <2>1 DEF CloseStarts, CloseQueue, CloseFrame
    <2> QED
      BY <1>i, <1>1, <2>2
  <1>8. CASE CloseGoesOn
    <2>1. UNCHANGED <<disk, next_segment_id, blocks, seg_lock, locs, lost>>
      BY <1>8 DEF CloseGoesOn, CloseFrame
    <2>2. CASE CloseStop
      BY <1>i, <1>1, <2>1, <2>2 DEF CloseStop
    <2>3. CASE CloseNotify
      <3>1. UNCHANGED <<segs, flush_queue>> /\ phase' = "joining"
        BY <2>3 DEF CloseNotify
      <3>2. writer' = writer
        BY <1>i, <1>t, <2>3 DEF CloseNotify
      <3>3. flusher'.pc \in {"eval", "parking", "blocked", "drain", "exited"}
        BY <1>i, <1>t, <2>3 DEF CloseNotify, NotifyFlush, FlusherState
      <3> QED
        BY <1>1, <2>1, <3>1, <3>2, <3>3
    <2>4. CASE CloseFinish
      <3>1. /\ UNCHANGED <<flush_queue, flusher, writer>> /\ phase' = "closed"
            /\ segs' = [s \in DOMAIN segs |-> Closed(segs[s])]
        BY <2>4 DEF CloseFinish
      <3>2. /\ DOMAIN segs' = DOMAIN segs
            /\ \A s \in DOMAIN segs : segs'[s].write_offset = segs[s].write_offset
        BY <3>1 DEF Closed
      <3> QED
        BY <1>i, <2>1, <3>1, <3>2, DirectSame
    <2> QED
      BY <1>8, <2>2, <2>3, <2>4 DEF CloseGoesOn
  <1> QED
    BY <1>2, <1>3, <1>4, <1>5, <1>6, <1>7, <1>8 DEF Next, Quiescent

LEMMA DirectNext == DirectOnly /\ DirectInv /\ [Next]_vars => DirectInv'
  <1> SUFFICES ASSUME DirectOnly, DirectInv, [Next]_vars PROVE DirectInv'
    OBVIOUS
  <1>1. TypeInv'
    BY TypeNext DEF DirectInv
  <1>2. CASE \E w \in Writers : WriterStarts(w) \/ WriterGoesOn(w)
    BY <1>1, <1>2, DirectWriter DEF DirectInv
  <1>3. CASE ~ \E w \in Writers : WriterStarts(w) \/ WriterGoesOn(w)
    BY <1>1, <1>3, DirectOther DEF DirectInv
  <1> QED
    BY <1>2, <1>3

LEMMA DirectInit == Init => DirectInv
  <1> SUFFICES ASSUME Init PROVE DirectInv
    OBVIOUS
  <1>1. TypeInv
    BY TypeInit
  <1>2. Idling
    <2>1. \A b \in Blocks : Len(blocks[b].buf) = 0
      BY DEF Init, Bound
    <2> QED
      BY <2>1 DEF Init, Idling, IdleWriter
  <1>3. Reserved /\ LocsBelow /\ SizesRight /\ AllOnDisk
    BY DEF Init, Reserved, LocsBelow, SizesRight, AllOnDisk, IdleWriter
  <1>4. IdsFresh /\ SegsOpen
    BY DEF Init, IdsFresh, SegsOpen, NewSegment
  <1> QED
    BY <1>1, <1>2, <1>3, <1>4 DEF DirectInv, DirectParts

LEMMA DirectReadable == DirectInv => TypeInv /\ Readable
  <1> SUFFICES ASSUME DirectInv PROVE Readable
    BY DEF DirectInv
  <1>i. TypeInv /\ Idling /\ SizesRight /\ AllOnDisk /\ (phase = "open" => SegsOpen)
    BY DEF DirectInv, DirectParts
  <1>1. ASSUME NEW l \in locs PROVE Holding(l) = {}
    <2>1. \A i \in DOMAIN PendingBlocks : PendingBlocks[i] \in Blocks \cup {Null}
      <3>1. /\ active_block \in Blocks \cup {Null} /\ flushing_block \in Blocks \cup {Null}
            /\ flush_queue = << >>
        BY <1>i DEF Idling, TypeInv, TypeOK
      <3>2. PICK ps : ps = PendingBlocks
        OBVIOUS
      <3>3. ps = <<active_block, flushing_block>>
        BY <3>1, <3>2 DEF PendingBlocks
      <3>4. \A i \in DOMAIN ps : ps[i] \in Blocks \cup {Null}
        BY <3>1, <3>3
      <3> QED
        BY <3>2, <3>4
    <2>2. ASSUME NEW b \in Blocks PROVE ~Holds(b, l)
      <3>1. /\ Len(blocks[b].buf) = 0 /\ blocks[b].segment_offset \in Nat /\ l.offset \in Nat
        BY <1>i DEF Idling, TypeInv, TypeOK, WriteBlock, BlobLocation
      <3> QED
        BY <3>1 DEF Holds
    <2>3. ~Holds(Null, l)
      BY DEF Holds
    <2> QED
      BY <2>1, <2>2, <2>3 DEF Holding
  <1>2. ASSUME NEW l \in locs
        PROVE  Brings(l, PRead(disk[l.segment_id], l.offset, l.disk_size))
    <2>1. PICK got : got = PRead(disk[l.segment_id], l.offset, l.disk_size)
      OBVIOUS
    <2>2. got = EntryCells(l.seq, l.length)
      BY <1>i, <2>1 DEF AllOnDisk, OnDisk
    <2>3. l.length \in Nat /\ l.seq \in Nat /\ l.disk_size = EntryUnits(l.length)
      BY <1>i DEF TypeInv, TypeOK, BlobLocation, SizesRight
    <2>4. Len(got) = l.disk_size
      BY <2>2, <2>3, EntryCellsType
    <2>5. BlobSize(got) = l.length
      <3>1. 1 \in 1 .. EntryUnits(l.length)
        BY <2>3, EntryUnitsType
      <3> QED
        BY <2>2, <3>1 DEF BlobSize, EntryCells
    <2>6. Brings(l, got)
      BY <2>2, <2>4, <2>5 DEF Brings
    <2> QED
      BY <2>1, <2>6
  <1>3. VisibleOrDurable
    BY <1>i, <1>1 DEF VisibleOrDurable, AllOnDisk
  <1> QED
    BY <1>i, <1>1, <1>2, <1>3 DEF Readable

LEMMA DirectAlways == DirectOnly => (Spec => []DirectInv)
  <1> SUFFICES ASSUME DirectOnly PROVE Spec => []DirectInv
    OBVIOUS
  <1>1. DirectInv /\ [Next]_vars => DirectInv'
    BY DirectNext
  <1> QED
    BY <1>1, DirectInit, PTL DEF Spec

(***************************************************************************)
(* When every entry is larger than a block, write() returns a location     *)
(* only when the entry is in its segment file, where no other pwrite,      *)
(* whole or torn, ever touches it: with any number of writers, and with    *)
(* close() beside them.                                                    *)
(***************************************************************************)
THEOREM DirectIsDurable == DirectOnly => (Spec => []AllOnDisk)
  <1>1. DirectInv => AllOnDisk
    BY DEF DirectInv, DirectParts
  <1> QED
    BY <1>1, DirectAlways, PTL

(***************************************************************************)
(* When every entry is larger than a block, read() delivers the entry      *)
(* asked for or, when both preads fail or the store is being closed,       *)
(* nothing: with any number of writers at once, and with close() beside    *)
(* them.                                                                   *)
(***************************************************************************)
THEOREM DirectReadersServed == DirectOnly => (Spec => []ReadCorrect)
  <1> SUFFICES ASSUME DirectOnly PROVE Spec => []ReadCorrect
    OBVIOUS
  <1>1. Init => ReadersInv
    BY DEF Init, ReadersInv, Tries, Served, IdleReader, Reading
  <1>2. DirectInv /\ ReadersInv /\ [Next]_vars => ReadersInv'
    <2> SUFFICES ASSUME DirectInv, ReadersInv, [Next]_vars PROVE ReadersInv'
      OBVIOUS
    <2>1. DirectInv'
      BY DirectNext
    <2>2. \A l \in locs : OnDisk(l) => OnDisk(l)'
      <3>1. locs \subseteq locs'
        BY LocsGrow
      <3> QED
        BY <2>1, <3>1 DEF DirectInv, DirectParts, AllOnDisk
    <2> QED
      BY <2>2, DirectReadable, OthersAdvance, ReadersKeep, ReaderServed
  <1>3. ReadersInv => ReadCorrect
    BY ServedIs
  <1>4. Spec => []DirectInv
    BY DirectAlways
  <1> QED
    BY <1>1, <1>2, <1>3, <1>4, PTL DEF Spec
=============================================================================
