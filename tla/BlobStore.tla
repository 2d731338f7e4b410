------------------------------ MODULE BlobStore ------------------------------
(***************************************************************************)
(* The T2 (NVMe) blob store: storage/blob_store.cpp with storage/segment.h *)
(*                                                                         *)
(* Writers append entries to one active write block in memory.  A full     *)
(* block is queued for the flush thread, which pwrites it to the segment   *)
(* file it is bound to and returns it to the pool; readers look in the     *)
(* blocks in memory first and then on disk; close() queues the last block, *)
(* stops the flush thread and joins it.                                    *)
(*                                                                         *)
(* Positions and sizes are in units of kAlignment: entries are padded to   *)
(* whole units, so every offset is a whole number of them.  A unit of data *)
(* is a cell <<sequence, part, length>>; part 1 holds the entry's header.  *)
(*                                                                         *)
(* A critical section of block_mu_ is one step.  Where the mutex is given  *)
(* up inside an operation, a thread that found its condition false is      *)
(* "parking" (it holds block_mu_ but is not yet registered with the        *)
(* condition variable) and then waits.                                     *)
(***************************************************************************)
EXTENDS Integers, Sequences, FiniteSets, SequencesExt, FiniteSetsExt

CONSTANTS
    Writers,        \* threads that call write()
    Readers,        \* threads that call read()
    PoolSize,       \* write_block_pool_size
    Cap,            \* block capacity in units (write_block_size_mb)
    SegmentSize,    \* segment_size in units
    Lens,           \* blob lengths, in bytes, that writers ask for
    BufLens,        \* buffer lengths that readers pass
    MaxWrites,      \* bound: sequence numbers handed out
    MaxFaults,      \* bound: I/O calls (pread, pwrite, open) that fail
    MayClose,       \* whether close() is called
    CloseRace,      \* whether write() may run at the same time as close()
    Null            \* nullptr

ASSUME ConfigAssumption ==
    /\ PoolSize \in Nat \ {0}
    /\ Cap \in Nat \ {0}
    /\ SegmentSize \in Nat
    /\ 1 + Cap <= SegmentSize
    /\ Lens \subseteq Nat
    /\ BufLens \subseteq Nat
    /\ MaxWrites \in Nat
    /\ MaxFaults \in Nat
    /\ MayClose \in BOOLEAN
    /\ CloseRace \in BOOLEAN
    /\ Null \notin Nat
    /\ Null \notin Writers

VARIABLES
    segs,             \* segments_: id -> offset, counts, persisted header
    disk,             \* what the segment files hold: id -> sequence of cells
    next_segment_id,
    active_segment,
    write_sequence,
    blocks,           \* every WriteBlock; Len(buf) is its pos
    active_block,
    flush_queue,
    free_pool,
    flushing_block,
    flush_running,
    flusher,          \* the flush thread: pc and the block it works on
    writer,           \* a thread inside write(), or idle
    reader,           \* a thread inside read(), or the result of its last one
    seg_lock,         \* the direct writer that holds segments_mu_, or Null
    phase,            \* where close() is; "crashed" when the process has died
    faults,           \* how many I/O calls have failed
    locs,             \* history: the locations returned with kOk
    lost              \* history: sequence numbers in a block whose pwrite failed

segVars == <<segs, disk, next_segment_id, active_segment>>
blockVars == <<blocks, active_block, flush_queue, free_pool, flushing_block>>
vars == <<segVars, blockVars, write_sequence, flush_running, flusher, writer, reader,
          seg_lock, phase, faults, locs, lost>>

Blocks == 1 .. PoolSize     \* all_blocks_, in the order open() allocates them

Cell == Nat \X Nat \X Nat
Hole == <<0, 0, 0>>         \* a unit nobody wrote, read back as zeros
SegHeader == <<0, 0, 1>>    \* the unit at offset 0 of a segment file

Segment == [write_offset : Nat, entry_count : Nat, live_count : Nat,
            open : BOOLEAN, hdr : Nat \X Nat]

WriteBlock == [segment_id : Nat, segment_offset : Nat, buf : Seq(Cell)]

BlobLocation == [seq : Nat, segment_id : Nat, offset : Nat, length : Nat, disk_size : Nat]

WriterState == [pc : {"idle", "parking", "waiting", "woken", "direct", "direct_io"},
                len : Nat, loc : BlobLocation]

ReaderState == [pc : {"idle", "pending", "fd", "disk"}, attempt : {0, 1}, errs : 0 .. 2,
                loc : BlobLocation, buf_len : Nat,
                status : {"none", "ok", "not_found", "too_small"}, data : Seq(Cell)]

FlusherState == [pc : {"eval", "parking", "blocked", "writing", "written",
                       "drain", "drain_writing", "exited"},
                 block : Blocks \cup {Null}]

(* Every variable stays in its type: pointers name blocks and segments that  *)
(* exist, and the pool's containers hold blocks only.                        *)
TypeOK ==
    /\ DOMAIN segs \subseteq Nat
    /\ segs \in [DOMAIN segs -> Segment]
    /\ disk \in [DOMAIN segs -> Seq(Cell)]
    /\ next_segment_id \in Nat
    /\ active_segment \in DOMAIN segs \cup {Null}
    /\ write_sequence \in Nat
    /\ blocks \in [Blocks -> WriteBlock]
    /\ active_block \in Blocks \cup {Null}
    /\ flush_queue \in Seq(Blocks)
    /\ free_pool \in Seq(Blocks)
    /\ flushing_block \in Blocks \cup {Null}
    /\ flush_running \in BOOLEAN
    /\ flusher \in FlusherState
    /\ writer \in [Writers -> WriterState]
    /\ reader \in [Readers -> ReaderState]
    /\ seg_lock \in Writers \cup {Null}
    /\ phase \in {"open", "stopping", "notifying", "joining", "closed", "crashed"}
    /\ faults \in Nat
    /\ locs \subseteq BlobLocation
    /\ lost \subseteq Nat

-----------------------------------------------------------------------------
(* Entries and files *)

kAlignment == 4096
kEntryHeaderSize == 64

(* entry_disk_size(), in units *)
EntryUnits(len) == (kEntryHeaderSize + len + kAlignment - 1) \div kAlignment

EntryCells(seq, len) == [i \in 1 .. EntryUnits(len) |-> <<seq, i, len>>]

Location(seq, seg_id, off, len) ==
    [seq |-> seq, segment_id |-> seg_id, offset |-> off,
     length |-> len, disk_size |-> EntryUnits(len)]

(* pwrite: the file grows if it must, and a gap before the run reads as zeros. *)
PWrite(file, off, cells) ==
    LET end == off + Len(cells)
    IN  [i \in 1 .. IF Len(file) < end THEN end ELSE Len(file) |->
            IF i \in off + 1 .. end THEN cells[i - off]
            ELSE IF i <= Len(file) THEN file[i] ELSE Hole]

(* pread of n units, short at the end of the file *)
PRead(file, off, n) ==
    SubSeq(file, off + 1, IF off + n < Len(file) THEN off + n ELSE Len(file))

MayFail == faults < MaxFaults

-----------------------------------------------------------------------------
(* Locks and condition variables *)

(* block_mu_ is held from one step to another only by a thread that parks. *)
BlockMuFree == /\ flusher.pc # "parking"
               /\ \A w \in Writers : writer[w].pc # "parking"

SegmentsMuIgnored == TRUE            \* segments_mu_ not taken

SegmentsMuFree == seg_lock = Null

NoNotifyFlush == UNCHANGED flusher   \* a notify that is forgotten
NoNotifyFree == UNCHANGED writer

(* flush_cv_: only the flush thread waits on it. *)
NotifyFlush == flusher' = IF flusher.pc = "blocked"
                          THEN [flusher EXCEPT !.pc = "eval"] ELSE flusher

(* free_cv_.notify_one(): any one of the waiting writers wakes up. *)
NotifyFree ==
    LET waiting == {w \in Writers : writer[w].pc = "waiting"}
    IN  IF waiting = {} THEN UNCHANGED writer
        ELSE \E w \in waiting : writer' = [writer EXCEPT ![w].pc = "woken"]

-----------------------------------------------------------------------------
(* open() on an empty directory: segment 0 is created, the pool allocated,   *)
(* and its last block taken and bound to the segment.                        *)

NewSegment == [write_offset |-> 1, entry_count |-> 0, live_count |-> 0,
               open |-> TRUE, hdr |-> <<0, 0>>]

(* A block always bound to the start of its segment *)
BoundToStart(seg_id, off) == [segment_id |-> seg_id, segment_offset |-> 1, buf |-> <<>>]

Bound(seg_id, off) == [segment_id |-> seg_id, segment_offset |-> off, buf |-> <<>>]

NoLocation == Location(0, 0, 0, 0)

IdleWriter == [pc |-> "idle", len |-> 0, loc |-> NoLocation]

Reading(pc, attempt, errs, l, n) ==
    [pc |-> pc, attempt |-> attempt, errs |-> errs, loc |-> l, buf_len |-> n,
     status |-> "none", data |-> <<>>]

IdleReader == Reading("idle", 0, 0, NoLocation, 0)

Init ==
    /\ segs = [s \in {0} |-> NewSegment]
    /\ disk = [s \in {0} |-> <<SegHeader>>]
    /\ next_segment_id = 1
    /\ active_segment = 0
    /\ write_sequence = 0
    /\ blocks = [b \in Blocks |-> IF b = PoolSize THEN Bound(0, 1) ELSE Bound(0, 0)]
    /\ active_block = PoolSize
    /\ free_pool = [i \in 1 .. PoolSize - 1 |-> i]
    /\ flush_queue = <<>>
    /\ flushing_block = Null
    /\ flush_running = TRUE
    /\ flusher = [pc |-> "eval", block |-> Null]
    /\ writer = [w \in Writers |-> IdleWriter]
    /\ reader = [r \in Readers |-> IdleReader]
    /\ seg_lock = Null
    /\ phase = "open"
    /\ faults = 0
    /\ locs = {}
    /\ lost = {}

-----------------------------------------------------------------------------
(* create_new_segment(): the id is spent even when the file cannot be opened, *)
(* and then there is no active segment.                                       *)

With(f, id, v) == [s \in DOMAIN f \cup {id} |-> IF s = id THEN v ELSE f[s]]

(* The id after the increment taken for the new segment *)
SegmentCreatedLate ==
    /\ active_segment' = next_segment_id + 1
    /\ next_segment_id' = next_segment_id + 1
    /\ disk' = With(disk, next_segment_id, <<SegHeader>>)
    /\ UNCHANGED faults

SegmentCreated ==
    /\ active_segment' = next_segment_id
    /\ next_segment_id' = next_segment_id + 1
    /\ disk' = With(disk, next_segment_id, <<SegHeader>>)
    /\ UNCHANGED faults

SegmentNotCreated ==
    /\ MayFail
    /\ faults' = faults + 1
    /\ active_segment' = Null
    /\ next_segment_id' = next_segment_id + 1
    /\ UNCHANGED <<segs, disk>>

(* Full only when nothing at all fits any more *)
SegmentFullLate(units) ==
    active_segment # Null => segs[active_segment].write_offset >= SegmentSize

SegmentFull(units) ==
    active_segment # Null => segs[active_segment].write_offset + units > SegmentSize

Counted(seg, units) ==
    [write_offset |-> seg.write_offset + units, entry_count |-> seg.entry_count + 1,
     live_count |-> seg.live_count + 1, open |-> seg.open, hdr |-> seg.hdr]

-----------------------------------------------------------------------------
(* write(), in memory *)

Return(w) == writer' = [writer EXCEPT ![w] = IdleWriter]

(* The entry goes into block b, which holds blk; the bookkeeping goes to     *)
(* segment a of the segments sg.                                             *)
AppendEntry(w, len, b, blk, a, sg) ==
    /\ blocks' = [blocks EXCEPT ![b] =
                    [blk EXCEPT !.buf = @ \o EntryCells(write_sequence, len)]]
    /\ segs' = [sg EXCEPT ![a] = Counted(@, EntryUnits(len))]
    /\ write_sequence' = write_sequence + 1
    /\ locs' = locs \cup {Location(write_sequence, blk.segment_id,
                                   blk.segment_offset + Len(blk.buf), len)}
    /\ Return(w)

BuffersFreed == phase = "closed"

(* acquire_block() finds a free block, and the rotation binds it to the      *)
(* active segment or to a new one ...                                        *)
TakeBlock(w, len) ==
    LET b == Last(free_pool)
    IN  /\ free_pool # <<>>
        /\ ~BuffersFreed
        /\ SegmentsMuFree
        /\ free_pool' = Front(free_pool)
        /\ active_block' = b
        /\ \/ /\ ~SegmentFull(Cap)
              /\ AppendEntry(w, len, b,
                             Bound(active_segment, segs[active_segment].write_offset),
                             active_segment, segs)
              /\ UNCHANGED <<active_segment, next_segment_id, disk, faults>>
           \/ /\ SegmentFull(Cap)
              /\ SegmentCreated
              /\ AppendEntry(w, len, b, Bound(next_segment_id, 1), next_segment_id,
                             With(segs, next_segment_id, NewSegment))
           \/ /\ SegmentFull(Cap)
              /\ SegmentNotCreated
              /\ Return(w)
              /\ UNCHANGED <<blocks, write_sequence, locs>>

(* ... or it waits for one while the flush thread runs ...                   *)
WaitForBlock(w, len) ==
    /\ free_pool = <<>>
    /\ flush_running
    /\ writer' = [writer EXCEPT ![w] = [pc |-> "parking", len |-> len, loc |-> NoLocation]]
    /\ UNCHANGED <<segVars, blocks, active_block, free_pool, write_sequence, faults, locs>>

(* ... or, the flush thread having been told to stop, there is none.         *)
GiveUp(w) ==
    /\ free_pool = <<>>
    /\ ~flush_running
    /\ active_block' = Null
    /\ Return(w)
    /\ UNCHANGED <<segVars, blocks, free_pool, write_sequence, faults, locs>>

AcquireBlock(w, len) == TakeBlock(w, len) \/ WaitForBlock(w, len) \/ GiveUp(w)

(* The newest block first *)
QueueInFront(b) == flush_queue' = <<b>> \o flush_queue /\ NotifyFlush

QueueBlock(b) == flush_queue' = Append(flush_queue, b) /\ NotifyFlush

Fits(b, len) == Len(blocks[b].buf) + EntryUnits(len) <= Cap

MayWrite(w) ==
    /\ writer[w].pc = "idle"
    /\ BlockMuFree
    /\ write_sequence < MaxWrites
    /\ phase # "open" => CloseRace

(* No active block: kIOError. *)
WriteRejected(w, len) ==
    /\ MayWrite(w)
    /\ active_block = Null
    /\ Return(w)
    /\ UNCHANGED <<segVars, blockVars, write_sequence, flusher, seg_lock, faults, locs>>

(* The entry fits into the active block. *)
WriteBuffered(w, len) ==
    /\ MayWrite(w)
    /\ active_block # Null
    /\ Fits(active_block, len)
    /\ active_segment # Null
    /\ AppendEntry(w, len, active_block, blocks[active_block], active_segment, segs)
    /\ UNCHANGED <<disk, next_segment_id, active_segment, active_block, flush_queue,
                   free_pool, flushing_block, flusher, seg_lock, faults>>

(* It does not: queue the block (its pos is not 0, since an entry of at most *)
(* Cap units fits into an empty block) and go on with another one.           *)
WriteRotate(w, len) ==
    /\ MayWrite(w)
    /\ active_block # Null
    /\ EntryUnits(len) <= Cap
    /\ ~Fits(active_block, len)
    /\ QueueBlock(active_block)
    /\ AcquireBlock(w, len)
    /\ UNCHANGED <<flushing_block, seg_lock>>

(* free_cv_.wait(): register and let go of block_mu_ ...                     *)
WriterParks(w) ==
    /\ writer[w].pc = "parking"
    /\ writer' = [writer EXCEPT ![w].pc = "waiting"]
    /\ UNCHANGED <<segVars, blockVars, write_sequence, flusher, seg_lock, faults, locs>>

(* ... and, woken up, take it again and look at the pool once more.          *)
WriterRetries(w) ==
    /\ writer[w].pc = "woken"
    /\ BlockMuFree
    /\ AcquireBlock(w, writer[w].len)
    /\ UNCHANGED <<flush_queue, flushing_block, flusher, seg_lock>>

-----------------------------------------------------------------------------
(* write() of an entry larger than a block: it goes straight to the active   *)
(* segment, with segments_mu_ held and block_mu_ already released.           *)

WriteDirect(w, len) ==
    /\ MayWrite(w)
    /\ active_block # Null
    /\ EntryUnits(len) > Cap
    /\ writer' = [writer EXCEPT ![w] = [pc |-> "direct", len |-> len, loc |-> NoLocation]]
    /\ UNCHANGED <<segVars, blockVars, write_sequence, flusher, seg_lock, faults, locs>>

(* The segment, the offset and a sequence number are picked. *)
DirectBegin(w) ==
    LET len == writer[w].len
    IN  /\ writer[w].pc = "direct"
        /\ SegmentsMuFree
        /\ seg_lock' = w
        /\ IF SegmentFull(EntryUnits(len))
           THEN SegmentCreated /\ segs' = With(segs, next_segment_id, NewSegment)
           ELSE UNCHANGED <<segVars, faults>>
        /\ write_sequence' = write_sequence + 1
        /\ writer' = [writer EXCEPT ![w] =
             [pc |-> "direct_io", len |-> len,
              loc |-> Location(write_sequence, active_segment',
                               segs'[active_segment'].write_offset, len)]]
        /\ UNCHANGED <<blockVars, flusher, locs>>

(* The pwrite and then the bookkeeping, or a pwrite that fails part way. *)
DirectEnd(w) ==
    LET l == writer[w].loc
        cells == EntryCells(l.seq, l.length)
    IN  /\ writer[w].pc = "direct_io"
        /\ seg_lock' = Null
        /\ Return(w)
        /\ \/ /\ disk' = [disk EXCEPT ![l.segment_id] = PWrite(@, l.offset, cells)]
              /\ segs' = [segs EXCEPT ![l.segment_id] = Counted(@, l.disk_size)]
              /\ locs' = locs \cup {l}
              /\ UNCHANGED faults
           \/ /\ MayFail
              /\ faults' = faults + 1
              /\ \E k \in 0 .. Len(cells) - 1 :
                   disk' = [disk EXCEPT ![l.segment_id] =
                              PWrite(@, l.offset, SubSeq(cells, 1, k))]
              /\ UNCHANGED <<segs, locs>>
        /\ UNCHANGED <<next_segment_id, active_segment, blockVars, write_sequence, flusher>>

(* A store through a null active_segment_, left by a failed rotation or by   *)
(* close(), or into a buffer that close() has freed, ends the process.       *)
Crash(w, len) ==
    /\ \/ /\ MayWrite(w)
          /\ active_block # Null
          /\ EntryUnits(len) <= Cap
          /\ IF Fits(active_block, len) THEN active_segment = Null
             ELSE BuffersFreed /\ free_pool # <<>>
       \/ writer[w].pc = "woken" /\ BuffersFreed /\ free_pool # <<>>
       \/ writer[w].pc = "direct" /\ SegmentsMuFree /\ MayFail
            /\ SegmentFull(EntryUnits(writer[w].len))
    /\ phase' = "crashed"
    /\ UNCHANGED <<segVars, blockVars, write_sequence, flush_running, flusher, writer,
                   reader, seg_lock, faults, locs, lost>>

-----------------------------------------------------------------------------
(* flush_thread_fn() *)

PopQueue == flush_queue' = Tail(flush_queue)

(* The wait's predicate holds: a queued block becomes the flushing block in  *)
(* one critical section.  (Its pos is not 0: only such blocks are queued,    *)
(* and a reset is followed by an append before block_mu_ is released.)       *)
FlushTake ==
    /\ flusher.pc = "eval"
    /\ BlockMuFree
    /\ flush_queue # <<>>
    /\ PopQueue
    /\ flushing_block' = Head(flush_queue)
    /\ flusher' = [pc |-> "writing", block |-> Head(flush_queue)]
    /\ UNCHANGED <<disk, free_pool, writer, faults, lost>>

(* Nothing queued: go to sleep, or leave the loop when told to stop.         *)
FlushIdle ==
    /\ flusher.pc = "eval"
    /\ BlockMuFree
    /\ flush_queue = <<>>
    /\ flusher' = [flusher EXCEPT !.pc = IF flush_running THEN "parking" ELSE "drain"]
    /\ UNCHANGED <<disk, flush_queue, flushing_block, free_pool, writer, faults, lost>>

FlushParks ==
    /\ flusher.pc = "parking"
    /\ flusher' = [flusher EXCEPT !.pc = "blocked"]
    /\ UNCHANGED <<disk, flush_queue, flushing_block, free_pool, writer, faults, lost>>

(* One pwrite of the whole block, without the mutex; or only the first units *)
(* of it and an error, which the main loop counts and the drain loop ignores. *)
WriteOut(blk) ==
    \/ /\ disk' = [disk EXCEPT ![blk.segment_id] = PWrite(@, blk.segment_offset, blk.buf)]
       /\ UNCHANGED <<faults, lost>>
    \/ /\ MayFail
       /\ faults' = faults + 1
       /\ lost' = lost \cup {c[1] : c \in Range(blk.buf)}
       /\ \E k \in 0 .. Len(blk.buf) - 1 :
            disk' = [disk EXCEPT ![blk.segment_id] =
                       PWrite(@, blk.segment_offset, SubSeq(blk.buf, 1, k))]

FlushWrite ==
    /\ flusher.pc = "writing"
    /\ WriteOut(blocks[flusher.block])
    /\ flusher' = [flusher EXCEPT !.pc = "written"]
    /\ UNCHANGED <<flush_queue, flushing_block, free_pool, writer>>

(* The block goes back to the pool and one waiting writer is told. *)
FlushReturn ==
    /\ flusher.pc = "written"
    /\ BlockMuFree
    /\ flushing_block' = Null
    /\ free_pool' = Append(free_pool, flusher.block)
    /\ NotifyFree
    /\ flusher' = [pc |-> "eval", block |-> Null]
    /\ UNCHANGED <<disk, flush_queue, faults, lost>>

(* After the loop: what is still queued is written, out of the readers'      *)
(* sight, and the blocks do not go back to the pool.                         *)
DrainTake ==
    /\ flusher.pc = "drain"
    /\ BlockMuFree
    /\ IF flush_queue = <<>>
       THEN /\ flusher' = [pc |-> "exited", block |-> Null]
            /\ UNCHANGED flush_queue
       ELSE /\ flusher' = [pc |-> "drain_writing", block |-> Head(flush_queue)]
            /\ PopQueue
    /\ UNCHANGED <<disk, flushing_block, free_pool, writer, faults, lost>>

DrainWrite ==
    /\ flusher.pc = "drain_writing"
    /\ WriteOut(blocks[flusher.block])
    /\ flusher' = [pc |-> "drain", block |-> Null]
    /\ UNCHANGED <<flush_queue, flushing_block, free_pool, writer>>

-----------------------------------------------------------------------------
(* read(): two attempts, each looking in the blocks in memory, then on disk  *)

Holds(b, l) ==
    /\ b # Null
    /\ blocks[b].segment_id = l.segment_id
    /\ l.offset >= blocks[b].segment_offset
    /\ l.offset < blocks[b].segment_offset + Len(blocks[b].buf)

(* The block being written forgotten *)
PendingWithoutFlushing == <<active_block>> \o flush_queue

(* find_in_pending_blocks() looks at these, in this order. *)
PendingBlocks == <<active_block, flushing_block>> \o flush_queue

Holding(l) == {i \in DOMAIN PendingBlocks : Holds(PendingBlocks[i], l)}

BlobSize(cells) == cells[1][3]

(* From the header at the location's place, as many units as it says. *)
PendingCells(l) ==
    LET blk == blocks[PendingBlocks[Min(Holding(l))]]
        at == l.offset - blk.segment_offset
    IN  PRead(blk.buf, at, EntryUnits(blk.buf[at + 1][3]))

Finished(rd, status, data) ==
    [pc |-> "idle", attempt |-> 0, errs |-> rd.errs, loc |-> rd.loc,
     buf_len |-> rd.buf_len, status |-> status, data |-> data]

Deliver(rd, cells) ==
    IF BlobSize(cells) > rd.buf_len THEN Finished(rd, "too_small", <<>>)
    ELSE Finished(rd, "ok", cells)

Failed(rd) == [rd EXCEPT !.errs = @ + 1]

(* One attempt only *)
MissAtOnce(rd) == Finished(rd, "not_found", <<>>)

(* Nothing there yet: once more from the start, and then give up. *)
RetryOrMiss(rd) ==
    IF rd.attempt = 0 THEN Reading("pending", 1, rd.errs, rd.loc, rd.buf_len)
    ELSE Finished(rd, "not_found", <<>>)

ReadStart(r, l, n) ==
    /\ reader[r].pc = "idle"
    /\ reader' = [reader EXCEPT ![r] = Reading("pending", 0, 0, l, n)]
    /\ UNCHANGED faults

ReadPending(r) ==
    LET l == reader[r].loc
    IN  /\ reader[r].pc = "pending"
        /\ BlockMuFree
        /\ reader' = [reader EXCEPT ![r] =
                        IF Holding(l) # {} THEN Deliver(@, PendingCells(l))
                        ELSE [@ EXCEPT !.pc = "fd"]]
        /\ UNCHANGED faults

(* The file descriptor, under segments_mu_: -1 once the store is closed. *)
ReadFd(r) ==
    /\ reader[r].pc = "fd"
    /\ SegmentsMuFree
    /\ reader' = [reader EXCEPT ![r] =
                    IF segs[@.loc.segment_id].open THEN [@ EXCEPT !.pc = "disk"]
                    ELSE Finished(@, "not_found", <<>>)]
    /\ UNCHANGED faults

(* The pread: an error (also of a file closed meanwhile), a short read and   *)
(* zeros are retried, anything else is delivered.                            *)
ReadDisk(r) ==
    LET l == reader[r].loc
        got == PRead(disk[l.segment_id], l.offset, l.disk_size)
        usable == segs[l.segment_id].open /\ Len(got) = l.disk_size /\ BlobSize(got) # 0
    IN  /\ reader[r].pc = "disk"
        /\ \/ /\ reader' = [reader EXCEPT ![r] =
                              IF usable THEN Deliver(@, got) ELSE RetryOrMiss(@)]
              /\ UNCHANGED faults
           \/ /\ MayFail
              /\ faults' = faults + 1
              /\ reader' = [reader EXCEPT ![r] = RetryOrMiss(Failed(@))]

(* mark_dead(): the entry at a location is no longer wanted.  Nothing keeps   *)
(* it from being told so twice, and then two entries are taken off.          *)
MarkDead(l) ==
    /\ SegmentsMuFree
    /\ segs' = [segs EXCEPT ![l.segment_id].live_count = IF @ > 0 THEN @ - 1 ELSE @]
    /\ UNCHANGED <<disk, next_segment_id, active_segment, blockVars, write_sequence,
                   flush_running, flusher, writer, reader, seg_lock, phase, faults,
                   locs, lost>>

-----------------------------------------------------------------------------
(* close() *)

(* The test for an empty block turned round *)
ActiveBlockClean == active_block # Null /\ blocks[active_block].buf = <<>>

ActiveBlockDirty == active_block # Null /\ blocks[active_block].buf # <<>>

CloseQueue ==
    /\ MayClose
    /\ phase = "open"
    /\ BlockMuFree
    /\ CloseRace \/ \A w \in Writers : writer[w].pc = "idle"
    /\ phase' = "stopping"
    /\ IF ActiveBlockDirty
       THEN QueueBlock(active_block) /\ active_block' = Null
       ELSE UNCHANGED <<flush_queue, flusher, active_block>>
    /\ UNCHANGED <<segs, active_segment, flush_running, writer>>

(* flush_running_ = false, without block_mu_ *)
CloseStop ==
    /\ phase = "stopping"
    /\ flush_running' = FALSE
    /\ phase' = "notifying"
    /\ UNCHANGED <<segs, active_segment, active_block, flush_queue, flusher, writer>>

(* The writers told, and not the flush thread *)
CloseNotifiesWriters ==
    /\ phase = "notifying"
    /\ UNCHANGED flusher
    /\ writer' = [w \in Writers |-> IF writer[w].pc = "waiting"
                                    THEN [writer[w] EXCEPT !.pc = "woken"]
                                    ELSE writer[w]]
    /\ phase' = "joining"
    /\ UNCHANGED <<segs, active_segment, active_block, flush_queue, flush_running>>

(* notify_all() on both condition variables, without block_mu_: a thread that *)
(* is parking is not registered yet and is not reached.                       *)
CloseNotify ==
    /\ phase = "notifying"
    /\ NotifyFlush
    /\ writer' = [w \in Writers |-> IF writer[w].pc = "waiting"
                                    THEN [writer[w] EXCEPT !.pc = "woken"]
                                    ELSE writer[w]]
    /\ phase' = "joining"
    /\ UNCHANGED <<segs, active_segment, active_block, flush_queue, flush_running>>

Closed(seg) ==
    [write_offset |-> seg.write_offset, entry_count |-> seg.entry_count,
     live_count |-> seg.live_count, open |-> FALSE,
     hdr |-> <<seg.entry_count, seg.live_count>>]

(* join(); the buffers are freed, the headers rewritten, the files closed.   *)
CloseFinish ==
    /\ phase = "joining"
    /\ flusher.pc = "exited"
    /\ SegmentsMuFree
    /\ segs' = [s \in DOMAIN segs |-> Closed(segs[s])]
    /\ active_segment' = Null
    /\ phase' = "closed"
    /\ UNCHANGED <<active_block, flush_queue, flush_running, flusher, writer>>

-----------------------------------------------------------------------------
(* Each thread's steps, with what the thread never touches. *)

WriterFrame == UNCHANGED <<flush_running, reader, phase, lost>>

WriterStarts(w) ==
    /\ \E len \in Lens : \/ WriteRejected(w, len)
                         \/ WriteBuffered(w, len)
                         \/ WriteRotate(w, len)
                         \/ WriteDirect(w, len)
    /\ WriterFrame

WriterGoesOn(w) ==
    /\ WriterParks(w) \/ WriterRetries(w) \/ DirectBegin(w) \/ DirectEnd(w)
    /\ WriterFrame

FlushStep ==
    /\ \/ FlushTake \/ FlushIdle \/ FlushParks \/ FlushWrite \/ FlushReturn
       \/ DrainTake \/ DrainWrite
    /\ UNCHANGED <<segs, next_segment_id, active_segment, blocks, active_block,
                   write_sequence, flush_running, reader, seg_lock, phase, locs>>

ReaderStep(r) ==
    /\ \/ \E l \in locs, n \in BufLens : ReadStart(r, l, n)
       \/ ReadPending(r) \/ ReadFd(r) \/ ReadDisk(r)
    /\ UNCHANGED <<segVars, blockVars, write_sequence, flush_running, flusher, writer,
                   seg_lock, phase, locs, lost>>

CloseFrame == UNCHANGED <<disk, next_segment_id, write_sequence, blocks, free_pool,
                          flushing_block, reader, seg_lock, faults, locs, lost>>

CloseStarts == CloseQueue /\ CloseFrame

CloseGoesOn == (CloseStop \/ CloseNotify \/ CloseFinish) /\ CloseFrame

(* The clients have stopped calling, and no thread is left inside a call.    *)
Quiescent ==
    /\ \A w \in Writers : writer[w].pc = "idle"
    /\ \/ phase = "open" /\ flusher.pc = "blocked" /\ flush_queue = <<>>
       \/ phase = "closed"
    /\ UNCHANGED vars

Next ==
    /\ phase # "crashed"
    /\ \/ \E w \in Writers : \/ WriterStarts(w)
                             \/ WriterGoesOn(w)
                             \/ \E len \in Lens : Crash(w, len)
       \/ \E r \in Readers : ReaderStep(r)
       \/ \E l \in locs : MarkDead(l)
       \/ FlushStep
       \/ CloseStarts
       \/ CloseGoesOn
       \/ Quiescent

Spec == Init /\ [][Next]_vars

(* Threads run, no matter how slowly: the flush thread, and a write() or a   *)
(* close() that has begun.  Nothing makes a client begin one.                *)
Fairness ==
    /\ WF_vars(phase # "crashed" /\ FlushStep)
    /\ \A w \in Writers : WF_vars(phase # "crashed" /\ WriterGoesOn(w))
    /\ WF_vars(phase # "crashed" /\ CloseGoesOn)

FairSpec == Spec /\ Fairness

-----------------------------------------------------------------------------
(* Properties *)

OnDisk(l) ==
    PRead(disk[l.segment_id], l.offset, l.disk_size) = EntryCells(l.seq, l.length)

InMemory(l) ==
    Holding(l) # {} /\ PendingCells(l) = EntryCells(l.seq, l.length)

(* While the store is open, every entry whose location write() returned can  *)
(* be read: the first block in memory that covers its location holds that    *)
(* very entry, or no block covers it and the segment file holds it.  Only a  *)
(* block whose pwrite failed may lose its entries.                           *)
VisibleOrDurable ==
    phase = "open" =>
        \A l \in locs : \/ InMemory(l)
                        \/ Holding(l) = {} /\ OnDisk(l)
                        \/ l.seq \in lost

(* A finished read() never delivers bytes of another entry: it delivers the  *)
(* entry itself or, no checksum being compared, zeros for the units of it    *)
(* that a failed pwrite left out.  It reports a small buffer only when the   *)
(* buffer is too small, and misses an entry only if it was lost to an I/O    *)
(* error, is empty (a length of 0 reads like a hole), both attempts failed,  *)
(* or the store is being closed.                                             *)
ReadCorrect ==
    \A r \in Readers :
        LET rd == reader[r]
        IN  rd.pc = "idle" =>
              /\ rd.status = "ok" =>
                    LET entry == EntryCells(rd.loc.seq, rd.loc.length)
                    IN  \/ rd.data = entry
                        \/ /\ rd.loc.seq \in lost
                           /\ \A i \in DOMAIN rd.data : rd.data[i] \in {entry[i], Hole}
              /\ rd.status = "too_small" => rd.loc.length > rd.buf_len
              /\ rd.status = "not_found" =>
                    \/ rd.loc.seq \in lost
                    \/ rd.loc.length = 0
                    \/ rd.errs = 2
                    \/ phase # "open"

(* Two locations that write() returned never share a unit of a segment.      *)
NoOverlap ==
    \A l, m \in locs :
        l # m /\ l.segment_id = m.segment_id =>
            \/ l.offset + l.disk_size <= m.offset
            \/ m.offset + m.disk_size <= l.offset

(* No segment grows past segment_size: rotation leaves room for the whole    *)
(* block it binds.                                                           *)
SegmentsBounded == \A s \in DOMAIN segs : segs[s].write_offset <= SegmentSize

(* When close() returns, every location ever returned is on disk, but for    *)
(* the blocks whose pwrite failed.                                           *)
ClosedDurable == phase = "closed" => \A l \in locs : OnDisk(l) \/ l.seq \in lost

(* Entries are handed to the file system in the order of their sequence      *)
(* numbers: what a crash of the process leaves of a segment is a prefix of   *)
(* what was written to it.  (After a power cut any entry may be missing:     *)
(* nothing is fsynced, see Recovery.)                                        *)
PrefixDurable ==
    \A l, m \in locs :
        l.segment_id = m.segment_id /\ l.seq < m.seq /\ OnDisk(m)
            => OnDisk(l) \/ l.seq \in lost

(* What is on disk stays: no later pwrite touches the units of an entry that *)
(* a segment file already holds.                                             *)
DurableStays == [][\A l \in locs : OnDisk(l) => OnDisk(l)']_vars

(* While the store stays open, a queued block is eventually written and      *)
(* leaves the queue.                                                         *)
QueueDrains ==
    \A b \in Blocks :
        b \in Range(flush_queue) ~> b \notin Range(flush_queue) \/ phase # "open"

(* While the store stays open, a writer that had to wait for a block         *)
(* eventually returns.                                                       *)
WriterReturns ==
    \A w \in Writers : writer[w].pc = "waiting" ~> writer[w].pc = "idle" \/ phase # "open"

(* close() returns, unless a writer brings the process down or both          *)
(* notifications have passed while the flush thread, which had found         *)
(* flush_running_ still set, was about to go to sleep.                       *)
CloseReturnsOrSleeps ==
    phase = "stopping" ~> \/ phase \in {"closed", "crashed"}
                          \/ phase = "joining" /\ flusher.pc = "parking"
=============================================================================
