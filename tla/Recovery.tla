------------------------------- MODULE Recovery -------------------------------
(***************************************************************************)
(* What a restart finds: open() and close() of engine.cpp, on the segment  *)
(* files of blob_store.cpp and the checkpoint of checkpoint.cpp together.  *)
(*                                                                         *)
(* The index points into segment files that other threads write later, and *)
(* it is saved by a thread that knows nothing of them.  A call is split    *)
(* where others can meet it between two of its steps with these in         *)
(* different states: put() before its evictions, del() at each call it     *)
(* makes (Engine, BlobStore and Checkpoint have the finer interleavings).  *)
(* The saver, the flush thread, the parts of close() and the crashes       *)
(* interleave with them.                                                   *)
(*                                                                         *)
(* Of the index and its checkpoints only the entries of the NVMe tier are  *)
(* here: open() scrubs the others (Checkpoint has them), so a key that is  *)
(* in DRAM has no location.  A write block holds one entry, and an entry   *)
(* is one unit of a segment file, whose unit 0 is its header.  A blob      *)
(* never changes for its key, so the key stands for the blob.              *)
(***************************************************************************)
EXTENDS Integers, Sequences, FiniteSets, FiniteSetsExt, Functions

CONSTANTS
    Clients,        \* threads that call del()
    Keys,
    SegmentSize,    \* units of a segment file
    PoolSize,       \* write_block_pool_size
    Trigger,        \* gc_trigger_fragmentation, in percent
    MaxCalls,       \* bound: calls of put(), get() and del()
    MaxWrites,      \* bound: entries written to the blob store
    MaxFaults,      \* bound: power cuts, and I/O calls that fail
    MaxLives,       \* bound: calls of open(), and so crashes between them
    None

ASSUME RecoveryAssumption ==
    /\ IsFiniteSet(Keys)
    /\ SegmentSize \in Nat /\ SegmentSize >= 2
    /\ PoolSize \in Nat /\ PoolSize >= 2
    /\ Trigger \in 0 .. 100
    /\ {MaxCalls, MaxWrites, MaxFaults, MaxLives} \subseteq Nat

VARIABLES
    call,           \* the call of del() that each client is in
    index,          \* ConcurrentHashMap: key -> <<segment, offset>>
    dram,           \* keys whose entry is of the DRAM tier
    dirty, snap,    \* of the CheckpointManager: dirty_, what save() is writing
    last,           \* its thread has begun its save on shutdown
    ckpt, older,    \* index.checkpoint, and what it was before the last rename
    files,          \* the segment files: id -> persisted header and blobs
    segs,           \* segments_: id -> counts of the open ones, and
                    \* history: what mark_dead() has taken off these counts
    active,         \* active_segment_: its id and write_offset
    pending,        \* blocks not on disk, in order; the last one is active_block_
    phase,          \* where the engine's life is
    calls, writes, faults, lives,
    lost,           \* history: locations whose entry never came to the disk
    vanished,       \* history: segments whose file a power cut took away
    raced,          \* history: since the last snapshot the index has changed
                    \* while that was being saved, or without mark_dirty()
    stale           \* history: close() went on after such a change or a failed
                    \* save, or a power cut took the last checkpoint away

clientVars == <<calls, call, index, dram>>
saverVars == <<dirty, snap, last, ckpt, older>>
storeVars == <<files, segs, active, pending, lost, vanished>>
counters == <<faults, lives>>
vars == <<clientVars, saverVars, raced, stale, storeVars, phase, writes, counters>>

Empty == [k \in Keys |-> None]

(* Of a segment's counts: the offsets that mark_dead() was called for, and   *)
(* whether it was called twice for one                                       *)
NewSegment == [entry_count |-> 0, live_count |-> 0, dead |-> {}, twice |-> FALSE]
NewFile == [hdr |-> NewSegment, blobs |-> <<>>]
Put1(f, x, y) == [z \in DOMAIN f \cup {x} |-> IF z = x THEN y ELSE f[z]]

MayFail == faults < MaxFaults
Fails == MayFail /\ faults' = faults + 1

-----------------------------------------------------------------------------
(* write() of the blob store *)

NeedsSegment == active.offset + 1 > SegmentSize

NewId == Max(DOMAIN files) + 1      \* next_segment_id_: no file is deleted

Target == IF NeedsSegment THEN <<NewId, 1>> ELSE <<active.id, active.offset>>

(* The location filled in before the segment is replaced by a new one *)
LocOutTooEarly == <<active.id, active.offset>>

LocOut == Target

(* The full active block is queued, and a block taken for the entry, in a    *)
(* new segment if the old one is full.                                       *)
Write(k) ==
    LET at == Target
        ss == IF NeedsSegment THEN Put1(segs, at[1], NewSegment) ELSE segs
    IN  /\ writes < MaxWrites
        /\ Len(pending) < PoolSize
        /\ writes' = writes + 1
        /\ files' = IF NeedsSegment THEN Put1(files, at[1], NewFile) ELSE files
        /\ segs' = [ss EXCEPT ![at[1]].entry_count = @ + 1, ![at[1]].live_count = @ + 1]
        /\ active' = [id |-> at[1], offset |-> at[2] + 1]
        /\ pending' = Append(pending, [at |-> at, key |-> k])
        /\ UNCHANGED <<lost, vanished>>

(* mark_dead() of a location whose segment is open, marked before or not     *)
MarkDead(l) ==
    segs' = IF l[1] \in DOMAIN segs /\ segs[l[1]].live_count > 0
            THEN [segs EXCEPT ![l[1]] =
                    [entry_count |-> @.entry_count,
                     live_count |-> @.live_count - 1,
                     dead |-> @.dead \cup {l[2]},
                     twice |-> @.twice \/ l[2] \in @.dead]]
            ELSE segs

-----------------------------------------------------------------------------
(* put(), get() and del() *)

Idle == [pc |-> "idle"]

At(c, pc) == phase = "open" /\ call[c].pc = pc
Called == calls < MaxCalls /\ calls' = calls + 1

(* What a change of the index means for the saver *)
Races == raced' = (raced \/ (index' # index /\ (snap # None \/ ~dirty')))

(* upsert() and mark_dirty(), of a blob in DRAM, or on NVMe if it got no     *)
(* slot.  The entry that the key had on NVMe is not marked dead.             *)
Put(k) ==
    /\ phase = "open"
    /\ Called
    /\ \/ /\ Write(k)
          /\ index' = [index EXCEPT ![k] = LocOut]
          /\ dram' = dram \ {k}
       \/ /\ index' = [index EXCEPT ![k] = None]
          /\ dram' = dram \cup {k}
          /\ UNCHANGED <<storeVars, writes>>
    /\ dirty' = TRUE
    /\ Races
    /\ UNCHANGED <<call, snap, last, ckpt, older, stale, phase, counters>>

(* One turn of the loop of evict_if_needed(), after mark_dirty() in put(): a *)
(* victim is written to NVMe, or its entry erased.  Neither calls            *)
(* mark_dirty() again.  How many turns a put() takes, and when, is open: the *)
(* thread that put k may be anywhere in its loop as long as k is in DRAM.    *)
Evict(k) ==
    /\ phase = "open"
    /\ k \in dram
    /\ \/ Write(k) /\ index' = [index EXCEPT ![k] = LocOut]
       \/ UNCHANGED <<index, storeVars, writes>>
    /\ dram' = dram \ {k}
    /\ UNCHANGED <<calls, call, saverVars, stale, phase, counters>>
    /\ Races

(* get() of a key it finds touches the entry and calls mark_dirty()          *)
Get(k) ==
    /\ phase = "open"
    /\ Called
    /\ k \in dram \/ index[k] # None
    /\ dirty' = TRUE
    /\ UNCHANGED <<call, index, dram, snap, last, ckpt, older, raced, stale, storeVars, phase, writes,
                   counters>>

(* del(): find() *)
DelFind(c, k) ==
    /\ At(c, "idle")
    /\ Called
    /\ k \in dram \/ index[k] # None
    /\ call' = [call EXCEPT ![c] = [pc |-> IF index[k] # None THEN "mark" ELSE "erase",
                                    key |-> k, at |-> index[k]]]
    /\ UNCHANGED <<index, dram, saverVars, raced, stale, storeVars, phase, writes, counters>>

(* del(): mark_dead() of the location that was found *)
DelMark(c) ==
    /\ At(c, "mark")
    /\ MarkDead(call[c].at)
    /\ call' = [call EXCEPT ![c].pc = "erase"]
    /\ UNCHANGED <<calls, index, dram, saverVars, raced, stale, files, active, pending, lost, vanished,
                   phase, writes, counters>>

(* del(): erase() of whatever entry the key has by now, and mark_dirty()     *)
DelErase(c) ==
    /\ At(c, "erase")
    /\ index' = [index EXCEPT ![call[c].key] = None]
    /\ dram' = dram \ {call[c].key}
    /\ call' = [call EXCEPT ![c] = Idle]
    /\ dirty' = TRUE
    /\ Races
    /\ UNCHANGED <<calls, snap, last, ckpt, older, stale, storeVars, phase, writes, counters>>

-----------------------------------------------------------------------------
(* The flush thread: queued blocks, in order.  close() queues the active one.*)

Queued == Len(pending) > 1 \/ (phase = "drain" /\ pending # <<>>)

Flush ==
    LET b == Head(pending)
    IN  /\ phase \in {"open", "save", "drain"}
        /\ Queued
        /\ pending' = Tail(pending)
        /\ \/ /\ files' = [files EXCEPT ![b.at[1]].blobs = Put1(@, b.at[2], b.key)]
              /\ UNCHANGED <<lost, faults>>
           \/ /\ Fails
              /\ lost' = lost \cup {b.at}
              /\ UNCHANGED files
        /\ UNCHANGED <<clientVars, saverVars, raced, stale, segs, active, vanished, phase,
                       writes, lives>>

-----------------------------------------------------------------------------
(* The checkpoint's save(), periodic and on shutdown *)

Snapshot ==
    /\ phase = "open" /\ dirty /\ snap = None
    /\ snap' = index
    /\ raced' = FALSE
    /\ UNCHANGED <<clientVars, dirty, last, ckpt, older, stale, storeVars, phase, writes,
                   counters>>

(* The rename, and dirty_ = false, whatever has changed since; or neither.   *)
Publish ==
    /\ phase \in {"open", "save"} /\ snap # None
    /\ snap' = None
    /\ \/ /\ ckpt' = snap
          /\ older' = ckpt
          /\ dirty' = FALSE
          /\ UNCHANGED faults
       \/ Fails /\ UNCHANGED <<dirty, ckpt, older>>
    /\ UNCHANGED <<clientVars, last, raced, stale, storeVars, phase, writes, lives>>

-----------------------------------------------------------------------------
(* close() of the engine *)

(* load() of the checkpoint *)
Loaded(f) == IF f = None THEN Empty ELSE f

(* The blob store closed before the checkpoint is *)
StoreFirst == [open |-> "drain", drain |-> "save", save |-> "closed"]

(* checkpoint_->stop(), then t2_store_->close()                              *)
CloseOrder == [open |-> "save", save |-> "drain", drain |-> "closed"]

(* The caller's obligation: close() itself waits for no call.                *)
NoCallUnderWay == \A c \in Clients : call[c] = Idle

Close ==
    /\ phase = "open"
    /\ NoCallUnderWay
    /\ phase' = CloseOrder["open"]
    /\ UNCHANGED <<clientVars, saverVars, raced, stale, storeVars, writes, counters>>

(* The thread's last save, once the save under way is done                   *)
LastSave ==
    /\ phase = "save" /\ snap = None /\ dirty /\ ~last
    /\ snap' = index
    /\ last' = TRUE
    /\ raced' = FALSE
    /\ UNCHANGED <<clientVars, dirty, ckpt, older, stale, storeVars, phase, writes, counters>>

(* A stop() that sets running_ and leaves what is dirty *)
NoLastSave ==
    /\ phase = "save" /\ snap = None
    /\ phase' = CloseOrder["save"]
    /\ stale' = (stale \/ raced \/ (dirty /\ last))
    /\ UNCHANGED <<clientVars, saverVars, raced, storeVars, writes, counters>>

(* The thread is joined when nothing is dirty or the last save is done,      *)
(* succeeded or not.                                                         *)
CheckpointStopped ==
    /\ phase = "save" /\ snap = None /\ (dirty => last)
    /\ phase' = CloseOrder["save"]
    /\ stale' = (stale \/ raced \/ dirty)
    /\ UNCHANGED <<clientVars, saverVars, raced, storeVars, writes, counters>>

(* The flush thread is joined *)
Joined == pending = <<>>

(* The headers are written, one segment after the other, and its file closed. *)
CloseSegment(s) ==
    /\ phase = "drain" /\ Joined
    /\ files' = [files EXCEPT ![s].hdr = segs[s]]
    /\ segs' = Restrict(segs, DOMAIN segs \ {s})
    /\ phase' = IF DOMAIN segs = {s} THEN CloseOrder["drain"] ELSE phase
    /\ UNCHANGED <<clientVars, saverVars, raced, stale, active, pending, lost, vanished, writes,
                   counters>>

-----------------------------------------------------------------------------
(* Crashes *)

Down == phase \in {"closed", "crashed"}

NothingInMemory ==
    /\ call' = [c \in Clients |-> Idle]
    /\ index' = Empty /\ dram' = {}
    /\ dirty' = FALSE /\ snap' = None /\ last' = FALSE /\ raced' = FALSE
    /\ segs' = <<>> /\ pending' = <<>>
    /\ active' = None

InMemory == {pending[i].at : i \in DOMAIN pending}
OnDisk == UNION {{s} \X DOMAIN files[s].blobs : s \in DOMAIN files}
Headed == {s \in DOMAIN files : files[s].hdr # NewSegment}

Crash ==
    /\ ~Down
    /\ phase' = "crashed"
    /\ NothingInMemory
    /\ lost' = lost \cup InMemory
    /\ UNCHANGED <<calls, ckpt, older, stale, files, vanished, writes, counters>>

(* Nothing is ever fsynced: any entry, any header, whole files and the last  *)
(* rename may be missing.  A torn checkpoint is refused by its checksum.     *)
PowerCut ==
    /\ phase # "crashed"
    /\ Fails
    /\ phase' = "crashed"
    /\ NothingInMemory
    /\ \E kept \in SUBSET DOMAIN files :
       \E entries \in SUBSET {l \in OnDisk : l[1] \in kept}, headers \in SUBSET (kept \cap Headed) :
          /\ files' = [s \in kept |->
                         [hdr |-> IF s \in headers THEN files[s].hdr ELSE NewSegment,
                          blobs |-> Restrict(files[s].blobs,
                                             {o \in DOMAIN files[s].blobs : <<s, o>> \in entries})]]
          /\ vanished' = vanished \cup (DOMAIN files \ kept)
          /\ lost' = lost \cup InMemory \cup (OnDisk \ entries)
    /\ \/ UNCHANGED <<ckpt, stale>>
       \/ ckpt' \in {older, None} /\ stale' = TRUE
    /\ older' = ckpt'
    /\ UNCHANGED <<calls, writes, lives>>

-----------------------------------------------------------------------------
(* open() of the engine *)

(* An id counted only when its file could be opened *)
FirstFreeOpened(opened) == IF opened = {} THEN 0 ELSE Max(opened) + 1

(* next_segment_id_ after the scan: the ids of all files, those that cannot  *)
(* be opened too                                                             *)
FirstFree(opened) == IF DOMAIN files = {} THEN 0 ELSE Max(DOMAIN files) + 1

(* The scan: a file may fail to open, and where O_DIRECT asks for an aligned *)
(* buffer, which the one on the stack need not be, no header can be read:    *)
(* the counts stay 0.  The checkpoint is loaded without a look at them.      *)
Open ==
    /\ Down
    /\ lives < MaxLives
    /\ lives' = lives + 1
    /\ \E opened \in SUBSET DOMAIN files, headers \in BOOLEAN :
          /\ \/ opened = DOMAIN files /\ UNCHANGED faults
             \/ Fails /\ \E s \in DOMAIN files : opened = DOMAIN files \ {s}
          /\ LET id == FirstFree(opened)
             IN  /\ files' = Put1(files, id, NewFile)
                 /\ segs' = Put1([s \in opened |-> IF headers THEN files[s].hdr
                                                   ELSE NewSegment], id, NewSegment)
                 /\ active' = [id |-> id, offset |-> 1]
    /\ pending' = <<>>
    /\ index' = Loaded(ckpt)
    /\ dram' = {}
    /\ dirty' = FALSE /\ snap' = None /\ last' = FALSE /\ raced' = FALSE
    /\ phase' = "open"
    /\ UNCHANGED <<calls, call, ckpt, older, stale, lost, vanished, writes>>

(* create_new_segment() fails and open() with it; the store that was half    *)
(* opened writes the headers it has read, or zeros, when it is destroyed.    *)
OpenFails ==
    /\ Down
    /\ lives < MaxLives
    /\ lives' = lives + 1
    /\ Fails
    /\ \/ UNCHANGED files
       \/ files' = [s \in DOMAIN files |-> [files[s] EXCEPT !.hdr = NewSegment]]
    /\ UNCHANGED <<clientVars, saverVars, raced, stale, segs, active, pending, lost, vanished,
                   phase, writes>>

(* open() on an empty directory *)
Init ==
    /\ call = [c \in Clients |-> Idle]
    /\ index = Empty /\ dram = {}
    /\ dirty = FALSE /\ snap = None /\ last = FALSE
    /\ ckpt = None /\ older = None
    /\ files = [s \in {0} |-> NewFile]
    /\ segs = [s \in {0} |-> NewSegment]
    /\ active = [id |-> 0, offset |-> 1]
    /\ pending = <<>>
    /\ phase = "open"
    /\ calls = 0 /\ writes = 0 /\ faults = 0 /\ lives = 1
    /\ lost = {} /\ vanished = {} /\ raced = FALSE /\ stale = FALSE

Next ==
    \/ \E k \in Keys : Put(k) \/ Evict(k) \/ Get(k) \/ \E c \in Clients : DelFind(c, k)
    \/ \E c \in Clients : DelMark(c) \/ DelErase(c)
    \/ Flush
    \/ Snapshot \/ Publish
    \/ Close \/ LastSave \/ CheckpointStopped \/ \E s \in DOMAIN segs : CloseSegment(s)
    \/ Crash \/ PowerCut
    \/ Open \/ OpenFails

Spec == Init /\ [][Next]_vars

-----------------------------------------------------------------------------
(* gc_thread_fn(): the segments it would compact *)

GcCandidate(s) ==
    /\ s # active.id
    /\ segs[s].entry_count # 0
    /\ segs[s].live_count * 100 < Trigger * segs[s].entry_count

-----------------------------------------------------------------------------
(* read() of a location: the blocks in memory, then the segment's file *)

Read(l) ==
    LET blocks == {i \in DOMAIN pending : pending[i].at = l}
    IN  IF blocks # {} THEN pending[Max(blocks)].key
        ELSE IF l[1] \in DOMAIN segs /\ l[2] \in DOMAIN files[l[1]].blobs
             THEN files[l[1]].blobs[l[2]] ELSE None

(* Properties *)

(* After any crashes and restarts, a location in the index reads the blob of *)
(* its key; or nothing, if the entry never came to the disk or its segment   *)
(* cannot be opened.  read() does not look at the key in the entry's header, *)
(* so all of this rests on no location being used twice, and it is: when a   *)
(* power cut takes a file away, and its id is given to a new one.            *)
RestartReads ==
    phase = "open" =>
        \A k \in Keys : index[k] # None =>
            LET l == index[k]
            IN  \/ Read(l) = k
                \/ Read(l) = None /\ (l \in lost \/ l[1] \notin DOMAIN segs)
                \/ l[1] \in vanished

(* What a segment file holds stays there: no step of the program changes or  *)
(* drops an entry on disk, be it the O_TRUNC of a new segment after any      *)
(* sequence of crashes and failed opens.                                     *)
FilesAppendOnly ==
    [][phase' # "crashed" => \A s \in DOMAIN files :
          /\ s \in DOMAIN files'
          /\ \A o \in DOMAIN files[s].blobs :
                /\ o \in DOMAIN files'[s].blobs
                /\ files'[s].blobs[o] = files[s].blobs[o]]_vars

IndexedIn(s) == {k \in Keys : index[k] # None /\ index[k][1] = s}

(* Keys whose entry some del() has marked dead and not erased yet *)
BeingErased ==
    {k \in Keys : \E c \in Clients :
        call[c].pc = "erase" /\ call[c].key = k /\ call[c].at = index[k]}

(* GC picks a segment only when the entries that the index has in it, less   *)
(* those that a del() is about to erase, are below the trigger.  No crash    *)
(* breaks it: close() alone persists the counts, after the checkpoint, so a  *)
(* header never has an entry as dead that the checkpoint loaded with it has. *)
(* It does fail, and is excepted, where two calls of del() have marked one   *)
(* entry (`twice`), where the checkpoint missed a change (`stale`), and in a *)
(* file that has the id of one that a power cut took away.                   *)
GcPicksOnlyFragmented ==
    phase = "open" /\ ~stale =>
        \A s \in DOMAIN segs \ vanished : GcCandidate(s) /\ ~segs[s].twice =>
            Cardinality(IndexedIn(s) \ BeingErased) * 100 < Trigger * segs[s].entry_count

(* When close() has returned, a restart finds the NVMe tier as it was: the   *)
(* checkpoint has its entries and no others, and the segment files have the  *)
(* blobs.  Excepted are a last save that failed, a change that raced with    *)
(* the save or came by an eviction after it, and blocks that could not be    *)
(* written.                                                                  *)
CloseKeepsAll ==
    phase = "closed" =>
        /\ Loaded(ckpt) = index \/ raced \/ (last /\ dirty)
        /\ \A k \in Keys : index[k] # None =>
              LET l == index[k]
              IN  \/ l \in lost \/ l[1] \in vanished
                  \/ l[2] \in DOMAIN files[l[1]].blobs /\ files[l[1]].blobs[l[2]] = k
=============================================================================
