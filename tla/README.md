# AttentionDB: TLA+ models, model checking and proofs

AttentionDB is a two-tier cache for KV-cache blobs: DRAM slots (T1) in front of
log-structured files on NVMe (T2), with an index in memory that is checkpointed
to disk. This directory models the server library
(`attentiondb/attentiondb-server/src`); paths below are relative to it.

## The system and its parts

| Part | State | Operations | Talks to | What is hard |
|---|---|---|---|---|
| `AttentionDBEngine` (`engine.cpp`) | pointers to the parts, `opened_` | `open close put get contains del stats`, `evict_if_needed` | calls every part, holds no lock | every call on a part is a separate step; entries read from the index are used later |
| `ConcurrentHashMap` (`index/`) | key -> `IndexEntry` | `find upsert erase snapshot bulk_load update_fn` | engine, checkpoint | atomic by itself, not across two calls |
| `SlabAllocator` (`memory/`) | per size class: free list, mutex | `allocate free free_by_ptr used_bytes stats` | engine | one class mutex at a time; no check of double frees |
| `CwSlru` (`eviction/`) | two LRU lists and their maps | `on_access on_insert on_remove evict` | engine (one for T1, one for T2) | promotions and demotions between the lists |
| `AdmissionControl` (`admission/`) | counters | `evaluate` | engine | decides by a utilization that changes |
| `BlobStore` (`storage/blob_store.cpp`) | segments, write blocks, queue, pool | `open write read mark_dead close`, flush thread | engine, `PosixEngine` | three mutexes, two condition variables, I/O without locks |
| `CheckpointManager` (`checkpoint/`) | `dirty_`, `running_`, the file | `save load mark_dirty stop`, periodic thread | index, engine | two-step changes racing a save, crashes, power cuts |
| I/O engines (`storage/`) | - | `sync_read sync_write` | blob store | failing and partial calls |
| `Logger` (`logging/`) | period counters, `running_` | `period_stats` additions, summary thread, `stop` | engine | counters taken one by one while calls add to them |
| C API (`c_api.cpp`) | the handle | single calls, batches, `open close` | engine | a batch that fails half way; no lock |
| Python binding and LMCache adapters (`../python/`) | the engine reference, the GIL | `get put contains delete close`, prefix search | engine | `put()` gives the GIL up; a second try of `get()` |
| Config (`core/config.cpp`) | - | parsing | all, once | - |

What makes each part correct:

* blob store: an acknowledged entry is in a block or on disk at every moment,
  reads deliver it, no two entries share a byte, a clean close leaves everything
  on disk, writers and the flush thread make progress;
* checkpoint: whatever a crash leaves, a restart loads one state that the index
  really had, without pointers of the dead process; a clean shutdown saves all;
* slab allocator: no slot is lost or handed out twice;
* eviction policy: it gives up tracked keys, once, suffix chunks first;
* engine: `get` delivers the right blob or a miss, slots are neither shared nor
  leaked, deleted keys stay away, the eviction loop ends;
* restart: a location that comes back reads the blob of its key or nothing, no
  file is overwritten, the counts that GC trusts are not ahead of the index;
* logger, C API, Python: reported outcomes cover the reported gets, threads end
  when told to, batches deal with a prefix, `close()` and the calls stay apart.

The hazards behind these are listed, line by line, in `PROJECT.json`.

## Modules

| Module | Models | Composed of |
|---|---|---|
| `BlobStore` | `storage/blob_store.cpp`, `segment.h`, the calls on `posix_engine.cpp` | - |
| `Checkpoint` | `checkpoint/checkpoint.cpp` with the index and the engine's use of both | - |
| `EvictionSet` | the abstract promise of an eviction policy | - |
| `CwSlru` | `eviction/cw_slru.cpp` | implements `EvictionSet` |
| `SlabAllocator` | `memory/slab_allocator.cpp` | - |
| `BlobCache` | the abstract promise of the engine: a cache of blobs | - |
| `Engine` | `engine.cpp`, `admission/admission.cpp` | index, slots, policies and store, each by its promise; implements `BlobCache` |
| `Recovery` | `open()` and `close()` of engine, blob store and checkpoint, crashes and restarts | index, checkpoint and segment files together |
| `Connector` | `../python/attentiondb_py.cpp`, its adapters, `c_api.cpp` | the engine, by what `BlobCache` says of it |
| `Logger` | `logging/logger.cpp` and the counters in `engine.cpp` | - |
| `...Proofs` | theorems about `BlobStore`, `Checkpoint`, `CwSlru`, `SlabAllocator`, `Engine`, `Recovery`, `Connector`, `Logger` | each extends its module |
| `MC...` | values for the constants, symmetry sets | one for each |

### BlobStore

Offsets and sizes are counted in units of `kAlignment` (every entry is padded to
whole units); a unit of data is the cell `<<sequence, part, length>>`, so what a
read delivers says which entry it comes from. A critical section of `block_mu_`
is one step; `pwrite` and `pread` happen outside of it and are steps of their
own. `acquire_block()` gives the mutex up in the middle of `write()`: the writer
is "parking" (predicate tested, not yet waiting), "waiting" or "woken". The flush
thread has the same three states, because `close()` notifies without the mutex.
A blob too large for a block takes the direct path under `segments_mu_`. I/O
calls fail nondeterministically, up to `MaxFaults`, and a failed `pwrite` may
have written a prefix. A null `active_segment_` that is dereferenced ends the
process (phase "crashed").

Two simplifications: a direct writer (under `segments_mu_`) and a buffered one
(under `block_mu_`) both add to `write_offset`, which is a data race in C++; the
additions are modelled as atomic, and no run has entries of both kinds (see the
departures). The flush thread reads its block in one step while another
writer may append to it, so no claim about durable bytes is made with two
writers. `open()` is modelled on an empty directory here; `Recovery` has the scan
of existing segments. `mark_dead()` may be called for a location any number of
times, as in the code. What counts as on disk is what `pwrite` has taken: it
outlives the process, not the machine (`Recovery` has power cuts).

### Checkpoint

The index is a function from keys to entries, of which only the tier and a
version matter. A client changes the index and marks it dirty in two steps;
`put()` goes on to evict, which changes the index and marks nothing. The
periodic thread has one state for each point at which others can interfere:
parking, waiting, check, snapshot, write, rename, clear. A crash may come at any
time and, since nothing is fsynced, leaves the checkpoint whole, cut short, with
zeros, with the header as it was before the checksum, or the one before. The
checksum of a set of entries stands for that set. `raced` is a history variable:
a change was made after the last snapshot and no mark of it outlives the save.
`close()` is taken to be called when the calls of all clients have returned.

### CwSlru and EvictionSet

The lists are sequences, most recent first; a map is its set of keys (that it
leads to the right nodes is an invariant). All operations hold `mu_` throughout.
The demotion loop moves the tail of one list, in order, to the front of the
other. `find_best_victim()` is the scan of the code as a recursive function,
checked against a declarative definition (`VictimIsBest`). `protected_ratio` is
a fraction; `kScanWindow` is a constant, so that small lists exceed it.
`EvictionSet` is all the engine relies on; `PolicySpec` says that `CwSlru`
implements it.

### SlabAllocator

Classes are sorted and given slots as `init_classes()` does it. Where
`alloc_backing()` puts the regions is the constant `Base`: any order, touching or
not, as long as they do not overlap (`RegionAssumption`); in the run they are out of
order and touch, the hardest layout for `free_by_ptr()`. `allocate()` and
`used_bytes()` take one step per class. History fields record what was true at
some time during a call (which classes were full, what was allocated). Callers
free what they hold, once: that the engine breaks this is shown in `Engine`.

### Engine

Every call on a part is one step of a client. Blobs are immutable for their key,
as the design document says, so a key stands for its blob; `mem` records whose
bytes a slot holds. A location in the blob store stands for the blob written
there (`ReadCorrect` and `NoOverlap` of `BlobStore`). The DRAM tier is one size
class. `used_bytes()` is a `size_t`: more free slots than slots wrap around.
Admission is evaluated at the start of `put()` on the utilization of that moment.
Not in this model: the dirty mark (in `Checkpoint`), the `mark_dead()` of `del()`
(a step of `del()` in `Recovery`), `stats()`, `close()` beside running calls (in `Connector`).

`BlobCache` is what callers may rely on: a set of stored keys and the call each
client is in. A key enters by a `put()` that succeeds and leaves by a `del()` or by
the eviction at the end of a `put()`; a `get()` delivers the blob of its key or
fails. The refinement mapping of `ImplementsCache` takes the keys of the index for
`stored`, and the program counter of a client for its call (`OpOf`); all steps on
slots, policies and the blob store are stutters or the one step that counts.

### Recovery

Three things that survive a process are written by three threads that do not know
of each other: the checkpoint (rename), the entries of the segment files (flush
thread), the headers of the segment files (`close()` only). The model has all
three, and a crash, a power cut, a failing I/O call, a failing `open()` of the
engine or of one segment at any point, over `MaxLives` lives. A call is split where
others can meet it with these in different states: `put()` (upsert and dirty mark)
before the turns of its eviction loop, `del()` into `find()`, `mark_dead()` and
`erase()`, which hold no lock together, so that two calls may mark one entry; the
finer steps are in `Engine`, `BlobStore` and `Checkpoint`. The saver and the flush
thread interleave with them; `close()` runs in its parts, in the order of
`engine.cpp`: a save under way ends, the thread saves once more if the index is dirty
(`LastSave`), is joined (`CheckpointStopped`), the blocks are flushed, the headers
written one by one. It comes when no call is under way (`NoCallUnderWay`), which the
code leaves to its owner. Only entries on NVMe are in `index`, because `open()` scrubs
the others; `dram` has the keys of those. A write block holds one entry. A power cut
may take away any entries, any headers, whole files and the last rename, as nothing
is fsynced; that a header comes back as an earlier `close()` wrote it is not modelled.
History variables: `lost` (locations whose entry never came to the disk), `vanished`
(files that a power cut took), `dead` and `twice` of a segment (what `mark_dead()` was
called for, and whether twice for one entry), `raced` (the index changed while a
snapshot of it was being saved, or without a dirty mark after it) and `stale` (a
`close()` went on over such a change or over a failed save, or a power cut took the
last checkpoint).

### Connector

Two worlds, chosen once by `api`. In Python every call of the binding holds the
GIL while it is inside the engine, except `put()`; the adapters read
`self._engine`, call, and in `close()` clear the reference in a step after. Where a
call is a single step under the GIL, nobody can look in between, and it is one
step; the second try of `get()`, the run of `close()` and everything in `put()` are
steps of their own. Sizes are three classes: below the first buffer (4 MB), the
second (16 MB), neither. In C there is no lock, and batches go element by element;
the single calls are batches of one. `res` is what a batch has dealt with so far. That
no call is under way when `attentiondb_close` deletes the handle (`NoCallUnderWay`) is
an obligation of the caller: `c_api.cpp` does not check it, and the C side of
`OnlyPutsMeetClose` rests on it alone. A `put()` takes the GIL again to return, also with
an exception. `BatchIsPrefix` is about the lengths and blobs that a batch leaves behind;
a C caller learns only the status and not at which element the batch stopped.

### Logger

A call adds to its counters one by one, in the order of `engine.cpp`; the summary
thread exchanges them one by one, in the order of `logger.cpp`. The additions are
relaxed atomics and are taken to become visible in program order (x86-64). A call adds
its outcome before its get, and a summary takes the gets before the outcomes: so an
outcome may be told one summary before its get, and `OutcomesCoverGets` is about the sums
over the summaries so far, not about each one.

## Runs

| Run | Shows | Instance |
|---|---|---|
| `bs_store` | `VisibleOrDurable`, `ReadCorrect`, `PrefixDurable`, `ClosedDurable`, `DurableStays`, types; with I/O failures and `close()` | 1 writer, 1 reader, 3 writes of 1 and 2 units, 1 fault, 2 blocks of 2 units, segments of 5 |
| `bs_writers` | `NoOverlap`, `SegmentsBounded`; fair: `QueueDrains`, `WriterReturns`, `CloseReturnsOrSleeps`; `write()` runs beside `close()` | 2 writers, 3 writes: rotation, a full pool, waiting, giving up |
| `bs_direct` | `ReadCorrect` of direct writes | 2 writers, 1 reader, 3 writes, 1 fault |
| `checkpoint` | `LoadsOneState`, `ShutdownSaves`; fair: `StopReturns`, `LastChangeSaved` | 2 keys, 1 client, 2 changes, 1 failed write, 1 crash |
| `recovery` | `RestartReads`, `GcPicksOnlyFragmented`, `CloseKeepsAll`, `FilesAppendOnly` | 2 keys, 2 clients that delete, 4 calls, 2 blocks, segments of 2 entries, 3 writes, trigger 50 %, 1 fault, 2 lives |
| `slru` | `MapsMatch`, `GrowsWithinShare`, `VictimIsBest`, `PolicySpec` | 4 keys, 3 chunk indices, window of 2; no bound on the steps |
| `slab` | `SlotsPartitioned`, `BytesDisjoint`, `FailsOnlyWhenFull`, `UsedBytesBracketed` | 2 threads, 3 classes; no bound on the steps |
| `en_seq` | `SlotOwned`, `SlotsAccounted`, `ImplementsCache`; fair: `CallsReturn` | 1 client, 3 keys, 2 slots; no bound on the steps |
| `en_puts` | `SlotOwnedOncePut`, `StaysTracked` | 3 clients that put 2 keys, 2 slots; no bound on the steps |
| `connector` | `OnlyPutsMeetClose`, `RaisesOnlyFor`, `BatchIsPrefix`; fair: `PyCallsReturn` | 2 threads, 3 keys, one of each size; no bound on the steps |
| `logger` | `OutcomesCoverGets`; fair: `SummaryStops` | 2 clients, 3 calls |

The bounds: two blocks make one active and one queued or being flushed, so the
pool runs empty; a segment holds two blocks and the header, so three large
writes wait for a block and rotate the segment; two slots fill up with two keys,
so every third put evicts; one failure is enough for each kind of call (a
`read()` whose two attempts both fail returns a miss, which `ReadCorrect` allows); two keys tell a mixture of two
index contents from either. In `recovery`, `SegmentSize` 3 leaves two units beside
the header, so that a segment with one of its two entries dead is exactly at the trigger
of 50 % and not below it, and a third write opens the next segment; `MaxCalls` 4 is two
puts and two `del()` calls that race for one key, or come before and after a restart;
`MaxLives` 2 lets counts and a checkpoint written by one life be used by the next;
`MaxFaults` 1 is one power cut, or one file that cannot be opened or written. Of
`WriterReturns`, `MaxWrites` 3 bounds how often another writer can take the block that was
freed first: that a writer is passed over for ever by others that go on writing is not
examined. `MaxCalls` 3 in `logger` puts calls of both clients before, between and
after the exchanges of one summary and leaves some for the next.

One run shows where the code departs from what its documents say (quoted in
`PROJECT.json` under "findings"): in `en_get_reused`, `get()` copies from a slot
that another client's `put()` has evicted and refilled, and delivers the blob of
another key.

More departures show when a property is checked with other constants, or without
the exception that it names; the passing runs state what does hold in their stead:

* `VisibleOrDurable` fails with two writers of small entries (`Lens = {100}`,
  `MaxWrites = 5`): while one waits in `acquire_block()`, `active_block_` still
  names the block it queued, the other appends to it or queues it again, and an
  acknowledged entry is in no block and not on disk. `blob_store.h:73-74`
  promises "Checks pending write blocks first (read-through), then falls back to
  disk."
* `ReadCorrect` fails with one writer of small and oversized entries (`Lens =
  {100, 9000}`, `SegmentSize = 9`): a direct write takes the place the active
  block is bound to.
* `ShutdownSaves` fails without `~raced`, with two clients: `save()` clears
  `dirty_` after the rename, so a change made and marked while the file was
  written loses its mark, and "Final checkpoint on shutdown"
  (`checkpoint.cpp:163`) saves nothing.
* `close()` of the blob store clears `flush_running_` and notifies without
  `block_mu_`. A flush thread between its test and its wait misses the
  notification and `join()` waits for ever: `CloseReturnsOrSleeps` of `bs_writers`
  names this as the one way not to return, apart from a crash of the process.
  Through the Python binding it waits with the GIL held, and no other call returns:
  `PyCallsReturn` does not assume that this `close()` ends and excepts the time it takes.
* `ClosedDurable` fails with `CloseRace = TRUE`: a writer takes a fresh block
  after `close()` queued the last one. `bs_store` checks it with `close()` after
  the last `write()`, which is how the engine's owner has to call it.
* `ImplementsCache` fails with two clients that put and delete: an eviction
  upserts an entry that a `del()` has erased since, and the key is back.
* `SlotOwned` fails with the same clients: two `del()` calls of one key free its
  slot twice. `en_seq` checks both for one client.
* `DramTracked` (what is in DRAM can be evicted) fails with two clients that put: an
  eviction takes the key of a `put()` from the policy between its `on_insert()` and its
  `upsert()` (`engine.cpp:159` and `183`) and passes over it, and the entry that the
  `upsert()` makes is never evicted. It is proved for one client; for more, `StaysTracked`
  says that this, and a `del()` of the key that ends after a new `put()` of it, are the
  only steps that take a blob out of the reach of eviction.
* `GcPicksOnlyFragmented` fails without its exception of `twice`: two `del()` calls of one
  key both find its entry and both call `mark_dead()` (`engine.cpp:264-280`), and
  `live_count` loses two for one entry. It fails without `~stale` as well: entries that a
  `del()` has marked dead come back when the checkpoint that has them is loaded, while
  the header has the counts after the `del()`.
* `CloseKeepsAll` fails without `raced`: `evict_if_needed()` changes the index after the
  `mark_dirty()` of `put()` (`engine.cpp:184-185`) and does not mark it dirty again, so
  that a save in between is the last one and a demoted entry is not in the checkpoint; and
  a change made while a save is under way loses its mark (as in `ShutdownSaves`).
* `RaisesOnlyFor` allows more than the design: `docs/PHASE0-MVP.md:105-106` says that
  a caller "calls `get(key)` and either gets a blob or a miss", and `get()` of the binding
  raises a RuntimeError for a blob above 16 MB, for one above 4 MB that a `put()` drops
  between its two tries (`attentiondb_py.cpp:54-58`), and when `read()` finds no memory
  (`blob_store.cpp:308`). Without these three the property fails; it says that there is no
  fourth.
* An index entry on NVMe may be ahead of its bytes: `write()` returns when the
  entry is in a block, and the checkpoint may be saved before the block is, so
  that a crash leaves an entry that reads nothing (`lost` in `RestartReads`), or,
  when a power cut took the segment file and its id is given out again, the blob
  of another key (`vanished`), for `read()` compares neither key nor checksum. The
  design (`docs/PHASE0-MVP.md:220-221`) updates the index after the durable write.
* `OnlyPutsMeetClose` fails for `put()`: `close()` of the LMCache adapter does not
  wait for what it gave to the executor, and a `put()` that has released the GIL
  may write to a block that has been freed.
* A `get()` that cannot read its NVMe entry is counted as a get and as neither hit
  nor miss (`failed` in `OutcomesCoverGets`).

Deadlock is checked except where the system may stop: in the runs of `BlobStore`
in which the process may die or `close()` may wait for ever, and in `recovery`,
`connector` and `logger`, which end when the lives, the engine or the calls do.

## Fairness

Weak fairness of the steps of each thread once it is inside a call, and of the
background threads: the scheduler runs every runnable thread, and no lock is held
across a wait. The end of a timed wait is a step of the checkpoint thread, since
the interval goes by. Nothing obliges clients to make calls, `close()` to be
called, or I/O to fail. Condition variables are modelled by explicit waiting
states, so a lost wakeup is not hidden by fairness. `Connector` assumes strong
fairness for the steps of a thread: one that waits for the GIL finds it free again
and again, and Python makes the holder give it up after the switch interval, so
that it is not passed over for ever. The end of the engine's `close()` is not fair there:
`BlobStore` shows that its join may wait for ever. A step that begins a call is never fair.

## Proofs

All theorems hold for every value of the constants that the named assumptions
allow; the bounds of the runs are constants too, so a proof covers any number of
writes, faults, crashes and calls. Each follows the same argument: an inductive
invariant, one lemma per action that preserves it, and the property from it.

| Module | Theorem | States | For |
|---|---|---|---|
| `BlobStoreProofs` | `TypeCorrect` | `TypeOK` | any writers, readers, blocks and sizes |
| | `LocationsDisjoint`, `SegmentsNeverOverflow` | `NoOverlap`, `SegmentsBounded` | `SmallEntries` |
| | `ReturnedIsReadable`, `ReadersServed` | `VisibleOrDurable`, `ReadCorrect` | `Ordinary` |
| | `SegmentsFillInOrder`, `CloseKeepsAll`, `DurableForever` | `PrefixDurable`, `ClosedDurable`, `DurableStays` | `Ordinary` |
| | `DirectIsDurable`, `DirectReadersServed` | `AllOnDisk`, `ReadCorrect` | `DirectOnly` |
| `CheckpointProofs` | `LoadsOne`, `ShutdownKeeps` | `LoadsOneState`, `ShutdownSaves` | any clients, any finite set of keys |
| `CwSlruProofs` | `MapsAgree`, `GrowthBounded`, `BestVictim` | `MapsMatch`, `GrowsWithinShare`, `VictimIsBest` | any keys, costs, ratio and window |
| | `ImplementsSet` | `PolicySpec`: `CwSlru` refines `EvictionSet` | the same |
| `SlabAllocatorProofs` | `SlotsKept`, `BytesApart`, `FailsFull`, `UsedBytesBetween` | `SlotsPartitioned`, `BytesDisjoint`, `FailsOnlyWhenFull`, `UsedBytesBracketed` | any classes, budget, threads and placement of regions |
| `EngineProofs` | `PutsOwnSlots`, `PutsKeepSlots` | `SlotOwnedOncePut`, `SlotsAccounted` | any number of clients that do not delete (`NoDels`) |
| | `OneOwnsSlots`, `OneKeepsSlots`, `OneTracksDram` | `SlotOwned`, `SlotsAccounted`, `DramTracked` | one client (`OneClient`) |
| | `OneImplementsCache` | `ImplementsCache`: `Engine` refines `BlobCache` | one client |
| | `BlobsStayTracked` | `StaysTracked` | any clients, all calls |
| `RecoveryProofs` | `AppendOnly`, `RestartsRead`, `ClosesWhole`, `GcCounts` | `FilesAppendOnly`, `RestartReads`, `CloseKeepsAll`, `GcPicksOnlyFragmented` | any number of lives, crashes and faults |
| `ConnectorProofs` | `OnlyPuts`, `Raises`, `Prefixes` (and `Typed`) | `OnlyPutsMeetClose`, `RaisesOnlyFor`, `BatchIsPrefix` | any threads, keys and batches |
| `LoggerProofs` | `Covers` | `OutcomesCoverGets` | any clients and calls |

### The inductive invariants

* `BlobStore`. `TypeOK` needs `PointersOK` (a block in use is bound to a segment that
  exists, a location names one that exists, the flush thread holds a block while it
  writes), because reading a segment through a pointer preserves types only if the
  segment is there. `LayoutInv` adds: every location lies below the write offset of
  its segment (`LocsBelow`); the active block ends at that offset and has room up to
  the segment's end (`BlockAtEnd`); segment numbers are fresh (`IdsFresh`); waiting
  writers have entries that fit (`WaitersFit`); nobody is on the direct path
  (`NoDirect`). A new entry is put at the write offset, above all others.
  `SmallEntries` says that every entry fits into a block; it cannot be dropped, as a
  direct write may overlap a block (see the departures above).
* `BlobStore`, contents. `Ordinary` is the use that `bs_store` checks: one thread writes
  (`SingleWriter`), entries fit into blocks (`SmallEntries`), and `close()` comes
  after the last `write()` (`~CloseRace`); any number of readers, blocks, sizes, writes and
  I/O failures. None of the three can be dropped: each departure of the store listed
  above breaks one of these properties without one of them. `StoreInv` is `LayoutInv` and
  - `Roles`: a block is in one place only, as the active block, in the queue, with the
    flush thread or in the free pool;
  - `Stages`: what holds in each phase of `close()` and of the flush thread's loops;
  - `Content`: the cells of a block and of a file are those of the entries whose
    locations lie there, entries in one segment are in the order of their sequence
    numbers, files and blocks end at or below the write offset;
  - `Flow`: an entry not lost and not on disk (`Pending`) is in a block on its way to the
    file (`Kept`), no block that the flush thread takes before that block reaches past it
    (`InOrder`), and the file ends below it (`AtEnd`).
  `VisibleOrDurable` follows from `Kept` and `Content`, `PrefixDurable` from `InOrder` and
  `AtEnd`, `ClosedDurable` from `Kept` when queue and flush thread are empty, and
  `DurableStays` from `Roles` and `Content`: a block is written where no returned entry
  lies but its own. `ReadersInv` says of a `read()` between its steps that an entry it did
  not find in the blocks is on disk or lost, or the store is being closed (`Tries`),
  and of its second attempt that the first met an error or that the entry is lost or empty: the
  blocks may be flushed and reused between its look at them and its `pread()`, but only
  after the file has the entry, and the file keeps it.
* `BlobStore`, direct writes. `DirectOnly` says that no entry fits into a block, with any
  number of writers and `close()` beside them. `DirectInv`: blocks and queue stay empty
  (`Idling`), and a writer inside `pwrite()` holds `segments_mu_` with its segment's write
  offset still at its own location (`Reserved`), so that the `pwrite()`, whole or torn,
  starts above all returned entries.
* `Checkpoint`. `FilesInv`: the file and the one before it are what a crash may leave of
  some content the index had (`Remains`), and the temporary file is whole before it is
  renamed; the checksum of a remnant matches only when the remnant is whole. `SaverInv` and `SavedInv` relate
  where the saver is to `dirty`, `running` and what the file holds.
* `CwSlru`. `MapsMatch` with the lists free of duplicates and apart is inductive; the
  recursive scan is shown to return the best of its window by a minimal
  counterexample on the position.
* `SlabAllocator`. `SlabInv` says of each class that its free list has no slot twice
  and none that is held, and that the two make up all slots; `ThreadInv` that a
  thread in `allocate()` has seen every fitting class behind it full. That the class
  sizes can be sorted at all, which gives `Order` its meaning, is proved first.
  `CountInv` says of a thread in `used_bytes()` that its sum lies between the bytes, in
  the classes it has passed, of what was held throughout and at any time in the call,
  and that what is held now lies between the two (`Within`); what it adds for a class is
  exact under the mutex of the class (`UsedBytesExact`). Sums over classes are a recursive
  function; that it exists and grows with the set is shown by counting up (`CountUp`, for a
  set of numbers rather than a predicate, which the provers can instantiate).
* `Engine`. Many clients: a slot on the free list, in a call or in the index, is there
  once, as long as no key was put again (`ManyInv`). One client: `OneInv` says for
  each point of a call what index, free list and policy have. The refinement maps a
  step of the code to a step of `BlobCache` or a stutter, case by case. The proof for
  many clients failed at first: with three clients, two puts of a key that the index
  does not have yet can both be on their way to the index, and the history variable
  `reput` noted only the index. `PutsAgain` now counts a put that another one is
  storing, and `en_puts` has three clients. `BlobsStayTracked` needs no more than the types:
  each action is shown to keep a key in the policy, keep an eviction of it under way, or
  take its entry out of DRAM.
* `Recovery`. `StoreInv` says that a location is in a block, on disk or lost, never two
  of these (outside of `vanished` files), and below the write offset in the active
  segment; `AllGood` that every entry of the index, the snapshot, the checkpoint and
  the one before it is found in one of these places (`Found`). `SavedInv` says
  what the saver has of the index: unless `raced`, the snapshot is the index, and so is
  the checkpoint when nothing is dirty; after `CheckpointStopped` only a failed last save
  leaves it dirty. `ClosesWhole` follows. For the counts, `CountInv` says that no two keys
  have one location (`Unique`), that offsets are within `entry_count` (`Placed`), that
  `live_count` is short of `entry_count` by the entries marked dead unless one was marked
  twice (`Tallied`), and that the header of the active segment is still new (`ActiveCount`);
  `AliveInv` that no entry marked dead is in what a restart would load with that header
  (`CkptAlive`, `HeldAlive`), or in the index but for a `del()` that is about to erase it
  (`ErasedSoon`). Then the live entries of a segment in the index are at most its
  `live_count` (`GcCounts`).
* `Connector`. The holder of the GIL is the thread inside a second try or a `close()`
  (`GilOK`), a key taken away between the two tries of a `get()` is noted (`SecondOK`).
* `Logger`. Outcomes are counted before the get they belong to; so the gets taken so far
  are covered by the outcomes reported, those the summary has still to take, counter
  by counter (`SummaryCovers`), and the failed reads.

### Assumptions

The named assumptions of the modules say what the configuration and the platform
guarantee: `ConfigAssumption` (non-empty pool and blocks, a segment that holds its
header and one block), `SlabAssumption` and `RegionAssumption` (positive class sizes,
regions that do not overlap), `RecoveryAssumption` (sizes, a trigger between 0 and
100, finitely many keys), `CheckpointAssumption` and `LoggerAssumption` (finitely many
keys, and clients), `CwSlruAssumption` (a ratio of at most 1, a window that is not
empty), `EngineAssumption`, `NoneAssumption` and `ConnectorAssumption` (`None` and the
words of the model are none of the keys, threads and entries). TLC evaluates them on
the runs.

### Only model-checked

* All liveness: fairness and `ENABLED` are outside of the prover.
  These are `QueueDrains`, `WriterReturns`, `CloseReturnsOrSleeps`, `StopReturns`,
  `LastChangeSaved`, `CallsReturn`, `PyCallsReturn` and `SummaryStops`.
* `BlobStore` outside of `Ordinary` and `DirectOnly`: with several buffered writers, with
  small and oversized entries together or with `write()` beside `close()`, the properties
  of its contents do not hold (see the departures above). `NoOverlap` and
  `SegmentsBounded` are proved there too, as long as entries are small.
* `Engine` with several clients that delete: its properties do not hold there (see the
  departures above).

## Not modelled

* `gc_compact_segment()`: it returns at once, because no code sets the rewrite
  callback. Which segments it is called for is in `Recovery` (`GcCandidate`). With
  a callback, its `close()` of a segment's fd beside a reader that fetched the
  number (`blob_store.cpp:595`) would have to be modelled.
* The io_uring engine is compiled in optionally and called only by its synchronous
  operations, which are those of the POSIX engine; the GDS engine is a stub.
* Configuration parsing turns text into the values that are constants here.
* `stats()` of the parts, log lines and levels, the mapping of keys and costs in
  the adapters, and the copies to and from LMCache's memory objects: they read or
  convert and change nothing that a property tells apart.

## Plan

1. done: `BlobStore`, `Checkpoint`, `CwSlru`/`EvictionSet`, `SlabAllocator`,
   `Engine`, and the theorems above.
2. done: `Recovery`, `BlobCache` and the refinement, `Connector`, `Logger`.
3. done: the theorems about `Checkpoint`, `CwSlru`, `SlabAllocator`, `Engine`,
   `Recovery`, `Connector` and `Logger`.
4. done: the theorems about the contents of blocks and files (`VisibleOrDurable`,
   `ReadCorrect`, `PrefixDurable`, `ClosedDurable`, `DurableStays` of `BlobStore`) and
   about `used_bytes()`. Every safety property that a passing run checks is now stated
   by a theorem; what the runs add is liveness, and the instances themselves.
