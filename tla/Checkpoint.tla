------------------------------ MODULE Checkpoint ------------------------------
(***************************************************************************)
(* The index and its checkpoints: checkpoint/checkpoint.cpp with           *)
(* index/concurrent_hashmap.cpp, and the engine's use of both.             *)
(*                                                                         *)
(* Clients change the index and then mark it dirty, in two steps; the      *)
(* eviction that ends a put() changes it again and marks nothing.  One     *)
(* thread wakes up every interval, or when stop() tells it to, and saves a *)
(* dirty index: a snapshot under the table lock, a temporary file, a       *)
(* rename over the checkpoint, and then dirty_ = false.  A restart loads   *)
(* the checkpoint and drops the entries of the DRAM tier.                  *)
(***************************************************************************)
EXTENDS Integers, FiniteSets

CONSTANTS
    Keys,
    Clients,       \* threads inside put(), get() or del()
    MaxChanges,    \* bound: changes of the index
    MaxFaults,     \* bound: files that cannot be written
    MaxCrashes,    \* bound: crashes of the process or of the machine
    None           \* no entry, no file

ASSUME CheckpointAssumption ==
    /\ IsFiniteSet(Keys)
    /\ MaxChanges \in Nat
    /\ MaxFaults \in Nat
    /\ MaxCrashes \in Nat

VARIABLES
    index,        \* ConcurrentHashMap
    dirty,
    running,
    saver,        \* the periodic thread
    snap,         \* what its save() took from the index
    tmp,          \* index.checkpoint.tmp
    file,         \* index.checkpoint
    older,        \* what it was before the last rename, which nobody fsynced
    client,       \* what a client's call has done so far
    phase,        \* where the engine's life is
    changes, faults, crashes,
    past,         \* history: every content the index has had
    raced         \* history: a change was made after the last snapshot, and
                  \* no mark of it outlives that save()

fileVars == <<tmp, file, older, faults>>
vars == <<index, dirty, running, saver, snap, fileVars, client, phase, changes, crashes,
          past, raced>>

Tiers == {"t1", "t2"}
Entry == [tier : Tiers, version : 1 .. MaxChanges]
Index == [Keys -> Entry \cup {None}]
Empty == [k \in Keys |-> None]

Entries(ix) == {<<k, ix[k]>> : k \in {j \in Keys : ix[j] # None}}

(* A checkpoint file: the header's entry count and checksum, and the body.   *)
(* The checksum of a set of entries stands for that set.                     *)
File(count, sum, body) == [count |-> count, sum |-> sum, body |-> body]

Whole(ix) == File(Cardinality(Entries(ix)), Entries(ix), Entries(ix))

(* What may be left of a file whose blocks were not all written: the header  *)
(* as it was before the checksum was known, a body that is cut short, or one *)
(* with zeros in it.                                                         *)
Zeros == <<0, None>>

Torn(f) ==
    {File(f.count, sum, b) : sum \in {{}, f.sum}, b \in SUBSET f.body}
      \cup {File(f.count, f.sum, (f.body \ {e}) \cup {Zeros}) : e \in f.body}

TypeOK ==
    /\ index \in Index
    /\ dirty \in BOOLEAN
    /\ running \in BOOLEAN
    /\ saver \in [pc : {"loop", "parking", "waiting", "check", "snapshot", "write",
                        "rename", "clear", "exited"}, last : BOOLEAN]
    /\ snap \in Index
    /\ client \in [Clients -> {"idle", "changed", "touched", "evicting"}]
    /\ phase \in {"open", "stopping", "joining", "stopped", "crashed"}
    /\ changes \in 0 .. MaxChanges
    /\ faults \in 0 .. MaxFaults
    /\ crashes \in 0 .. MaxCrashes
    /\ raced \in BOOLEAN

-----------------------------------------------------------------------------
(* load(), and the scrub of DRAM entries that follows it *)

(* Everything but a whole file is refused. *)
Accepted(f) == f # None /\ f.count <= Cardinality(f.body) /\ f.sum = f.body

ScrubNothing(ix) == ix

Scrub(ix) == [k \in Keys |-> IF ix[k] # None /\ ix[k].tier = "t1" THEN None ELSE ix[k]]

BulkLoad(body) ==
    [k \in Keys |-> IF \E e \in body : e[1] = k
                    THEN (CHOOSE e \in body : e[1] = k)[2] ELSE None]

Loaded(f) == IF Accepted(f) THEN Scrub(BulkLoad(f.body)) ELSE Empty

-----------------------------------------------------------------------------
(* The engine starts on an empty directory. *)
Init ==
    /\ index = Empty
    /\ dirty = FALSE
    /\ running = TRUE
    /\ saver = [pc |-> "loop", last |-> FALSE]
    /\ snap = Empty
    /\ tmp = None
    /\ file = None
    /\ older = None
    /\ client = [c \in Clients |-> "idle"]
    /\ phase = "open"
    /\ changes = 0
    /\ faults = 0
    /\ crashes = 0
    /\ past = {Empty}
    /\ raced = FALSE

Saving == saver.pc \in {"write", "rename", "clear"}

SetEntry(k, e) ==
    /\ changes < MaxChanges
    /\ index' = [index EXCEPT ![k] = e]
    /\ past' = past \cup {index'}
    /\ changes' = changes + 1

(* put() upserts an entry in whichever tier took the blob, del() erases one, *)
(* get() only touches the times of one it found ...                          *)
Upsert(c, k, t) ==
    /\ SetEntry(k, [tier |-> t, version |-> changes + 1])
    /\ client' = [client EXCEPT ![c] = "changed"]

(* A del() that forgets to mark the index dirty *)
EraseUnmarked(c, k) ==
    /\ index[k] # None
    /\ SetEntry(k, None)
    /\ UNCHANGED client

Erase(c, k) ==
    /\ index[k] # None
    /\ SetEntry(k, None)
    /\ client' = [client EXCEPT ![c] = "touched"]

Touch(c, k) ==
    /\ index[k] # None
    /\ client' = [client EXCEPT ![c] = "touched"]
    /\ UNCHANGED <<index, past, changes>>

Change(c) ==
    /\ phase = "open"
    /\ client[c] = "idle"
    /\ \E k \in Keys : (\E t \in Tiers : Upsert(c, k, t)) \/ Erase(c, k) \/ Touch(c, k)
    /\ UNCHANGED <<dirty, running, saver, snap, fileVars, phase, crashes, raced>>

(* ... and each of them calls mark_dirty() next.  put() goes on to evict.    *)
MarkDirty(c) ==
    /\ client[c] \in {"changed", "touched"}
    /\ dirty' = TRUE
    /\ raced' = (raced \/ (Saving /\ index # snap))
    /\ client' = [client EXCEPT ![c] = IF client[c] = "changed" THEN "evicting" ELSE "idle"]
    /\ UNCHANGED <<index, running, saver, snap, fileVars, phase, changes, crashes, past>>

(* evict_if_needed() demotes an entry to the NVMe tier or erases it.  It     *)
(* does not mark the index dirty.                                            *)
Evict(c, k) ==
    /\ client[c] = "evicting"
    /\ index[k] # None /\ index[k].tier = "t1"
    /\ \E e \in {None, [tier |-> "t2", version |-> changes + 1]} : SetEntry(k, e)
    /\ raced' = (raced \/ Saving \/ ~dirty)
    /\ UNCHANGED <<dirty, running, saver, snap, fileVars, client, phase, crashes>>

Return(c) ==
    /\ client[c] = "evicting"
    /\ client' = [client EXCEPT ![c] = "idle"]
    /\ UNCHANGED <<index, dirty, running, saver, snap, fileVars, phase, changes, crashes,
                   past, raced>>

-----------------------------------------------------------------------------
(* periodic_thread_fn() *)

At(pc) == saver.pc = pc
Goto(pc) == saver' = [saver EXCEPT !.pc = pc]

(* No save on the way out *)
LoopWithoutLastSave ==
    /\ At("loop")
    /\ IF running THEN Goto("parking") ELSE saver' = [pc |-> "exited", last |-> TRUE]
    /\ UNCHANGED <<dirty, snap, fileVars, raced>>

(* The loop's test and the wait's predicate; out of the loop, a last save.   *)
Loop ==
    /\ At("loop")
    /\ IF running THEN Goto("parking")
       ELSE saver' = [pc |-> IF dirty THEN "snapshot" ELSE "exited", last |-> TRUE]
    /\ UNCHANGED <<dirty, snap, fileVars, raced>>

Park ==
    /\ At("parking")
    /\ Goto("waiting")
    /\ UNCHANGED <<dirty, snap, fileVars, raced>>

(* A wait() that nothing but a notification ends *)
NoTimeout == FALSE

(* interval_s goes by in the end. *)
Timeout == TRUE

WakeUp ==
    /\ At("waiting")
    /\ Timeout
    /\ Goto("check")
    /\ UNCHANGED <<dirty, snap, fileVars, raced>>

Check ==
    /\ At("check")
    /\ Goto(IF running /\ dirty THEN "snapshot" ELSE "loop")
    /\ UNCHANGED <<dirty, snap, fileVars, raced>>

(* save().  Its early return, for an empty index that is not dirty, is never *)
(* taken: only this thread clears dirty_, and it has just seen it set.       *)
Snapshot ==
    /\ At("snapshot")
    /\ snap' = index
    /\ raced' = FALSE
    /\ Goto("write")
    /\ UNCHANGED <<dirty, fileVars>>

(* save() returns to the loop, or to the end of the thread. *)
Back == Goto(IF saver.last THEN "exited" ELSE "loop")

(* The temporary file is written, or it cannot be opened or written in full  *)
(* and save() gives up.                                                      *)
WriteTmp ==
    /\ At("write")
    /\ \/ /\ tmp' = Whole(snap)
          /\ Goto("rename")
          /\ UNCHANGED faults
       \/ /\ faults < MaxFaults
          /\ faults' = faults + 1
          /\ tmp' \in {tmp} \cup Torn(Whole(snap))
          /\ Back
    /\ UNCHANGED <<dirty, snap, file, older, raced>>

(* A rename that throws ends the process: that is a Crash before this step.  *)
Rename ==
    /\ At("rename")
    /\ file' = tmp
    /\ older' = file
    /\ tmp' = None
    /\ Goto("clear")
    /\ UNCHANGED <<dirty, snap, faults, raced>>

ClearDirty ==
    /\ At("clear")
    /\ dirty' = FALSE
    /\ Back
    /\ UNCHANGED <<snap, fileVars, raced>>

SaverStep ==
    /\ phase # "crashed"
    /\ Loop \/ Park \/ WakeUp \/ Check \/ Snapshot \/ WriteTmp \/ Rename \/ ClearDirty
    /\ UNCHANGED <<index, running, client, phase, changes, crashes, past>>

-----------------------------------------------------------------------------
(* stop(), called by close() when the last call of a client has returned *)

Stop ==
    /\ phase = "open"
    /\ \A c \in Clients : client[c] = "idle"
    /\ running' = FALSE
    /\ phase' = "stopping"
    /\ UNCHANGED <<index, dirty, saver, snap, fileVars, client, changes, crashes, past, raced>>

(* notify_all() without stop_mu_: it reaches the thread only if it waits.    *)
Notify ==
    /\ phase = "stopping"
    /\ phase' = "joining"
    /\ IF At("waiting") THEN Goto("check") ELSE UNCHANGED saver
    /\ UNCHANGED <<index, dirty, running, snap, fileVars, client, changes, crashes, past, raced>>

Join ==
    /\ phase = "joining"
    /\ At("exited")
    /\ phase' = "stopped"
    /\ UNCHANGED <<index, dirty, running, saver, snap, fileVars, client, changes, crashes,
                   past, raced>>

-----------------------------------------------------------------------------
(* The process dies; if the machine loses its power too, nothing that was    *)
(* renamed or written is sure to have reached the disk.                      *)
Crash ==
    /\ phase # "crashed"
    /\ crashes < MaxCrashes
    /\ crashes' = crashes + 1
    /\ phase' = "crashed"
    /\ file' \in {file, older} \cup (IF file = None THEN {} ELSE Torn(file))
    /\ older' = file'
    /\ UNCHANGED <<index, dirty, running, saver, snap, tmp, faults, client, changes, past,
                   raced>>

(* open(): the checkpoint is loaded, and the thread started. *)
Restart ==
    /\ phase \in {"crashed", "stopped"}
    /\ index' = Loaded(file)
    /\ past' = past \cup {index'}
    /\ dirty' = FALSE
    /\ running' = TRUE
    /\ saver' = [pc |-> "loop", last |-> FALSE]
    /\ snap' = Empty
    /\ client' = [c \in Clients |-> "idle"]
    /\ phase' = "open"
    /\ raced' = FALSE
    /\ UNCHANGED <<fileVars, changes, crashes>>

ClientStep(c) ==
    /\ phase # "crashed"
    /\ Change(c) \/ MarkDirty(c) \/ Return(c) \/ \E k \in Keys : Evict(c, k)

Next ==
    \/ \E c \in Clients : ClientStep(c)
    \/ SaverStep
    \/ Stop \/ Notify \/ Join
    \/ Crash
    \/ Restart

Spec == Init /\ [][Next]_vars

(* Threads run, the interval goes by, and a stop() that has begun goes on.   *)
FairSpec ==
    /\ Spec
    /\ WF_vars(SaverStep)
    /\ \A c \in Clients : WF_vars(phase # "crashed" /\ (MarkDirty(c) \/ Return(c)))
    /\ WF_vars(Notify)
    /\ WF_vars(Join)

-----------------------------------------------------------------------------
(* Properties *)

(* Whatever a crash leaves of the checkpoint, load() returns exactly the     *)
(* entries of the NVMe tier of one content the index really had: never a     *)
(* mixture of two, never an entry that was half written, and never a pointer *)
(* into the memory of a dead process.                                        *)
LoadsOneState ==
    \E ix \in past :
        Entries(Loaded(file)) = {e \in Entries(ix) : e[2].tier = "t2"}

(* A restart would find the index as it is, but for the DRAM tier. *)
Saved == file = Whole(index) \/ index = Loaded(file)

(* A clean shutdown saves the index, unless a file could not be written, or  *)
(* a change was made and marked while save() was at work on an older         *)
(* snapshot, or an eviction came after the last snapshot.                    *)
ShutdownSaves == phase = "stopped" /\ faults = 0 /\ ~raced => Saved

(* stop() returns, though its notification may reach nobody.                 *)
StopReturns == phase = "stopping" ~> phase \in {"stopped", "crashed"}

(* The last change comes to be saved: in the next interval after it, in the  *)
(* one after a save that failed, or by the shutdown; unless a crash comes    *)
(* first.                                                                    *)
LastChangeSaved ==
    changes = MaxChanges ~> \/ raced \/ Saved
                            \/ faults > 0 /\ phase = "stopped"
                            \/ phase = "crashed"
=============================================================================
