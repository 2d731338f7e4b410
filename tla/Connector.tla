------------------------------- MODULE Connector -------------------------------
(***************************************************************************)
(* The ways into the engine: the Python binding (attentiondb_py.cpp) with  *)
(* the LMCache adapters on top of it (lmcache_adapter.py, backend.py), and *)
(* the C API (c_api.cpp).                                                  *)
(*                                                                         *)
(* The engine is taken by what BlobCache says of it.  Through the binding  *)
(* every call holds Python's GIL for as long as it is inside, except       *)
(* put(), which gives the GIL up: so the GIL is what keeps get() and       *)
(* close() apart.  The C API has no lock and a process uses one of the two.*)
(*                                                                         *)
(* Sizes are classes: 1 fits the first buffer of the binding's get() (4    *)
(* MB), 2 the second one (16 MB), 3 neither.                               *)
(***************************************************************************)
EXTENDS Integers, Sequences, FiniteSets

CONSTANTS
    Keys,
    Threads,
    Size,       \* the size class of the blob of a key
    Batches,    \* the sequences of keys that callers pass; None is a null pointer
    BufSizes,   \* the size classes of the buffers that C callers pass
    None

(* What became of an element of a batch, and how a call ended *)
Results == {"hit", "miss", "none", "unset", "stored", "rejected", "failed", "deleted"}
Outcomes == {"ok", "raised", "refused", "yes", "no", "not_found", "too_small", "shutdown",
             "io_error"}

(* Keys, threads and None are told apart from the words of the model. *)
ASSUME ConnectorAssumption ==
    /\ Size \in [Keys -> 1 .. 3]
    /\ Batches \subseteq Seq(Keys \cup {None})
    /\ BufSizes \subseteq 1 .. 3
    /\ None \notin Keys \cup Threads \cup Results \cup Outcomes
    /\ Keys \cap Results = {}

VARIABLES
    api,        \* what the process uses: "python" or "c"
    opened,     \* opened_ of the engine
    freed,      \* close() has freed the write blocks
    ref,        \* the adapter's _engine is not None; the C handle is alive
    stored,     \* the keys in the engine
    gil,        \* the thread inside the binding, or None
    th          \* what each thread is doing, and the result of its last call

vars == <<api, opened, freed, ref, stored, gil, th>>

(* out and why: how the call ended; raced: its key was dropped, or could not *)
(* be read, between the two tries of a get(); res: the results of a batch.   *)
Idle == [pc |-> "idle", op |-> None, key |-> None, raced |-> FALSE, out |-> None,
         why |-> None, batch |-> <<>>, buf |-> 1, res |-> <<>>]

PyOps == {"get", "put", "contains", "del", "close"}

Reasons == {"no_engine", "shutdown", "not_found", "too_small", "io_error", None}

ThreadState ==
    [pc : {"idle", "enter", "second", "inside", "evicting", "closing", "assign", "prefix", "batch"},
     op : PyOps \cup {"prefix", "batched_get", "batched_put", "delete", None},
     key : Keys \cup {None},
     raced : BOOLEAN,
     out : Outcomes \cup {None},
     why : Reasons,
     batch : Seq(Keys \cup {None}),
     buf : 1 .. 3,
     res : Seq(Results \cup Keys)]

TypeOK ==
    /\ api \in {"python", "c"}
    /\ opened \in BOOLEAN /\ freed \in BOOLEAN /\ ref \in BOOLEAN
    /\ stored \subseteq Keys
    /\ gil \in Threads \cup {None}
    /\ th \in [Threads -> ThreadState]

Init ==
    /\ api \in {"python", "c"}
    /\ opened = TRUE /\ freed = FALSE /\ ref = TRUE
    /\ stored = {}
    /\ gil = None
    /\ th = [t \in Threads |-> Idle]

At(t, pc, op) == th[t].pc = pc /\ th[t].op = op
Goto(t, pc) == th' = [th EXCEPT ![t].pc = pc]
Ends(t, out, why) == th' = [th EXCEPT ![t].pc = "idle", ![t].out = out, ![t].why = why]

-----------------------------------------------------------------------------
(* The adapters: self._engine is read in a step of its own *)

Call(t, op, k) ==
    /\ api = "python" /\ gil = None
    /\ th[t].pc = "idle"
    /\ LET me == [Idle EXCEPT !.op = op, !.key = IF op = "close" THEN None ELSE k]
       IN  th' = [th EXCEPT ![t] =
                    IF ref THEN [me EXCEPT !.pc = "enter"]
                    ELSE IF op = "close" THEN [me EXCEPT !.out = "ok"]
                    ELSE [me EXCEPT !.out = "raised", !.why = "no_engine"]]
    /\ UNCHANGED <<api, opened, freed, ref, stored, gil>>

(* What one try of get() with a buffer of a size finds.  A blob that is in   *)
(* the index and cannot be read counts as not found, and read() may have no  *)
(* memory to read it into.                                                   *)
Found(k, buf) ==
    IF ~opened THEN {"shutdown"}
    ELSE IF k \notin stored THEN {"not_found"}
    ELSE {IF Size[k] > buf THEN "too_small" ELSE "ok", "not_found", "io_error"}

(* The statuses that check_status turns into an exception *)
Thrown == {"shutdown", "io_error"}

(* The GIL given up for the time of the call *)
GetWithoutGil(t) ==
    /\ At(t, "enter", "get") /\ gil = None
    /\ \E s \in Found(th[t].key, 1) :
          IF s = "too_small" THEN Goto(t, "second")
          ELSE IF s \in Thrown THEN Ends(t, "raised", s) ELSE Ends(t, s, None)
    /\ UNCHANGED <<api, opened, freed, ref, stored, gil>>

(* PyEngine::get: None for a miss, another try for a small buffer, and an    *)
(* exception for everything else                                             *)
Get(t) ==
    /\ At(t, "enter", "get") /\ gil = None
    /\ \E s \in Found(th[t].key, 1) :
          IF s = "too_small" THEN Goto(t, "second") /\ gil' = t
          ELSE /\ IF s \in Thrown THEN Ends(t, "raised", s) ELSE Ends(t, s, None)
               /\ UNCHANGED gil
    /\ UNCHANGED <<api, opened, freed, ref, stored>>

SecondBufferForgotten == 1     \* the buffer not resized

SecondBuffer == 2

EndSecond(t, s) ==
    th' = [th EXCEPT ![t].pc = "idle",
                     ![t].out = IF s = "ok" THEN s ELSE "raised",
                     ![t].why = IF s = "ok" THEN None ELSE s,
                     ![t].raced = @ \/ (s = "not_found" /\ th[t].key \in stored)]

(* The tries under a mutex of PyEngine that put() takes before it gives the  *)
(* GIL up, and so keeps until it has the GIL again                           *)
GetSecondLocks(t) ==
    /\ At(t, "second", "get")
    /\ \A u \in Threads : th[u].pc \notin {"inside", "evicting"}
    /\ \E s \in Found(th[t].key, SecondBuffer) : EndSecond(t, s)
    /\ gil' = None
    /\ UNCHANGED <<api, opened, freed, ref, stored>>

(* Here a miss is an exception, too. *)
GetSecond(t) ==
    /\ At(t, "second", "get")
    /\ \E s \in Found(th[t].key, SecondBuffer) : EndSecond(t, s)
    /\ gil' = None
    /\ UNCHANGED <<api, opened, freed, ref, stored>>

Contains(t) ==
    /\ At(t, "enter", "contains") /\ gil = None
    /\ Ends(t, IF opened /\ th[t].key \in stored THEN "yes" ELSE "no", None)
    /\ UNCHANGED <<api, opened, freed, ref, stored, gil>>

(* PyEngine::del drops the status. *)
Del(t) ==
    /\ At(t, "enter", "del") /\ gil = None
    /\ stored' = IF opened THEN stored \ {th[t].key} ELSE stored
    /\ Ends(t, "ok", None)
    /\ UNCHANGED <<api, opened, freed, ref, gil>>

(* PyEngine::put copies the bytes under the GIL and goes on without it.  It  *)
(* takes the GIL again to return, also with the exception of a put() that is *)
(* refused or fails, which the adapters catch.                               *)
Put(t) ==
    /\ At(t, "enter", "put") /\ gil = None
    /\ IF opened THEN Goto(t, "inside") ELSE Ends(t, "refused", "shutdown")
    /\ UNCHANGED <<api, opened, freed, ref, stored, gil>>

PutInside(t) ==
    /\ At(t, "inside", "put")
    /\ \/ stored' = stored \cup {th[t].key} /\ Goto(t, "evicting")
       \/ gil = None /\ Ends(t, "refused", None) /\ UNCHANGED stored
    /\ UNCHANGED <<api, opened, freed, ref, gil>>

(* The evictions at the end of put() *)
Drops(t, k) ==
    /\ k \in stored
    /\ stored' = stored \ {k}
    /\ th' = [u \in Threads |-> IF th[u].pc = "second" /\ th[u].key = k
                                THEN [th[u] EXCEPT !.raced = TRUE] ELSE th[u]]

PutEvicts(t, k) ==
    /\ At(t, "evicting", "put")
    /\ Drops(t, k)
    /\ UNCHANGED <<api, opened, freed, ref, gil>>

PutReturns(t) ==
    /\ At(t, "evicting", "put") /\ gil = None
    /\ Ends(t, "ok", None)
    /\ UNCHANGED <<api, opened, freed, ref, stored, gil>>

(* engine.close() under the GIL, from opened_ = false to the join of the     *)
(* flush thread and the free of the write blocks; the adapter's reference    *)
(* goes in a step after it.  A second close() of the engine returns at once. *)
CloseBegins(t) ==
    /\ At(t, "enter", "close") /\ gil = None
    /\ IF opened THEN opened' = FALSE /\ gil' = t /\ Goto(t, "closing")
       ELSE Goto(t, "assign") /\ UNCHANGED <<opened, gil>>
    /\ UNCHANGED <<api, freed, ref, stored>>

CloseEnds(t) ==
    /\ At(t, "closing", "close")
    /\ freed' = TRUE
    /\ gil' = None
    /\ Goto(t, "assign")
    /\ UNCHANGED <<api, opened, ref, stored>>

CloseAssigns(t) ==
    /\ At(t, "assign", "close") /\ gil = None
    /\ ref' = FALSE
    /\ Ends(t, "ok", None)
    /\ UNCHANGED <<api, opened, freed, stored, gil>>

-----------------------------------------------------------------------------
(* Batches.  res holds a result for each element dealt with. *)

Position(t) == Len(th[t].res) + 1
Element(t) == th[t].batch[Position(t)]
Deal(t, r) == [th EXCEPT ![t].res = Append(@, r)]
Stops(t, r, out) == th' = [Deal(t, r) EXCEPT ![t].pc = "idle", ![t].out = out]
Goes(t, r) == th' = Deal(t, r)

(* batched_contains of backend.py: a Python loop, in which threads may       *)
(* switch, over the elements up to the first one that is not there           *)
Prefix(t, b) ==
    /\ api = "python" /\ gil = None /\ ref
    /\ th[t].pc = "idle"
    /\ \A i \in DOMAIN b : b[i] # None
    /\ th' = [th EXCEPT ![t] = [Idle EXCEPT !.pc = "prefix", !.op = "prefix", !.batch = b]]
    /\ UNCHANGED <<api, opened, freed, ref, stored, gil>>

PrefixStep(t) ==
    /\ At(t, "prefix", "prefix") /\ gil = None
    /\ IF Position(t) > Len(th[t].batch) THEN Ends(t, "ok", None)
       ELSE IF ~ref THEN Ends(t, "raised", "no_engine")
       ELSE IF opened /\ Element(t) \in stored THEN Goes(t, "hit") ELSE Stops(t, "miss", "ok")
    /\ UNCHANGED <<api, opened, freed, ref, stored, gil>>

Batch(t, op, b, buf) ==
    /\ api = "c" /\ ref
    /\ th[t].pc = "idle"
    /\ op = "delete" => \A i \in DOMAIN b : b[i] # None
    /\ th' = [th EXCEPT ![t] = [Idle EXCEPT !.pc = "batch", !.op = op, !.batch = b, !.buf = buf]]
    /\ UNCHANGED <<api, opened, freed, ref, stored, gil>>

(* attentiondb_batched_get, in which a miss leaves the length as it was *)
BatchedGetUnset(t) ==
    /\ At(t, "batch", "batched_get") /\ Position(t) <= Len(th[t].batch)
    /\ IF Element(t) = None THEN Goes(t, "none")
       ELSE \E s \in Found(Element(t), th[t].buf) :
              IF s = "not_found" THEN Goes(t, "unset")
              ELSE IF s = "ok" THEN Goes(t, Element(t)) ELSE Stops(t, "unset", s)
    /\ UNCHANGED <<api, opened, freed, ref, stored, gil>>

(* A null buffer and a miss have length 0; any other error ends the batch.   *)
BatchedGet(t) ==
    /\ At(t, "batch", "batched_get") /\ Position(t) <= Len(th[t].batch)
    /\ IF Element(t) = None THEN Goes(t, "none")
       ELSE \E s \in Found(Element(t), th[t].buf) :
              IF s = "not_found" THEN Goes(t, "none")
              ELSE IF s = "ok" THEN Goes(t, Element(t)) ELSE Stops(t, "unset", s)
    /\ UNCHANGED <<api, opened, freed, ref, stored, gil>>

(* attentiondb_batched_put: a put() that admission rejects counts as done,   *)
(* any other that fails ends the batch.                                      *)
BatchedPut(t) ==
    /\ At(t, "batch", "batched_put") /\ Position(t) <= Len(th[t].batch)
    /\ \/ Element(t) = None /\ Goes(t, "none") /\ UNCHANGED stored
       \/ /\ Element(t) # None
          /\ \/ Goes(t, "stored") /\ stored' = stored \cup {Element(t)}
             \/ Goes(t, "rejected") /\ UNCHANGED stored
             \/ Stops(t, "failed", "io_error") /\ UNCHANGED stored
    /\ UNCHANGED <<api, opened, freed, ref, gil>>

(* attentiondb_delete goes on after an error, and a miss is none. *)
BatchedDelete(t) ==
    /\ At(t, "batch", "delete") /\ Position(t) <= Len(th[t].batch)
    /\ stored' = stored \ {Element(t)}
    /\ Goes(t, "deleted")
    /\ UNCHANGED <<api, opened, freed, ref, gil>>

BatchEnds(t) ==
    /\ th[t].pc = "batch" /\ Position(t) > Len(th[t].batch)
    /\ Ends(t, "ok", None)
    /\ UNCHANGED <<api, opened, freed, ref, stored, gil>>

(* The evictions of a batched_put, after any of its elements *)
BatchEvicts(t, k) ==
    /\ At(t, "batch", "batched_put") /\ th[t].res # <<>>
    /\ th[t].res[Len(th[t].res)] = "stored"
    /\ Drops(t, k)
    /\ UNCHANGED <<api, opened, freed, ref, gil>>

(* An obligation of the C caller, which nothing in c_api.cpp checks:         *)
(* attentiondb_close deletes the handle, so that a call that is under way    *)
(* would use the memory of an engine that is gone.                           *)
NoCallUnderWay == \A t \in Threads : th[t].pc = "idle"

HandleClose ==
    /\ api = "c" /\ ref
    /\ NoCallUnderWay
    /\ opened' = FALSE /\ freed' = TRUE /\ ref' = FALSE
    /\ UNCHANGED <<api, stored, gil, th>>

-----------------------------------------------------------------------------
Step(t) ==
    \/ Get(t) \/ GetSecond(t) \/ Contains(t) \/ Del(t)
    \/ Put(t) \/ PutInside(t) \/ PutReturns(t)
    \/ CloseBegins(t) \/ CloseAssigns(t)
    \/ PrefixStep(t)
    \/ BatchedGet(t) \/ BatchedPut(t) \/ BatchedDelete(t) \/ BatchEnds(t)

Next ==
    \/ \E t \in Threads :
          \/ \E op \in PyOps, k \in Keys : Call(t, op, k)
          \/ \E b \in Batches :
                \/ Prefix(t, b)
                \/ \E buf \in BufSizes : Batch(t, "batched_get", b, buf)
                \/ \E op \in {"batched_put", "delete"} : Batch(t, op, b, 1)
          \/ Step(t) \/ CloseEnds(t)
          \/ \E k \in Keys : PutEvicts(t, k) \/ BatchEvicts(t, k)
    \/ HandleClose

Spec == Init /\ [][Next]_vars

(* Threads run; one that waits for the GIL gets it in the end, for Python    *)
(* takes it from a thread that runs for longer than the switch interval.     *)
(* Nothing is assumed of CloseEnds: the engine's close() joins a flush       *)
(* thread that may sleep for ever (CloseReturnsOrSleeps of BlobStore).       *)
FairSpec == Spec /\ \A t \in Threads : SF_vars(Step(t))

-----------------------------------------------------------------------------
(* Properties *)

(* The threads inside a call of the engine *)
Inside == {t \in Threads : th[t].pc \in {"second", "inside", "evicting"}}

(* When close() has freed the write blocks, no call is inside the engine but *)
(* a put() that was there before: the GIL keeps the others out.  (A put() is *)
(* not kept out: close() of the adapter does not wait for its executor.)     *)
(* Through the C API nothing is inside, by the caller's NoCallUnderWay.      *)
OnlyPutsMeetClose == freed => \A t \in Inside : th[t].op = "put"

(* A Python call raises an exception only when the adapter or the engine has *)
(* been closed, or a get() finds no memory to read a blob into, asks for one *)
(* above 16 MB, or for one above 4 MB that a put() drops, or that becomes    *)
(* unreadable, between its tries.  The last three are more than the design   *)
(* allows (PHASE0-MVP.md:105-106: get(key) "either gets a blob or a miss");  *)
(* what is shown is that PyEngine::get departs from it in no other case.     *)
RaisesOnlyFor ==
    \A t \in Threads : th[t].out = "raised" =>
        \/ th[t].why = "no_engine" /\ ~ref
        \/ th[t].why = "shutdown" /\ ~opened /\ th[t].op = "get"
        \/ th[t].why = "io_error" /\ th[t].op = "get"
        \/ th[t].op = "get" /\ Size[th[t].key] = 3
        \/ th[t].op = "get" /\ Size[th[t].key] = 2 /\ th[t].raced

(* A batch that returns kOk has dealt with every element, and left no length *)
(* unset; one that fails has dealt with those before the one that failed and *)
(* with none after it; and batched_contains counts a prefix.                 *)
BatchIsPrefix ==
    \A t \in Threads : th[t].batch # <<>> =>
        LET me == th[t]
            n == Len(me.res)
        IN  /\ \A i \in 1 .. n - 1 : me.res[i] \notin {"unset", "failed", "miss"}
            /\ \A i \in 1 .. n : me.res[i] \in Keys => me.res[i] = me.batch[i]
            /\ me.out = "ok" /\ me.op # "prefix" =>
                  n = Len(me.batch) /\ me.res[n] \notin {"unset", "failed"}
            /\ me.out = "ok" /\ me.op = "prefix" => n = Len(me.batch) \/ me.res[n] = "miss"

(* Every call returns, though get() and close() hold the GIL while puts are  *)
(* inside the engine that will need it to return; only while the engine's    *)
(* close() is in its join, with the GIL, it may have to wait.  (The engine   *)
(* closes once: of a call that is still there when close() has returned, and *)
(* of the close() itself, the same is said again, and without an exception.) *)
PyCallsReturn ==
    \A t \in Threads :
        th[t].pc # "idle" ~> (th[t].pc = "idle" \/ \E u \in Threads : th[u].pc = "closing")
=============================================================================
