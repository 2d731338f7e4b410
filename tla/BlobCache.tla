------------------------------- MODULE BlobCache -------------------------------
(***************************************************************************)
(* What the engine promises to its callers: a cache of blobs.  A key is    *)
(* there from the put() that stores it until a del() removes it or the     *)
(* eviction that ends a put() drops it, and at no other time; a get() that *)
(* finds its key delivers the blob of that key, or fails.                  *)
(***************************************************************************)
CONSTANTS Keys, Clients, None

VARIABLES
    stored,     \* the keys that contains() answers true for
    call        \* the call of each client, with the blob a get() delivers

vars == <<stored, call>>

Call(op, key, data) == [op |-> op, key |-> key, data |-> data]
NoCall == Call("none", None, None)

Init ==
    /\ stored = {}
    /\ call = [c \in Clients |-> NoCall]

Becomes(c, what) == call' = [call EXCEPT ![c] = what]

Begin(c, op, k) ==
    /\ call[c] = NoCall
    /\ op \in {"get", "del"} => k \in stored
    /\ Becomes(c, Call(op, k, None))
    /\ UNCHANGED stored

(* A put() that fails, or a get() *)
Fail(c) ==
    /\ call[c].op \in {"put", "get"}
    /\ Becomes(c, NoCall)
    /\ UNCHANGED stored

Store(c) ==
    /\ call[c].op = "put"
    /\ stored' = stored \cup {call[c].key}
    /\ Becomes(c, Call("evict", None, None))

Drop(c, k) ==
    /\ call[c].op = "evict"
    /\ stored' = stored \ {k}
    /\ UNCHANGED call

Deliver(c) ==
    /\ call[c].op = "get"
    /\ Becomes(c, Call("got", call[c].key, call[c].key))
    /\ UNCHANGED stored

Remove(c) ==
    /\ call[c].op = "del"
    /\ stored' = stored \ {call[c].key}
    /\ Becomes(c, Call("removed", None, None))

Return(c) ==
    /\ call[c].op \in {"evict", "got", "removed"}
    /\ Becomes(c, NoCall)
    /\ UNCHANGED stored

Next ==
    \E c \in Clients :
        \/ \E op \in {"put", "get", "del"}, k \in Keys : Begin(c, op, k)
        \/ Fail(c) \/ Store(c) \/ Deliver(c) \/ Remove(c) \/ Return(c)
        \/ \E k \in Keys : Drop(c, k)

Spec == Init /\ [][Next]_vars
=============================================================================
