--------------------------- MODULE ConnectorProofs ---------------------------
(***************************************************************************)
(* Theorems about Connector, for every set of keys, threads, batches and   *)
(* buffers, and every number of calls.                                     *)
(***************************************************************************)
EXTENDS Connector, SequenceTheorems, TLAPS

(***************************************************************************)
(* The inductive invariant.  The GIL is held exactly from the first to the *)
(* second try of a get() and while the engine closes; that is why no other *)
(* thread can be between its tries when the write blocks are freed, and    *)
(* why only a drop by a put() can take the key of such a get() away.       *)
(***************************************************************************)
GilOK == \A t \in Threads : (gil = t) <=> (th[t].pc \in {"second", "closing"})

(* What a thread is doing fits the way in that the process uses. *)
CallOK(t) ==
    /\ th[t].pc \in {"enter", "second", "inside", "evicting", "closing", "assign", "prefix"} =>
          api = "python"
    /\ th[t].pc = "batch" => api = "c" /\ th[t].op \in {"batched_get", "batched_put", "delete"}
    /\ th[t].pc = "prefix" => th[t].op = "prefix"
    /\ th[t].pc \in {"inside", "evicting"} => th[t].op = "put" /\ th[t].key \in Keys
    /\ th[t].pc = "closing" => ~opened
    /\ th[t].pc = "enter" /\ th[t].op # "close" => th[t].key \in Keys
    /\ th[t].pc # "idle" => th[t].out = None

(* Between the two tries of a get() the engine's blocks are there, and its   *)
(* key is still stored unless a drop has been noted.                         *)
SecondOK(t) ==
    th[t].pc = "second" =>
        /\ th[t].op = "get" /\ th[t].key \in Keys /\ Size[th[t].key] >= 2
        /\ ~freed
        /\ th[t].key \notin stored => th[t].raced

RaisesOK(t) ==
    th[t].out = "raised" =>
        \/ th[t].why = "no_engine" /\ ~ref
        \/ th[t].why = "shutdown" /\ ~opened /\ th[t].op = "get"
        \/ th[t].why = "io_error" /\ th[t].op = "get"
        \/ th[t].op = "get" /\ Size[th[t].key] = 3
        \/ th[t].op = "get" /\ Size[th[t].key] = 2 /\ th[t].raced

(* The results of a batch so far.  While it goes on none of them is one that *)
(* ends a batch.                                                             *)
BatchOK(me) ==
    /\ Len(me.res) <= Len(me.batch)
    /\ me.pc \in {"prefix", "batch"} =>
          \A i \in 1 .. Len(me.res) : me.res[i] \notin {"unset", "failed", "miss"}
    /\ \A i \in 1 .. Len(me.res) - 1 : me.res[i] \notin {"unset", "failed", "miss"}
    /\ \A i \in 1 .. Len(me.res) : me.res[i] \in Keys => me.res[i] = me.batch[i]
    /\ me.out = "ok" /\ me.op # "prefix" =>
          /\ Len(me.res) = Len(me.batch)
          /\ me.res # <<>> => me.res[Len(me.res)] \notin {"unset", "failed"}
    /\ me.out = "ok" /\ me.op = "prefix" =>
          \/ Len(me.res) = Len(me.batch)
          \/ me.res # <<>> /\ me.res[Len(me.res)] = "miss"
    /\ me.pc \notin {"idle", "prefix", "batch"} => me.batch = <<>>

Inv ==
    /\ TypeOK
    /\ GilOK
    /\ freed => ~opened
    /\ \A t \in Threads : CallOK(t) /\ SecondOK(t) /\ RaisesOK(t) /\ BatchOK(th[t])

-----------------------------------------------------------------------------
LEMMA InitInv == Init => Inv
  <1> SUFFICES ASSUME Init PROVE Inv
    OBVIOUS
  <1> USE ConnectorAssumption DEF Init, Idle, Results, Outcomes
  <1>1. TypeOK
    <2>1. Idle \in ThreadState
      BY DEF ThreadState, Reasons
    <2> QED
      BY <2>1 DEF TypeOK
  <1>2. GilOK /\ (freed => ~opened)
    BY DEF GilOK
  <1>3. \A t \in Threads : CallOK(t) /\ SecondOK(t) /\ RaisesOK(t) /\ BatchOK(th[t])
    BY DEF CallOK, SecondOK, RaisesOK, BatchOK
  <1> QED
    BY <1>1, <1>2, <1>3 DEF Inv

(* A step of one thread keeps the invariant if what it does to itself does,  *)
(* nothing is opened again, and a thread between its tries keeps its key,    *)
(* the blocks and the GIL.                                                   *)
LEMMA OneThread ==
    ASSUME Inv, TypeOK', NEW t \in Threads,
           \A u \in Threads \ {t} : th'[u] = th[u],
           api' = api, opened' => opened, ref' => ref, freed' => ~opened',
           \A u \in Threads \ {t} : (gil' = u) <=> (gil = u),
           \A u \in Threads \ {t} : th[u].pc = "second" =>
              ~freed' /\ (th[u].key \in stored => th[u].key \in stored'),
           (gil' = t) <=> (th'[t].pc \in {"second", "closing"}),
           CallOK(t)', SecondOK(t)', RaisesOK(t)', BatchOK(th[t])'
    PROVE  Inv'
  <1>1. GilOK'
    BY DEF GilOK, Inv
  <1>2. ASSUME NEW u \in Threads, u # t
        PROVE  (CallOK(u) /\ SecondOK(u) /\ RaisesOK(u) /\ BatchOK(th[u]))'
    <2>1. CallOK(u) /\ SecondOK(u) /\ RaisesOK(u) /\ BatchOK(th[u]) /\ th'[u] = th[u]
      BY <1>2 DEF Inv
    <2>2. CallOK(u)'
      BY <2>1 DEF CallOK
    <2>3. SecondOK(u)'
      BY <1>2, <2>1 DEF SecondOK
    <2>4. RaisesOK(u)'
      BY <2>1 DEF RaisesOK
    <2>5. BatchOK(th[u])'
      BY <2>1 DEF BatchOK
    <2> QED
      BY <2>2, <2>3, <2>4, <2>5
  <1> QED
    BY <1>1, <1>2 DEF Inv

(* A step of one thread leaves the other threads as they are. *)
LEMMA EndsType ==
    ASSUME TypeOK, NEW t \in Threads, NEW out \in Outcomes,
           NEW why \in Reasons,
           Ends(t, out, why)
    PROVE  /\ th' \in [Threads -> ThreadState]
           /\ th'[t] = [th[t] EXCEPT !.pc = "idle", !.out = out, !.why = why]
           /\ th'[t].pc = "idle"
           /\ \A u \in Threads \ {t} : th'[u] = th[u]
  <1> DEFINE r == [th[t] EXCEPT !.pc = "idle", !.out = out, !.why = why]
  <1>1. th[t] \in ThreadState
    BY DEF TypeOK
  <1>2. r \in ThreadState
    BY <1>1 DEF ThreadState
  <1>3. th' = [th EXCEPT ![t] = r]
    BY DEF Ends, TypeOK
  <1> HIDE DEF r
  <1>4. th' \in [Threads -> ThreadState] /\ th'[t] = r /\ \A u \in Threads \ {t} : th'[u] = th[u]
    BY <1>2, <1>3 DEF TypeOK
  <1> QED
    BY <1>1, <1>4 DEF r, ThreadState

LEMMA GotoType ==
    ASSUME TypeOK, NEW t \in Threads,
           NEW pc \in {"second", "inside", "evicting", "closing", "assign"},
           Goto(t, pc)
    PROVE  /\ th' \in [Threads -> ThreadState]
           /\ th'[t] = [th[t] EXCEPT !.pc = pc]
           /\ th'[t].pc = pc
           /\ \A u \in Threads \ {t} : th'[u] = th[u]
  <1> DEFINE r == [th[t] EXCEPT !.pc = pc]
  <1>1. th[t] \in ThreadState
    BY DEF TypeOK
  <1>2. r \in ThreadState
    BY <1>1 DEF ThreadState
  <1>3. th' = [th EXCEPT ![t] = r]
    BY DEF Goto, TypeOK
  <1> HIDE DEF r
  <1>4. th' \in [Threads -> ThreadState] /\ th'[t] = r /\ \A u \in Threads \ {t} : th'[u] = th[u]
    BY <1>2, <1>3 DEF TypeOK
  <1> QED
    BY <1>1, <1>4 DEF r, ThreadState

-----------------------------------------------------------------------------
LEMMA CallInv ==
    ASSUME Inv, NEW t \in Threads, NEW op \in PyOps, NEW k \in Keys, Call(t, op, k)
    PROVE  Inv'
  <1>1. PICK r : /\ th' = [th EXCEPT ![t] = r]
                 /\ r \in ThreadState
                 /\ r.pc \in {"idle", "enter"}
                 /\ r.batch = <<>> /\ r.res = <<>>
                 /\ r.op = op /\ (op # "close" => r.key \in Keys)
                 /\ r.pc = "enter" => r.out = None
                 /\ r.out = "raised" => r.why = "no_engine" /\ ~ref
    <2> DEFINE key == IF op = "close" THEN None ELSE k
    <2> DEFINE me == [Idle EXCEPT !.op = op, !.key = key]
    <2> DEFINE r == IF ref THEN [me EXCEPT !.pc = "enter"]
                    ELSE IF op = "close" THEN [me EXCEPT !.out = "ok"]
                    ELSE [me EXCEPT !.out = "raised", !.why = "no_engine"]
    <2>1. th' = [th EXCEPT ![t] = r]
      BY DEF Call
    <2>2. Idle \in ThreadState
      BY DEF ThreadState, Idle, Reasons
    <2>3. me \in ThreadState /\ me.batch = <<>> /\ me.res = <<>> /\ me.op = op /\ me.pc = "idle"
          /\ (op # "close" => me.key \in Keys) /\ me.out = None
      <3>1. key \in Keys \cup {None} /\ (op # "close" => key \in Keys)
        OBVIOUS
      <3> HIDE DEF key
      <3>2. me.key = key /\ me.op = op
        BY <2>2 DEF ThreadState
      <3>3. me \in ThreadState
        BY <2>2, <3>1 DEF ThreadState
      <3>4. me.batch = <<>> /\ me.res = <<>> /\ me.pc = "idle" /\ me.out = None
        BY DEF Idle
      <3> QED
        BY <3>1, <3>2, <3>3, <3>4
    <2> HIDE DEF me
    <2>4. r \in ThreadState /\ r.batch = <<>> /\ r.res = <<>> /\ r.op = op
          /\ (op # "close" => r.key \in Keys) /\ r.pc \in {"idle", "enter"}
      BY <2>3, ZenonT(60) DEF ThreadState, Outcomes, Reasons
    <2>5. (r.pc = "enter" => r.out = None) /\ (r.out = "raised" => r.why = "no_engine" /\ ~ref)
      BY <2>3, ConnectorAssumption DEF ThreadState, Outcomes, Reasons
    <2> HIDE DEF r
    <2> QED
      BY <2>1, <2>4, <2>5
  <1>2. th'[t] = r /\ (\A u \in Threads \ {t} : th'[u] = th[u]) /\ TypeOK'
    BY <1>1 DEF Inv, TypeOK, Call
  <1>3. CallOK(t)' /\ SecondOK(t)' /\ RaisesOK(t)'
    BY <1>1, <1>2 DEF Call, CallOK, SecondOK, RaisesOK
  <1>4. BatchOK(th[t])'
    BY <1>1, <1>2 DEF BatchOK
  <1>5. UNCHANGED <<api, opened, freed, ref, stored, gil>> /\ gil = None
    BY DEF Call
  <1>6. gil' # t /\ th'[t].pc \notin {"second", "closing"}
    BY <1>1, <1>2, <1>5, ConnectorAssumption
  <1> QED
    BY <1>2, <1>3, <1>4, <1>5, <1>6, OneThread DEF Inv, SecondOK

(* A call outside a batch that ends, and tells why if with an exception.     *)
LEMMA EndsInv ==
    ASSUME Inv, NEW t \in Threads, NEW out \in Outcomes,
           NEW why \in Reasons,
           th[t].pc \in {"enter", "inside", "evicting", "assign"},
           Ends(t, out, why),
           UNCHANGED <<api, opened, freed, gil>>, ref' \in BOOLEAN, ref' => ref,
           stored' \subseteq Keys,
           \A u \in Threads \ {t} : th[u].pc = "second" =>
              (th[u].key \in stored => th[u].key \in stored'),
           out = "raised" => /\ th[t].op = "get"
                             /\ (why = "shutdown" /\ ~opened) \/ why = "io_error"
    PROVE  Inv'
  <1>1. /\ th' \in [Threads -> ThreadState]
        /\ th'[t] = [th[t] EXCEPT !.pc = "idle", !.out = out, !.why = why]
        /\ th'[t].pc = "idle"
        /\ \A u \in Threads \ {t} : th'[u] = th[u]
    <2>1. TypeOK
      BY DEF Inv
    <2> QED
      BY <2>1, EndsType
  <1>2. TypeOK' /\ th[t] \in ThreadState
    BY <1>1 DEF Inv, TypeOK
  <1>3. /\ th'[t].batch = <<>> /\ th'[t].res = <<>>
        /\ th'[t].out = out /\ th'[t].why = why /\ th'[t].op = th[t].op
    <2>1. th[t].batch = <<>> /\ Len(th[t].res) <= Len(th[t].batch)
      BY DEF Inv, BatchOK
    <2>2. th[t].res \in Seq(Results \cup Keys)
      BY <1>2 DEF ThreadState
    <2>3. th[t].res = <<>>
      BY <2>1, <2>2, EmptySeq
    <2> QED
      BY <1>1, <1>2, <2>1, <2>3 DEF ThreadState
  <1>4. CallOK(t)' /\ SecondOK(t)' /\ RaisesOK(t)'
    BY <1>1, <1>3 DEF CallOK, SecondOK, RaisesOK
  <1>5. BatchOK(th[t])'
    BY <1>1, <1>3 DEF BatchOK
  <1>6. gil' # t /\ (freed => ~opened)
    BY DEF Inv, GilOK
  <1>7. \A u \in Threads \ {t} : th[u].pc = "second" => ~freed
    BY DEF Inv, SecondOK
  <1> QED
    BY <1>1, <1>2, <1>4, <1>5, <1>6, <1>7, OneThread

(* A call outside a batch that goes on *)
LEMMA GotoInv ==
    ASSUME Inv, NEW t \in Threads,
           NEW pc \in {"second", "inside", "evicting", "closing", "assign"},
           th[t].pc \in {"enter", "inside", "closing"},
           Goto(t, pc),
           UNCHANGED <<api, ref>>, opened' \in BOOLEAN, freed' \in BOOLEAN, stored' \subseteq Keys,
           opened' => opened, freed' => ~opened', stored \subseteq stored',
           (gil' = t) <=> (pc \in {"second", "closing"}),
           gil' \in Threads \cup {None},
           \A u \in Threads \ {t} : (gil' = u) <=> (gil = u),
           freed' => freed \/ gil = t,
           pc \in {"inside", "evicting"} => th[t].op = "put" /\ th[t].key \in Keys,
           pc = "closing" => ~opened',
           pc = "second" => SecondOK(t)'
    PROVE  Inv'
  <1>1. /\ th' \in [Threads -> ThreadState]
        /\ th'[t] = [th[t] EXCEPT !.pc = pc]
        /\ th'[t].pc = pc
        /\ \A u \in Threads \ {t} : th'[u] = th[u]
    BY GotoType DEF Inv
  <1>2. TypeOK' /\ th[t] \in ThreadState
    BY <1>1 DEF Inv, TypeOK
  <1>3. th[t].out = None /\ th[t].batch = <<>> /\ api = "python"
    BY DEF Inv, CallOK, BatchOK
  <1>4. th'[t].out = None /\ th'[t].batch = <<>> /\ th'[t].res = th[t].res
        /\ th'[t].op = th[t].op /\ th'[t].key = th[t].key
    BY <1>1, <1>2, <1>3 DEF ThreadState
  <1>5. CallOK(t)' /\ RaisesOK(t)' /\ SecondOK(t)'
    BY <1>1, <1>3, <1>4, ConnectorAssumption DEF CallOK, RaisesOK, SecondOK, Outcomes
  <1>6. BatchOK(th[t])'
    <2>1. BatchOK(th[t])
      BY DEF Inv
    <2> QED
      BY <1>1, <1>3, <1>4, <2>1, ConnectorAssumption DEF BatchOK, Outcomes
  <1>7. \A u \in Threads \ {t} : th[u].pc = "second" => ~freed'
    BY DEF Inv, GilOK, SecondOK
  <1> QED
    BY <1>1, <1>2, <1>5, <1>6, <1>7, OneThread

LEMMA GetInv ==
    ASSUME Inv, NEW t \in Threads, Get(t)
    PROVE  Inv'
  <1>1. /\ th[t].pc = "enter" /\ th[t].op = "get" /\ gil = None /\ th[t].key \in Keys
        /\ UNCHANGED <<api, opened, freed, ref, stored>>
    BY DEF Get, At, Inv, CallOK
  <1>2. PICK s \in Found(th[t].key, 1) :
          IF s = "too_small" THEN Goto(t, "second") /\ gil' = t
          ELSE /\ IF s \in Thrown THEN Ends(t, "raised", s) ELSE Ends(t, s, None)
               /\ UNCHANGED gil
    BY DEF Get
  <1>3. /\ s \in {"shutdown", "io_error", "not_found", "too_small", "ok"}
        /\ s = "too_small" => opened /\ th[t].key \in stored /\ Size[th[t].key] > 1
        /\ s = "shutdown" => ~opened
    BY <1>2 DEF Found
  <1>4. ref \in BOOLEAN /\ opened \in BOOLEAN /\ freed \in BOOLEAN /\ stored \subseteq Keys
        /\ th[t] \in ThreadState
    BY DEF Inv, TypeOK
  <1>5. CASE s = "too_small"
    <2>1. Goto(t, "second") /\ gil' = t
      BY <1>2, <1>5
    <2>2. th'[t] = [th[t] EXCEPT !.pc = "second"] /\ th'[t].pc = "second"
      BY <2>1, GotoType DEF Inv
    <2>3. Size[th[t].key] \in 1 .. 3 /\ (freed => ~opened)
      BY <1>1, ConnectorAssumption DEF Inv
    <2>4. SecondOK(t)'
      BY <1>1, <1>3, <1>4, <1>5, <2>2, <2>3 DEF SecondOK, ThreadState
    <2>5. \A u \in Threads \ {t} : (gil' = u) <=> (gil = u)
      BY <1>1, <2>1, ConnectorAssumption
    <2> QED
      BY <1>1, <1>4, <2>1, <2>3, <2>4, <2>5, GotoInv
  <1>6. CASE s \in Thrown
    <2>1. Ends(t, "raised", s) /\ UNCHANGED gil
      BY <1>2, <1>6 DEF Thrown
    <2>2. "raised" \in Outcomes /\ s \in Reasons /\ (s = "io_error" \/ (s = "shutdown" /\ ~opened))
      BY <1>3, <1>6 DEF Outcomes, Reasons, Thrown
    <2> QED
      BY <1>1, <1>3, <1>4, <1>6, <2>1, <2>2, EndsInv
  <1>7. CASE s \in {"not_found", "ok"}
    <2>1. Ends(t, s, None) /\ UNCHANGED gil
      BY <1>2, <1>7 DEF Thrown
    <2>2. s \in Outcomes /\ s # "raised" /\ None \in Reasons
      BY <1>7 DEF Outcomes, Reasons
    <2> QED
      BY <1>1, <1>4, <2>1, <2>2, EndsInv
  <1> QED
    BY <1>3, <1>5, <1>6, <1>7 DEF Thrown

LEMMA ContainsInv ==
    ASSUME Inv, NEW t \in Threads, Contains(t)
    PROVE  Inv'
  <1>1. /\ th[t].pc = "enter"
        /\ UNCHANGED <<api, opened, freed, ref, stored, gil>>
        /\ ref \in BOOLEAN /\ stored \subseteq Keys
    BY DEF Contains, At, Inv, TypeOK
  <1>2. PICK out \in {"yes", "no"} : Ends(t, out, None)
    BY DEF Contains
  <1>3. out \in Outcomes /\ out # "raised" /\ None \in Reasons
    BY DEF Outcomes, Reasons
  <1> QED
    BY <1>1, <1>2, <1>3, EndsInv

(* A deletion waits for the GIL, so no thread is between its two tries.      *)
LEMMA DelInv ==
    ASSUME Inv, NEW t \in Threads, Del(t)
    PROVE  Inv'
  <1>1. /\ th[t].pc = "enter" /\ gil = None
        /\ UNCHANGED <<api, opened, freed, ref, gil>>
        /\ ref \in BOOLEAN /\ stored' \subseteq Keys
        /\ Ends(t, "ok", None)
    BY DEF Del, At, Inv, TypeOK
  <1>2. "ok" \in Outcomes /\ None \in Reasons
    BY DEF Outcomes, Reasons
  <1>3. \A u \in Threads : th[u].pc # "second"
    BY <1>1, ConnectorAssumption DEF Inv, GilOK
  <1> QED
    BY <1>1, <1>2, <1>3, EndsInv

LEMMA PutInv ==
    ASSUME Inv, NEW t \in Threads, Put(t) \/ PutInside(t) \/ PutReturns(t)
    PROVE  Inv'
  <1>1. /\ th[t].pc \in {"enter", "inside", "evicting"} /\ th[t].op = "put" /\ th[t].key \in Keys
        /\ UNCHANGED <<api, opened, freed, ref, gil>>
        /\ ref \in BOOLEAN /\ opened \in BOOLEAN /\ freed \in BOOLEAN /\ stored \subseteq Keys
        /\ gil # t /\ gil \in Threads \cup {None} /\ (freed => ~opened)
    BY DEF Put, PutInside, PutReturns, At, Inv, TypeOK, CallOK, GilOK
  <1>2. "ok" \in Outcomes /\ "refused" \in Outcomes /\ {"shutdown", None} \subseteq Reasons
    BY DEF Outcomes, Reasons
  <1>3. \/ \E why \in {"shutdown", None} : Ends(t, "refused", why) /\ UNCHANGED stored
        \/ Ends(t, "ok", None) /\ UNCHANGED stored
        \/ Goto(t, "inside") /\ th[t].pc = "enter" /\ UNCHANGED stored
        \/ Goto(t, "evicting") /\ th[t].pc = "inside" /\ stored' = stored \cup {th[t].key}
    BY DEF Put, PutInside, PutReturns, At
  <1>4. CASE \E why \in {"shutdown", None} : Ends(t, "refused", why) /\ UNCHANGED stored
    BY <1>1, <1>2, <1>4, EndsInv
  <1>5. CASE Ends(t, "ok", None) /\ UNCHANGED stored
    BY <1>1, <1>2, <1>5, EndsInv
  <1>6. CASE Goto(t, "inside") /\ th[t].pc = "enter" /\ UNCHANGED stored
    BY <1>1, <1>6, GotoInv
  <1>7. CASE Goto(t, "evicting") /\ th[t].pc = "inside" /\ stored' = stored \cup {th[t].key}
    BY <1>1, <1>7, GotoInv
  <1> QED
    BY <1>3, <1>4, <1>5, <1>6, <1>7

LEMMA CloseInv ==
    ASSUME Inv, NEW t \in Threads, CloseBegins(t) \/ CloseEnds(t) \/ CloseAssigns(t)
    PROVE  Inv'
  <1>1. /\ th[t].pc \in {"enter", "closing", "assign"} /\ UNCHANGED <<api, stored>>
        /\ ref \in BOOLEAN /\ opened \in BOOLEAN /\ freed \in BOOLEAN /\ stored \subseteq Keys
        /\ gil \in Threads \cup {None} /\ (freed => ~opened) /\ None \notin Threads
    BY ConnectorAssumption DEF CloseBegins, CloseEnds, CloseAssigns, At, Inv, TypeOK
  <1>2. CASE CloseBegins(t)
    <2>1. th[t].pc = "enter" /\ gil = None /\ UNCHANGED <<freed, ref>>
      BY <1>2 DEF CloseBegins, At
    <2>2. CASE opened
      <3>1. opened' = FALSE /\ gil' = t /\ Goto(t, "closing")
        BY <1>2, <2>2 DEF CloseBegins
      <3> QED
        BY <1>1, <2>1, <3>1, GotoInv
    <2>3. CASE ~opened
      <3>1. UNCHANGED <<opened, gil>> /\ Goto(t, "assign")
        BY <1>2, <2>3 DEF CloseBegins
      <3> QED
        BY <1>1, <2>1, <3>1, GotoInv
    <2> QED
      BY <2>2, <2>3
  <1>3. CASE CloseEnds(t)
    <2>1. th[t].pc = "closing" /\ gil' = None /\ freed' = TRUE /\ UNCHANGED <<opened, ref>>
          /\ Goto(t, "assign")
      BY <1>3 DEF CloseEnds, At
    <2>2. gil = t /\ ~opened
      BY <2>1 DEF Inv, GilOK, CallOK
    <2> QED
      BY <1>1, <2>1, <2>2, GotoInv
  <1>4. CASE CloseAssigns(t)
    <2>1. th[t].pc = "assign" /\ ref' = FALSE /\ UNCHANGED <<opened, freed, gil>>
          /\ Ends(t, "ok", None)
      BY <1>4 DEF CloseAssigns, At
    <2>2. "ok" \in Outcomes /\ None \in Reasons
      BY DEF Outcomes, Reasons
    <2> QED
      BY <1>1, <2>1, <2>2, EndsInv
  <1> QED
    BY <1>2, <1>3, <1>4

(* The second try of a get(): the exception of a miss is that of a key that  *)
(* was dropped, or could not be read.                                        *)
LEMMA GetSecondInv ==
    ASSUME Inv, NEW t \in Threads, GetSecond(t)
    PROVE  Inv'
  <1>1. PICK s \in Found(th[t].key, 2) : EndSecond(t, s)
    BY DEF GetSecond, SecondBuffer
  <1>2. th[t] \in ThreadState /\ th[t].pc = "second" /\ th[t].op = "get" /\ th[t].key \in Keys
        /\ Size[th[t].key] \in {2, 3} /\ (th[t].key \notin stored => th[t].raced)
        /\ gil = t /\ gil' = None /\ UNCHANGED <<api, opened, freed, ref, stored>>
    <2>1. SecondOK(t) /\ th[t].pc = "second" /\ gil = t
      BY DEF Inv, GetSecond, At, GilOK
    <2>2. Size[th[t].key] \in 1 .. 3
      BY <2>1, ConnectorAssumption DEF SecondOK
    <2> QED
      BY <2>1, <2>2 DEF SecondOK, Inv, TypeOK, GetSecond
  <1>3. /\ s \in {"shutdown", "io_error", "not_found", "too_small", "ok"}
        /\ s = "too_small" => Size[th[t].key] = 3
        /\ s = "shutdown" => ~opened
    BY <1>1, <1>2 DEF Found
  <1> DEFINE out == IF s = "ok" THEN s ELSE "raised"
             why == IF s = "ok" THEN None ELSE s
             raced == th[t].raced \/ (s = "not_found" /\ th[t].key \in stored)
             r == [th[t] EXCEPT !.pc = "idle", !.out = out, !.why = why, !.raced = raced]
  <1>4. th' = [th EXCEPT ![t] = r]
    BY <1>1, <1>2 DEF EndSecond, Inv, TypeOK
  <1>5. /\ r \in ThreadState /\ r.pc = "idle" /\ r.op = "get" /\ r.key = th[t].key
        /\ r.batch = th[t].batch /\ r.res = th[t].res
        /\ r.out = "raised" => s # "ok" /\ r.why = s
        /\ s = "not_found" => r.raced
    <2>1. /\ out \in Outcomes \cup {None} /\ why \in Reasons /\ raced \in BOOLEAN
          /\ out = "raised" => s # "ok" /\ why = s
          /\ s = "not_found" => raced
      BY <1>2, <1>3 DEF ThreadState, Outcomes, Reasons
    <2> HIDE DEF out, why, raced
    <2>2. r.out = out /\ r.why = why /\ r.raced = raced /\ r.pc = "idle" /\ r.op = th[t].op
          /\ r.key = th[t].key /\ r.batch = th[t].batch /\ r.res = th[t].res
      BY <1>2 DEF ThreadState
    <2>3. r \in ThreadState
      BY <1>2, <2>1 DEF ThreadState
    <2> HIDE DEF r
    <2> QED
      BY <1>2, <2>1, <2>2, <2>3
  <1> HIDE DEF r
  <1>6. th'[t] = r /\ (\A u \in Threads \ {t} : th'[u] = th[u]) /\ TypeOK'
    BY <1>2, <1>4, <1>5 DEF Inv, TypeOK
  <1>7. CallOK(t)' /\ SecondOK(t)'
    BY <1>5, <1>6 DEF CallOK, SecondOK
  <1>8. RaisesOK(t)'
    BY <1>2, <1>3, <1>5, <1>6 DEF RaisesOK
  <1>9. BatchOK(th[t])'
    <2>1. th[t].batch = <<>> /\ Len(th[t].res) <= Len(th[t].batch)
      BY <1>2 DEF Inv, BatchOK
    <2>2. th[t].res \in Seq(Results \cup Keys)
      BY <1>2 DEF ThreadState
    <2>3. th[t].res = <<>>
      BY <2>1, <2>2, EmptySeq
    <2> QED
      BY <1>5, <1>6, <2>1, <2>3 DEF BatchOK
  <1>10. (\A u \in Threads \ {t} : gil' # u /\ gil # u /\ th[u].pc # "second") /\ gil' # t
         /\ (freed => ~opened)
    BY <1>2, ConnectorAssumption DEF Inv, GilOK
  <1> QED
    BY <1>2, <1>5, <1>6, <1>7, <1>8, <1>9, <1>10, OneThread

(* A put() that drops a key notes it for a get() between its two tries.      *)
LEMMA DropsInv ==
    ASSUME Inv, NEW t \in Threads, NEW k \in Keys, Drops(t, k),
           UNCHANGED <<api, opened, freed, ref, gil>>
    PROVE  Inv'
  <1>1. \A u \in Threads : th[u] \in ThreadState
    BY DEF Inv, TypeOK
  <1>2. stored' = stored \ {k}
    BY DEF Drops
  <1>3. ASSUME NEW u \in Threads
        PROVE  /\ th'[u] \in ThreadState
               /\ \A f \in {"pc", "op", "key", "out", "why", "batch", "res"} : th'[u][f] = th[u][f]
               /\ th[u].raced => th'[u].raced
               /\ th[u].pc = "second" /\ th[u].key = k => th'[u].raced
    BY <1>1, <1>3, ZenonT(60) DEF Drops, ThreadState
  <1>4. TypeOK'
    <2>1. th' \in [Threads -> ThreadState]
      BY <1>3 DEF Drops
    <2> QED
      BY <1>2, <2>1 DEF Inv, TypeOK
  <1>5. ASSUME NEW u \in Threads
        PROVE  (CallOK(u) /\ SecondOK(u) /\ RaisesOK(u) /\ BatchOK(th[u]))'
    <2>1. CallOK(u) /\ SecondOK(u) /\ RaisesOK(u) /\ BatchOK(th[u])
      BY DEF Inv
    <2>2. /\ th'[u].pc = th[u].pc /\ th'[u].op = th[u].op /\ th'[u].key = th[u].key
          /\ th'[u].out = th[u].out /\ th'[u].why = th[u].why /\ th'[u].batch = th[u].batch
          /\ th'[u].res = th[u].res
      BY <1>3
    <2>3. CallOK(u)' /\ SecondOK(u)' /\ RaisesOK(u)'
      BY <1>2, <1>3, <2>1, <2>2 DEF CallOK, SecondOK, RaisesOK
    <2>4. BatchOK(th[u])'
      BY <2>1, <2>2 DEF BatchOK
    <2> QED
      BY <2>3, <2>4
  <1>6. GilOK'
    <2>1. \A u \in Threads : th'[u].pc = th[u].pc
      BY <1>3
    <2> QED
      BY <2>1 DEF Inv, GilOK
  <1> QED
    BY <1>4, <1>5, <1>6 DEF Inv

LEMMA HandleCloseInv ==
    ASSUME Inv, HandleClose
    PROVE  Inv'
  <1>1. /\ \A t \in Threads : th[t].pc = "idle"
        /\ opened' = FALSE /\ freed' = TRUE /\ ref' = FALSE /\ UNCHANGED <<api, stored, gil, th>>
    BY DEF HandleClose, NoCallUnderWay
  <1>2. TypeOK' /\ GilOK'
    BY <1>1 DEF Inv, TypeOK, GilOK
  <1>3. ASSUME NEW t \in Threads
        PROVE  (CallOK(t) /\ SecondOK(t) /\ RaisesOK(t) /\ BatchOK(th[t]))'
    BY <1>1 DEF Inv, CallOK, SecondOK, RaisesOK, BatchOK
  <1> QED
    BY <1>1, <1>2, <1>3 DEF Inv

-----------------------------------------------------------------------------
(* Batches *)

LEMMA BatchBegins ==
    ASSUME Inv, NEW t \in Threads, NEW b \in Batches,
           Prefix(t, b) \/ (\E buf \in BufSizes : Batch(t, "batched_get", b, buf))
             \/ (\E op \in {"batched_put", "delete"} : Batch(t, op, b, 1))
    PROVE  Inv'
  <1>1. PICK r : /\ th' = [th EXCEPT ![t] = r]
                 /\ r \in ThreadState
                 /\ r.res = <<>> /\ r.out = None
                 /\ \/ r.pc = "prefix" /\ r.op = "prefix" /\ api = "python"
                    \/ /\ r.pc = "batch" /\ api = "c"
                       /\ r.op \in {"batched_get", "batched_put", "delete"}
    <2>1. b \in Seq(Keys \cup {None})
      BY ConnectorAssumption
    <2>2. Idle \in ThreadState /\ Idle.res = <<>> /\ Idle.out = None
      BY DEF ThreadState, Idle, Reasons
    <2>3. CASE Prefix(t, b)
      <3> DEFINE r == [Idle EXCEPT !.pc = "prefix", !.op = "prefix", !.batch = b]
      <3>1. th' = [th EXCEPT ![t] = r] /\ api = "python"
        BY <2>3 DEF Prefix
      <3>2. r \in ThreadState /\ r.res = <<>> /\ r.out = None /\ r.pc = "prefix" /\ r.op = "prefix"
        BY <2>1, <2>2 DEF ThreadState
      <3> HIDE DEF r
      <3> QED
        BY <3>1, <3>2
    <2>4. ASSUME NEW op \in {"batched_get", "batched_put", "delete"}, NEW buf \in 1 .. 3,
                 Batch(t, op, b, buf)
          PROVE  \E r : /\ th' = [th EXCEPT ![t] = r]
                        /\ r \in ThreadState /\ r.res = <<>> /\ r.out = None
                        /\ r.pc = "batch" /\ api = "c" /\ r.op = op
      <3> DEFINE r == [Idle EXCEPT !.pc = "batch", !.op = op, !.batch = b, !.buf = buf]
      <3>1. th' = [th EXCEPT ![t] = r] /\ api = "c"
        BY <2>4 DEF Batch
      <3>2. r \in ThreadState /\ r.res = <<>> /\ r.out = None /\ r.pc = "batch" /\ r.op = op
        BY <2>1, <2>2 DEF ThreadState
      <3> HIDE DEF r
      <3> QED
        BY <3>1, <3>2
    <2>5. BufSizes \subseteq 1 .. 3 /\ 1 \in 1 .. 3
      BY ConnectorAssumption
    <2> QED
      BY <2>3, <2>4, <2>5
  <1>2. th[t].pc = "idle" /\ UNCHANGED <<api, opened, freed, ref, stored, gil>>
    BY DEF Prefix, Batch
  <1>3. th'[t] = r /\ (\A u \in Threads \ {t} : th'[u] = th[u]) /\ TypeOK'
    BY <1>1, <1>2 DEF Inv, TypeOK
  <1>4. CallOK(t)' /\ SecondOK(t)' /\ RaisesOK(t)'
    BY <1>1, <1>2, <1>3, ConnectorAssumption DEF CallOK, SecondOK, RaisesOK, Outcomes
  <1>5. BatchOK(th[t])'
    <2>1. Len(r.batch) \in Nat
      BY <1>1 DEF ThreadState
    <2> QED
      BY <1>1, <1>3, <2>1, ConnectorAssumption DEF BatchOK, Outcomes
  <1>6. gil' # t /\ th'[t].pc \notin {"second", "closing"} /\ (freed => ~opened)
        /\ \A u \in Threads \ {t} : th[u].pc = "second" => ~freed
    BY <1>1, <1>2, <1>3 DEF Inv, GilOK, SecondOK
  <1> QED
    BY <1>2, <1>3, <1>4, <1>5, <1>6, OneThread

(* An element dealt with.  Only a result that is none of the last ones lets  *)
(* the batch go on.                                                          *)
LEMMA DealInv ==
    ASSUME Inv, NEW t \in Threads, NEW r \in Results \cup Keys,
           th[t].pc \in {"prefix", "batch"}, Position(t) <= Len(th[t].batch),
           r \in Keys => r = Element(t),
           \/ Goes(t, r) /\ r \notin {"unset", "failed", "miss"}
           \/ \E out \in Outcomes \ {"raised"} :
                 Stops(t, r, out) /\ (out = "ok" => th[t].op = "prefix" /\ r = "miss"),
           UNCHANGED <<api, opened, freed, ref, gil>>, stored' \subseteq Keys,
           \A u \in Threads \ {t} : th[u].pc = "second" =>
              (th[u].key \in stored => th[u].key \in stored')
    PROVE  Inv'
  <1> DEFINE n == Len(th[t].res)
  <1>1. th[t] \in ThreadState /\ th \in [Threads -> ThreadState]
    BY DEF Inv, TypeOK
  <1>2. th[t].res \in Seq(Results \cup Keys) /\ th[t].batch \in Seq(Keys \cup {None})
        /\ n \in Nat /\ n + 1 <= Len(th[t].batch)
    BY <1>1 DEF ThreadState, Position
  <1>3. PICK me : /\ th' = [th EXCEPT ![t] = me]
                  /\ me \in ThreadState
                  /\ me.res = Append(th[t].res, r) /\ me.batch = th[t].batch /\ me.op = th[t].op
                  /\ \/ /\ me.pc = th[t].pc /\ me.out = th[t].out
                        /\ r \notin {"unset", "failed", "miss"}
                     \/ /\ me.pc = "idle" /\ me.out \in Outcomes \ {"raised"}
                        /\ me.out = "ok" => th[t].op = "prefix" /\ r = "miss"
    <2> DEFINE d == [th[t] EXCEPT !.res = Append(th[t].res, r)]
    <2>1. d \in ThreadState /\ d.res = Append(th[t].res, r) /\ d.batch = th[t].batch
          /\ d.op = th[t].op /\ d.pc = th[t].pc /\ d.out = th[t].out
      <3>1. Append(th[t].res, r) \in Seq(Results \cup Keys)
        BY <1>2
      <3> QED
        BY <1>1, <3>1 DEF ThreadState
    <2>2. Deal(t, r) = [th EXCEPT ![t] = d]
      BY <1>1 DEF Deal
    <2> HIDE DEF d
    <2>3. CASE Goes(t, r) /\ r \notin {"unset", "failed", "miss"}
      BY <2>1, <2>2, <2>3 DEF Goes
    <2>4. ASSUME NEW out \in Outcomes \ {"raised"}, Stops(t, r, out),
                 out = "ok" => th[t].op = "prefix" /\ r = "miss"
          PROVE  \E me : /\ th' = [th EXCEPT ![t] = me]
                         /\ me \in ThreadState
                         /\ me.res = Append(th[t].res, r) /\ me.batch = th[t].batch
                         /\ me.op = th[t].op /\ me.pc = "idle" /\ me.out = out
      <3> DEFINE me == [d EXCEPT !.pc = "idle", !.out = out]
      <3>1. th' = [th EXCEPT ![t] = me]
        BY <1>1, <2>1, <2>2, <2>4 DEF Stops
      <3>2. /\ me \in ThreadState /\ me.res = Append(th[t].res, r) /\ me.batch = th[t].batch
            /\ me.op = th[t].op /\ me.pc = "idle" /\ me.out = out
        BY <2>1 DEF ThreadState
      <3> HIDE DEF me
      <3> QED
        BY <3>1, <3>2
    <2> QED
      BY <2>3, <2>4
  <1>4. th'[t] = me /\ (\A u \in Threads \ {t} : th'[u] = th[u]) /\ TypeOK'
    BY <1>1, <1>3 DEF Inv, TypeOK
  <1>5. CallOK(t) /\ BatchOK(th[t]) /\ th[t].out = None
    BY DEF Inv, CallOK
  <1>6. CallOK(t)' /\ SecondOK(t)' /\ RaisesOK(t)'
    BY <1>3, <1>4, <1>5, ConnectorAssumption DEF CallOK, SecondOK, RaisesOK, Outcomes
  <1>7. BatchOK(th[t])'
    <2>1. /\ Len(me.res) = n + 1 /\ me.res[n + 1] = r
          /\ \A i \in 1 .. n : me.res[i] = th[t].res[i]
      BY <1>2, <1>3
    <2>2. \A i \in 1 .. n : th[t].res[i] \notin {"unset", "failed", "miss"}
                            /\ (th[t].res[i] \in Keys => th[t].res[i] = th[t].batch[i])
      BY <1>5 DEF BatchOK
    <2>3. r \in Keys => r = th[t].batch[n + 1]
      BY DEF Element, Position
    <2>4. \A i \in 1 .. n + 1 : i \in 1 .. n \/ i = n + 1
      BY <1>2
    <2>5. \A i \in 1 .. Len(me.res) : me.res[i] \in Keys => me.res[i] = me.batch[i]
      BY <1>3, <2>1, <2>2, <2>3, <2>4
    <2>6. \A i \in 1 .. Len(me.res) - 1 : me.res[i] \notin {"unset", "failed", "miss"}
      <3>1. \A i \in 1 .. Len(me.res) - 1 : i \in 1 .. n
        BY <1>2, <2>1
      <3> HIDE DEF n
      <3> QED
        BY <2>1, <2>2, <3>1
    <2>7. me.pc # "idle" =>
            \A i \in 1 .. Len(me.res) : me.res[i] \notin {"unset", "failed", "miss"}
      BY <1>3, <2>1, <2>2, <2>4
    <2>8. me.out = "ok" => me.op = "prefix" /\ me.res # <<>> /\ me.res[Len(me.res)] = "miss"
      <3>1. me.res # <<>>
        BY <1>2, <1>3, <2>1
      <3> QED
        BY <1>3, <1>5, <2>1, <3>1, ConnectorAssumption DEF Outcomes
    <2>9. Len(me.res) <= Len(me.batch) /\ me.pc \in {"idle", "prefix", "batch"}
      BY <1>2, <1>3, <2>1
    <2> QED
      BY <1>4, <2>5, <2>6, <2>7, <2>8, <2>9 DEF BatchOK
  <1>8. gil' # t /\ th'[t].pc \notin {"second", "closing"} /\ (freed => ~opened)
        /\ \A u \in Threads \ {t} : th[u].pc = "second" => ~freed
    BY <1>3, <1>4 DEF Inv, GilOK, SecondOK
  <1> QED
    BY <1>4, <1>6, <1>7, <1>8, OneThread

(* A batch that ends between two elements: it has dealt with all of them, or *)
(* the adapter has lost its engine.                                          *)
LEMMA BatchEndsInv ==
    ASSUME Inv, NEW t \in Threads,
           th[t].pc \in {"prefix", "batch"},
           \/ Ends(t, "ok", None) /\ Position(t) > Len(th[t].batch)
           \/ Ends(t, "raised", "no_engine") /\ ~ref,
           UNCHANGED <<api, opened, freed, ref, stored, gil>>
    PROVE  Inv'
  <1>1. PICK out \in {"ok", "raised"}, why \in Reasons :
          /\ Ends(t, out, why)
          /\ out = "ok" => Position(t) > Len(th[t].batch)
          /\ out = "raised" => why = "no_engine" /\ ~ref
    BY DEF Reasons
  <1>2. TypeOK /\ out \in Outcomes
    BY DEF Inv, Outcomes
  <1>3. /\ th' \in [Threads -> ThreadState]
        /\ th'[t] = [th[t] EXCEPT !.pc = "idle", !.out = out, !.why = why]
        /\ th'[t].pc = "idle"
        /\ \A u \in Threads \ {t} : th'[u] = th[u]
    BY <1>1, <1>2, EndsType
  <1>4. TypeOK' /\ th[t] \in ThreadState
    BY <1>2, <1>3 DEF TypeOK
  <1>5. /\ th'[t].batch = th[t].batch /\ th'[t].res = th[t].res
        /\ th'[t].out = out /\ th'[t].why = why /\ th'[t].op = th[t].op
    BY <1>3, <1>4 DEF ThreadState
  <1>6. CallOK(t)' /\ SecondOK(t)' /\ RaisesOK(t)'
    BY <1>1, <1>3, <1>5 DEF CallOK, SecondOK, RaisesOK
  <1>7. BatchOK(th[t])'
    <2>1. BatchOK(th[t]) /\ Len(th[t].res) \in Nat /\ Len(th[t].batch) \in Nat
          /\ th[t].res \in Seq(Results \cup Keys)
      BY <1>4 DEF Inv, ThreadState
    <2>2. out = "ok" => Len(th[t].res) = Len(th[t].batch)
      BY <1>1, <2>1 DEF BatchOK, Position
    <2>3. th[t].res # <<>> => Len(th[t].res) \in 1 .. Len(th[t].res)
      BY <2>1, EmptySeq
    <2>4. th[t].res # <<>> => th[t].res[Len(th[t].res)] \notin {"unset", "failed"}
      BY <2>1, <2>3 DEF BatchOK
    <2> QED
      BY <1>3, <1>5, <2>1, <2>2, <2>4 DEF BatchOK
  <1>8. gil' # t /\ (freed => ~opened) /\ \A u \in Threads \ {t} : th[u].pc = "second" => ~freed
    BY DEF Inv, GilOK, SecondOK
  <1> QED
    BY <1>3, <1>4, <1>6, <1>7, <1>8, OneThread

LEMMA PrefixStepInv ==
    ASSUME Inv, NEW t \in Threads, PrefixStep(t)
    PROVE  Inv'
  <1>1. /\ th[t].pc = "prefix" /\ th[t].op = "prefix" /\ stored \subseteq Keys
        /\ UNCHANGED <<api, opened, freed, ref, stored, gil>>
    BY DEF PrefixStep, At, Inv, TypeOK
  <1>2. Position(t) \in Nat /\ Len(th[t].batch) \in Nat
    BY DEF Inv, TypeOK, ThreadState, Position
  <1>3. CASE Position(t) > Len(th[t].batch)
    <2>1. Ends(t, "ok", None)
      BY <1>3 DEF PrefixStep
    <2> QED
      BY <1>1, <1>3, <2>1, BatchEndsInv
  <1>4. CASE ~(Position(t) > Len(th[t].batch)) /\ ~ref
    <2>1. Ends(t, "raised", "no_engine")
      BY <1>4 DEF PrefixStep
    <2> QED
      BY <1>1, <1>4, <2>1, BatchEndsInv
  <1>5. CASE ~(Position(t) > Len(th[t].batch)) /\ ref
    <2>1. Position(t) <= Len(th[t].batch)
      BY <1>2, <1>5
    <2>2. "hit" \in Results /\ "miss" \in Results /\ "hit" \notin Keys /\ "miss" \notin Keys
          /\ "ok" \in Outcomes \ {"raised"}
      BY ConnectorAssumption DEF Results, Outcomes
    <2>3. CASE Goes(t, "hit")
      BY <1>1, <2>1, <2>2, <2>3, DealInv
    <2>4. CASE Stops(t, "miss", "ok")
      BY <1>1, <2>1, <2>2, <2>4, DealInv
    <2> QED
      BY <1>5, <2>3, <2>4 DEF PrefixStep
  <1> QED
    BY <1>3, <1>4, <1>5

LEMMA BatchStepInv ==
    ASSUME Inv, NEW t \in Threads,
           BatchedGet(t) \/ BatchedPut(t) \/ BatchedDelete(t) \/ BatchEnds(t)
    PROVE  Inv'
  <1>1. /\ th[t].pc = "batch" /\ api = "c" /\ UNCHANGED <<api, opened, freed, ref, gil>>
        /\ stored \subseteq Keys
    BY DEF BatchedGet, BatchedPut, BatchedDelete, BatchEnds, At, Inv, TypeOK, CallOK
  <1>2. \A u \in Threads : th[u].pc # "second"
    BY <1>1 DEF Inv, CallOK
  <1>3. Results \cap Keys = {} /\ {"none", "unset", "stored", "rejected", "failed", "deleted"}
          \subseteq Results
    BY ConnectorAssumption DEF Results
  <1>4. Position(t) <= Len(th[t].batch) => Element(t) \in Keys \cup {None}
    BY DEF Inv, TypeOK, ThreadState, Position, Element
  <1>5. CASE BatchedGet(t)
    <2>1. Position(t) <= Len(th[t].batch) /\ UNCHANGED stored
      BY <1>5 DEF BatchedGet
    <2>2. CASE Goes(t, "none")
      BY <1>1, <1>2, <1>3, <2>1, <2>2, DealInv
    <2>3. CASE Element(t) \in Keys /\ Goes(t, Element(t))
      <3>1. Element(t) \notin {"unset", "failed", "miss"}
        BY <2>3, <1>3 DEF Results
      <3> QED
        BY <1>1, <1>2, <2>1, <2>3, <3>1, DealInv
    <2>4. ASSUME NEW s \in {"shutdown", "io_error", "too_small"}, Stops(t, "unset", s)
          PROVE  Inv'
      <3>1. s \in Outcomes \ {"raised"} /\ s # "ok"
        BY DEF Outcomes
      <3> QED
        BY <1>1, <1>2, <1>3, <2>1, <2>4, <3>1, DealInv
    <2>5. \/ Goes(t, "none")
          \/ Element(t) \in Keys /\ Goes(t, Element(t))
          \/ \E s \in {"shutdown", "io_error", "too_small"} : Stops(t, "unset", s)
      BY <1>4, <1>5, <2>1 DEF BatchedGet, Found
    <2> QED
      BY <2>2, <2>3, <2>4, <2>5
  <1>6. CASE BatchedPut(t)
    <2>1. Position(t) <= Len(th[t].batch) /\ stored' \subseteq Keys
      BY <1>1, <1>4, <1>6 DEF BatchedPut
    <2>2. ASSUME NEW r \in {"none", "stored", "rejected"}, Goes(t, r)
          PROVE  Inv'
      <3>1. r \in Results /\ r \notin Keys /\ r \notin {"unset", "failed", "miss"}
        BY <1>3
      <3> QED
        BY <1>1, <1>2, <2>1, <2>2, <3>1, DealInv
    <2>3. CASE Stops(t, "failed", "io_error")
      <3>1. "io_error" \in Outcomes \ {"raised"}
        BY DEF Outcomes
      <3> QED
        BY <1>1, <1>2, <1>3, <2>1, <2>3, <3>1, DealInv
    <2> QED
      BY <1>6, <2>2, <2>3 DEF BatchedPut
  <1>7. CASE BatchedDelete(t)
    <2>1. Position(t) <= Len(th[t].batch) /\ stored' \subseteq Keys /\ Goes(t, "deleted")
      BY <1>1, <1>7 DEF BatchedDelete
    <2> QED
      BY <1>1, <1>2, <1>3, <2>1, DealInv
  <1>8. CASE BatchEnds(t)
    BY <1>1, <1>8, BatchEndsInv DEF BatchEnds
  <1> QED
    BY <1>5, <1>6, <1>7, <1>8

-----------------------------------------------------------------------------
LEMMA NextInv == Inv /\ [Next]_vars => Inv'
  <1> SUFFICES ASSUME Inv, [Next]_vars PROVE Inv'
    OBVIOUS
  <1>1. ASSUME NEW t \in Threads, NEW op \in PyOps, NEW k \in Keys, Call(t, op, k)
        PROVE  Inv'
    BY <1>1, CallInv
  <1>2. ASSUME NEW t \in Threads, NEW b \in Batches,
               Prefix(t, b) \/ (\E buf \in BufSizes : Batch(t, "batched_get", b, buf))
                 \/ (\E op \in {"batched_put", "delete"} : Batch(t, op, b, 1))
        PROVE  Inv'
    BY <1>2, BatchBegins
  <1>3. ASSUME NEW t \in Threads, Step(t) \/ CloseEnds(t)
        PROVE  Inv'
    BY <1>3, GetInv, GetSecondInv, ContainsInv, DelInv, PutInv, CloseInv, PrefixStepInv,
       BatchStepInv DEF Step
  <1>4. ASSUME NEW t \in Threads, NEW k \in Keys, PutEvicts(t, k) \/ BatchEvicts(t, k)
        PROVE  Inv'
    BY <1>4, DropsInv DEF PutEvicts, BatchEvicts
  <1>5. CASE HandleClose
    BY <1>5, HandleCloseInv
  <1>6. CASE UNCHANGED vars
    <2>1. TypeOK' /\ GilOK' /\ (freed => ~opened)'
      BY <1>6 DEF vars, Inv, TypeOK, GilOK
    <2>2. ASSUME NEW t \in Threads
          PROVE  (CallOK(t) /\ SecondOK(t) /\ RaisesOK(t) /\ BatchOK(th[t]))'
      BY <1>6 DEF vars, Inv, CallOK, SecondOK, RaisesOK, BatchOK
    <2> QED
      BY <2>1, <2>2 DEF Inv
  <1> QED
    BY <1>1, <1>2, <1>3, <1>4, <1>5, <1>6 DEF Next

LEMMA InvHolds == Spec => []Inv
  BY InitInv, NextInv, PTL DEF Spec

-----------------------------------------------------------------------------
(* The state of the binding is well typed: the GIL is held by a thread or by *)
(* none, and every thread is at a point of a call of PyEngine or of the C    *)
(* API with arguments and results of that call.                              *)
THEOREM Typed == Spec => []TypeOK
  <1>1. Inv => TypeOK
    BY DEF Inv
  <1> QED
    BY <1>1, InvHolds, PTL

(* When close() has freed the write blocks, the only calls inside the engine *)
(* are puts: get() keeps the GIL between its two tries and close() while it  *)
(* closes, whatever the threads do.                                          *)
THEOREM OnlyPuts == Spec => []OnlyPutsMeetClose
  <1>1. Inv => OnlyPutsMeetClose
    BY DEF Inv, OnlyPutsMeetClose, Inside, CallOK, SecondOK
  <1> QED
    BY <1>1, InvHolds, PTL

(* A Python call raises only for the reasons listed: the adapter's reference *)
(* is gone, the engine is shut down, read() has no memory, the blob is above *)
(* 16 MB, or one above 4 MB was dropped or became unreadable between the     *)
(* tries of PyEngine::get.                                                   *)
THEOREM Raises == Spec => []RaisesOnlyFor
  <1>1. Inv => RaisesOnlyFor
    BY DEF Inv, RaisesOnlyFor, RaisesOK
  <1> QED
    BY <1>1, InvHolds, PTL

(* The batches of the C API and of backend.py deal with a prefix of their    *)
(* elements in order, and with all of them when they return kOk.             *)
THEOREM Prefixes == Spec => []BatchIsPrefix
  <1>1. ASSUME Inv PROVE BatchIsPrefix
    <2> SUFFICES ASSUME NEW t \in Threads, th[t].batch # <<>>
                 PROVE  LET me == th[t]
                            n == Len(me.res)
                        IN  /\ \A i \in 1 .. n - 1 : me.res[i] \notin {"unset", "failed", "miss"}
                            /\ \A i \in 1 .. n : me.res[i] \in Keys => me.res[i] = me.batch[i]
                            /\ me.out = "ok" /\ me.op # "prefix" =>
                                  n = Len(me.batch) /\ me.res[n] \notin {"unset", "failed"}
                            /\ me.out = "ok" /\ me.op = "prefix" =>
                                  n = Len(me.batch) \/ me.res[n] = "miss"
      BY DEF BatchIsPrefix
    <2>1. BatchOK(th[t]) /\ th[t].batch \in Seq(Keys \cup {None}) /\ th[t].res \in Seq(Results \cup Keys)
      BY <1>1 DEF Inv, TypeOK, ThreadState
    <2>2. Len(th[t].res) = Len(th[t].batch) => th[t].res # <<>>
      BY <2>1, EmptySeq
    <2> QED
      BY <2>1, <2>2 DEF BatchOK
  <1> QED
    BY <1>1, InvHolds, PTL

=============================================================================
