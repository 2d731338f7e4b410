---------------------------- MODULE CwSlruProofs ----------------------------
(***************************************************************************)
(* Theorems about CwSlru, for every set of keys and costs, every share of  *)
(* the protected segment and every scan window.                            *)
(***************************************************************************)
EXTENDS CwSlru, SequenceTheorems, WellFoundedInduction, TLAPS

Lists == Seq(EvictionEntry)

-----------------------------------------------------------------------------
(* The operations on lists *)

LEMMA PlaceFound ==
    ASSUME NEW l \in Lists, NEW k \in KeysOf(l)
    PROVE  Place(l, k) \in 1 .. Len(l) /\ l[Place(l, k)].key = k
  <1>1. \E i \in DOMAIN l : l[i].key = k
    BY DEF KeysOf
  <1>2. Place(l, k) \in DOMAIN l /\ l[Place(l, k)].key = k
    BY <1>1 DEF Place
  <1> QED
    BY <1>2 DEF Lists

LEMMA PushFrontList ==
    ASSUME NEW l \in Lists, NEW e \in EvictionEntry
    PROVE  /\ PushFront(l, e) \in Lists
           /\ Len(PushFront(l, e)) = Len(l) + 1
           /\ KeysOf(PushFront(l, e)) = KeysOf(l) \cup {e.key}
           /\ Distinct(l) /\ e.key \notin KeysOf(l) => Distinct(PushFront(l, e))
  <1> DEFINE n == Len(l)
  <1> DEFINE p == PushFront(l, e)
  <1>1. n \in Nat /\ \A i \in 1 .. n : l[i] \in EvictionEntry
    BY DEF Lists
  <1>2. p \in [1 .. n + 1 -> EvictionEntry]
    BY <1>1 DEF PushFront
  <1>3. p \in Lists /\ Len(p) = n + 1 /\ DOMAIN p = 1 .. n + 1
    BY <1>1, <1>2 DEF Lists
  <1>4. p[1] = e /\ \A i \in 1 .. n : p[i + 1] = l[i]
    BY <1>1 DEF PushFront
  <1>5. DOMAIN l = 1 .. n
    BY DEF Lists
  <1> HIDE DEF p, n
  <1>6. \A j \in 1 .. n + 1 : j = 1 \/ (j - 1 \in 1 .. n /\ p[j] = l[j - 1])
    BY <1>1, <1>4
  <1>7. KeysOf(p) = KeysOf(l) \cup {e.key}
    <2>1. KeysOf(p) = {p[i].key : i \in 1 .. n + 1} /\ KeysOf(l) = {l[i].key : i \in 1 .. n}
      BY <1>3, <1>5 DEF KeysOf
    <2>2. \A i \in 1 .. n : i + 1 \in 1 .. n + 1
      BY <1>1
    <2>3. 1 \in 1 .. n + 1
      BY <1>1
    <2>4. \A j \in 1 .. n + 1 : p[j].key = e.key \/ p[j].key \in KeysOf(l)
      BY <1>4, <1>6, <2>1
    <2>5. e.key \in KeysOf(p) /\ \A i \in 1 .. n : l[i].key \in KeysOf(p)
      BY <1>4, <2>1, <2>2, <2>3
    <2> QED
      BY <2>1, <2>4, <2>5
  <1>8. ASSUME Distinct(l), e.key \notin KeysOf(l)
        PROVE  Distinct(p)
    <2> SUFFICES ASSUME NEW i \in 1 .. n + 1, NEW j \in 1 .. n + 1, p[i].key = p[j].key
                 PROVE  i = j
      BY <1>3 DEF Distinct
    <2>1. \A m \in 1 .. n : l[m].key # e.key
      BY <1>5, <1>8 DEF KeysOf
    <2>2. CASE i = 1 \/ j = 1
      BY <1>4, <1>6, <2>1, <2>2
    <2>3. CASE i # 1 /\ j # 1
      <3>1. i - 1 \in 1 .. n /\ j - 1 \in 1 .. n /\ l[i - 1].key = l[j - 1].key
        BY <1>6, <2>3
      <3>2. i - 1 = j - 1
        BY <1>5, <1>8, <3>1 DEF Distinct
      <3> QED
        BY <3>2
    <2> QED
      BY <2>2, <2>3
  <1> QED
    BY <1>3, <1>7, <1>8 DEF p, n

LEMMA EraseAtList ==
    ASSUME NEW l \in Lists, Distinct(l), NEW i \in 1 .. Len(l)
    PROVE  /\ EraseAt(l, i) \in Lists
           /\ Len(EraseAt(l, i)) = Len(l) - 1
           /\ KeysOf(EraseAt(l, i)) = KeysOf(l) \ {l[i].key}
           /\ Distinct(EraseAt(l, i))
  <1> DEFINE n == Len(l)
  <1> DEFINE p == EraseAt(l, i)
  <1>1. n \in Nat /\ n >= 1 /\ \A j \in 1 .. n : l[j] \in EvictionEntry
    BY DEF Lists
  <1>2. p \in [1 .. n - 1 -> EvictionEntry]
    BY <1>1 DEF EraseAt
  <1>3. p \in Lists /\ Len(p) = n - 1 /\ DOMAIN p = 1 .. n - 1
    BY <1>1, <1>2 DEF Lists
  <1>4. DOMAIN l = 1 .. n
    BY DEF Lists
  <1>5. \A j \in 1 .. n - 1 : p[j] = IF j < i THEN l[j] ELSE l[j + 1]
    BY DEF EraseAt
  <1> HIDE DEF p
  <1> DEFINE from(j) == IF j < i THEN j ELSE j + 1
  <1>6. \A j \in 1 .. n - 1 : from(j) \in 1 .. n /\ from(j) # i /\ p[j] = l[from(j)]
    BY <1>1, <1>5
  <1>7. \A m \in 1 .. n : m # i => \E j \in 1 .. n - 1 : from(j) = m
    <2> SUFFICES ASSUME NEW m \in 1 .. n, m # i PROVE \E j \in 1 .. n - 1 : from(j) = m
      OBVIOUS
    <2>1. CASE m < i
      <3>1. m \in 1 .. n - 1 /\ from(m) = m
        BY <1>1, <2>1
      <3> QED
        BY <3>1
    <2>2. CASE m > i
      <3>1. m - 1 \in 1 .. n - 1 /\ from(m - 1) = m
        BY <1>1, <2>2
      <3> QED
        BY <3>1
    <2> QED
      BY <1>1, <2>1, <2>2
  <1>8. \A j, m \in 1 .. n - 1 : from(j) = from(m) => j = m
    BY <1>1
  <1> HIDE DEF from
  <1>9. \A m \in 1 .. n : l[m].key = l[i].key => m = i
    BY <1>1, <1>4 DEF Distinct
  <1>10. KeysOf(p) = KeysOf(l) \ {l[i].key}
    <2>1. KeysOf(p) = {p[j].key : j \in 1 .. n - 1} /\ KeysOf(l) = {l[j].key : j \in 1 .. n}
      BY <1>3, <1>4 DEF KeysOf
    <2> HIDE DEF n
    <2>2. \A j \in 1 .. n - 1 : p[j].key \in KeysOf(l) /\ p[j].key # l[i].key
      BY <1>6, <1>9, <2>1
    <2>3. ASSUME NEW m \in 1 .. n, l[m].key # l[i].key PROVE l[m].key \in KeysOf(p)
      <3>1. PICK j \in 1 .. n - 1 : from(j) = m
        BY <1>7, <2>3
      <3> QED
        BY <1>6, <2>1, <3>1
    <2> QED
      BY <2>1, <2>2, <2>3
  <1>11. Distinct(p)
    <2> SUFFICES ASSUME NEW j \in 1 .. n - 1, NEW m \in 1 .. n - 1, p[j].key = p[m].key
                 PROVE  j = m
      BY <1>3 DEF Distinct
    <2>1. from(j) = from(m)
      BY <1>4, <1>6 DEF Distinct
    <2> QED
      BY <1>8, <2>1
  <1> QED
    BY <1>3, <1>10, <1>11 DEF p

LEMMA MoveToFrontList ==
    ASSUME NEW l \in Lists, Distinct(l), NEW k \in KeysOf(l), NEW cost \in Nat
    PROVE  /\ MoveToFront(l, k, cost) \in Lists
           /\ Len(MoveToFront(l, k, cost)) = Len(l)
           /\ KeysOf(MoveToFront(l, k, cost)) = KeysOf(l)
           /\ Distinct(MoveToFront(l, k, cost))
  <1> DEFINE n == Len(l)
  <1> DEFINE i == Place(l, k)
  <1> DEFINE p == MoveToFront(l, k, cost)
  <1>1. n \in Nat /\ i \in 1 .. n /\ DOMAIN l = 1 .. n /\ \A j \in 1 .. n : l[j] \in EvictionEntry
    BY PlaceFound DEF Lists
  <1>2. /\ p = [j \in 1 .. n |-> IF j = 1 THEN [l[i] EXCEPT !.cost = cost]
                                ELSE IF j <= i THEN l[j - 1] ELSE l[j]]
    BY DEF MoveToFront
  <1> HIDE DEF i, n, p
  <1>3. [l[i] EXCEPT !.cost = cost] \in EvictionEntry /\ [l[i] EXCEPT !.cost = cost].key = l[i].key
    BY <1>1 DEF EvictionEntry
  <1>4. p \in [1 .. n -> EvictionEntry]
    BY <1>1, <1>2, <1>3
  <1>5. p \in Lists /\ Len(p) = n /\ DOMAIN p = 1 .. n
    BY <1>1, <1>4 DEF Lists
  <1> DEFINE from(j) == IF j = 1 THEN i ELSE IF j <= i THEN j - 1 ELSE j
  <1>6. \A j \in 1 .. n : from(j) \in 1 .. n /\ p[j].key = l[from(j)].key
    BY <1>1, <1>2, <1>3
  <1>7. \A m \in 1 .. n : \E j \in 1 .. n : from(j) = m
    <2> SUFFICES ASSUME NEW m \in 1 .. n PROVE \E j \in 1 .. n : from(j) = m
      OBVIOUS
    <2>1. CASE m = i
      <3>1. 1 \in 1 .. n /\ from(1) = m
        BY <1>1, <2>1
      <3> QED
        BY <3>1
    <2>2. CASE m < i
      <3>1. m + 1 \in 1 .. n /\ from(m + 1) = m
        BY <1>1, <2>2
      <3> QED
        BY <3>1
    <2>3. CASE m > i
      <3>1. from(m) = m
        BY <1>1, <2>3
      <3> QED
        BY <3>1
    <2> QED
      BY <1>1, <2>1, <2>2, <2>3
  <1>8. \A j, m \in 1 .. n : from(j) = from(m) => j = m
    BY <1>1
  <1> HIDE DEF from
  <1>9. KeysOf(p) = KeysOf(l)
    <2>1. KeysOf(p) = {p[j].key : j \in 1 .. n} /\ KeysOf(l) = {l[j].key : j \in 1 .. n}
      BY <1>1, <1>5 DEF KeysOf
    <2>2. \A j \in 1 .. n : p[j].key \in KeysOf(l)
      BY <1>6, <2>1
    <2>3. ASSUME NEW m \in 1 .. n PROVE l[m].key \in KeysOf(p)
      <3>1. PICK j \in 1 .. n : from(j) = m
        BY <1>7
      <3> QED
        BY <1>6, <2>1, <3>1
    <2> QED
      BY <2>1, <2>2, <2>3
  <1>10. Distinct(p)
    <2> SUFFICES ASSUME NEW j \in 1 .. n, NEW m \in 1 .. n, p[j].key = p[m].key
                 PROVE  j = m
      BY <1>5 DEF Distinct
    <2>1. from(j) \in 1 .. n /\ from(m) \in 1 .. n /\ l[from(j)].key = l[from(m)].key
      BY <1>6
    <2>2. from(j) = from(m)
      BY <1>1, <2>1 DEF Distinct
    <2> QED
      BY <1>8, <2>2
  <1> QED
    BY <1>5, <1>9, <1>10 DEF p, n

(* The share of the protected segment is a number of entries.                *)
LEMMA MaxProtectedNat ==
    ASSUME NEW total \in Nat
    PROVE  MaxProtected(total) \in Nat
  <1> DEFINE a == IF MaxEntries > 0 THEN MaxEntries ELSE total
  <1>1. a \in Nat /\ RatioNum \in Nat /\ RatioDen \in Nat /\ RatioDen > 0
    BY CwSlruAssumption
  <1> HIDE DEF a
  <1>2. a * RatioNum \in Nat
    BY <1>1
  <1> DEFINE m == a * RatioNum
  <1> HIDE DEF m
  <1>3. m \div RatioDen \in Nat
    BY <1>1, <1>2 DEF m
  <1> QED
    BY <1>3 DEF MaxProtected, m, a

(* The overflow of one list in front of another                              *)
LEMMA OverflowLists ==
    ASSUME NEW prot \in Lists, Distinct(prot), NEW prob \in Lists, Distinct(prob),
           KeysOf(prot) \cap KeysOf(prob) = {}, NEW max \in Nat
    PROVE  LET out == SubSeq(prot, max + 1, Len(prot))
               stay == SubSeq(prot, 1, Len(prot) - Len(out))
           IN  /\ stay \in Lists /\ out \o prob \in Lists
               /\ Len(stay) + Len(out \o prob) = Len(prot) + Len(prob)
               /\ Len(stay) <= max
               /\ KeysOf(stay) = KeysOf(prot) \ KeysOf(out)
               /\ KeysOf(out) \subseteq KeysOf(prot)
               /\ KeysOf(out \o prob) = KeysOf(out) \cup KeysOf(prob)
               /\ Distinct(stay) /\ Distinct(out \o prob)
  <1> DEFINE n == Len(prot)
  <1> DEFINE out == SubSeq(prot, max + 1, n)
  <1> DEFINE q == Len(out)
  <1> DEFINE stay == SubSeq(prot, 1, n - q)
  <1> DEFINE both == out \o prob
  <1>1. n \in Nat /\ DOMAIN prot = 1 .. n /\ \A j \in 1 .. n : prot[j] \in EvictionEntry
    BY DEF Lists
  <1> HIDE DEF n
  <1>2. /\ out \in Lists
        /\ q = IF max + 1 <= n THEN n - max ELSE 0
        /\ \A i \in 1 .. n - max : out[i] = prot[max + i]
    <2>1. \A j \in max + 1 .. n : prot[j] \in EvictionEntry
      BY <1>1
    <2>2. max + 1 \in Int /\ n \in Int
      BY <1>1
    <2>3. /\ SubSeq(prot, max + 1, n) \in Seq(EvictionEntry)
          /\ Len(SubSeq(prot, max + 1, n)) = IF max + 1 <= n THEN n - (max + 1) + 1 ELSE 0
          /\ \A i \in 1 .. n - (max + 1) + 1 : SubSeq(prot, max + 1, n)[i] = prot[max + 1 + i - 1]
      BY <2>1, <2>2, SubSeqProperties
    <2> QED
      BY <1>1, <2>3 DEF Lists
  <1>3. /\ both \in Lists /\ Len(both) = q + Len(prob) /\ DOMAIN both = 1 .. q + Len(prob)
        /\ \A i \in 1 .. q + Len(prob) : both[i] = IF i <= q THEN out[i] ELSE prob[i - q]
    <2> HIDE DEF out
    <2>1. /\ both \in Seq(EvictionEntry) /\ Len(both) = q + Len(prob)
          /\ \A i \in 1 .. q + Len(prob) : both[i] = IF i <= q THEN out[i] ELSE prob[i - q]
      BY <1>2, ConcatProperties DEF Lists
    <2> HIDE DEF both, q
    <2> QED
      BY <2>1 DEF Lists
  <1>4. DOMAIN out = 1 .. q
    BY <1>2 DEF Lists
  <1> HIDE DEF out, q, both
  <1>5. q \in 0 .. n /\ (max + 1 <= n => n - q = max) /\ (~(max + 1 <= n) => q = 0)
    BY <1>1, <1>2
  <1>6. stay \in Lists /\ Len(stay) = n - q /\ \A i \in 1 .. n - q : stay[i] = prot[i]
    <2>1. \A j \in 1 .. n - q : prot[j] \in EvictionEntry
      BY <1>1, <1>5
    <2>2. 1 \in Int /\ n - q \in Int
      BY <1>1, <1>5
    <2>3. /\ SubSeq(prot, 1, n - q) \in Seq(EvictionEntry)
          /\ Len(SubSeq(prot, 1, n - q)) = IF 1 <= n - q THEN n - q - 1 + 1 ELSE 0
          /\ \A i \in 1 .. n - q - 1 + 1 : SubSeq(prot, 1, n - q)[i] = prot[1 + i - 1]
      BY <2>1, <2>2, SubSeqProperties
    <2> QED
      BY <1>1, <1>5, <2>3 DEF Lists
  <1> HIDE DEF stay
  <1>7. \A i \in 1 .. q : out[i] = prot[n - q + i] /\ n - q + i \in 1 .. n
    BY <1>1, <1>2, <1>5
  <1>8. DOMAIN out = 1 .. q /\ DOMAIN stay = 1 .. n - q /\ DOMAIN prob = 1 .. Len(prob)
        /\ Len(prob) \in Nat
    BY <1>6, <1>4 DEF Lists
  <1>9. KeysOf(out) \subseteq KeysOf(prot)
    BY <1>1, <1>7, <1>8 DEF KeysOf
  <1>10. KeysOf(stay) = KeysOf(prot) \ KeysOf(out)
    <2>1. ASSUME NEW i \in 1 .. n - q
          PROVE  stay[i].key \in KeysOf(prot) /\ stay[i].key \notin KeysOf(out)
      <3>1. i \in 1 .. n /\ stay[i] = prot[i]
        BY <1>1, <1>5, <1>6
      <3>2. \A j \in 1 .. q : prot[n - q + j].key # prot[i].key
        BY <1>1, <1>5, <1>7, <3>1 DEF Distinct
      <3> QED
        BY <1>1, <1>7, <1>8, <3>1, <3>2 DEF KeysOf
    <2>2. ASSUME NEW i \in 1 .. n, prot[i].key \notin KeysOf(out)
          PROVE  prot[i].key \in KeysOf(stay)
      <3>1. ~(i > n - q)
        <4>1. ASSUME i > n - q PROVE FALSE
          <5>1. i - (n - q) \in 1 .. q /\ n - q + (i - (n - q)) = i
            BY <1>1, <1>5, <4>1
          <5>2. out[i - (n - q)] = prot[i]
            BY <1>7, <5>1
          <5> QED
            BY <1>8, <2>2, <5>1, <5>2 DEF KeysOf
        <4> QED
          BY <4>1
      <3>2. i \in 1 .. n - q
        BY <1>1, <1>5, <3>1
      <3> QED
        BY <1>6, <1>8, <3>2 DEF KeysOf
    <2>3. KeysOf(stay) = {stay[i].key : i \in 1 .. n - q} /\ KeysOf(prot) = {prot[i].key : i \in 1 .. n}
      BY <1>1, <1>8 DEF KeysOf
    <2> QED
      BY <2>1, <2>2, <2>3
  <1>11. KeysOf(both) = KeysOf(out) \cup KeysOf(prob)
    <2>1. /\ KeysOf(both) = {both[i].key : i \in 1 .. q + Len(prob)}
          /\ KeysOf(out) = {out[i].key : i \in 1 .. q}
          /\ KeysOf(prob) = {prob[i].key : i \in 1 .. Len(prob)}
      BY <1>8, <1>3 DEF KeysOf
    <2>2. \A i \in 1 .. q + Len(prob) : i \in 1 .. q \/ (i - q \in 1 .. Len(prob) /\ ~(i <= q))
      BY <1>5, <1>8
    <2>3. \A i \in 1 .. q : i \in 1 .. q + Len(prob) /\ i <= q
      BY <1>5, <1>8
    <2>4. \A i \in 1 .. Len(prob) : i + q \in 1 .. q + Len(prob) /\ ~(i + q <= q) /\ i + q - q = i
      BY <1>5, <1>8
    <2>5. \A i \in 1 .. q + Len(prob) : both[i].key \in KeysOf(out) \cup KeysOf(prob)
      BY <1>3, <2>1, <2>2
    <2>6. \A i \in 1 .. q : out[i].key \in KeysOf(both)
      BY <1>3, <2>1, <2>3
    <2>7. \A i \in 1 .. Len(prob) : prob[i].key \in KeysOf(both)
      <3> SUFFICES ASSUME NEW i \in 1 .. Len(prob) PROVE prob[i].key \in KeysOf(both)
        OBVIOUS
      <3> DEFINE m == i + q
      <3>1. m \in 1 .. q + Len(prob) /\ ~(m <= q) /\ m - q = i
        BY <1>5, <1>8
      <3> HIDE DEF m
      <3>2. both[m] = prob[m - q]
        BY <1>3, <3>1
      <3> QED
        BY <2>1, <3>1, <3>2
    <2> QED
      BY <2>1, <2>5, <2>6, <2>7
  <1>12. Distinct(stay)
    <2> SUFFICES ASSUME NEW i \in 1 .. n - q, NEW j \in 1 .. n - q, stay[i].key = stay[j].key
                 PROVE  i = j
      BY <1>8 DEF Distinct
    <2>1. i \in 1 .. n /\ j \in 1 .. n
      BY <1>1, <1>5
    <2> QED
      BY <1>1, <1>6, <2>1 DEF Distinct
  <1>13. Distinct(both)
    <2> SUFFICES ASSUME NEW i \in 1 .. q + Len(prob), NEW j \in 1 .. q + Len(prob),
                        both[i].key = both[j].key
                 PROVE  i = j
      BY <1>3 DEF Distinct
    <2>1. \A m \in 1 .. q + Len(prob) :
             \/ m \in 1 .. q /\ both[m] = prot[n - q + m] /\ n - q + m \in 1 .. n
             \/ ~(m <= q) /\ m - q \in 1 .. Len(prob) /\ both[m] = prob[m - q]
      BY <1>5, <1>7, <1>8, <1>3
    <2>2. \A x \in 1 .. n, y \in 1 .. Len(prob) : prot[x].key # prob[y].key
      BY <1>1, <1>8 DEF KeysOf
    <2>3. CASE i \in 1 .. q /\ j \in 1 .. q
      <3>1. prot[n - q + i].key = prot[n - q + j].key /\ n - q + i \in 1 .. n /\ n - q + j \in 1 .. n
        BY <2>1, <2>3
      <3>2. n - q + i = n - q + j
        BY <1>1, <3>1 DEF Distinct
      <3> QED
        BY <1>1, <1>5, <3>2
    <2>4. CASE ~(i <= q) /\ ~(j <= q)
      <3>1. i - q \in 1 .. Len(prob) /\ j - q \in 1 .. Len(prob) /\ prob[i - q].key = prob[j - q].key
        BY <2>1, <2>4
      <3>2. i - q = j - q
        BY <1>8, <3>1 DEF Distinct
      <3> QED
        BY <1>5, <3>2
    <2> QED
      BY <2>1, <2>2, <2>3, <2>4
  <1>14. Len(stay) + Len(both) = n + Len(prob) /\ Len(stay) <= max
    BY <1>1, <1>5, <1>6, <1>8, <1>3
  <1> QED
    BY <1>6, <1>3, <1>9, <1>10, <1>11, <1>12, <1>13, <1>14 DEF both, stay, out, n, q

-----------------------------------------------------------------------------
(* The scan for a victim *)

BestStep(l, f, n) ==
    IF n = 0 THEN Len(l)
    ELSE IF Better(l[Len(l) - n], l[f[n - 1]]) THEN Len(l) - n ELSE f[n - 1]

BestUpTo(l, f, w) == f = [n \in 0 .. w |-> BestStep(l, f, n)]

(* The places looked at, one more at each step, have a best one at each step *)
LEMMA BestExists ==
    ASSUME NEW l \in Lists, NEW w \in Nat
    PROVE  \E f : BestUpTo(l, f, w)
  <1> DEFINE Bad == {m \in Nat : ~ \E f : BestUpTo(l, f, m)}
  <1> SUFFICES ASSUME w \in Bad PROVE FALSE
    OBVIOUS
  <1>1. PICK m \in Bad : \A y \in Bad : <<y, m>> \notin OpToRel(<, Nat)
    <2>1. Bad \subseteq Nat /\ Bad # {} /\ IsWellFoundedOn(OpToRel(<, Nat), Nat)
      BY NatLessThanWellFounded
    <2> QED
      BY <2>1, WFMin
  <1>2. m \in Nat /\ \A y \in Nat : y < m => y \notin Bad
    BY <1>1 DEF OpToRel
  <1>3. ~ \E f : BestUpTo(l, f, m)
    BY <1>1
  <1>4. m # 0
    <2>1. BestUpTo(l, [n \in 0 .. 0 |-> Len(l)], 0)
      BY DEF BestUpTo, BestStep
    <2> QED
      BY <1>3, <2>1
  <1>5. PICK f : BestUpTo(l, f, m - 1)
    BY <1>2, <1>4
  <1> DEFINE g == [n \in 0 .. m |-> IF n = m THEN BestStep(l, f, m) ELSE f[n]]
  <1>6. \A n \in 0 .. m - 1 : g[n] = f[n] /\ f[n] = BestStep(l, f, n)
    <2>1. f = [n \in 0 .. m - 1 |-> BestStep(l, f, n)]
      BY <1>5 DEF BestUpTo
    <2>2. \A n \in 0 .. m - 1 : f[n] = BestStep(l, f, n)
      BY <2>1, Zenon
    <2>3. \A n \in 0 .. m - 1 : n \in 0 .. m /\ n # m
      BY <1>2
    <2> QED
      BY <2>2, <2>3
  <1>7. g[m] = BestStep(l, f, m)
    BY <1>2
  <1>8. \A n \in 0 .. m : g[n] = BestStep(l, g, n)
    <2> SUFFICES ASSUME NEW n \in 0 .. m PROVE g[n] = BestStep(l, g, n)
      OBVIOUS
    <2>1. n # 0 => n - 1 \in 0 .. m - 1
      BY <1>2
    <2>2. n # 0 => g[n - 1] = f[n - 1]
      BY <1>6, <2>1
    <2>3. g[n] = BestStep(l, f, n)
      <3>1. CASE n = m
        BY <1>7, <3>1
      <3>2. CASE n # m
        <4>1. n \in 0 .. m - 1
          BY <1>2, <3>2
        <4>2. g[n] = f[n] /\ f[n] = BestStep(l, f, n)
          BY <1>6, <4>1
        <4> HIDE DEF g
        <4> QED
          BY <4>2
      <3> QED
        BY <3>1, <3>2
    <2> HIDE DEF g
    <2> QED
      BY <2>2, <2>3 DEF BestStep
  <1>9. BestUpTo(l, g, m)
    <2>1. g = [n \in 0 .. m |-> g[n]]
      OBVIOUS
    <2> HIDE DEF g
    <2> QED
      BY <1>8, <2>1 DEF BestUpTo
  <1> QED
    BY <1>3, <1>9

(* Better() orders entries by two numbers, one after the other               *)
LEMMA BetterOrders ==
    ASSUME NEW d \in EvictionEntry, NEW e \in EvictionEntry, NEW f \in EvictionEntry
    PROVE  /\ ~Better(e, e)
           /\ Better(d, e) /\ ~Better(f, e) => ~Better(f, d)
  <1>1. \A x \in EvictionEntry : Chunk[x.key] \in Int /\ x.cost \in Int
    BY CwSlruAssumption DEF EvictionEntry
  <1> QED
    BY <1>1 DEF Better

(* At each step the best place is one of those looked at, and none of them   *)
(* has a better entry.                                                       *)
LEMMA BestIsBest ==
    ASSUME NEW l \in Lists, NEW w \in Nat, w < Len(l), NEW f, BestUpTo(l, f, w)
    PROVE  f[w] \in Len(l) - w .. Len(l) /\ \A j \in Len(l) - w .. Len(l) : ~Better(l[j], l[f[w]])
  <1> DEFINE Good(n) == f[n] \in Len(l) - n .. Len(l) /\ \A j \in Len(l) - n .. Len(l) : ~Better(l[j], l[f[n]])
  <1> DEFINE Bad == {n \in Nat : n <= w /\ ~Good(n)}
  <1> SUFFICES ASSUME w \in Bad PROVE FALSE
    OBVIOUS
  <1>1. PICK m \in Bad : \A y \in Bad : <<y, m>> \notin OpToRel(<, Nat)
    <2>1. Bad \subseteq Nat /\ Bad # {} /\ IsWellFoundedOn(OpToRel(<, Nat), Nat)
      BY NatLessThanWellFounded
    <2> QED
      BY <2>1, WFMin
  <1>2. m \in Nat /\ m <= w /\ \A y \in Nat : y < m => y \notin Bad
    BY <1>1 DEF OpToRel
  <1>3. ~Good(m)
    BY <1>1
  <1>4. Len(l) \in Nat /\ \A i \in 1 .. Len(l) : l[i] \in EvictionEntry
    BY DEF Lists
  <1>5. \A n \in 0 .. w : f[n] = BestStep(l, f, n)
    BY DEF BestUpTo
  <1> DEFINE len == Len(l)
  <1>6. m # 0
    <2> SUFFICES ASSUME m = 0 PROVE Good(m)
      BY <1>3
    <2>1. f[m] = len
      BY <1>2, <1>5 DEF BestStep
    <2>2. len \in 1 .. len /\ \A j \in len - m .. len : j = len
      BY <1>2, <1>4
    <2>3. ~Better(l[len], l[len])
      BY <1>4, <2>2, BetterOrders
    <2> QED
      BY <1>4, <2>1, <2>2, <2>3
  <1> DEFINE p == m - 1
  <1>7. p \in Nat /\ p < m /\ p <= w /\ m \in 0 .. w
    BY <1>2, <1>6
  <1>8. Good(p)
    BY <1>2, <1>7
  <1>9. f[m] = IF Better(l[len - m], l[f[p]]) THEN len - m ELSE f[p]
    BY <1>5, <1>6, <1>7 DEF BestStep
  <1>10. len - m \in 1 .. len /\ \A j \in len - m .. len : j = len - m \/ j \in len - p .. len
    BY <1>2, <1>4
  <1>11. f[p] \in len - m .. len /\ f[p] \in 1 .. len /\ \A j \in len - m .. len : j \in 1 .. len
    BY <1>2, <1>4, <1>8, <1>10
  <1>12. len - m \in len - m .. len
    BY <1>10
  <1>13. \A j \in len - m .. len : j # len - m => ~Better(l[j], l[f[p]])
    BY <1>8, <1>10
  <1>14. \A j \in len - m .. len : l[j] \in EvictionEntry
    BY <1>4, <1>11
  <1> HIDE DEF p, len
  <1>15. CASE Better(l[len - m], l[f[p]])
    <2>1. f[m] = len - m
      BY <1>9, <1>15
    <2>2. \A j \in len - m .. len : ~Better(l[j], l[len - m])
      <3> SUFFICES ASSUME NEW j \in len - m .. len PROVE ~Better(l[j], l[len - m])
        OBVIOUS
      <3>1. l[j] \in EvictionEntry /\ l[len - m] \in EvictionEntry /\ l[f[p]] \in EvictionEntry
        BY <1>11, <1>12, <1>14
      <3>2. CASE j = len - m
        BY <3>1, <3>2, BetterOrders
      <3>3. CASE j # len - m
        BY <1>13, <1>15, <3>1, <3>3, BetterOrders
      <3> QED
        BY <3>2, <3>3
    <2> QED
      BY <1>3, <1>12, <2>1, <2>2 DEF len
  <1>16. CASE ~Better(l[len - m], l[f[p]])
    <2>1. f[m] = f[p]
      BY <1>9, <1>16
    <2> QED
      BY <1>3, <1>11, <1>13, <1>16, <2>1 DEF len
  <1> QED
    BY <1>15, <1>16

(* find_best_victim() returns a place of the list, with one of its oldest    *)
(* entries and none of those better.                                         *)
LEMMA FindBestVictimBest ==
    ASSUME NEW l \in Lists, l # <<>>
    PROVE  LET i == FindBestVictim(l)
           IN  i \in 1 .. Len(l) /\ l[i] \in Oldest(l) /\ \A e \in Oldest(l) : ~Better(e, l[i])
  <1> DEFINE w == Smaller(ScanWindow, Len(l)) - 1
  <1> DEFINE f == CHOOSE f : BestUpTo(l, f, w)
  <1>1. FindBestVictim(l) = f[w]
    BY DEF FindBestVictim, BestUpTo, BestStep
  <1>2. Len(l) \in Nat /\ Len(l) # 0
    BY EmptySeq DEF Lists
  <1>3. /\ w \in Nat /\ w < Len(l)
        /\ Len(l) - w = IF Len(l) > ScanWindow THEN Len(l) - ScanWindow + 1 ELSE 1
    BY <1>2, CwSlruAssumption DEF Smaller
  <1>4. BestUpTo(l, f, w)
    BY <1>3, BestExists
  <1> HIDE DEF f, w
  <1>5. f[w] \in Len(l) - w .. Len(l) /\ \A j \in Len(l) - w .. Len(l) : ~Better(l[j], l[f[w]])
    BY <1>3, <1>4, BestIsBest
  <1>6. Oldest(l) = {l[i] : i \in Len(l) - w .. Len(l)}
    BY <1>3 DEF Oldest
  <1>7. f[w] \in 1 .. Len(l)
    BY <1>2, <1>3, <1>5
  <1> QED
    BY <1>1, <1>5, <1>6, <1>7

-----------------------------------------------------------------------------
(* The maps and the lists agree *)

(* MapsMatch and the types, for lists and maps that an operation passes on   *)
Agree(prot, protMap, prob, probMap) ==
    /\ prot \in Lists /\ prob \in Lists
    /\ protMap = KeysOf(prot) /\ probMap = KeysOf(prob)
    /\ protMap \cap probMap = {}
    /\ Distinct(prot) /\ Distinct(prob)

Agreed == Agree(protected, protectedMap, probationary, probationaryMap)

Inv == Agreed /\ victim \in Keys \cup {None}

LEMMA KeysOfList ==
    ASSUME NEW l \in Lists
    PROVE  KeysOf(l) \subseteq Keys
  <1>1. \A i \in DOMAIN l : l[i] \in EvictionEntry
    BY DEF Lists
  <1>2. \A i \in DOMAIN l : l[i].key \in Keys
    BY <1>1 DEF EvictionEntry
  <1> QED
    BY <1>2 DEF KeysOf

LEMMA InvImplies ==
    Inv => TypeOK /\ MapsMatch
  BY KeysOfList DEF Inv, Agreed, Agree, TypeOK, MapsMatch, Lists

LEMMA DemoteAgrees ==
    ASSUME NEW prot, NEW protMap, NEW prob, NEW probMap,
           Agree(prot, protMap, prob, probMap),
           DemoteProtectedOverflow(prot, protMap, prob, probMap)
    PROVE  /\ Agreed'
           /\ protectedMap' \cup probationaryMap' = protMap \cup probMap
           /\ Total' = Len(prot) + Len(prob)
           /\ Len(protected') <= MaxProtected(Total')
  <1> DEFINE max == MaxProtected(Len(prot) + Len(prob))
  <1> DEFINE out == SubSeq(prot, max + 1, Len(prot))
  <1> DEFINE stay == SubSeq(prot, 1, Len(prot) - Len(out))
  <1>1. /\ protected' = stay /\ protectedMap' = protMap \ KeysOf(out)
        /\ probationary' = out \o prob /\ probationaryMap' = probMap \cup KeysOf(out)
    BY DEF DemoteProtectedOverflow
  <1>2. /\ prot \in Lists /\ prob \in Lists /\ protMap = KeysOf(prot) /\ probMap = KeysOf(prob)
        /\ KeysOf(prot) \cap KeysOf(prob) = {} /\ Distinct(prot) /\ Distinct(prob)
    BY DEF Agree
  <1>3. Len(prot) \in Nat /\ Len(prob) \in Nat
    BY <1>2 DEF Lists
  <1>4. max \in Nat
    BY <1>3, MaxProtectedNat
  <1> HIDE DEF max
  <1>5. /\ stay \in Lists /\ out \o prob \in Lists
        /\ Len(stay) + Len(out \o prob) = Len(prot) + Len(prob)
        /\ Len(stay) <= max
        /\ KeysOf(stay) = KeysOf(prot) \ KeysOf(out)
        /\ KeysOf(out) \subseteq KeysOf(prot)
        /\ KeysOf(out \o prob) = KeysOf(out) \cup KeysOf(prob)
        /\ Distinct(stay) /\ Distinct(out \o prob)
    BY <1>2, <1>4, OverflowLists
  <1> HIDE DEF out, stay
  <1>6. Agreed'
    <2>1. /\ protected' \in Lists /\ probationary' \in Lists
          /\ Distinct(protected') /\ Distinct(probationary')
      BY <1>1, <1>5
    <2>2. protectedMap' = KeysOf(protected') /\ probationaryMap' = KeysOf(probationary')
      <3>1. KeysOf(protected') = KeysOf(stay) /\ KeysOf(probationary') = KeysOf(out \o prob)
        BY <1>1
      <3> QED
        BY <1>1, <1>2, <1>5, <3>1
    <2>3. protectedMap' \cap probationaryMap' = {}
      BY <1>1, <1>2
    <2> QED
      BY <2>1, <2>2, <2>3 DEF Agreed, Agree
  <1>7. protectedMap' \cup probationaryMap' = protMap \cup probMap
    BY <1>1, <1>2, <1>5
  <1>8. Total' = Len(prot) + Len(prob) /\ Len(protected') <= max
    BY <1>1, <1>5 DEF Total
  <1> QED
    BY <1>6, <1>7, <1>8 DEF max

LEMMA TouchProtectedAgrees ==
    ASSUME Agreed, NEW k \in Keys, NEW cost \in Nat, TouchProtected(k, cost)
    PROVE  Agreed' /\ Len(protected') = Len(protected)
  <1>1. /\ protected \in Lists /\ Distinct(protected) /\ k \in KeysOf(protected)
        /\ protected' = MoveToFront(protected, k, cost)
    BY DEF Agreed, Agree, TouchProtected
  <1>2. /\ protected' \in Lists /\ KeysOf(protected') = KeysOf(protected)
        /\ Distinct(protected') /\ Len(protected') = Len(protected)
    BY <1>1, MoveToFrontList
  <1>3. protectedMap' = protectedMap /\ probationary' = probationary /\ probationaryMap' = probationaryMap
    BY DEF TouchProtected
  <1> QED
    BY <1>2, <1>3 DEF Agreed, Agree

LEMMA TouchProbationaryAgrees ==
    ASSUME Agreed, NEW k \in probationaryMap, NEW cost \in Nat, TouchProbationary(k, cost)
    PROVE  Agreed'
  <1>1. /\ probationary \in Lists /\ Distinct(probationary) /\ k \in KeysOf(probationary)
        /\ probationary' = MoveToFront(probationary, k, cost)
    BY DEF Agreed, Agree, TouchProbationary
  <1>2. /\ probationary' \in Lists /\ KeysOf(probationary') = KeysOf(probationary)
        /\ Distinct(probationary')
    BY <1>1, MoveToFrontList
  <1>3. protectedMap' = protectedMap /\ protected' = protected /\ probationaryMap' = probationaryMap
    BY DEF TouchProbationary
  <1> QED
    BY <1>2, <1>3 DEF Agreed, Agree

LEMMA PromoteAgrees ==
    ASSUME Agreed, NEW k \in probationaryMap, NEW cost \in Nat, Promote(k, cost)
    PROVE  /\ Agreed'
           /\ protectedMap' \cup probationaryMap' = protectedMap \cup probationaryMap
           /\ Len(protected') <= MaxProtected(Total')
  <1> DEFINE i == Place(probationary, k)
  <1> DEFINE e == [probationary[i] EXCEPT !.cost = cost]
  <1>1. /\ protected \in Lists /\ Distinct(protected) /\ protectedMap = KeysOf(protected)
        /\ probationary \in Lists /\ Distinct(probationary) /\ probationaryMap = KeysOf(probationary)
        /\ protectedMap \cap probationaryMap = {}
    BY DEF Agreed, Agree
  <1>2. i \in 1 .. Len(probationary) /\ probationary[i].key = k
    BY <1>1, PlaceFound
  <1>3. probationary[i] \in EvictionEntry
    BY <1>1, <1>2 DEF Lists
  <1>4. e \in EvictionEntry /\ e.key = k
    BY <1>2, <1>3 DEF EvictionEntry
  <1>5. DemoteProtectedOverflow(PushFront(protected, e), protectedMap \cup {k},
                                EraseAt(probationary, i), probationaryMap \ {k})
    BY DEF Promote
  <1> HIDE DEF i, e
  <1> DEFINE prot == PushFront(protected, e)
  <1> DEFINE prob == EraseAt(probationary, i)
  <1>6. k \notin KeysOf(protected)
    BY <1>1
  <1>7. prot \in Lists /\ KeysOf(prot) = protectedMap \cup {k} /\ Distinct(prot)
    BY <1>1, <1>4, <1>6, PushFrontList
  <1>8. prob \in Lists /\ KeysOf(prob) = probationaryMap \ {k} /\ Distinct(prob)
    BY <1>1, <1>2, EraseAtList
  <1> HIDE DEF prot, prob
  <1>9. Agree(prot, protectedMap \cup {k}, prob, probationaryMap \ {k})
    BY <1>1, <1>7, <1>8 DEF Agree
  <1>10. DemoteProtectedOverflow(prot, protectedMap \cup {k}, prob, probationaryMap \ {k})
    BY <1>5 DEF prot, prob
  <1>11. /\ Agreed'
         /\ protectedMap' \cup probationaryMap' = (protectedMap \cup {k}) \cup (probationaryMap \ {k})
         /\ Len(protected') <= MaxProtected(Total')
    BY <1>9, <1>10, DemoteAgrees
  <1> QED
    BY <1>11

LEMMA InsertNewAgrees ==
    ASSUME Agreed, NEW k \in Keys, NEW cost \in Nat, InsertNew(k, cost)
    PROVE  Agreed'
  <1> DEFINE e == [key |-> k, cost |-> cost]
  <1>1. e \in EvictionEntry /\ e.key = k
    BY DEF EvictionEntry
  <1>2. probationary' = PushFront(probationary, e) /\ probationaryMap' = probationaryMap \cup {k}
    BY DEF InsertNew
  <1> HIDE DEF e
  <1>3. /\ probationary \in Lists /\ Distinct(probationary) /\ probationaryMap = KeysOf(probationary)
        /\ k \notin KeysOf(probationary) /\ k \notin protectedMap
    BY DEF Agreed, Agree, InsertNew
  <1>4. /\ probationary' \in Lists /\ KeysOf(probationary') = probationaryMap \cup {k}
        /\ Distinct(probationary')
    BY <1>1, <1>2, <1>3, PushFrontList
  <1>5. protected' = protected /\ protectedMap' = protectedMap
    BY DEF InsertNew
  <1> QED
    BY <1>2, <1>3, <1>4, <1>5 DEF Agreed, Agree

LEMMA FromProtectedAgrees ==
    ASSUME Agreed, NEW k \in protectedMap, FromProtected(k)
    PROVE  Agreed' /\ Len(protected') < Len(protected)
  <1> DEFINE i == Place(protected, k)
  <1>1. protected \in Lists /\ Distinct(protected) /\ protectedMap = KeysOf(protected)
    BY DEF Agreed, Agree
  <1>2. i \in 1 .. Len(protected) /\ protected[i].key = k
    BY <1>1, PlaceFound
  <1>3. protected' = EraseAt(protected, i) /\ protectedMap' = protectedMap \ {k}
    BY DEF FromProtected
  <1> HIDE DEF i
  <1>4. /\ protected' \in Lists /\ KeysOf(protected') = protectedMap \ {k} /\ Distinct(protected')
        /\ Len(protected') = Len(protected) - 1
    BY <1>1, <1>2, <1>3, EraseAtList
  <1>5. probationary' = probationary /\ probationaryMap' = probationaryMap
    BY DEF FromProtected
  <1>6. Len(protected) \in Nat
    BY <1>1 DEF Lists
  <1>7. Agreed'
    BY <1>3, <1>4, <1>5 DEF Agreed, Agree
  <1> QED
    BY <1>4, <1>6, <1>7

LEMMA FromProbationaryAgrees ==
    ASSUME Agreed, NEW k \in probationaryMap, FromProbationary(k)
    PROVE  Agreed'
  <1> DEFINE i == Place(probationary, k)
  <1>1. probationary \in Lists /\ Distinct(probationary) /\ probationaryMap = KeysOf(probationary)
    BY DEF Agreed, Agree
  <1>2. i \in 1 .. Len(probationary) /\ probationary[i].key = k
    BY <1>1, PlaceFound
  <1>3. probationary' = EraseAt(probationary, i) /\ probationaryMap' = probationaryMap \ {k}
    BY DEF FromProbationary
  <1> HIDE DEF i
  <1>4. /\ probationary' \in Lists /\ KeysOf(probationary') = probationaryMap \ {k}
        /\ Distinct(probationary')
    BY <1>1, <1>2, <1>3, EraseAtList
  <1>5. protected' = protected /\ protectedMap' = protectedMap
    BY DEF FromProbationary
  <1> QED
    BY <1>3, <1>4, <1>5 DEF Agreed, Agree

(* What evict() takes out, when there is an entry                            *)
LEMMA EvictTakes ==
    ASSUME Agreed, EvictSome
    PROVE  \/ /\ probationary # <<>> /\ victim' \in probationaryMap
              /\ FromProbationary(victim') /\ VictimOf(probationary)
           \/ /\ probationary = <<>> /\ victim' \in protectedMap
              /\ FromProtected(victim') /\ VictimOf(protected)
  <1>1. ASSUME NEW l \in Lists, l # <<>>, victim' = l[FindBestVictim(l)].key
        PROVE  victim' \in KeysOf(l) /\ VictimOf(l)
    <2> DEFINE i == FindBestVictim(l)
    <2>1. i \in 1 .. Len(l) /\ l[i] \in Oldest(l) /\ \A e \in Oldest(l) : ~Better(e, l[i])
      BY <1>1, FindBestVictimBest
    <2> HIDE DEF i
    <2>2. DOMAIN l = 1 .. Len(l)
      BY DEF Lists
    <2>3. victim' = l[i].key
      BY <1>1 DEF i
    <2> QED
      BY <2>1, <2>2, <2>3 DEF KeysOf, VictimOf
  <1>2. /\ protected \in Lists /\ protectedMap = KeysOf(protected)
        /\ probationary \in Lists /\ probationaryMap = KeysOf(probationary)
    BY DEF Agreed, Agree
  <1>3. CASE probationary # <<>>
    <2>1. victim' = probationary[FindBestVictim(probationary)].key /\ FromProbationary(victim')
      BY <1>3 DEF EvictSome
    <2> QED
      BY <1>1, <1>2, <1>3, <2>1
  <1>4. CASE probationary = <<>>
    <2>1. /\ protected # <<>> /\ victim' = protected[FindBestVictim(protected)].key
          /\ FromProtected(victim')
      BY <1>4 DEF EvictSome
    <2> QED
      BY <1>1, <1>2, <1>4, <2>1
  <1> QED
    BY <1>3, <1>4

-----------------------------------------------------------------------------
(* The steps, and what each does to the set of tracked keys *)

Tracked == protectedMap \cup probationaryMap

(* An operation on one key keeps the victim, and keeps, adds or removes the  *)
(* key; only a promotion makes the protected list longer.                    *)
LEMMA AccessStep ==
    ASSUME Agreed, NEW k \in Keys, NEW cost \in Costs, OnAccess(k, cost) \/ OnInsert(k, cost)
    PROVE  /\ Agreed' /\ victim' = victim
           /\ Tracked' = Tracked \/ Tracked' = Tracked \cup {k}
           /\ Len(protected') > Len(protected) => Len(protected') <= MaxProtected(Total')
  <1>1. cost \in Nat
    BY CwSlruAssumption
  <1>2. Len(protected) \in Nat
    BY DEF Agreed, Agree, Lists
  <1>3. CASE TouchProtected(k, cost)
    <2>1. Agreed' /\ Len(protected') = Len(protected)
      BY <1>1, <1>3, TouchProtectedAgrees
    <2>2. victim' = victim /\ Tracked' = Tracked
      BY <1>3 DEF TouchProtected, Tracked
    <2> QED
      BY <1>2, <2>1, <2>2
  <1>4. CASE k \in probationaryMap /\ TouchProbationary(k, cost)
    <2>1. Agreed'
      BY <1>1, <1>4, TouchProbationaryAgrees
    <2>2. victim' = victim /\ Tracked' = Tracked /\ Len(protected') = Len(protected)
      BY <1>4 DEF TouchProbationary, Tracked
    <2> QED
      BY <1>2, <2>1, <2>2
  <1>5. CASE k \in probationaryMap /\ Promote(k, cost)
    <2>1. Agreed' /\ Tracked' = Tracked /\ Len(protected') <= MaxProtected(Total')
      BY <1>1, <1>5, PromoteAgrees DEF Tracked
    <2>2. victim' = victim
      BY <1>5 DEF Promote
    <2> QED
      BY <2>1, <2>2
  <1>6. CASE InsertNew(k, cost)
    <2>1. Agreed'
      BY <1>1, <1>6, InsertNewAgrees
    <2>2. victim' = victim /\ Tracked' = Tracked \cup {k} /\ Len(protected') = Len(protected)
      BY <1>6 DEF InsertNew, Tracked
    <2> QED
      BY <1>2, <2>1, <2>2
  <1> QED
    BY <1>3, <1>4, <1>5, <1>6 DEF OnAccess, OnInsert

LEMMA RemoveStep ==
    ASSUME Agreed, NEW k \in Keys, OnRemove(k)
    PROVE  /\ Agreed' /\ victim' = victim /\ Tracked' = Tracked \ {k}
           /\ ~(Len(protected') > Len(protected))
  <1>1. Len(protected) \in Nat /\ protectedMap \cap probationaryMap = {}
    BY DEF Agreed, Agree, Lists
  <1>2. victim' = victim
    BY DEF OnRemove
  <1>3. CASE k \in protectedMap /\ FromProtected(k)
    <2>1. Agreed' /\ Len(protected') < Len(protected)
      BY <1>3, FromProtectedAgrees
    <2>2. Len(protected') \in Nat
      BY <2>1 DEF Agreed, Agree, Lists
    <2>3. Tracked' = Tracked \ {k}
      BY <1>1, <1>3 DEF FromProtected, Tracked
    <2> QED
      BY <1>1, <1>2, <2>1, <2>2, <2>3
  <1>4. CASE k \in probationaryMap /\ FromProbationary(k)
    <2>1. Agreed'
      BY <1>4, FromProbationaryAgrees
    <2>2. Tracked' = Tracked \ {k} /\ Len(protected') = Len(protected)
      BY <1>1, <1>4 DEF FromProbationary, Tracked
    <2> QED
      BY <1>1, <1>2, <2>1, <2>2
  <1> QED
    BY <1>3, <1>4 DEF OnRemove

LEMMA EvictSomeStep ==
    ASSUME Agreed, EvictSome
    PROVE  /\ Agreed' /\ victim' \in Tracked /\ Tracked' = Tracked \ {victim'}
           /\ ~(Len(protected') > Len(protected))
  <1>1. Len(protected) \in Nat /\ protectedMap \cap probationaryMap = {}
    BY DEF Agreed, Agree, Lists
  <1>2. CASE victim' \in protectedMap /\ FromProtected(victim')
    <2>1. Agreed' /\ Len(protected') < Len(protected)
      BY <1>2, FromProtectedAgrees
    <2>2. Len(protected') \in Nat
      BY <2>1 DEF Agreed, Agree, Lists
    <2>3. Tracked' = Tracked \ {victim'} /\ victim' \in Tracked
      BY <1>1, <1>2 DEF FromProtected, Tracked
    <2> QED
      BY <1>1, <2>1, <2>2, <2>3
  <1>3. CASE victim' \in probationaryMap /\ FromProbationary(victim')
    <2>1. Agreed'
      BY <1>3, FromProbationaryAgrees
    <2>2. Tracked' = Tracked \ {victim'} /\ victim' \in Tracked /\ Len(protected') = Len(protected)
      BY <1>1, <1>3 DEF FromProbationary, Tracked
    <2> QED
      BY <1>1, <2>1, <2>2
  <1> QED
    BY <1>2, <1>3, EvictTakes

LEMMA EvictNothingStep ==
    ASSUME Agreed, EvictNothing
    PROVE  /\ Agreed' /\ Tracked = {} /\ Tracked' = Tracked /\ victim' = None
           /\ ~(Len(protected') > Len(protected))
  <1>1. /\ protected' = protected /\ protectedMap' = protectedMap /\ victim' = None
        /\ probationary' = probationary /\ probationaryMap' = probationaryMap
    BY DEF EvictNothing
  <1>2. KeysOf(<<>>) = {}
    BY DEF KeysOf
  <1>3. Tracked = {}
    BY <1>2 DEF EvictNothing, Agreed, Agree, Tracked
  <1>4. Len(protected) \in Nat
    BY DEF Agreed, Agree, Lists
  <1>5. Len(protected') = Len(protected)
    BY <1>1
  <1> QED
    BY <1>1, <1>3, <1>4, <1>5 DEF Agreed, Agree, Tracked

LEMMA InitAgrees ==
    Init => Inv
  <1>1. <<>> \in Lists /\ KeysOf(<<>>) = {} /\ Distinct(<<>>)
    BY DEF Lists, KeysOf, Distinct
  <1> QED
    BY <1>1 DEF Init, Inv, Agreed, Agree

LEMMA StutterAgrees ==
    ASSUME UNCHANGED vars
    PROVE  /\ protected' = protected /\ protectedMap' = protectedMap
           /\ probationary' = probationary /\ probationaryMap' = probationaryMap
           /\ victim' = victim
  BY DEF vars

LEMMA NextAgrees ==
    ASSUME Inv, [Next]_vars
    PROVE  /\ Inv'
           /\ Len(protected') > Len(protected) => Len(protected') <= MaxProtected(Total')
           /\ \/ Tracked' = Tracked /\ victim' = victim
              \/ \E k \in Keys : Tracked' = Tracked \cup {k} /\ victim' = victim
              \/ \E k \in Keys : Tracked' = Tracked \ {k} /\ victim' = victim
              \/ \E k \in Keys : k \in Tracked /\ Tracked' = Tracked \ {k} /\ victim' = k
              \/ Tracked = {} /\ Tracked' = Tracked /\ victim' = None
  <1>1. Agreed /\ victim \in Keys \cup {None}
    BY DEF Inv
  <1>2. Tracked \subseteq Keys
    BY <1>1, KeysOfList DEF Agreed, Agree, Tracked
  <1>3. CASE \E k \in Keys, cost \in Costs : OnAccess(k, cost) \/ OnInsert(k, cost)
    <2>1. PICK k \in Keys, cost \in Costs : OnAccess(k, cost) \/ OnInsert(k, cost)
      BY <1>3
    <2>2. /\ Agreed' /\ victim' = victim
          /\ Tracked' = Tracked \/ Tracked' = Tracked \cup {k}
          /\ Len(protected') > Len(protected) => Len(protected') <= MaxProtected(Total')
      BY <1>1, <2>1, AccessStep
    <2> QED
      BY <1>1, <2>2 DEF Inv
  <1>4. CASE \E k \in Keys : OnRemove(k)
    <2>1. PICK k \in Keys : OnRemove(k)
      BY <1>4
    <2>2. /\ Agreed' /\ victim' = victim /\ Tracked' = Tracked \ {k}
          /\ ~(Len(protected') > Len(protected))
      BY <1>1, <2>1, RemoveStep
    <2> QED
      BY <1>1, <2>2 DEF Inv
  <1>5. CASE EvictSome
    <2>1. /\ Agreed' /\ victim' \in Tracked /\ Tracked' = Tracked \ {victim'}
          /\ ~(Len(protected') > Len(protected))
      BY <1>1, <1>5, EvictSomeStep
    <2> QED
      BY <1>2, <2>1 DEF Inv
  <1>6. CASE EvictNothing
    <2>1. /\ Agreed' /\ Tracked = {} /\ Tracked' = Tracked /\ victim' = None
          /\ ~(Len(protected') > Len(protected))
      BY <1>1, <1>6, EvictNothingStep
    <2> QED
      BY <2>1 DEF Inv
  <1>7. CASE UNCHANGED vars
    <2>1. /\ protected' = protected /\ protectedMap' = protectedMap
          /\ probationary' = probationary /\ probationaryMap' = probationaryMap
          /\ victim' = victim
      BY <1>7, StutterAgrees
    <2>2. Inv' /\ Tracked' = Tracked
      BY <1>1, <2>1 DEF Inv, Agreed, Agree, Tracked
    <2>3. Len(protected) \in Nat /\ Len(protected') = Len(protected)
      BY <1>1, <2>1 DEF Agreed, Agree, Lists
    <2> QED
      BY <2>1, <2>2, <2>3
  <1> QED
    BY <1>3, <1>4, <1>5, <1>6, <1>7 DEF Next, Evict

LEMMA Invariant ==
    Spec => []Inv
  <1>1. Init => Inv
    BY InitAgrees
  <1>2. Inv /\ [Next]_vars => Inv'
    BY NextAgrees
  <1> QED
    BY <1>1, <1>2, PTL DEF Spec

(* Whatever the order of accesses, insertions, removals and evictions, the   *)
(* maps of on_access(), on_insert(), on_remove() and evict() hold exactly    *)
(* the keys of their lists, and no key is tracked twice.                     *)
THEOREM MapsAgree ==
    Spec => []MapsMatch
  <1>1. Inv => MapsMatch
    BY InvImplies
  <1> QED
    BY <1>1, Invariant, PTL

(* on_access() makes the protected segment longer only within the share that *)
(* demote_protected_overflow() computes.                                     *)
THEOREM GrowthBounded ==
    Spec => GrowsWithinShare
  <1>1. Inv /\ [Next]_vars =>
            [Len(protected') > Len(protected) => Len(protected') <= MaxProtected(Total')]_vars
    BY NextAgrees
  <1> QED
    BY <1>1, Invariant, PTL DEF Spec, GrowsWithinShare

(* evict() takes from the protected segment only when the other is empty,    *)
(* and takes the best of the oldest entries that find_best_victim() scans.   *)
THEOREM BestVictim ==
    Spec => VictimIsBest
  <1>1. ASSUME Inv, EvictSome
        PROVE  IF probationary # <<>> THEN VictimOf(probationary) /\ UNCHANGED protected
               ELSE VictimOf(protected)
    <2>1. Agreed
      BY <1>1 DEF Inv
    <2> QED
      BY <1>1, <2>1, EvictTakes DEF FromProbationary
  <1>2. Inv /\ [Next]_vars =>
            [EvictSome => IF probationary # <<>> THEN VictimOf(probationary) /\ UNCHANGED protected
                          ELSE VictimOf(protected)]_vars
    BY <1>1
  <1> QED
    BY <1>2, Invariant, PTL DEF Spec, VictimIsBest

(* The two segments implement a set of tracked keys that gives up each of    *)
(* its members once, and none only when it is empty.                         *)
THEOREM ImplementsSet ==
    Spec => PolicySpec
  <1>1. Init => Policy!Init
    BY DEF Init, Policy!Init
  <1>2. Inv /\ [Next]_vars => [Policy!Next]_Policy!vars
    <2> SUFFICES ASSUME Inv, [Next]_vars PROVE [Policy!Next]_Policy!vars
      OBVIOUS
    <2>1. \/ Tracked' = Tracked /\ victim' = victim
          \/ \E k \in Keys : Tracked' = Tracked \cup {k} /\ victim' = victim
          \/ \E k \in Keys : Tracked' = Tracked \ {k} /\ victim' = victim
          \/ \E k \in Keys : k \in Tracked /\ Tracked' = Tracked \ {k} /\ victim' = k
          \/ Tracked = {} /\ Tracked' = Tracked /\ victim' = None
      BY NextAgrees
    <2>2. CASE Tracked' = Tracked /\ victim' = victim
      BY <2>2 DEF Policy!vars, Tracked
    <2>3. CASE \E k \in Keys : Tracked' = Tracked \cup {k} /\ victim' = victim
      BY <2>3 DEF Policy!Next, Policy!Insert, Tracked
    <2>4. CASE \E k \in Keys : Tracked' = Tracked \ {k} /\ victim' = victim
      BY <2>4 DEF Policy!Next, Policy!Remove, Tracked
    <2>5. CASE \E k \in Keys : k \in Tracked /\ Tracked' = Tracked \ {k} /\ victim' = k
      BY <2>5 DEF Policy!Next, Policy!Evict, Tracked
    <2>6. CASE Tracked = {} /\ Tracked' = Tracked /\ victim' = None
      BY <2>6 DEF Policy!Next, Policy!EvictNothing, Tracked
    <2> QED
      BY <2>1, <2>2, <2>3, <2>4, <2>5, <2>6
  <1> QED
    BY <1>1, <1>2, Invariant, PTL DEF Spec, PolicySpec, Policy!Spec
=============================================================================
