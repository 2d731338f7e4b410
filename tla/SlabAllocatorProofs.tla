------------------------- MODULE SlabAllocatorProofs -------------------------
(***************************************************************************)
(* Theorems about SlabAllocator, for any size classes, any budget, any     *)
(* number of threads and wherever the regions lie.                         *)
(***************************************************************************)
EXTENDS SlabAllocator, FiniteSetTheorems, SequenceTheorems, WellFoundedInduction, TLAPS

-----------------------------------------------------------------------------
(* Sorting: any finite list of numbers can be put in order *)

Sorts(p, s, n) ==
    /\ p \in [1 .. n -> 1 .. n]
    /\ \A i, j \in 1 .. n : p[i] = p[j] => i = j
    /\ \A w \in 1 .. n : \E v \in 1 .. n : p[v] = w
    /\ \A i, j \in 1 .. n : i < j => s[p[i]] <= s[p[j]]

HasLargest(s, n) == \E m \in 1 .. n : \A j \in 1 .. n : s[j] <= s[m]

LEMMA LargestExists ==
    ASSUME NEW N \in Nat, NEW s \in [1 .. N -> Nat]
    PROVE  \A n \in 1 .. N : HasLargest(s, n)
  <1> DEFINE Bad == {n \in 1 .. N : ~HasLargest(s, n)}
  <1> SUFFICES ASSUME Bad # {} PROVE FALSE
    OBVIOUS
  <1>1. Bad \subseteq Nat
    OBVIOUS
  <1>2. PICK n \in Bad : \A x \in Bad : ~(<<x, n>> \in OpToRel(<, Nat))
    BY <1>1, NatLessThanWellFounded, WFMin
  <1>3. \A x \in Bad : ~(x < n)
    BY <1>1, <1>2 DEF OpToRel
  <1>4. n \in 1 .. N /\ ~HasLargest(s, n)
    OBVIOUS
  <1>5. CASE n = 1
    BY <1>4, <1>5 DEF HasLargest
  <1>6. CASE n # 1
    <2>1. n - 1 \in 1 .. N /\ n - 1 < n
      BY <1>4, <1>6
    <2>2. HasLargest(s, n - 1)
      BY <1>3, <2>1
    <2> HIDE DEF Bad
    <2>3. PICK m \in 1 .. n - 1 : \A j \in 1 .. n - 1 : s[j] <= s[m]
      BY <2>2 DEF HasLargest
    <2>4. s[m] \in Nat /\ s[n] \in Nat /\ \A j \in 1 .. n - 1 : s[j] \in Nat
      BY <1>4, <2>1, <2>3
    <2>5. CASE s[n] <= s[m]
      <3>1. \A j \in 1 .. n : s[j] <= s[m]
        BY <1>4, <2>3, <2>5
      <3> QED
        BY <1>4, <2>3, <3>1 DEF HasLargest
    <2>6. CASE s[m] <= s[n]
      <3>1. \A j \in 1 .. n : s[j] <= s[n]
        BY <1>4, <2>3, <2>4, <2>6
      <3> QED
        BY <1>4, <3>1 DEF HasLargest
    <2> QED
      BY <2>4, <2>5, <2>6
  <1> QED
    BY <1>5, <1>6

Sortable(n) == \A s \in [1 .. n -> Nat] : \E p : Sorts(p, s, n)

(* The largest goes last, and what was last takes its place.                 *)
LEMMA SortOneMore ==
    ASSUME NEW n \in Nat \ {0}, Sortable(n - 1)
    PROVE  Sortable(n)
  <1> SUFFICES ASSUME NEW s \in [1 .. n -> Nat]
               PROVE  \E p : Sorts(p, s, n)
    BY DEF Sortable
  <1>1. HasLargest(s, n)
    BY LargestExists
  <1>2. PICK m \in 1 .. n : \A j \in 1 .. n : s[j] <= s[m]
    BY <1>1 DEF HasLargest
  <1> DEFINE g == [i \in 1 .. n - 1 |-> IF i = m THEN n ELSE i]
  <1> DEFINE r == [i \in 1 .. n - 1 |-> s[g[i]]]
  <1>3. g \in [1 .. n - 1 -> 1 .. n] /\ r \in [1 .. n - 1 -> Nat]
    OBVIOUS
  <1>4. \A i \in 1 .. n - 1 : g[i] # m
    OBVIOUS
  <1>5. \A i, j \in 1 .. n - 1 : g[i] = g[j] => i = j
    OBVIOUS
  <1>6. \A w \in 1 .. n : w # m => \E v \in 1 .. n - 1 : g[v] = w
    <2> SUFFICES ASSUME NEW w \in 1 .. n, w # m PROVE \E v \in 1 .. n - 1 : g[v] = w
      OBVIOUS
    <2>1. CASE w = n
      <3>1. m \in 1 .. n - 1 /\ g[m] = w
        BY <2>1
      <3> QED
        BY <3>1
    <2>2. CASE w # n
      <3>1. w \in 1 .. n - 1 /\ g[w] = w
        BY <2>2
      <3> QED
        BY <3>1
    <2> QED
      BY <2>1, <2>2
  <1>7. \A i \in 1 .. n - 1 : r[i] = s[g[i]]
    OBVIOUS
  <1> HIDE DEF g, r
  <1>8. PICK q : Sorts(q, r, n - 1)
    BY <1>3 DEF Sortable
  <1> DEFINE p == [i \in 1 .. n |-> IF i = n THEN m ELSE g[q[i]]]
  <1>9. /\ q \in [1 .. n - 1 -> 1 .. n - 1]
        /\ \A i, j \in 1 .. n - 1 : q[i] = q[j] => i = j
        /\ \A w \in 1 .. n - 1 : \E v \in 1 .. n - 1 : q[v] = w
        /\ \A i, j \in 1 .. n - 1 : i < j => r[q[i]] <= r[q[j]]
    BY <1>8 DEF Sorts
  <1>10. p[n] = m /\ \A i \in 1 .. n - 1 : p[i] = g[q[i]] /\ q[i] \in 1 .. n - 1
    <2>1. n \in 1 .. n /\ \A i \in 1 .. n - 1 : i \in 1 .. n /\ i # n
      OBVIOUS
    <2>2. \A i \in 1 .. n - 1 : q[i] \in 1 .. n - 1
      BY <1>9
    <2> QED
      BY <2>1, <2>2
  <1>11. p \in [1 .. n -> 1 .. n]
    <2>1. \A i \in 1 .. n : i = n \/ i \in 1 .. n - 1
      OBVIOUS
    <2>2. \A i \in 1 .. n : p[i] \in 1 .. n
      BY <1>3, <1>10, <2>1
    <2> QED
      BY <2>2
  <1> HIDE DEF p
  <1>12. \A i \in 1 .. n : i = n \/ i \in 1 .. n - 1
    OBVIOUS
  <1>13. \A i, j \in 1 .. n : p[i] = p[j] => i = j
    <2> SUFFICES ASSUME NEW i \in 1 .. n, NEW j \in 1 .. n, p[i] = p[j] PROVE i = j
      OBVIOUS
    <2>1. CASE i = n \/ j = n
      BY <1>4, <1>10, <1>12, <2>1
    <2>2. CASE i \in 1 .. n - 1 /\ j \in 1 .. n - 1
      <3>1. g[q[i]] = g[q[j]] /\ q[i] \in 1 .. n - 1 /\ q[j] \in 1 .. n - 1
        BY <1>10, <2>2
      <3>2. q[i] = q[j]
        BY <1>5, <3>1
      <3> QED
        BY <1>9, <2>2, <3>2
    <2> QED
      BY <1>12, <2>1, <2>2
  <1>14. \A w \in 1 .. n : \E v \in 1 .. n : p[v] = w
    <2> SUFFICES ASSUME NEW w \in 1 .. n PROVE \E v \in 1 .. n : p[v] = w
      OBVIOUS
    <2>1. CASE w = m
      BY <1>10, <2>1
    <2>2. CASE w # m
      <3>1. PICK u \in 1 .. n - 1 : g[u] = w
        BY <1>6, <2>2
      <3>2. PICK v \in 1 .. n - 1 : q[v] = u
        BY <1>9
      <3>3. v \in 1 .. n /\ p[v] = w
        BY <1>10, <3>1, <3>2
      <3> QED
        BY <3>3
    <2> QED
      BY <2>1, <2>2
  <1>15. \A i, j \in 1 .. n : i < j => s[p[i]] <= s[p[j]]
    <2> SUFFICES ASSUME NEW i \in 1 .. n, NEW j \in 1 .. n, i < j PROVE s[p[i]] <= s[p[j]]
      OBVIOUS
    <2>1. CASE j = n
      BY <1>2, <1>10, <1>11, <2>1
    <2>2. CASE j # n
      <3>1. i \in 1 .. n - 1 /\ j \in 1 .. n - 1
        BY <2>2
      <3>2. r[q[i]] <= r[q[j]]
        BY <1>9, <3>1
      <3> QED
        BY <1>7, <1>10, <3>1, <3>2
    <2> QED
      BY <2>1, <2>2
  <1> QED
    BY <1>11, <1>13, <1>14, <1>15 DEF Sorts

LEMMA SortExists ==
    ASSUME NEW N \in Nat
    PROVE  Sortable(N)
  <1> DEFINE Bad == {n \in Nat : ~Sortable(n)}
  <1> SUFFICES ASSUME Bad # {} PROVE FALSE
    OBVIOUS
  <1>1. Bad \subseteq Nat
    OBVIOUS
  <1>2. PICK n \in Bad : \A x \in Bad : ~(<<x, n>> \in OpToRel(<, Nat))
    BY <1>1, NatLessThanWellFounded, WFMin
  <1>3. \A x \in Bad : ~(x < n)
    BY <1>1, <1>2 DEF OpToRel
  <1>4. n \in Nat /\ ~Sortable(n)
    OBVIOUS
  <1>5. CASE n = 0
    <2>1. \A s : Sorts([i \in 1 .. 0 |-> i], s, 0)
      BY DEF Sorts
    <2> QED
      BY <1>4, <1>5, <2>1 DEF Sortable
  <1>6. CASE n # 0
    <2>1. n - 1 \in Nat /\ n - 1 < n
      BY <1>4, <1>6
    <2>2. Sortable(n - 1)
      BY <1>3, <2>1
    <2> QED
      BY <1>4, <1>6, <2>2, SortOneMore
  <1> QED
    BY <1>5, <1>6

-----------------------------------------------------------------------------
(* What init_classes() sets up *)

LEMMA ClassCount ==
    /\ Len(SizeClasses) \in Nat \ {0}
    /\ SizeClasses \in [Classes -> Nat \ {0}]
    /\ Classes = 1 .. Len(SizeClasses)
  <1>1. SizeClasses \in Seq(Nat \ {0}) /\ SizeClasses # <<>>
    BY SlabAssumption
  <1> QED
    BY <1>1, EmptySeq DEF Classes

(* The slot sizes are those of the configuration, in order.                  *)
LEMMA SizesSorted ==
    /\ SlotSizes \in [Classes -> Nat \ {0}]
    /\ \A i, j \in Classes : i < j => SlotSizes[i] <= SlotSizes[j]
  <1> DEFINE N == Len(SizeClasses)
  <1>1. N \in Nat /\ Classes = 1 .. N /\ SizeClasses \in [Classes -> Nat \ {0}]
    BY ClassCount
  <1> HIDE DEF N
  <1>2. Sortable(N) /\ SizeClasses \in [1 .. N -> Nat]
    BY <1>1, SortExists
  <1>3. PICK p : Sorts(p, SizeClasses, N)
    BY <1>2 DEF Sortable
  <1>4. p \in Bijection(Classes, Classes)
    BY <1>1, <1>3 DEF Sorts, Bijection, Injection, Surjection, IsInjective
  <1>5. \A i, j \in Classes : i < j => SizeClasses[p[i]] <= SizeClasses[p[j]]
    BY <1>1, <1>3 DEF Sorts
  <1>6. /\ Order \in Bijection(Classes, Classes)
        /\ \A i, j \in Classes : i < j => SizeClasses[Order[i]] <= SizeClasses[Order[j]]
    BY <1>4, <1>5 DEF Order
  <1>7. Order \in [Classes -> Classes]
    BY <1>6 DEF Bijection, Injection
  <1> QED
    BY <1>1, <1>6, <1>7 DEF SlotSizes

LEMMA Division ==
    ASSUME NEW a \in Nat, NEW z \in Nat \ {0}
    PROVE  (a \div z) \in Nat
  OBVIOUS

LEMMA Numbers ==
    ASSUME NEW i \in Classes
    PROVE  /\ SlotSizes[i] \in Nat \ {0} /\ NumSlots(i) \in Nat \ {0}
           /\ RegionSize(i) \in Nat /\ RegionSize(i) = SlotSizes[i] * NumSlots(i)
           /\ Base[i] \in Nat /\ RegionEnd(i) \in Nat /\ RegionEnd(i) = Base[i] + RegionSize(i)
           /\ \A s : s \in Slots(i) <=> s \in Nat /\ s < NumSlots(i)
  <1>1. SlotSizes[i] \in Nat \ {0}
    BY SizesSorted
  <1>2. BytesPerClass \in Nat
    BY SlabAssumption, ClassCount, Division DEF BytesPerClass
  <1>3. NumSlots(i) \in Nat \ {0}
    BY <1>1, <1>2, Division DEF NumSlots
  <1>4. Base[i] \in Nat
    BY RegionAssumption DEF RegionsApart
  <1> QED
    BY <1>1, <1>3, <1>4 DEF RegionSize, RegionEnd, Slots

LEMMA MoreSlots ==
    ASSUME NEW a \in Nat, NEW b \in Nat, NEW z \in Nat, a < b
    PROVE  a * z + z <= b * z
  <1>1. PICK d \in Nat : b = a + 1 + d
    <2>1. b - a - 1 \in Nat /\ b = a + 1 + (b - a - 1)
      OBVIOUS
    <2> QED
      BY <2>1
  <1>2. b * z = a * z + z + d * z
    BY <1>1
  <1>3. d * z \in Nat /\ a * z \in Nat
    OBVIOUS
  <1> QED
    BY <1>2, <1>3

LEMMA DivideBack ==
    ASSUME NEW a \in Nat, NEW z \in Nat \ {0}
    PROVE  (a * z) \div z = a
  OBVIOUS

(* Slots lie inside of the region and do not overlap.                        *)
LEMMA SlotBytes ==
    ASSUME NEW i \in Classes, NEW s \in Slots(i)
    PROVE  /\ Pointer(i, s) \in Nat
           /\ Base[i] <= Pointer(i, s)
           /\ Pointer(i, s) + SlotSizes[i] <= RegionEnd(i)
           /\ InRegion(Pointer(i, s), i)
           /\ (Pointer(i, s) - Base[i]) \div SlotSizes[i] = s
  <1> DEFINE z == SlotSizes[i]
  <1> DEFINE b == Base[i]
  <1>1. /\ z \in Nat \ {0} /\ NumSlots(i) \in Nat /\ b \in Nat
        /\ s \in Nat /\ s < NumSlots(i)
        /\ RegionEnd(i) = b + z * NumSlots(i)
        /\ Pointer(i, s) = b + s * z
    BY Numbers DEF Pointer
  <1> HIDE DEF z, b
  <1>2. s * z + z <= NumSlots(i) * z /\ s * z \in Nat /\ NumSlots(i) * z \in Nat
    BY <1>1, MoreSlots
  <1>3. z * NumSlots(i) = NumSlots(i) * z
    BY <1>1
  <1>4. /\ b + s * z \in Nat /\ b <= b + s * z /\ b + s * z + z <= b + NumSlots(i) * z
        /\ b + s * z < b + NumSlots(i) * z
    BY <1>1, <1>2
  <1>5. (b + s * z) - b = s * z /\ (s * z) \div z = s
    BY <1>1, <1>2, DivideBack
  <1> QED
    BY <1>1, <1>3, <1>4, <1>5 DEF InRegion, z, b

LEMMA SlotsApart ==
    ASSUME NEW i \in Classes, NEW r \in Slots(i), NEW s \in Slots(i), r < s
    PROVE  Pointer(i, r) + SlotSizes[i] <= Pointer(i, s)
  <1> DEFINE z == SlotSizes[i]
  <1> DEFINE b == Base[i]
  <1>1. z \in Nat \ {0} /\ b \in Nat /\ r \in Nat /\ s \in Nat
    BY Numbers
  <1> HIDE DEF z, b
  <1>2. r * z + z <= s * z /\ r * z \in Nat /\ s * z \in Nat
    BY <1>1, MoreSlots
  <1>3. b + r * z + z <= b + s * z
    BY <1>1, <1>2
  <1> QED
    BY <1>3 DEF Pointer, z, b

(* free_by_ptr() finds the class and the slot of a pointer.                  *)
LEMMA PtrLeadsBack ==
    ASSUME NEW i \in Classes, NEW s \in Slots(i)
    PROVE  LET j == CHOOSE j \in Classes :
                       InRegion(Pointer(i, s), j) /\ \A h \in 1 .. j - 1 : ~InRegion(Pointer(i, s), h)
           IN  j = i /\ (Pointer(i, s) - Base[j]) \div SlotSizes[j] = s
  <1> DEFINE p == Pointer(i, s)
  <1>1. InRegion(p, i) /\ p \in Nat /\ (p - Base[i]) \div SlotSizes[i] = s
    BY SlotBytes
  <1> HIDE DEF p
  <1>2. ASSUME NEW j \in Classes, InRegion(p, j)
        PROVE  j = i
    <2>1. /\ Base[i] \in Nat /\ RegionEnd(i) \in Nat /\ Base[j] \in Nat /\ RegionEnd(j) \in Nat
          /\ p >= Base[i] /\ p < RegionEnd(i) /\ p >= Base[j] /\ p < RegionEnd(j)
      BY <1>1, <1>2, Numbers DEF InRegion
    <2>2. j # i => RegionEnd(i) <= Base[j] \/ RegionEnd(j) <= Base[i]
      BY RegionAssumption DEF RegionsApart
    <2> QED
      BY <1>1, <2>1, <2>2
  <1>3. \A h \in 1 .. i - 1 : h \in Classes /\ h # i
    BY ClassCount
  <1>4. \A h \in 1 .. i - 1 : ~InRegion(p, h)
    BY <1>2, <1>3
  <1>5. i = CHOOSE j \in Classes : InRegion(p, j) /\ \A h \in 1 .. j - 1 : ~InRegion(p, h)
    BY <1>1, <1>2, <1>4
  <1> QED
    BY <1>1, <1>5 DEF p

-----------------------------------------------------------------------------
(* Free lists *)

Elems(l) == {l[j] : j \in DOMAIN l}
Once(l) == \A i, j \in DOMAIN l : l[i] = l[j] => i = j

LEMMA PopList ==
    ASSUME NEW l \in Seq(Nat), l # <<>>, Once(l)
    PROVE  /\ SubSeq(l, 1, Len(l) - 1) \in Seq(Nat)
           /\ Len(SubSeq(l, 1, Len(l) - 1)) = Len(l) - 1
           /\ Len(l) \in Nat \ {0}
           /\ Once(SubSeq(l, 1, Len(l) - 1))
           /\ l[Len(l)] \in Elems(l)
           /\ Elems(SubSeq(l, 1, Len(l) - 1)) = Elems(l) \ {l[Len(l)]}
  <1> DEFINE n == Len(l)
  <1> DEFINE m == SubSeq(l, 1, n - 1)
  <1>1. n \in Nat /\ n >= 1 /\ DOMAIN l = 1 .. n
    BY EmptySeq
  <1>2. m \in Seq(Nat) /\ Len(m) = n - 1 /\ \A i \in 1 .. n - 1 : m[i] = l[i]
    <2>1. \A i \in 1 .. n - 1 : l[i] \in Nat
      BY <1>1
    <2>2. 1 \in Int /\ n - 1 \in Int
      BY <1>1
    <2>3. /\ m \in Seq(Nat)
          /\ Len(m) = IF 1 <= n - 1 THEN n - 1 - 1 + 1 ELSE 0
          /\ \A i \in 1 .. n - 1 - 1 + 1 : m[i] = l[1 + i - 1]
      BY <2>1, <2>2, SubSeqProperties
    <2>4. (IF 1 <= n - 1 THEN n - 1 - 1 + 1 ELSE 0) = n - 1 /\ n - 1 - 1 + 1 = n - 1
      BY <1>1
    <2>5. \A i \in 1 .. n - 1 : 1 + i - 1 = i
      BY <1>1
    <2> HIDE DEF n, m
    <2> QED
      BY <2>3, <2>4, <2>5
  <1> HIDE DEF n, m
  <1>3. DOMAIN m = 1 .. n - 1
    BY <1>2
  <1>4. \A i \in 1 .. n - 1 : i \in 1 .. n /\ i # n
    BY <1>1
  <1>5. \A i \in 1 .. n : i = n \/ i \in 1 .. n - 1
    BY <1>1
  <1>6. n \in 1 .. n
    BY <1>1
  <1>7. \A i, j \in 1 .. n : l[i] = l[j] => i = j
    BY <1>1 DEF Once
  <1>8. Elems(l) = {l[i] : i \in 1 .. n} /\ Elems(m) = {m[i] : i \in 1 .. n - 1}
    BY <1>1, <1>3 DEF Elems
  <1>9. Elems(m) = Elems(l) \ {l[n]}
    <2>1. \A i \in 1 .. n - 1 : m[i] \in Elems(l) /\ m[i] # l[n]
      BY <1>2, <1>4, <1>6, <1>7, <1>8
    <2>2. \A i \in 1 .. n : l[i] # l[n] => l[i] \in Elems(m)
      BY <1>2, <1>5, <1>8
    <2> QED
      BY <1>8, <2>1, <2>2
  <1>10. Once(m)
    <2> SUFFICES ASSUME NEW i \in 1 .. n - 1, NEW j \in 1 .. n - 1, m[i] = m[j]
                 PROVE  i = j
      BY <1>3 DEF Once
    <2> QED
      BY <1>2, <1>4, <1>7
  <1>11. l[n] \in Elems(l)
    BY <1>6, <1>8
  <1> QED
    BY <1>1, <1>2, <1>9, <1>10, <1>11 DEF n, m

LEMMA PushList ==
    ASSUME NEW l \in Seq(Nat), NEW s \in Nat, Once(l), s \notin Elems(l)
    PROVE  /\ Append(l, s) \in Seq(Nat)
           /\ Len(Append(l, s)) = Len(l) + 1
           /\ Len(l) \in Nat
           /\ Once(Append(l, s))
           /\ Elems(Append(l, s)) = Elems(l) \cup {s}
  <1> DEFINE n == Len(l)
  <1> DEFINE m == Append(l, s)
  <1>1. n \in Nat /\ DOMAIN l = 1 .. n
    OBVIOUS
  <1>2. m \in Seq(Nat) /\ Len(m) = n + 1 /\ m[n + 1] = s /\ \A i \in 1 .. n : m[i] = l[i]
    BY AppendProperties
  <1> HIDE DEF n, m
  <1>3. DOMAIN m = 1 .. n + 1
    BY <1>2
  <1>4. \A i \in 1 .. n + 1 : i = n + 1 \/ i \in 1 .. n
    BY <1>1
  <1>5. n + 1 \in 1 .. n + 1 /\ \A i \in 1 .. n : i \in 1 .. n + 1
    BY <1>1
  <1>6. Elems(l) = {l[i] : i \in 1 .. n} /\ Elems(m) = {m[i] : i \in 1 .. n + 1}
    BY <1>1, <1>3 DEF Elems
  <1>7. Elems(m) = Elems(l) \cup {s}
    <2>1. \A i \in 1 .. n + 1 : m[i] \in Elems(l) \cup {s}
      BY <1>2, <1>4, <1>6
    <2>2. s \in Elems(m) /\ \A i \in 1 .. n : l[i] \in Elems(m)
      BY <1>2, <1>5, <1>6
    <2> QED
      BY <1>6, <2>1, <2>2
  <1>8. \A i \in 1 .. n : l[i] # s
    BY <1>6
  <1>9. \A i, j \in 1 .. n : l[i] = l[j] => i = j
    BY <1>1 DEF Once
  <1>10. Once(m)
    <2> SUFFICES ASSUME NEW i \in 1 .. n + 1, NEW j \in 1 .. n + 1, m[i] = m[j]
                 PROVE  i = j
      BY <1>3 DEF Once
    <2>1. CASE i = n + 1
      BY <1>2, <1>4, <1>8, <2>1
    <2>2. CASE j = n + 1
      BY <1>2, <1>4, <1>8, <2>2
    <2>3. CASE i \in 1 .. n /\ j \in 1 .. n
      BY <1>2, <1>9, <2>3
    <2> QED
      BY <1>4, <2>1, <2>2, <2>3
  <1> QED
    BY <1>1, <1>2, <1>7, <1>10 DEF n, m

(* The list that init_classes() fills with std::iota()                       *)
LEMMA FirstList ==
    ASSUME NEW i \in Classes
    PROVE  LET l == [j \in 1 .. NumSlots(i) |-> j - 1]
           IN  l \in Seq(Nat) /\ Len(l) = NumSlots(i) /\ Once(l) /\ Elems(l) = Slots(i)
  <1> DEFINE n == NumSlots(i)
  <1> DEFINE l == [j \in 1 .. n |-> j - 1]
  <1>1. n \in Nat \ {0} /\ \A s : s \in Slots(i) <=> s \in Nat /\ s < n
    BY Numbers
  <1> HIDE DEF n
  <1>2. l \in [1 .. n -> Nat]
    BY <1>1
  <1>3. l \in Seq(Nat) /\ Len(l) = n /\ DOMAIN l = 1 .. n
    BY <1>1, <1>2
  <1>4. \A j \in 1 .. n : l[j] = j - 1
    OBVIOUS
  <1> HIDE DEF l
  <1>5. Once(l)
    BY <1>3, <1>4 DEF Once
  <1>6. Elems(l) = Slots(i)
    <2>1. \A j \in 1 .. n : l[j] \in Slots(i)
      BY <1>1, <1>4
    <2>2. ASSUME NEW s \in Slots(i) PROVE s \in Elems(l)
      <3>1. s + 1 \in 1 .. n /\ l[s + 1] = s
        BY <1>1, <1>4
      <3> QED
        BY <1>3, <3>1 DEF Elems
    <2> QED
      BY <1>3, <2>1, <2>2 DEF Elems
  <1> QED
    BY <1>3, <1>5, <1>6 DEF n, l

-----------------------------------------------------------------------------
(* Slots go from a free list to a caller and back *)

Allocs == [class : Classes, slot : Nat, ptr : Nat, size : Requests]

HeldOf(i) == {a \in held : a.class = i}

ClassInv(i) ==
    /\ Once(freeList[i])
    /\ Elems(freeList[i]) \cap HeldSlots(i) = {}
    /\ Elems(freeList[i]) \cup HeldSlots(i) = Slots(i)
    /\ Len(freeList[i]) + Cardinality(HeldOf(i)) = NumSlots(i)

HeldInv ==
    /\ held \subseteq Allocs /\ IsFiniteSet(held)
    /\ \A a \in held : a.ptr = Pointer(a.class, a.slot) /\ a.size <= SlotSizes[a.class]
    /\ \A a, b \in held : a.class = b.class /\ a.slot = b.slot => a = b

SlabInv ==
    /\ freeList \in [Classes -> Seq(Nat)]
    /\ \A i \in Classes : ClassInv(i)
    /\ HeldInv

(* A class whose list and whose allocations a step leaves alone              *)
LEMMA ClassSame ==
    ASSUME NEW i \in Classes, ClassInv(i), freeList'[i] = freeList[i], HeldOf(i)' = HeldOf(i)
    PROVE  ClassInv(i)'
  <1>1. HeldSlots(i) = {a.slot : a \in HeldOf(i)} /\ HeldSlots(i)' = {a.slot : a \in HeldOf(i)'}
    BY DEF HeldSlots, HeldOf
  <1>2. HeldSlots(i)' = HeldSlots(i)
    BY <1>1
  <1>3. Elems(freeList[i])' = Elems(freeList[i]) /\ (Once(freeList[i])' <=> Once(freeList[i]))
        /\ Len(freeList[i])' = Len(freeList[i])
    BY DEF Elems, Once
  <1>4. Cardinality(HeldOf(i))' = Cardinality(HeldOf(i))
    OBVIOUS
  <1>5. Slots(i)' = Slots(i) /\ NumSlots(i)' = NumSlots(i)
    BY DEF Slots, NumSlots, BytesPerClass, SlotSizes, Order, Classes
  <1> QED
    BY <1>2, <1>3, <1>4 DEF ClassInv

LEMMA HeldFacts ==
    ASSUME SlabInv, NEW a \in held
    PROVE  /\ a.class \in Classes /\ a.slot \in Nat /\ a.ptr \in Nat /\ a.size \in Requests
           /\ a.size \in Nat /\ a.slot \in Slots(a.class) /\ a.slot \notin Elems(freeList[a.class])
           /\ a \in HeldOf(a.class)
  <1>1. /\ a.class \in Classes /\ a.slot \in Nat /\ a.ptr \in Nat /\ a.size \in Requests
    BY DEF SlabInv, HeldInv, Allocs
  <1>2. a.slot \in HeldSlots(a.class) /\ a \in HeldOf(a.class)
    BY DEF HeldSlots, HeldOf
  <1>3. ClassInv(a.class)
    BY <1>1 DEF SlabInv
  <1> QED
    BY <1>1, <1>2, <1>3, SlabAssumption DEF ClassInv

(* allocate() takes the slot at the back.                                    *)
LEMMA PopKeeps ==
    ASSUME SlabInv, NEW c \in Classes, NEW size \in Requests, size <= SlotSizes[c],
           NEW x, x = [class |-> c, slot |-> freeList[c][Len(freeList[c])],
                       ptr |-> Pointer(c, freeList[c][Len(freeList[c])]), size |-> size],
           freeList[c] # <<>>,
           freeList' = [freeList EXCEPT ![c] = SubSeq(@, 1, Len(@) - 1)],
           held' = held \cup {x}
    PROVE  SlabInv'
  <1> DEFINE l == freeList[c]
  <1> DEFINE s == l[Len(l)]
  <1> DEFINE m == SubSeq(l, 1, Len(l) - 1)
  <1>1. l \in Seq(Nat) /\ ClassInv(c)
    BY DEF SlabInv
  <1>2. Once(l)
    BY <1>1 DEF ClassInv
  <1>3. /\ m \in Seq(Nat) /\ Len(m) = Len(l) - 1 /\ Len(l) \in Nat \ {0}
        /\ Once(m) /\ s \in Elems(l) /\ Elems(m) = Elems(l) \ {s}
    BY <1>1, <1>2, PopList
  <1>4. /\ freeList' \in [Classes -> Seq(Nat)]
        /\ freeList'[c] = m /\ \A i \in Classes : i # c => freeList'[i] = freeList[i]
    BY <1>3 DEF SlabInv
  <1> HIDE DEF m
  <1>5. s \in Slots(c) /\ s \in Nat /\ s \notin HeldSlots(c)
    BY <1>1, <1>3, Numbers DEF ClassInv
  <1>6. x.class = c /\ x.slot = s /\ x.ptr = Pointer(c, s) /\ x.size = size
    OBVIOUS
  <1>7. x \in Allocs
    <2>1. Pointer(c, s) \in Nat
      BY <1>5, SlotBytes
    <2> QED
      BY <1>5, <2>1 DEF Allocs
  <1> HIDE DEF l, s
  <1>8. \A a \in held : a.class = c => a.slot # s
    BY <1>5 DEF HeldSlots
  <1>9. HeldInv'
    <2>1. HeldInv
      BY DEF SlabInv
    <2>2. held' \subseteq Allocs /\ IsFiniteSet(held')
      BY <1>7, <2>1, FS_AddElement DEF HeldInv
    <2>3. \A a \in held' : a.ptr = Pointer(a.class, a.slot) /\ a.size <= SlotSizes[a.class]
      BY <1>6, <2>1 DEF HeldInv
    <2>4. \A a, b \in held' : a.class = b.class /\ a.slot = b.slot => a = b
      BY <1>6, <1>8, <2>1 DEF HeldInv
    <2> QED
      BY <2>2, <2>3, <2>4 DEF HeldInv, Allocs
  <1>10. ASSUME NEW i \in Classes, i # c PROVE ClassInv(i)'
    <2>1. HeldOf(i)' = HeldOf(i) /\ freeList'[i] = freeList[i]
      BY <1>4, <1>6, <1>10 DEF HeldOf
    <2> QED
      BY <2>1, ClassSame DEF SlabInv
  <1>11. ClassInv(c)'
    <2>1. HeldOf(c)' = HeldOf(c) \cup {x} /\ x \notin HeldOf(c)
      BY <1>6, <1>8 DEF HeldOf
    <2>2. HeldSlots(c)' = HeldSlots(c) \cup {s}
      <3>1. HeldSlots(c) = {a.slot : a \in HeldOf(c)} /\ HeldSlots(c)' = {a.slot : a \in HeldOf(c)'}
        BY DEF HeldSlots, HeldOf
      <3> QED
        BY <1>6, <2>1, <3>1
    <2>3. IsFiniteSet(HeldOf(c))
      BY FS_Subset DEF SlabInv, HeldInv, HeldOf
    <2>4. Cardinality(HeldOf(c)) \in Nat /\ Cardinality(HeldOf(c)') = Cardinality(HeldOf(c)) + 1
      BY <2>1, <2>3, FS_AddElement, FS_CardinalityType
    <2>5. NumSlots(c) \in Nat /\ Len(l) + Cardinality(HeldOf(c)) = NumSlots(c)
      BY <1>1, Numbers DEF ClassInv, l
    <2>6. Len(m) + Cardinality(HeldOf(c)') = NumSlots(c)
      BY <1>3, <2>4, <2>5
    <2>7. /\ Elems(m) \cap HeldSlots(c)' = {} /\ Elems(m) \cup HeldSlots(c)' = Slots(c)
      <3>1. Elems(l) \cap HeldSlots(c) = {} /\ Elems(l) \cup HeldSlots(c) = Slots(c)
        BY <1>1 DEF ClassInv, l
      <3> QED
        BY <1>3, <2>2, <3>1
    <2> QED
      BY <1>3, <1>4, <2>6, <2>7 DEF ClassInv
  <1> QED
    BY <1>4, <1>9, <1>10, <1>11 DEF SlabInv

(* free() gives it back.                                                     *)
LEMMA PushKeeps ==
    ASSUME SlabInv, NEW a \in held,
           freeList' = [freeList EXCEPT ![a.class] = Append(@, a.slot)],
           held' = held \ {a}
    PROVE  SlabInv'
  <1> DEFINE c == a.class
  <1> DEFINE s == a.slot
  <1> DEFINE l == freeList[c]
  <1> DEFINE m == Append(l, s)
  <1>1. c \in Classes /\ s \in Nat /\ s \in Slots(c) /\ s \notin Elems(l) /\ a \in HeldOf(c)
    BY HeldFacts
  <1>2. l \in Seq(Nat) /\ ClassInv(c)
    BY <1>1 DEF SlabInv
  <1>3. Once(l)
    BY <1>2 DEF ClassInv
  <1>4. /\ m \in Seq(Nat) /\ Len(m) = Len(l) + 1 /\ Len(l) \in Nat
        /\ Once(m) /\ Elems(m) = Elems(l) \cup {s}
    BY <1>1, <1>2, <1>3, PushList
  <1>5. /\ freeList' \in [Classes -> Seq(Nat)]
        /\ freeList'[c] = m /\ \A i \in Classes : i # c => freeList'[i] = freeList[i]
    BY <1>1, <1>4 DEF SlabInv
  <1> HIDE DEF m
  <1>6. HeldInv'
    <2>1. HeldInv
      BY DEF SlabInv
    <2>2. held' \subseteq Allocs /\ IsFiniteSet(held')
      BY <2>1, FS_RemoveElement DEF HeldInv
    <2>3. \A b \in held' : b.ptr = Pointer(b.class, b.slot) /\ b.size <= SlotSizes[b.class]
      BY <2>1 DEF HeldInv
    <2>4. \A b, d \in held' : b.class = d.class /\ b.slot = d.slot => b = d
      BY <2>1 DEF HeldInv
    <2> QED
      BY <2>2, <2>3, <2>4 DEF HeldInv, Allocs
  <1> HIDE DEF c, s, l
  <1>7. ASSUME NEW i \in Classes, i # c PROVE ClassInv(i)'
    <2>1. HeldOf(i)' = HeldOf(i) /\ freeList'[i] = freeList[i]
      BY <1>5, <1>7 DEF HeldOf, c
    <2> QED
      BY <2>1, ClassSame DEF SlabInv
  <1>8. ClassInv(c)'
    <2>1. HeldOf(c)' = HeldOf(c) \ {a}
      BY DEF HeldOf
    <2>2. HeldSlots(c)' = HeldSlots(c) \ {s}
      <3>1. HeldSlots(c) = {b.slot : b \in HeldOf(c)} /\ HeldSlots(c)' = {b.slot : b \in HeldOf(c)'}
        BY DEF HeldSlots, HeldOf
      <3>2. \A b \in HeldOf(c) : b # a => b.slot # s
        BY DEF HeldOf, SlabInv, HeldInv, c, s
      <3>3. a.slot = s
        BY DEF s
      <3> QED
        BY <2>1, <3>1, <3>2, <3>3
    <2>3. IsFiniteSet(HeldOf(c))
      BY FS_Subset DEF SlabInv, HeldInv, HeldOf
    <2>4. Cardinality(HeldOf(c)) \in Nat /\ Cardinality(HeldOf(c)') = Cardinality(HeldOf(c)) - 1
      BY <1>1, <2>1, <2>3, FS_RemoveElement, FS_CardinalityType
    <2>5. NumSlots(c) \in Nat /\ Len(l) + Cardinality(HeldOf(c)) = NumSlots(c)
      BY <1>1, <1>2, Numbers DEF ClassInv, l
    <2>6. Len(m) + Cardinality(HeldOf(c)') = NumSlots(c)
      BY <1>4, <2>4, <2>5
    <2>7. /\ Elems(m) \cap HeldSlots(c)' = {} /\ Elems(m) \cup HeldSlots(c)' = Slots(c)
      <3>1. /\ Elems(l) \cap HeldSlots(c) = {} /\ Elems(l) \cup HeldSlots(c) = Slots(c)
        BY <1>2 DEF ClassInv, l
      <3> QED
        BY <1>1, <1>4, <2>2, <3>1
    <2> QED
      BY <1>4, <1>5, <2>6, <2>7 DEF ClassInv
  <1> QED
    BY <1>5, <1>6, <1>7, <1>8 DEF SlabInv

-----------------------------------------------------------------------------
(* The loop of allocate() *)

NumClasses == Len(SizeClasses)

LEMMA NextFitIs ==
    ASSUME NEW i \in 1 .. NumClasses + 1, NEW size
    PROVE  /\ NextFit(i, size) \in i .. NumClasses + 1
           /\ NextFit(i, size) \in Classes => Fits(NextFit(i, size), size)
           /\ \A h \in i .. NextFit(i, size) - 1 : ~Fits(h, size)
  <1>1. NumClasses \in Nat /\ Classes = 1 .. NumClasses
    BY ClassCount DEF NumClasses
  <1> DEFINE Stops == {j \in i .. NumClasses + 1 : j = NumClasses + 1 \/ Fits(j, size)}
  <1>2. Stops \subseteq Nat /\ NumClasses + 1 \in Stops
    BY <1>1
  <1>3. PICK j \in Stops : \A x \in Stops : <<x, j>> \notin OpToRel(<, Nat)
    BY <1>2, NatLessThanWellFounded, WFMin
  <1>4. \A x \in Stops : ~(x < j)
    BY <1>2, <1>3 DEF OpToRel
  <1>5. j \in i .. NumClasses + 1 /\ (j \in Classes => Fits(j, size))
    BY <1>1
  <1>6. \A h \in i .. j - 1 : ~Fits(h, size)
    <2> SUFFICES ASSUME NEW h \in i .. j - 1, Fits(h, size) PROVE FALSE
      OBVIOUS
    <2>1. h \in i .. NumClasses + 1 /\ h < j
      BY <1>1, <1>5
    <2> QED
      BY <1>4, <2>1
  <1> HIDE DEF Stops
  <1>7. \E k \in i .. NumClasses + 1 :
           (k \in Classes => Fits(k, size)) /\ \A h \in i .. k - 1 : ~Fits(h, size)
    BY <1>5, <1>6
  <1> QED
    BY <1>7 DEF NextFit, NumClasses

Searching == [pc : {"allocate", "failed"}, size : Requests, class : 1 .. NumClasses + 1, full : SUBSET Classes]
Counting == [pc : {"used_bytes", "counted"}, class : Int, total : Int, sure : SUBSET Allocs, maybe : SUBSET Allocs]

(* allocate() has found every class full that fits and that it passed.       *)
SearchOK(st) ==
    /\ st.pc = "failed" => st.class = NumClasses + 1
    /\ st.class \in Classes => Fits(st.class, st.size)
    /\ \A h \in 1 .. st.class - 1 : Fits(h, st.size) => h \in st.full

ThreadOK(st) ==
    \/ st = Idle
    \/ st \in Counting /\ (st.pc = "used_bytes" => st.class \in Classes)
    \/ st \in Searching /\ SearchOK(st)

(* What is full now has been seen full by everyone in allocate().            *)
Seen(st) == st.pc = "allocate" => \A i \in Classes : freeList[i] = <<>> => i \in st.full
SeenNext(st) == st.pc = "allocate" => \A i \in Classes : freeList'[i] = <<>> => i \in st.full

ThreadInv == \A t \in Threads : ThreadOK(thread[t]) /\ Seen(thread[t])

LEMMA ObserveKeeps ==
    ASSUME NEW st, ThreadOK(st), held' \subseteq Allocs
    PROVE  ThreadOK(Observe(st)) /\ SeenNext(Observe(st))
  <1>1. CASE st = Idle
    <2>1. st.pc = "idle"
      BY <1>1 DEF Idle
    <2>2. Observe(st) = st
      BY <2>1 DEF Observe
    <2> QED
      BY <1>1, <2>1, <2>2 DEF ThreadOK, SeenNext
  <1>2. CASE st \in Counting /\ (st.pc = "used_bytes" => st.class \in Classes)
    <2>1. CASE st.pc = "used_bytes"
      <3> DEFINE r == [st EXCEPT !.sure = @ \cap held', !.maybe = @ \cup held']
      <3>1. Observe(st) = r
        BY <2>1 DEF Observe
      <3>2. r \in Counting /\ r.pc = "used_bytes" /\ r.class = st.class
        BY <1>2, <2>1 DEF Counting
      <3> HIDE DEF r
      <3> QED
        BY <1>2, <2>1, <3>1, <3>2 DEF ThreadOK, SeenNext
    <2>2. CASE st.pc = "counted"
      <3>1. Observe(st) = st
        BY <2>2 DEF Observe
      <3> QED
        BY <1>2, <2>2, <3>1 DEF ThreadOK, SeenNext
    <2> QED
      BY <1>2, <2>1, <2>2 DEF Counting
  <1>3. CASE st \in Searching /\ SearchOK(st)
    <2>1. CASE st.pc = "allocate"
      <3> DEFINE empty == {i \in Classes : freeList'[i] = <<>>}
      <3> DEFINE r == [st EXCEPT !.full = @ \cup empty]
      <3>1. Observe(st) = r
        BY <2>1 DEF Observe
      <3>2. /\ r \in Searching /\ r.pc = "allocate" /\ r.class = st.class /\ r.size = st.size
            /\ r.full = st.full \cup empty
        BY <1>3, <2>1 DEF Searching
      <3> HIDE DEF r
      <3>3. SearchOK(r)
        BY <1>3, <3>2 DEF SearchOK
      <3>4. SeenNext(r)
        BY <3>2 DEF SeenNext
      <3> QED
        BY <3>1, <3>2, <3>3, <3>4 DEF ThreadOK
    <2>2. CASE st.pc = "failed"
      <3>1. Observe(st) = st
        BY <2>2 DEF Observe
      <3> QED
        BY <1>3, <2>2, <3>1 DEF ThreadOK, SeenNext
    <2> QED
      BY <1>3, <2>1, <2>2 DEF Searching
  <1> QED
    BY <1>1, <1>2, <1>3 DEF ThreadOK

LEMMA ThreadStep ==
    ASSUME ThreadInv, NEW t \in Threads, NEW st, StepOf(t, st), ThreadOK(st), SeenNext(st),
           held' \subseteq Allocs
    PROVE  ThreadInv'
  <1> SUFFICES ASSUME NEW u \in Threads PROVE ThreadOK(thread'[u]) /\ SeenNext(thread'[u])
    BY DEF ThreadInv, Seen, SeenNext
  <1>1. CASE u = t
    BY <1>1 DEF StepOf
  <1>2. CASE u # t
    <2>1. thread'[u] = Observe(thread[u])
      BY <1>2 DEF StepOf
    <2>2. ThreadOK(thread[u])
      BY DEF ThreadInv
    <2> QED
      BY <2>1, <2>2, ObserveKeeps
  <1> QED
    BY <1>1, <1>2

-----------------------------------------------------------------------------
(* Every step keeps both *)

SlabOK == SlabInv /\ ThreadInv

LEMMA SlabSame ==
    ASSUME SlabInv, freeList' = freeList, held' = held
    PROVE  SlabInv' /\ held' \subseteq Allocs
  <1>1. ASSUME NEW i \in Classes PROVE ClassInv(i)'
    <2>1. HeldOf(i)' = HeldOf(i)
      BY DEF HeldOf
    <2> QED
      BY <2>1, ClassSame DEF SlabInv
  <1>2. HeldInv'
    BY DEF SlabInv, HeldInv
  <1> QED
    BY <1>1, <1>2 DEF SlabInv, HeldInv

LEMMA AllocateCallKeeps ==
    ASSUME SlabOK, NEW t \in Threads, NEW size \in Requests, AllocateCall(t, size)
    PROVE  SlabOK'
  <1> DEFINE full == {i \in Classes : freeList[i] = <<>>}
  <1> DEFINE st == [pc |-> "allocate", size |-> size, class |-> NextFit(1, size), full |-> full]
  <1>1. freeList' = freeList /\ held' = held /\ StepOf(t, st)
    BY DEF AllocateCall
  <1>2. SlabInv' /\ held' \subseteq Allocs
    BY <1>1, SlabSame DEF SlabOK
  <1>3. NumClasses \in Nat /\ 1 \in 1 .. NumClasses + 1
    BY ClassCount DEF NumClasses
  <1>4. /\ NextFit(1, size) \in 1 .. NumClasses + 1
        /\ NextFit(1, size) \in Classes => Fits(NextFit(1, size), size)
        /\ \A h \in 1 .. NextFit(1, size) - 1 : ~Fits(h, size)
    BY <1>3, NextFitIs
  <1>5. /\ st \in Searching /\ st.pc = "allocate" /\ st.size = size
        /\ st.class = NextFit(1, size) /\ st.full = full
    BY <1>4 DEF Searching
  <1> HIDE DEF st
  <1>6. ThreadOK(st)
    BY <1>4, <1>5 DEF ThreadOK, SearchOK
  <1>7. SeenNext(st)
    BY <1>1, <1>5 DEF SeenNext
  <1> QED
    BY <1>1, <1>2, <1>6, <1>7, ThreadStep DEF SlabOK

LEMMA IdleOK ==
    ThreadOK(Idle) /\ SeenNext(Idle)
  BY DEF ThreadOK, SeenNext, Idle

LEMMA SearchingThread ==
    ASSUME ThreadInv, NEW t \in Threads, thread[t].pc \in {"allocate", "failed"}
    PROVE  thread[t] \in Searching /\ SearchOK(thread[t]) /\ Seen(thread[t])
  <1>1. thread[t] # Idle /\ thread[t] \notin Counting
    BY DEF Idle, Counting
  <1> QED
    BY <1>1 DEF ThreadInv, ThreadOK

LEMMA CountingThread ==
    ASSUME ThreadInv, NEW t \in Threads, thread[t].pc = "used_bytes"
    PROVE  thread[t] \in Counting /\ thread[t].class \in Classes
  <1>1. thread[t] # Idle /\ thread[t] \notin Searching
    BY DEF Idle, Searching
  <1> QED
    BY <1>1 DEF ThreadInv, ThreadOK

LEMMA AllocateStepKeeps ==
    ASSUME SlabOK, NEW t \in Threads, AllocateStep(t)
    PROVE  SlabOK'
  <1>1. PICK me : me = thread[t]
    OBVIOUS
  <1>2. me \in Searching /\ SearchOK(me) /\ Seen(me) /\ me.pc = "allocate" /\ me.class \in Classes
    BY <1>1, SearchingThread DEF SlabOK, AllocateStep
  <1>3. PICK c \in Classes : c = me.class
    BY <1>2
  <1>4. Fits(c, me.size) /\ me.size \in Requests
    BY <1>2, <1>3 DEF SearchOK, Searching
  <1>5. CASE Pop(t, c)
    <2> DEFINE s == freeList[c][Len(freeList[c])]
    <2> DEFINE x == [class |-> c, slot |-> s, ptr |-> Pointer(c, s), size |-> me.size]
    <2>1. /\ freeList[c] # <<>>
          /\ freeList' = [freeList EXCEPT ![c] = SubSeq(@, 1, Len(@) - 1)]
          /\ held' = held \cup {x} /\ StepOf(t, Idle)
      BY <1>1, <1>5 DEF Pop
    <2>2. me.size <= SlotSizes[c]
      BY <1>4, SlabAssumption, Numbers DEF Fits
    <2>3. PICK y : y = x
      OBVIOUS
    <2>4. SlabInv'
      BY <1>4, <2>1, <2>2, <2>3, PopKeeps DEF SlabOK
    <2>5. held' \subseteq Allocs
      BY <2>4 DEF SlabInv, HeldInv, Allocs
    <2> QED
      BY <2>1, <2>4, <2>5, IdleOK, ThreadStep DEF SlabOK
  <1>6. CASE Continue(t, c)
    <2> DEFINE st == [me EXCEPT !.class = NextFit(c + 1, me.size)]
    <2>1. freeList[c] = <<>> /\ freeList' = freeList /\ held' = held /\ StepOf(t, st)
      BY <1>1, <1>6 DEF Continue
    <2>2. SlabInv' /\ held' \subseteq Allocs
      BY <2>1, SlabSame DEF SlabOK
    <2>3. NumClasses \in Nat /\ c \in 1 .. NumClasses /\ c + 1 \in 1 .. NumClasses + 1
      BY ClassCount DEF NumClasses
    <2> DEFINE k == NextFit(c + 1, me.size)
    <2>4. /\ k \in c + 1 .. NumClasses + 1 /\ (k \in Classes => Fits(k, me.size))
          /\ \A h \in c + 1 .. k - 1 : ~Fits(h, me.size)
      BY <2>3, NextFitIs
    <2> HIDE DEF k
    <2>5. /\ st \in Searching /\ st.pc = "allocate" /\ st.size = me.size
          /\ st.class = k /\ st.full = me.full
      BY <1>2, <2>3, <2>4 DEF Searching, k
    <2> HIDE DEF st
    <2>6. \A h \in 1 .. c - 1 : Fits(h, me.size) => h \in me.full
      BY <1>2, <1>3 DEF SearchOK
    <2>7. c \in me.full
      BY <1>2, <2>1 DEF Seen
    <2>8. \A h \in 1 .. k - 1 : h \in 1 .. c - 1 \/ h = c \/ h \in c + 1 .. k - 1
      BY <2>3, <2>4
    <2>9. ThreadOK(st)
      BY <2>4, <2>5, <2>6, <2>7, <2>8 DEF ThreadOK, SearchOK
    <2>10. SeenNext(st)
      BY <1>2, <2>1, <2>5 DEF Seen, SeenNext
    <2> QED
      BY <2>1, <2>2, <2>9, <2>10, ThreadStep DEF SlabOK
  <1> QED
    BY <1>1, <1>3, <1>5, <1>6 DEF AllocateStep

LEMMA AllocateFailsKeeps ==
    ASSUME SlabOK, NEW t \in Threads, AllocateFails(t)
    PROVE  SlabOK'
  <1>1. PICK me : me = thread[t]
    OBVIOUS
  <1>2. me \in Searching /\ SearchOK(me) /\ me.pc = "allocate" /\ me.class \notin Classes
    BY <1>1, SearchingThread DEF SlabOK, AllocateFails
  <1> DEFINE st == [me EXCEPT !.pc = "failed"]
  <1>3. freeList' = freeList /\ held' = held /\ StepOf(t, st)
    BY <1>1 DEF AllocateFails
  <1>4. SlabInv' /\ held' \subseteq Allocs
    BY <1>3, SlabSame DEF SlabOK
  <1>5. me.class = NumClasses + 1
    <2>1. NumClasses \in Nat /\ Classes = 1 .. NumClasses /\ me.class \in 1 .. NumClasses + 1
      BY <1>2, ClassCount DEF NumClasses, Searching
    <2> QED
      BY <1>2, <2>1
  <1>6. /\ st \in Searching /\ st.pc = "failed" /\ st.class = me.class
        /\ st.size = me.size /\ st.full = me.full
    BY <1>2 DEF Searching
  <1> HIDE DEF st
  <1>7. ThreadOK(st) /\ SeenNext(st)
    BY <1>2, <1>5, <1>6 DEF ThreadOK, SearchOK, SeenNext
  <1> QED
    BY <1>3, <1>4, <1>7, ThreadStep DEF SlabOK

(* free() and free_by_ptr() put a slot back on the list it came from.        *)
LEMMA FreeKeeps ==
    ASSUME SlabOK, NEW t \in Threads, NEW a \in held, Free(t, a) \/ FreeByPtr(t, a)
    PROVE  SlabOK'
  <1>1. PushBack(t, a, a.class, a.slot)
    <2>1. CASE Free(t, a)
      BY <2>1 DEF Free
    <2>2. CASE FreeByPtr(t, a)
      <3>1. a.class \in Classes /\ a.slot \in Slots(a.class) /\ a.ptr = Pointer(a.class, a.slot)
        BY HeldFacts DEF SlabOK, SlabInv, HeldInv
      <3> DEFINE i == CHOOSE j \in Classes : InRegion(a.ptr, j) /\ \A h \in 1 .. j - 1 : ~InRegion(a.ptr, h)
      <3>2. i = a.class /\ (a.ptr - Base[i]) \div SlotSizes[i] = a.slot
        BY <3>1, PtrLeadsBack
      <3>3. PushBack(t, a, i, (a.ptr - Base[i]) \div SlotSizes[i])
        BY <2>2 DEF FreeByPtr
      <3> HIDE DEF i
      <3> QED
        BY <3>2, <3>3
    <2> QED
      BY <2>1, <2>2
  <1>2. /\ freeList' = [freeList EXCEPT ![a.class] = Append(@, a.slot)]
        /\ held' = held \ {a} /\ StepOf(t, Idle)
    BY <1>1 DEF PushBack
  <1>3. SlabInv'
    BY <1>2, PushKeeps DEF SlabOK
  <1>4. held' \subseteq Allocs
    BY <1>3 DEF SlabInv, HeldInv, Allocs
  <1> QED
    BY <1>2, <1>3, <1>4, IdleOK, ThreadStep DEF SlabOK

LEMMA UsedBytesKeeps ==
    ASSUME SlabOK, NEW t \in Threads, UsedBytesCall(t) \/ UsedBytesStep(t) \/ Return(t)
    PROVE  SlabOK'
  <1>1. freeList' = freeList /\ held' = held
    BY DEF UsedBytesCall, UsedBytesStep, Return
  <1>2. SlabInv' /\ held' \subseteq Allocs
    BY <1>1, SlabSame DEF SlabOK
  <1>3. NumClasses \in Nat \ {0} /\ Classes = 1 .. NumClasses
    BY ClassCount DEF NumClasses
  <1>4. CASE UsedBytesCall(t)
    <2> DEFINE st == [pc |-> "used_bytes", class |-> 1, total |-> 0, sure |-> held, maybe |-> held]
    <2>1. StepOf(t, st)
      BY <1>4 DEF UsedBytesCall
    <2>2. st \in Counting /\ st.pc = "used_bytes" /\ st.class = 1
      BY <1>1, <1>2 DEF Counting
    <2> HIDE DEF st
    <2>3. ThreadOK(st) /\ SeenNext(st)
      BY <1>3, <2>2 DEF ThreadOK, SeenNext
    <2> QED
      BY <1>2, <2>1, <2>3, ThreadStep DEF SlabOK
  <1>5. CASE UsedBytesStep(t)
    <2>1. PICK me : me = thread[t]
      OBVIOUS
    <2>2. me \in Counting /\ me.pc = "used_bytes" /\ me.class \in Classes
      BY <1>5, <2>1, CountingThread DEF SlabOK, UsedBytesStep
    <2> DEFINE st == [me EXCEPT !.total = @ + UsedBytes(me.class),
                                !.pc = IF me.class = NumClasses THEN "counted" ELSE @,
                                !.class = @ + 1]
    <2>3. StepOf(t, st)
      BY <1>5, <2>1 DEF UsedBytesStep, NumClasses
    <2>4. UsedBytes(me.class) \in Int
      <3>1. NumSlots(me.class) \in Nat /\ SlotSizes[me.class] \in Nat
        BY <2>2, Numbers
      <3>2. freeList[me.class] \in Seq(Nat)
        BY <2>2 DEF SlabOK, SlabInv
      <3>3. Len(freeList[me.class]) \in Nat
        BY <3>2
      <3> QED
        BY <3>1, <3>3 DEF UsedBytes
    <2>5. /\ st \in Counting /\ st.class = me.class + 1
          /\ st.pc = IF me.class = NumClasses THEN "counted" ELSE "used_bytes"
      <3>1. me.total \in Int /\ me.class \in Int
        BY <2>2 DEF Counting
      <3>2. PICK total \in Int : total = me.total + UsedBytes(me.class)
        BY <2>4, <3>1
      <3>3. PICK class \in Int : class = me.class + 1
        BY <3>1
      <3>4. PICK pc \in {"used_bytes", "counted"} :
               pc = IF me.class = NumClasses THEN "counted" ELSE "used_bytes"
        OBVIOUS
      <3>5. st = [me EXCEPT !.total = total, !.pc = pc, !.class = class]
        BY <2>2, <3>2, <3>3, <3>4
      <3> HIDE DEF st
      <3>6. st \in Counting /\ st.class = class /\ st.pc = pc
        BY <2>2, <3>5 DEF Counting
      <3> QED
        BY <3>3, <3>4, <3>6
    <2> HIDE DEF st
    <2>6. st.pc = "used_bytes" => st.class \in Classes
      BY <1>3, <2>2, <2>5
    <2>7. ThreadOK(st) /\ SeenNext(st)
      BY <2>5, <2>6 DEF ThreadOK, SeenNext
    <2> QED
      BY <1>2, <2>3, <2>7, ThreadStep DEF SlabOK
  <1>6. CASE Return(t)
    <2>1. StepOf(t, Idle)
      BY <1>6 DEF Return
    <2> QED
      BY <1>2, <2>1, IdleOK, ThreadStep DEF SlabOK
  <1> QED
    BY <1>4, <1>5, <1>6

LEMMA InitOK ==
    Init => SlabOK
  <1> SUFFICES ASSUME Init PROVE SlabOK
    OBVIOUS
  <1>1. held = {} /\ freeList = [i \in Classes |-> [j \in 1 .. NumSlots(i) |-> j - 1]]
    BY DEF Init
  <1>2. ASSUME NEW i \in Classes
        PROVE  /\ freeList[i] \in Seq(Nat) /\ Len(freeList[i]) = NumSlots(i)
               /\ Once(freeList[i]) /\ Elems(freeList[i]) = Slots(i)
    BY <1>1, FirstList
  <1>3. freeList \in [Classes -> Seq(Nat)]
    BY <1>1, <1>2
  <1>4. ASSUME NEW i \in Classes PROVE ClassInv(i)
    <2>1. HeldOf(i) = {} /\ HeldSlots(i) = {}
      BY <1>1 DEF HeldOf, HeldSlots
    <2>2. Cardinality(HeldOf(i)) = 0 /\ NumSlots(i) \in Nat
      BY <2>1, FS_EmptySet, Numbers
    <2> QED
      BY <1>2, <2>1, <2>2 DEF ClassInv
  <1>5. HeldInv
    BY <1>1, FS_EmptySet DEF HeldInv
  <1>6. ThreadInv
    <2>1. \A t \in Threads : thread[t] = Idle
      BY DEF Init
    <2>2. ThreadOK(Idle) /\ Seen(Idle)
      BY DEF ThreadOK, Seen, Idle
    <2> QED
      BY <2>1, <2>2 DEF ThreadInv
  <1> QED
    BY <1>3, <1>4, <1>5, <1>6 DEF SlabOK, SlabInv

LEMMA Invariant ==
    Spec => []SlabOK
  <1>1. SlabOK /\ [Next]_vars => SlabOK'
    <2> SUFFICES ASSUME SlabOK, [Next]_vars PROVE SlabOK'
      OBVIOUS
    <2>1. CASE UNCHANGED vars
      <3>1. freeList' = freeList /\ held' = held /\ thread' = thread
        BY <2>1 DEF vars
      <3>2. SlabInv'
        BY <3>1, SlabSame DEF SlabOK
      <3>3. ThreadInv'
        BY <3>1 DEF SlabOK, ThreadInv, Seen
      <3> QED
        BY <3>2, <3>3 DEF SlabOK
    <2>2. ASSUME NEW t \in Threads, Step(t) PROVE SlabOK'
      BY <2>2, AllocateCallKeeps, AllocateStepKeeps, AllocateFailsKeeps, FreeKeeps, UsedBytesKeeps DEF Step
    <2> QED
      BY <2>1, <2>2 DEF Next
  <1> QED
    BY <1>1, InitOK, PTL DEF Spec

-----------------------------------------------------------------------------
(* However threads interleave allocate(), free() and free_by_ptr(), every    *)
(* slot of every class is on its free list, once, or held by one caller.     *)
THEOREM SlotsKept ==
    Spec => []SlotsPartitioned
  <1>1. SlabOK => SlotsPartitioned
    BY DEF SlabOK, SlabInv, ClassInv, SlotsPartitioned, FreeSlots, Elems, HeldOf
  <1> QED
    BY <1>1, Invariant, PTL

(* What allocate() hands out lies in the region of its class, and no two     *)
(* callers have a byte in common, whatever the sizes and wherever the        *)
(* regions are.                                                              *)
THEOREM BytesApart ==
    Spec => []BytesDisjoint
  <1>1. SlabOK => BytesDisjoint
    <2> SUFFICES ASSUME SlabInv PROVE BytesDisjoint
      BY DEF SlabOK
    <2>1. ASSUME NEW a \in held
          PROVE  /\ a.class \in Classes /\ a.slot \in Slots(a.class) /\ a.ptr = Pointer(a.class, a.slot)
                 /\ a.ptr \in Nat /\ a.size \in Nat /\ a.size <= SlotSizes[a.class]
                 /\ SlotSizes[a.class] \in Nat /\ Base[a.class] \in Nat /\ RegionEnd(a.class) \in Nat
                 /\ Base[a.class] <= a.ptr /\ a.ptr + SlotSizes[a.class] <= RegionEnd(a.class)
      <3>1. /\ a.class \in Classes /\ a.slot \in Slots(a.class) /\ a.ptr \in Nat /\ a.size \in Nat
            /\ a.ptr = Pointer(a.class, a.slot) /\ a.size <= SlotSizes[a.class]
        BY HeldFacts DEF SlabInv, HeldInv
      <3> QED
        BY <3>1, Numbers, SlotBytes
    <2>2. ASSUME NEW a \in held
          PROVE  Base[a.class] <= a.ptr /\ a.ptr + a.size <= RegionEnd(a.class)
      BY <2>1
    <2>3. ASSUME NEW a \in held, NEW b \in held, a # b
          PROVE  a.ptr + a.size <= b.ptr \/ b.ptr + b.size <= a.ptr
      <3>1. CASE a.class # b.class
        <4>1. RegionEnd(a.class) <= Base[b.class] \/ RegionEnd(b.class) <= Base[a.class]
          BY <2>1, <3>1, RegionAssumption DEF RegionsApart
        <4> QED
          BY <2>1, <4>1
      <3>2. CASE a.class = b.class
        <4>1. a.slot # b.slot
          BY <2>3, <3>2 DEF SlabInv, HeldInv
        <4>2. a.slot < b.slot \/ b.slot < a.slot
          BY <2>1, <4>1, Numbers
        <4>3. CASE a.slot < b.slot
          <5>1. Pointer(a.class, a.slot) + SlotSizes[a.class] <= Pointer(a.class, b.slot)
            BY <2>1, <3>2, <4>3, SlotsApart
          <5> QED
            BY <2>1, <3>2, <5>1
        <4>4. CASE b.slot < a.slot
          <5>1. Pointer(a.class, b.slot) + SlotSizes[a.class] <= Pointer(a.class, a.slot)
            BY <2>1, <3>2, <4>4, SlotsApart
          <5> QED
            BY <2>1, <3>2, <5>1
        <4> QED
          BY <4>2, <4>3, <4>4
      <3> QED
        BY <3>1, <3>2
    <2> QED
      BY <2>2, <2>3 DEF BytesDisjoint
  <1> QED
    BY <1>1, Invariant, PTL

(* allocate() locks one class after the other, and fails only when it has    *)
(* seen each class that fits full during the call.                           *)
THEOREM FailsFull ==
    Spec => []FailsOnlyWhenFull
  <1>1. SlabOK => FailsOnlyWhenFull
    <2> SUFFICES ASSUME SlabOK, NEW t \in Threads, thread[t].pc = "failed",
                        NEW i \in Classes, Fits(i, thread[t].size)
                 PROVE  i \in thread[t].full
      BY DEF FailsOnlyWhenFull
    <2>1. SearchOK(thread[t])
      BY SearchingThread DEF SlabOK
    <2>2. thread[t].class = NumClasses + 1
      BY <2>1 DEF SearchOK
    <2>3. NumClasses \in Nat /\ i \in 1 .. NumClasses
      BY ClassCount DEF NumClasses
    <2>4. i \in 1 .. thread[t].class - 1
      BY <2>2, <2>3
    <2> QED
      BY <2>1, <2>4 DEF SearchOK
  <1> QED
    BY <1>1, Invariant, PTL

-----------------------------------------------------------------------------
(* used_bytes(): what it has added up so far lies between the bytes, in the  *)
(* classes it has passed, of what was held all the time and at any time.     *)

LEMMA CountUp ==
    ASSUME NEW N \in Nat, NEW S, 0 \in S, \A n \in 0 .. N - 1 : n \in S => n + 1 \in S
    PROVE  \A n \in 0 .. N : n \in S
  <1> DEFINE Bad == {n \in 0 .. N : n \notin S}
  <1> SUFFICES ASSUME Bad # {} PROVE FALSE
    OBVIOUS
  <1>1. Bad \subseteq Nat
    OBVIOUS
  <1>2. PICK n \in Bad : \A x \in Bad : ~(<<x, n>> \in OpToRel(<, Nat))
    BY <1>1, NatLessThanWellFounded, WFMin
  <1>3. \A x \in Bad : ~(x < n)
    BY <1>1, <1>2 DEF OpToRel
  <1>4. n \in 0 .. N /\ n \notin S /\ n # 0
    OBVIOUS
  <1>5. n - 1 \in 0 .. N /\ n - 1 \in 0 .. N - 1 /\ n - 1 < n /\ (n - 1) + 1 = n
    BY <1>4
  <1>6. n - 1 \in S
    BY <1>3, <1>5
  <1> QED
    BY <1>4, <1>5, <1>6

Adds(s, g, n) ==
    /\ s \in [0 .. n -> Nat]
    /\ s[0] = 0
    /\ \A i \in 1 .. n : s[i] = s[i - 1] + g[i]

LEMMA SumExists ==
    ASSUME NEW N \in Nat, NEW g \in [1 .. N -> Nat]
    PROVE  \E s : Adds(s, g, N)
  <1> DEFINE S == {n \in 0 .. N : \E s : Adds(s, g, n)}
  <1>1. 0 \in S
    <2>1. PICK s : s = [i \in 0 .. 0 |-> 0]
      OBVIOUS
    <2>2. Adds(s, g, 0)
      BY <2>1 DEF Adds
    <2> QED
      BY <2>2
  <1>2. ASSUME NEW n \in 0 .. N - 1, n \in S PROVE n + 1 \in S
    <2>1. PICK s : Adds(s, g, n)
      BY <1>2
    <2>2. n \in Nat /\ n + 1 \in 1 .. N /\ g[n + 1] \in Nat /\ s[n] \in Nat
      BY <2>1 DEF Adds
    <2>3. PICK r : r = [i \in 0 .. n + 1 |-> IF i <= n THEN s[i] ELSE s[n] + g[n + 1]]
      OBVIOUS
    <2>4. r \in [0 .. n + 1 -> Nat]
      BY <2>1, <2>2, <2>3 DEF Adds
    <2>5. r[0] = 0
      BY <2>1, <2>2, <2>3 DEF Adds
    <2>6. ASSUME NEW i \in 1 .. n + 1 PROVE r[i] = r[i - 1] + g[i]
      <3>1. CASE i <= n
        <4>1. i \in 1 .. n /\ r[i] = s[i] /\ r[i - 1] = s[i - 1]
          BY <2>2, <2>3, <3>1
        <4> QED
          BY <2>1, <4>1 DEF Adds
      <3>2. CASE i = n + 1
        <4>1. r[i] = s[n] + g[n + 1] /\ r[i - 1] = s[n]
          BY <2>2, <2>3, <3>2
        <4> QED
          BY <3>2, <4>1
      <3> QED
        BY <2>2, <3>1, <3>2
    <2>7. Adds(r, g, n + 1)
      BY <2>4, <2>5, <2>6 DEF Adds
    <2> QED
      BY <2>2, <2>7
  <1> HIDE DEF S
  <1>3. \A n \in 0 .. N : n \in S
    BY <1>1, <1>2, CountUp
  <1>4. N \in S
    BY <1>3
  <1> QED
    BY <1>4 DEF S

LEMMA Times ==
    ASSUME NEW z \in Nat, NEW a \in Nat
    PROVE  z * a \in Nat
  OBVIOUS

LEMMA TimesGrow ==
    ASSUME NEW z \in Nat, NEW a \in Nat, NEW b \in Nat, a <= b
    PROVE  z * a <= z * b
  OBVIOUS

LEMMA AddGrow ==
    ASSUME NEW a \in Nat, NEW b \in Nat, NEW c \in Nat, NEW d \in Nat, a <= b, c <= d
    PROVE  a + c <= b + d
  OBVIOUS

LEMMA AddNat ==
    ASSUME NEW a \in Nat, NEW b \in Nat
    PROVE  a + b \in Nat
  OBVIOUS

OfClass(as, i) == {a \in as : a.class = i}

LEMMA ClassBytesIs ==
    ASSUME NEW as, IsFiniteSet(as), NEW i \in Classes
    PROVE  /\ ClassBytes(as, i) = SlotSizes[i] * Cardinality(OfClass(as, i))
           /\ Cardinality(OfClass(as, i)) \in Nat /\ ClassBytes(as, i) \in Nat
  <1>1. OfClass(as, i) \in SUBSET as
    BY DEF OfClass
  <1>2. Cardinality(OfClass(as, i)) \in Nat
    BY <1>1, FS_Subset, FS_CardinalityType
  <1>3. SlotSizes[i] \in Nat
    BY Numbers
  <1>4. ClassBytes(as, i) = SlotSizes[i] * Cardinality(OfClass(as, i))
    BY DEF ClassBytes, OfClass
  <1>5. SlotSizes[i] * Cardinality(OfClass(as, i)) \in Nat
    BY <1>2, <1>3, Times
  <1> QED
    BY <1>2, <1>4, <1>5

(* What BytesUpTo adds up *)
LEMMA BytesUpToIs ==
    ASSUME NEW as, IsFiniteSet(as)
    PROVE  /\ BytesUpTo(as) \in [0 .. NumClasses -> Nat]
           /\ BytesUpTo(as)[0] = 0
           /\ \A i \in Classes : BytesUpTo(as)[i] = BytesUpTo(as)[i - 1] + ClassBytes(as, i)
  <1>1. NumClasses \in Nat /\ Classes = 1 .. NumClasses
    BY ClassCount DEF NumClasses
  <1>2. PICK g : g = [i \in Classes |-> ClassBytes(as, i)]
    OBVIOUS
  <1>3. g \in [1 .. NumClasses -> Nat]
    BY <1>1, <1>2, ClassBytesIs
  <1>4. PICK s : Adds(s, g, NumClasses)
    BY <1>1, <1>3, SumExists
  <1>5. s = [i \in 0 .. NumClasses |-> IF i = 0 THEN 0 ELSE s[i - 1] + ClassBytes(as, i)]
    <2>1. \A i \in 0 .. NumClasses : s[i] = IF i = 0 THEN 0 ELSE s[i - 1] + ClassBytes(as, i)
      <3> SUFFICES ASSUME NEW i \in 0 .. NumClasses
                   PROVE  s[i] = IF i = 0 THEN 0 ELSE s[i - 1] + ClassBytes(as, i)
        OBVIOUS
      <3>1. CASE i = 0
        BY <1>4, <3>1 DEF Adds
      <3>2. CASE i # 0
        <4>1. i \in 1 .. NumClasses
          BY <1>1, <3>2
        <4>2. s[i] = s[i - 1] + g[i]
          BY <1>4, <4>1 DEF Adds
        <4>3. g[i] = ClassBytes(as, i)
          BY <1>1, <1>2, <4>1
        <4> QED
          BY <3>2, <4>2, <4>3
      <3> QED
        BY <3>1, <3>2
    <2> QED
      BY <1>4, <2>1 DEF Adds
  <1>6. PICK f : f = BytesUpTo(as)
    OBVIOUS
  <1>7. f = [i \in 0 .. NumClasses |-> IF i = 0 THEN 0 ELSE f[i - 1] + ClassBytes(as, i)]
    BY <1>5, <1>6 DEF BytesUpTo, NumClasses
  <1>8. f[0] = 0 /\ \A i \in Classes : f[i] = f[i - 1] + ClassBytes(as, i)
    <2>1. f[0] = 0
      <3>1. 0 \in 0 .. NumClasses
        BY <1>1
      <3> QED
        BY <1>7, <3>1
    <2>2. ASSUME NEW i \in Classes PROVE f[i] = f[i - 1] + ClassBytes(as, i)
      <3>1. i \in 0 .. NumClasses /\ i # 0
        BY <1>1
      <3> QED
        BY <1>7, <3>1
    <2> QED
      BY <2>1, <2>2
  <1>9. \A n \in 0 .. NumClasses : f[n] \in Nat
    <2> DEFINE S == {n \in 0 .. NumClasses : f[n] \in Nat}
    <2>1. 0 \in S
      BY <1>1, <1>8
    <2>2. ASSUME NEW n \in 0 .. NumClasses - 1, n \in S PROVE n + 1 \in S
      <3>1. n + 1 \in Classes /\ n + 1 \in 0 .. NumClasses /\ (n + 1) - 1 = n
        BY <1>1
      <3>2. f[n + 1] = f[n] + ClassBytes(as, n + 1) /\ ClassBytes(as, n + 1) \in Nat
        BY <1>8, <3>1, ClassBytesIs
      <3>3. f[n] \in Nat
        BY <2>2
      <3>4. f[n + 1] \in Nat
        BY <3>2, <3>3, AddNat
      <3> QED
        BY <3>1, <3>4
    <2> HIDE DEF S
    <2>3. \A n \in 0 .. NumClasses : n \in S
      BY <1>1, <2>1, <2>2, CountUp
    <2> QED
      BY <2>3 DEF S
  <1>10. f \in [0 .. NumClasses -> Nat]
    BY <1>7, <1>9
  <1> QED
    BY <1>6, <1>8, <1>10

LEMMA ClassBytesGrow ==
    ASSUME NEW as, NEW bs, IsFiniteSet(bs), as \subseteq bs, NEW i \in Classes
    PROVE  ClassBytes(as, i) <= ClassBytes(bs, i)
  <1>1. IsFiniteSet(as)
    BY FS_Subset
  <1>2. OfClass(bs, i) \in SUBSET bs /\ OfClass(as, i) \in SUBSET OfClass(bs, i)
    BY DEF OfClass
  <1>3. Cardinality(OfClass(as, i)) <= Cardinality(OfClass(bs, i))
    BY <1>2, FS_Subset
  <1>4. SlotSizes[i] \in Nat
    BY Numbers
  <1> QED
    <2>1. PICK z, a, b : /\ z = SlotSizes[i] /\ a = Cardinality(OfClass(as, i))
                         /\ b = Cardinality(OfClass(bs, i))
      OBVIOUS
    <2>2. z \in Nat /\ a \in Nat /\ b \in Nat /\ a <= b
      BY <1>1, <1>3, <1>4, <2>1, ClassBytesIs
    <2>3. z * a <= z * b
      BY <2>2, TimesGrow
    <2>4. ClassBytes(as, i) = z * a /\ ClassBytes(bs, i) = z * b
      BY <1>1, <2>1, ClassBytesIs
    <2> QED
      BY <2>3, <2>4

(* More allocations have more bytes. *)
LEMMA BytesGrow ==
    ASSUME NEW as, NEW bs, IsFiniteSet(bs), as \subseteq bs, NEW n \in 0 .. NumClasses
    PROVE  BytesUpTo(as)[n] <= BytesUpTo(bs)[n]
  <1>1. NumClasses \in Nat /\ Classes = 1 .. NumClasses
    BY ClassCount DEF NumClasses
  <1>2. PICK f, g : f = BytesUpTo(as) /\ g = BytesUpTo(bs)
    OBVIOUS
  <1>3. IsFiniteSet(as)
    BY FS_Subset
  <1>4. /\ f \in [0 .. NumClasses -> Nat] /\ f[0] = 0
        /\ \A i \in Classes : f[i] = f[i - 1] + ClassBytes(as, i)
    BY <1>2, <1>3, BytesUpToIs
  <1>5. /\ g \in [0 .. NumClasses -> Nat] /\ g[0] = 0
        /\ \A i \in Classes : g[i] = g[i - 1] + ClassBytes(bs, i)
    BY <1>2, BytesUpToIs
  <1> DEFINE S == {m \in 0 .. NumClasses : f[m] <= g[m]}
  <1>6. 0 \in S
    BY <1>1, <1>4, <1>5
  <1>7. ASSUME NEW m \in 0 .. NumClasses - 1, m \in S PROVE m + 1 \in S
    <2>1. m + 1 \in Classes /\ m + 1 \in 0 .. NumClasses /\ (m + 1) - 1 = m
      BY <1>1
    <2>2. f[m] <= g[m] /\ f[m] \in Nat /\ g[m] \in Nat
      BY <1>1, <1>4, <1>5, <1>7
    <2>3. f[m + 1] = f[m] + ClassBytes(as, m + 1) /\ g[m + 1] = g[m] + ClassBytes(bs, m + 1)
      BY <1>4, <1>5, <2>1
    <2>4. /\ ClassBytes(as, m + 1) <= ClassBytes(bs, m + 1)
          /\ ClassBytes(as, m + 1) \in Nat /\ ClassBytes(bs, m + 1) \in Nat
      BY <1>3, <2>1, ClassBytesIs, ClassBytesGrow
    <2>5. f[m + 1] <= g[m + 1]
      <3>1. PICK a, b, c, d : /\ a = f[m] /\ b = g[m] /\ c = ClassBytes(as, m + 1)
                              /\ d = ClassBytes(bs, m + 1)
        OBVIOUS
      <3>2. a \in Nat /\ b \in Nat /\ c \in Nat /\ d \in Nat /\ a <= b /\ c <= d
        BY <2>2, <2>4, <3>1
      <3>3. a + c <= b + d
        BY <3>2, AddGrow
      <3> QED
        BY <2>3, <3>1, <3>3
    <2> QED
      BY <2>1, <2>5
  <1> HIDE DEF S
  <1>8. n \in S
    BY <1>1, <1>6, <1>7, CountUp
  <1> QED
    BY <1>2, <1>8 DEF S

CountOK(st) ==
    st.pc \in {"used_bytes", "counted"} =>
        /\ st.class - 1 \in 0 .. NumClasses
        /\ st.pc = "counted" => st.class - 1 = NumClasses
        /\ st.total \in Int
        /\ IsFiniteSet(st.sure) /\ IsFiniteSet(st.maybe)
        /\ BytesUpTo(st.sure)[st.class - 1] <= st.total
        /\ st.total <= BytesUpTo(st.maybe)[st.class - 1]

(* What is held now is among what was there at any time in the call.         *)
Within(st) == st.pc = "used_bytes" => st.sure \subseteq held /\ held \subseteq st.maybe
WithinNext(st) == st.pc = "used_bytes" => st.sure \subseteq held' /\ held' \subseteq st.maybe

CountInv == \A t \in Threads : CountOK(thread[t]) /\ Within(thread[t])

LEMMA Between ==
    ASSUME NEW a \in Nat, NEW b \in Nat, NEW c \in Nat, NEW d \in Nat, NEW x \in Int,
           a <= b, b <= x, x <= c, c <= d
    PROVE  a <= x /\ x <= d
  OBVIOUS

LEMMA ObserveCounts ==
    ASSUME NEW st, ThreadOK(st), CountOK(st), IsFiniteSet(held'), held' \subseteq Allocs
    PROVE  CountOK(Observe(st)) /\ WithinNext(Observe(st))
  <1>1. CASE st.pc = "used_bytes"
    <2>1. st \in Counting
      BY <1>1 DEF ThreadOK, Idle, Searching
    <2>2. PICK r : r = Observe(st)
      OBVIOUS
    <2>3. r = [st EXCEPT !.sure = @ \cap held', !.maybe = @ \cup held']
      BY <1>1, <2>2 DEF Observe
    <2>4. /\ r.pc = "used_bytes" /\ r.class = st.class /\ r.total = st.total
          /\ r.sure = st.sure \cap held' /\ r.maybe = st.maybe \cup held'
      BY <1>1, <2>1, <2>3 DEF Counting
    <2>5. PICK n : n = st.class - 1
      OBVIOUS
    <2>6. /\ n \in 0 .. NumClasses /\ st.total \in Int
          /\ IsFiniteSet(st.sure) /\ IsFiniteSet(st.maybe)
          /\ BytesUpTo(st.sure)[n] <= st.total /\ st.total <= BytesUpTo(st.maybe)[n]
      BY <1>1, <2>5 DEF CountOK
    <2>7. IsFiniteSet(r.sure) /\ r.sure \subseteq st.sure
      <3>1. r.sure \in SUBSET st.sure
        BY <2>4
      <3> QED
        BY <2>6, <3>1, FS_Subset
    <2>8. IsFiniteSet(r.maybe) /\ st.maybe \subseteq r.maybe
      <3>1. PICK h, m : h = held' /\ m = st.maybe
        OBVIOUS
      <3>2. IsFiniteSet(h) /\ IsFiniteSet(m)
        BY <2>6, <3>1
      <3>3. IsFiniteSet(m \cup h)
        BY <3>2, FS_Union
      <3>4. r.maybe = m \cup h
        BY <2>4, <3>1
      <3> QED
        BY <3>1, <3>3, <3>4
    <2>9. /\ BytesUpTo(r.sure)[n] <= BytesUpTo(st.sure)[n]
          /\ BytesUpTo(st.maybe)[n] <= BytesUpTo(r.maybe)[n]
      BY <2>6, <2>7, <2>8, BytesGrow
    <2>10. /\ BytesUpTo(r.sure)[n] \in Nat /\ BytesUpTo(st.sure)[n] \in Nat
           /\ BytesUpTo(st.maybe)[n] \in Nat /\ BytesUpTo(r.maybe)[n] \in Nat
      BY <2>6, <2>7, <2>8, BytesUpToIs
    <2>11. BytesUpTo(r.sure)[n] <= r.total /\ r.total <= BytesUpTo(r.maybe)[n]
      <3>1. PICK a, b, c, d, x : /\ a = BytesUpTo(r.sure)[n] /\ b = BytesUpTo(st.sure)[n]
                                 /\ c = BytesUpTo(st.maybe)[n] /\ d = BytesUpTo(r.maybe)[n]
                                 /\ x = st.total
        OBVIOUS
      <3>2. /\ a \in Nat /\ b \in Nat /\ c \in Nat /\ d \in Nat /\ x \in Int
            /\ a <= b /\ b <= x /\ x <= c /\ c <= d
        BY <2>6, <2>9, <2>10, <3>1
      <3>3. a <= x /\ x <= d
        BY <3>2, Between
      <3> QED
        BY <2>4, <3>1, <3>3
    <2>12. CountOK(r)
      BY <2>4, <2>5, <2>6, <2>7, <2>8, <2>11 DEF CountOK
    <2>13. WithinNext(r)
      BY <2>4 DEF WithinNext
    <2> QED
      BY <2>2, <2>12, <2>13
  <1>2. CASE st.pc = "allocate"
    <2>1. st \in Searching
      BY <1>2 DEF ThreadOK, Idle, Counting
    <2> DEFINE empty == {i \in Classes : freeList'[i] = <<>>}
    <2> DEFINE r == [st EXCEPT !.full = @ \cup empty]
    <2>2. Observe(st) = r
      BY <1>2 DEF Observe
    <2>3. r.pc = "allocate"
      BY <1>2, <2>1 DEF Searching
    <2> HIDE DEF r
    <2> QED
      BY <2>2, <2>3 DEF CountOK, WithinNext
  <1>3. CASE st.pc \notin {"used_bytes", "allocate"}
    <2>1. Observe(st) = st
      BY <1>3 DEF Observe
    <2> QED
      BY <1>3, <2>1 DEF WithinNext
  <1> QED
    BY <1>1, <1>2, <1>3

LEMMA CountStep ==
    ASSUME ThreadInv, CountInv, NEW t \in Threads, NEW st, StepOf(t, st), CountOK(st),
           WithinNext(st), IsFiniteSet(held'), held' \subseteq Allocs
    PROVE  CountInv'
  <1> SUFFICES ASSUME NEW u \in Threads PROVE CountOK(thread'[u]) /\ WithinNext(thread'[u])
    BY DEF CountInv, Within, WithinNext
  <1>1. CASE u = t
    BY <1>1 DEF StepOf
  <1>2. CASE u # t
    <2>1. thread'[u] = Observe(thread[u])
      BY <1>2 DEF StepOf
    <2>2. ThreadOK(thread[u]) /\ CountOK(thread[u])
      BY DEF ThreadInv, CountInv
    <2> QED
      BY <2>1, <2>2, ObserveCounts
  <1> QED
    BY <1>1, <1>2

(* A turn of the loop, under the mutex of its class: what it adds is exact   *)
(* at that time.                                                             *)
LEMMA UsedBytesExact ==
    ASSUME SlabInv, NEW i \in Classes
    PROVE  UsedBytes(i) = ClassBytes(held, i)
  <1>1. /\ Len(freeList[i]) + Cardinality(HeldOf(i)) = NumSlots(i)
        /\ IsFiniteSet(held) /\ freeList[i] \in Seq(Nat)
    BY DEF SlabInv, ClassInv, HeldInv
  <1>2. HeldOf(i) = OfClass(held, i)
    BY DEF HeldOf, OfClass
  <1>3. /\ ClassBytes(held, i) = SlotSizes[i] * Cardinality(OfClass(held, i))
        /\ Cardinality(OfClass(held, i)) \in Nat
    BY <1>1, ClassBytesIs
  <1>4. PICK n, k, c, z : /\ n = NumSlots(i) /\ k = Len(freeList[i])
                          /\ c = Cardinality(HeldOf(i)) /\ z = SlotSizes[i]
    OBVIOUS
  <1>5. n \in Nat /\ k \in Nat /\ c \in Nat /\ z \in Nat /\ k + c = n
    BY <1>1, <1>2, <1>3, <1>4, Numbers
  <1>6. n - k = c
    BY <1>5
  <1>7. c * z = z * c
    BY <1>5
  <1> QED
    BY <1>2, <1>3, <1>4, <1>6, <1>7 DEF UsedBytes

LEMMA SumBetween ==
    ASSUME NEW a \in Nat, NEW x \in Int, NEW b \in Nat, NEW c \in Nat, NEW y \in Nat, NEW d \in Nat,
           a <= x, x <= b, c <= y, y <= d
    PROVE  a + c <= x + y /\ x + y <= b + d /\ x + y \in Int
  OBVIOUS

LEMMA UsedBytesStepCounts ==
    ASSUME SlabOK, CountInv, NEW t \in Threads, UsedBytesStep(t)
    PROVE  CountInv'
  <1>1. PICK me : me = thread[t]
    OBVIOUS
  <1>2. NumClasses \in Nat \ {0} /\ Classes = 1 .. NumClasses
    BY ClassCount DEF NumClasses
  <1>3. me \in Counting /\ me.pc = "used_bytes" /\ me.class \in Classes
    BY <1>1, CountingThread DEF SlabOK, UsedBytesStep
  <1>4. PICK i : i = me.class
    OBVIOUS
  <1>5. /\ i \in Classes /\ i \in 1 .. NumClasses /\ i - 1 \in 0 .. NumClasses
        /\ i \in 0 .. NumClasses /\ (i + 1) - 1 = i
    BY <1>2, <1>3, <1>4
  <1>6. /\ me.total \in Int /\ IsFiniteSet(me.sure) /\ IsFiniteSet(me.maybe)
        /\ BytesUpTo(me.sure)[i - 1] <= me.total /\ me.total <= BytesUpTo(me.maybe)[i - 1]
        /\ me.sure \subseteq held /\ held \subseteq me.maybe
    BY <1>1, <1>3, <1>4 DEF CountInv, CountOK, Within
  <1>7. /\ freeList' = freeList /\ held' = held /\ held \subseteq Allocs /\ IsFiniteSet(held)
    BY DEF UsedBytesStep, SlabOK, SlabInv, HeldInv
  <1>8. PICK u : u = UsedBytes(i)
    OBVIOUS
  <1>9. u = ClassBytes(held, i) /\ u \in Nat
    BY <1>5, <1>7, <1>8, UsedBytesExact, ClassBytesIs DEF SlabOK
  <1>10. PICK st : st = [me EXCEPT !.total = me.total + u,
                                   !.pc = IF i = NumClasses THEN "counted" ELSE "used_bytes",
                                   !.class = i + 1]
    OBVIOUS
  <1>11. StepOf(t, st)
    BY <1>1, <1>3, <1>4, <1>8, <1>10 DEF UsedBytesStep, NumClasses
  <1>12. /\ st.total = me.total + u /\ st.class = i + 1 /\ st.sure = me.sure /\ st.maybe = me.maybe
         /\ st.pc = IF i = NumClasses THEN "counted" ELSE "used_bytes"
    BY <1>3, <1>10 DEF Counting
  <1>13. /\ BytesUpTo(me.sure)[i] = BytesUpTo(me.sure)[i - 1] + ClassBytes(me.sure, i)
         /\ BytesUpTo(me.maybe)[i] = BytesUpTo(me.maybe)[i - 1] + ClassBytes(me.maybe, i)
         /\ BytesUpTo(me.sure)[i - 1] \in Nat /\ BytesUpTo(me.maybe)[i - 1] \in Nat
    BY <1>5, <1>6, BytesUpToIs
  <1>14. /\ ClassBytes(me.sure, i) <= u /\ u <= ClassBytes(me.maybe, i)
         /\ ClassBytes(me.sure, i) \in Nat /\ ClassBytes(me.maybe, i) \in Nat
    BY <1>5, <1>6, <1>7, <1>9, ClassBytesGrow, ClassBytesIs
  <1>15. /\ BytesUpTo(me.sure)[i] <= st.total /\ st.total <= BytesUpTo(me.maybe)[i]
         /\ st.total \in Int
    <2>1. PICK a, b, c, d, x : /\ a = BytesUpTo(me.sure)[i - 1] /\ b = BytesUpTo(me.maybe)[i - 1]
                               /\ c = ClassBytes(me.sure, i) /\ d = ClassBytes(me.maybe, i)
                               /\ x = me.total
      OBVIOUS
    <2>2. /\ a \in Nat /\ b \in Nat /\ c \in Nat /\ d \in Nat /\ x \in Int
          /\ a <= x /\ x <= b /\ c <= u /\ u <= d
      BY <1>6, <1>13, <1>14, <2>1
    <2>3. a + c <= x + u /\ x + u <= b + d /\ x + u \in Int
      BY <1>9, <2>2, SumBetween
    <2> QED
      BY <1>12, <1>13, <2>1, <2>3
  <1>16. CountOK(st)
    BY <1>5, <1>6, <1>12, <1>15 DEF CountOK
  <1>17. WithinNext(st)
    BY <1>6, <1>7, <1>12 DEF WithinNext
  <1> QED
    BY <1>7, <1>11, <1>16, <1>17, CountStep DEF SlabOK

LEMMA Uncounted ==
    ASSUME NEW st, st.pc \in {"idle", "allocate", "failed"}
    PROVE  CountOK(st) /\ WithinNext(st)
  BY DEF CountOK, WithinNext

LEMMA CountNext == SlabOK /\ SlabOK' /\ CountInv /\ [Next]_vars => CountInv'
  <1> SUFFICES ASSUME SlabOK, SlabOK', CountInv, [Next]_vars PROVE CountInv'
    OBVIOUS
  <1>f. IsFiniteSet(held') /\ held' \subseteq Allocs /\ IsFiniteSet(held) /\ ThreadInv
    BY DEF SlabOK, SlabInv, HeldInv, Allocs
  <1>1. CASE UNCHANGED vars
    BY <1>1 DEF vars, CountInv, Within
  <1>2. ASSUME NEW t \in Threads, Step(t) PROVE CountInv'
    <2>i. Idle.pc = "idle"
      BY DEF Idle
    <2>1. ASSUME NEW st, StepOf(t, st), st.pc \in {"idle", "allocate", "failed"}
          PROVE  CountInv'
      BY <1>f, <2>1, Uncounted, CountStep
    <2>2. ASSUME NEW size \in Requests, AllocateCall(t, size) PROVE CountInv'
      <3>1. PICK st : st = [pc |-> "allocate", size |-> size, class |-> NextFit(1, size),
                            full |-> {i \in Classes : freeList[i] = <<>>}]
        OBVIOUS
      <3>2. StepOf(t, st) /\ st.pc = "allocate"
        BY <2>2, <3>1 DEF AllocateCall
      <3> QED
        BY <2>1, <3>2
    <2>3. CASE AllocateStep(t)
      <3>1. thread[t] \in Searching /\ thread[t].pc = "allocate"
        BY <1>f, <2>3, SearchingThread DEF AllocateStep
      <3>2. CASE Pop(t, thread[t].class)
        BY <2>i, <2>1, <3>2 DEF Pop
      <3>3. CASE Continue(t, thread[t].class)
        <4>1. PICK st : st = [thread[t] EXCEPT
                                !.class = NextFit(thread[t].class + 1, thread[t].size)]
          OBVIOUS
        <4>2. StepOf(t, st)
          BY <3>3, <4>1 DEF Continue
        <4>3. st.pc = "allocate"
          BY <3>1, <4>1 DEF Searching
        <4> QED
          BY <2>1, <4>2, <4>3
      <3> QED
        BY <2>3, <3>2, <3>3 DEF AllocateStep
    <2>4. CASE AllocateFails(t)
      <3>1. thread[t] \in Searching
        BY <1>f, <2>4, SearchingThread DEF AllocateFails
      <3>2. PICK st : st = [thread[t] EXCEPT !.pc = "failed"]
        OBVIOUS
      <3>3. StepOf(t, st)
        BY <2>4, <3>2 DEF AllocateFails
      <3>4. st.pc = "failed"
        BY <3>1, <3>2 DEF Searching
      <3> QED
        BY <2>1, <3>3, <3>4
    <2>5. CASE \E a \in held : Free(t, a) \/ FreeByPtr(t, a)
      <3>1. StepOf(t, Idle)
        BY <2>5 DEF Free, FreeByPtr, PushBack
      <3> QED
        BY <2>i, <2>1, <3>1
    <2>6. CASE UsedBytesCall(t)
      <3>1. PICK st : st = [pc |-> "used_bytes", class |-> 1, total |-> 0, sure |-> held,
                            maybe |-> held]
        OBVIOUS
      <3>2. StepOf(t, st) /\ held' = held
        BY <2>6, <3>1 DEF UsedBytesCall
      <3>3. st.pc = "used_bytes" /\ st.class - 1 = 0 /\ st.total = 0 /\ st.sure = held /\ st.maybe = held
        BY <3>1
      <3>4. BytesUpTo(held)[0] = 0 /\ 0 \in 0 .. NumClasses
        BY <1>f, BytesUpToIs, ClassCount DEF NumClasses
      <3>5. CountOK(st)
        BY <1>f, <3>3, <3>4 DEF CountOK
      <3>6. WithinNext(st)
        BY <3>2, <3>3 DEF WithinNext
      <3> QED
        BY <1>f, <3>2, <3>5, <3>6, CountStep
    <2>7. CASE UsedBytesStep(t)
      BY <2>7, UsedBytesStepCounts
    <2>8. CASE Return(t)
      BY <2>i, <2>1, <2>8 DEF Return
    <2> QED
      BY <1>2, <2>2, <2>3, <2>4, <2>5, <2>6, <2>7, <2>8 DEF Step
  <1> QED
    BY <1>1, <1>2 DEF Next

(* used_bytes() locks one class after the other while other threads allocate *)
(* and free; the sum it returns is at least the bytes of what was held       *)
(* throughout the call and at most the bytes of all that was held in it.     *)
THEOREM UsedBytesBetween ==
    Spec => []UsedBytesBracketed
  <1>1. Init => CountInv
    <2> SUFFICES ASSUME Init PROVE CountInv
      OBVIOUS
    <2>1. \A t \in Threads : thread[t] = Idle
      BY DEF Init
    <2>2. CountOK(Idle) /\ Within(Idle)
      BY DEF CountOK, Within, Idle
    <2> QED
      BY <2>1, <2>2 DEF CountInv
  <1>2. CountInv => UsedBytesBracketed
    <2> SUFFICES ASSUME CountInv, NEW t \in Threads, thread[t].pc = "counted"
                 PROVE  /\ Bytes(thread[t].sure) <= thread[t].total
                        /\ thread[t].total <= Bytes(thread[t].maybe)
      BY DEF UsedBytesBracketed
    <2>1. CountOK(thread[t])
      BY DEF CountInv
    <2> QED
      BY <2>1 DEF CountOK, Bytes, NumClasses
  <1> QED
    BY <1>1, <1>2, Invariant, CountNext, PTL DEF Spec
=============================================================================
