---------------------------- MODULE LoggerProofs ----------------------------
(***************************************************************************)
(* The theorem about Logger, for every set of clients and number of calls. *)
(***************************************************************************)
EXTENDS Logger, FiniteSetTheorems, TLAPS

(***************************************************************************)
(* The inductive invariant.  Over the counters, what the summary holds and *)
(* what it has told, the outcomes and the gets without one exceed the gets *)
(* by the calls that have only their get left to add.  The summary takes   *)
(* the gets first, so from then on the gets it has taken are covered by    *)
(* the outcomes it has taken and those it is still to take, which can only *)
(* grow.                                                                   *)
(***************************************************************************)
Outs(f) == f["t1_hits"] + f["t2_hits"] + f["misses"]

(* What a client's call may still have to add, at any point of a call *)
Remainders ==
    {<<>>, Miss, Hit("t1_hits"), Hit("t2_hits"), UnreadableGet, Put, PutEvicting, PutRejected,
     <<"gets">>, <<"get_latency_sum_us">>}

(* The clients whose call will add its get next *)
AboutToCount == {c \in Clients : left[c] # <<>> /\ Head(left[c]) = "gets"}

OutcomesFirst ==
    Outs(period_stats) + Outs(taken) + Outs(reported) + failed =
        period_stats["gets"] + taken["gets"] + reported["gets"] + Cardinality(AboutToCount)

(* Nothing is held of the counters that are still to be exchanged.           *)
NotYet(k) == summary.pc = "exchange" /\ summary.i <= k

TakenOK ==
    /\ \A k \in 1 .. Len(ExchangeOrder) : NotYet(k) => taken[ExchangeOrder[k]] = 0
    /\ summary.pc \notin {"exchange", "print"} => taken = Zero

(* What the summary will tell of the counter at place k, if it is taken now  *)
WillTell(k) == IF NotYet(k) THEN period_stats[ExchangeOrder[k]] ELSE taken[ExchangeOrder[k]]

SummaryCovers ==
    summary.pc \in {"exchange", "print"} /\ ~NotYet(1) =>
        reported["gets"] + taken["gets"] <=
            Outs(reported) + WillTell(2) + WillTell(3) + WillTell(4) + failed

Inv ==
    /\ TypeOK
    /\ \A c \in Clients : left[c] \in Remainders
    /\ OutcomesFirst
    /\ TakenOK
    /\ SummaryCovers
    /\ OutcomesCoverGets

-----------------------------------------------------------------------------
LEMMA InitInv == Init => Inv
  <1> SUFFICES ASSUME Init PROVE Inv
    OBVIOUS
  <1>1. TypeOK
    BY LoggerAssumption DEF Init, TypeOK, Zero, Counters, ExchangeOrder
  <1>2. \A c \in Clients : left[c] = <<>>
    BY DEF Init
  <1>3. \A c \in Clients : left[c] \in Remainders
    BY <1>2 DEF Remainders
  <1>4. Cardinality(AboutToCount) = 0
    <2>1. AboutToCount = {}
      BY <1>2 DEF AboutToCount
    <2> QED
      BY <2>1, FS_EmptySet
  <1>5. OutcomesFirst /\ TakenOK /\ SummaryCovers /\ OutcomesCoverGets
    BY <1>4 DEF Init, Zero, Counters, Outs, OutcomesFirst, TakenOK, NotYet, SummaryCovers,
                OutcomesCoverGets, ExchangeOrder
  <1> QED
    BY <1>1, <1>3, <1>5 DEF Inv

(* A client's step moves it into or out of the clients about to count. *)
LEMMA AboutFinite == IsFiniteSet(AboutToCount) /\ Cardinality(AboutToCount) \in Nat
  <1>1. AboutToCount \subseteq Clients
    BY DEF AboutToCount
  <1> QED
    BY <1>1, LoggerAssumption, FS_Subset, FS_CardinalityType

LEMMA AboutChanges ==
    ASSUME TypeOK, NEW c \in Clients, NEW s, left' = [left EXCEPT ![c] = s]
    PROVE  /\ s # <<>> /\ Head(s) = "gets" => AboutToCount' = AboutToCount \cup {c}
           /\ s = <<>> \/ Head(s) # "gets" => AboutToCount' = AboutToCount \ {c}
           /\ c \in AboutToCount <=> left[c] # <<>> /\ Head(left[c]) = "gets"
  BY DEF TypeOK, AboutToCount

(* Numbers *)
LEMMA CountersNat ==
    ASSUME NEW f \in [Counters -> Nat]
    PROVE  /\ Outs(f) \in Nat /\ f["gets"] \in Nat
           /\ f["t1_hits"] \in Nat /\ f["t2_hits"] \in Nat /\ f["misses"] \in Nat
  BY DEF Outs, Counters

LEMMA WillTellNat ==
    ASSUME TypeOK
    PROVE  WillTell(2) \in Nat /\ WillTell(3) \in Nat /\ WillTell(4) \in Nat
  <1>1. ExchangeOrder[2] = "t1_hits" /\ ExchangeOrder[3] = "t2_hits" /\ ExchangeOrder[4] = "misses"
    BY DEF ExchangeOrder
  <1> QED
    BY <1>1 DEF TypeOK, WillTell, Counters

LEMMA RemaindersSeq == Remainders \subseteq Seq(Counters)
  <1>1. <<>> \in Seq(Counters) /\ Miss \in Seq(Counters) /\ UnreadableGet \in Seq(Counters)
    BY DEF Miss, UnreadableGet, Counters
  <1>2. Hit("t1_hits") \in Seq(Counters) /\ Hit("t2_hits") \in Seq(Counters)
    BY DEF Hit, Counters
  <1>3. Put \in Seq(Counters) /\ PutEvicting \in Seq(Counters) /\ PutRejected \in Seq(Counters)
    BY DEF Put, PutEvicting, PutRejected, Counters
  <1>4. <<"gets">> \in Seq(Counters) /\ <<"get_latency_sum_us">> \in Seq(Counters)
    BY DEF Counters
  <1> QED
    BY <1>1, <1>2, <1>3, <1>4 DEF Remainders

LEMMA BeginInv ==
    ASSUME Inv, NEW c \in Clients, Begin(c)
    PROVE  Inv'
  <1> DEFINE Calls == {Miss, Hit("t1_hits"), Hit("t2_hits"), UnreadableGet, Put, PutEvicting,
                       PutRejected}
  <1>1. left[c] = <<>> /\ calls < MaxCalls /\ calls' = calls + 1
    BY DEF Begin
  <1>2. PICK what \in Calls :
          /\ left' = [left EXCEPT ![c] = what]
          /\ failed' = failed + (IF what = UnreadableGet THEN 1 ELSE 0)
    BY DEF Begin
  <1>3. /\ period_stats' = period_stats /\ taken' = taken /\ reported' = reported
        /\ running' = running /\ summary' = summary /\ phase' = phase
    BY DEF Begin
  <1>4. what \in Remainders /\ what \in Seq(Counters)
    BY RemaindersSeq DEF Remainders
  <1>5. what # <<>> /\ (Head(what) = "gets" <=> what = UnreadableGet)
    BY DEF Miss, Hit, UnreadableGet, Put, PutEvicting, PutRejected
  <1> HIDE DEF Calls
  <1>6. TypeOK' /\ \A d \in Clients : left'[d] \in Remainders
    BY <1>1, <1>2, <1>3, <1>4, LoggerAssumption DEF Inv, TypeOK
  <1>7. Cardinality(AboutToCount)' = Cardinality(AboutToCount)
                                      + (IF what = UnreadableGet THEN 1 ELSE 0)
    <2>1. c \notin AboutToCount
      BY <1>1 DEF AboutToCount
    <2>2. CASE what = UnreadableGet
      <3>1. AboutToCount' = AboutToCount \cup {c}
        BY <1>2, <1>5, <2>2, AboutChanges DEF Inv
      <3> QED
        BY <2>1, <2>2, <3>1, AboutFinite, FS_AddElement
    <2>3. CASE what # UnreadableGet
      <3>1. AboutToCount' = AboutToCount
        BY <1>2, <1>5, <2>1, <2>3, AboutChanges DEF Inv
      <3> QED
        BY <2>3, <3>1, AboutFinite
    <2> QED
      BY <2>2, <2>3
  <1>8. failed \in Nat /\ failed' \in Nat /\ failed <= failed'
    BY <1>2 DEF Inv, TypeOK
  <1>9. OutcomesFirst'
    <2> DEFINE p == Outs(period_stats)
    <2> DEFINE n == Cardinality(AboutToCount)
    <2>1. /\ p \in Nat /\ Outs(taken) \in Nat /\ Outs(reported) \in Nat
          /\ period_stats["gets"] \in Nat /\ taken["gets"] \in Nat /\ reported["gets"] \in Nat
          /\ n \in Nat
      BY AboutFinite, CountersNat DEF Inv, TypeOK
    <2>2. p' = p /\ Outs(taken)' = Outs(taken) /\ Outs(reported)' = Outs(reported)
      BY <1>3 DEF Outs
    <2>3. OutcomesFirst
      BY DEF Inv
    <2>4. p' + Outs(taken)' + Outs(reported)' + failed' =
            period_stats'["gets"] + taken'["gets"] + reported'["gets"] + n'
      <3> HIDE DEF p, n
      <3>1. p + Outs(taken) + Outs(reported) + failed =
              period_stats["gets"] + taken["gets"] + reported["gets"] + n
        BY <2>3 DEF p, n, OutcomesFirst
      <3>2. n' = n + (IF what = UnreadableGet THEN 1 ELSE 0)
        BY <1>7 DEF n
      <3> QED
        BY <1>2, <1>3, <1>8, <2>1, <2>2, <3>1, <3>2, SMTT(30)
    <2> QED
      BY <2>4 DEF OutcomesFirst
  <1>10. TakenOK'
    BY <1>3 DEF Inv, TakenOK, NotYet
  <1>11. SummaryCovers'
    <2>1. WillTell(2) \in Nat /\ WillTell(3) \in Nat /\ WillTell(4) \in Nat
          /\ Outs(reported) \in Nat /\ taken["gets"] \in Nat /\ reported["gets"] \in Nat
      BY WillTellNat, CountersNat DEF Inv, TypeOK
    <2>2. WillTell(2)' = WillTell(2) /\ WillTell(3)' = WillTell(3) /\ WillTell(4)' = WillTell(4)
          /\ Outs(reported)' = Outs(reported) /\ NotYet(1)' = NotYet(1)
      BY <1>3 DEF WillTell, NotYet, Outs
    <2> QED
      BY <1>3, <1>8, <2>1, <2>2 DEF Inv, SummaryCovers
  <1>12. OutcomesCoverGets'
    <2>1. reported \in [Counters -> Nat]
      BY DEF Inv, TypeOK
    <2> QED
      BY <1>3, <1>8, <2>1, CountersNat DEF Inv, OutcomesCoverGets
  <1> QED
    BY <1>6, <1>9, <1>10, <1>11, <1>12 DEF Inv

LEMMA Single ==
    ASSUME NEW x
    PROVE  <<x>> # <<>> /\ Head(<<x>>) = x /\ Tail(<<x>>) = <<>>
  OBVIOUS

(* The next addition of a call, and what is left after it *)
LEMMA Heads ==
    ASSUME NEW s \in Remainders, s # <<>>
    PROVE  /\ Head(s) \in Counters /\ Tail(s) \in Remainders
           /\ Head(s) \in {"t1_hits", "t2_hits", "misses"} =>
                 Tail(s) # <<>> /\ Head(Tail(s)) = "gets"
           /\ Head(s) \notin {"t1_hits", "t2_hits", "misses"} =>
                 Tail(s) = <<>> \/ Head(Tail(s)) # "gets"
  <1>1. CASE s = Miss
    <2>1. Head(s) = "misses" /\ Tail(s) = <<"gets">>
      BY <1>1 DEF Miss
    <2>2. Tail(s) # <<>> /\ Head(Tail(s)) = "gets"
      BY <2>1, Single
    <2>3. Tail(s) \in Remainders
      BY <2>1 DEF Remainders
    <2> QED
      BY <2>1, <2>2, <2>3 DEF Counters
  <1>2. ASSUME NEW t \in {"t1_hits", "t2_hits"}, s = Hit(t)
        PROVE  Head(s) = t /\ Tail(s) = UnreadableGet /\ UnreadableGet # <<>>
               /\ Head(UnreadableGet) = "gets"
    BY <1>2 DEF Hit, UnreadableGet
  <1>3. CASE s = UnreadableGet
    <2>1. Head(s) = "gets" /\ Tail(s) = <<"get_latency_sum_us">>
      BY <1>3 DEF UnreadableGet
    <2>2. Head(Tail(s)) # "gets"
      BY <2>1, Single
    <2>3. Tail(s) \in Remainders
      BY <2>1 DEF Remainders
    <2> QED
      BY <2>1, <2>2, <2>3 DEF Counters
  <1>4. CASE s = PutEvicting
    <2>1. Head(s) = "evictions" /\ Tail(s) = Put /\ Head(Put) = "puts"
      BY <1>4 DEF PutEvicting, Put
    <2> QED
      BY <2>1 DEF Counters, Remainders
  <1>5. CASE s \in {Put, PutRejected, <<"gets">>, <<"get_latency_sum_us">>}
    <2>1. Head(s) \in Counters \ {"t1_hits", "t2_hits", "misses"} /\ Tail(s) = <<>>
      <3>1. CASE s = Put
        BY <3>1 DEF Put, Counters
      <3>2. CASE s = PutRejected
        BY <3>2 DEF PutRejected, Counters
      <3>3. CASE s = <<"gets">>
        BY <3>3, Single DEF Counters
      <3>4. CASE s = <<"get_latency_sum_us">>
        BY <3>4, Single DEF Counters
      <3> QED
        BY <1>5, <3>1, <3>2, <3>3, <3>4
    <2> QED
      BY <2>1 DEF Remainders
  <1>6. CASE s \in {Hit("t1_hits"), Hit("t2_hits")}
    BY <1>2, <1>6 DEF Counters, Remainders
  <1> QED
    BY <1>1, <1>3, <1>4, <1>5, <1>6 DEF Remainders

LEMMA AddInv ==
    ASSUME Inv, NEW c \in Clients, Add(c)
    PROVE  Inv'
  <1> DEFINE h == Head(left[c])
  <1>1. /\ left[c] # <<>>
        /\ period_stats' = [period_stats EXCEPT ![h] = @ + 1]
        /\ left' = [left EXCEPT ![c] = Tail(left[c])]
    BY DEF Add, Inv, TypeOK
  <1>2. /\ taken' = taken /\ reported' = reported /\ failed' = failed /\ calls' = calls
        /\ running' = running /\ summary' = summary /\ phase' = phase
    BY DEF Add
  <1>3. left[c] \in Remainders
    BY DEF Inv
  <1>4. /\ h \in Counters /\ Tail(left[c]) \in Remainders
        /\ h \in {"t1_hits", "t2_hits", "misses"} =>
              Tail(left[c]) # <<>> /\ Head(Tail(left[c])) = "gets"
        /\ h \notin {"t1_hits", "t2_hits", "misses"} =>
              Tail(left[c]) = <<>> \/ Head(Tail(left[c])) # "gets"
    BY <1>1, <1>3, Heads
  <1>5. AboutToCount' = IF h \in {"t1_hits", "t2_hits", "misses"} THEN AboutToCount \cup {c}
                        ELSE AboutToCount \ {c}
    BY <1>1, <1>4, AboutChanges DEF Inv
  <1>6. c \in AboutToCount <=> h = "gets"
    BY <1>1 DEF AboutToCount
  <1> HIDE DEF h
  <1>7. period_stats \in [Counters -> Nat] /\ taken \in [Counters -> Nat]
        /\ reported \in [Counters -> Nat] /\ failed \in Nat
    BY DEF Inv, TypeOK
  <1>8. period_stats' = [period_stats EXCEPT ![h] = @ + 1] /\ h \in Counters
    BY <1>1, <1>4
  <1>9. TypeOK' /\ \A d \in Clients : left'[d] \in Remainders
    <2>1. Tail(left[c]) \in Seq(Counters)
      BY <1>4, RemaindersSeq
    <2>2. period_stats' \in [Counters -> Nat]
      BY <1>1, <1>4, <1>7
    <2>3. left' \in [Clients -> Seq(Counters)]
      BY <1>1, <2>1 DEF Inv, TypeOK
    <2>4. \A d \in Clients : left'[d] \in Remainders
      BY <1>1, <1>4 DEF Inv, TypeOK
    <2> QED
      BY <1>2, <2>2, <2>3, <2>4 DEF Inv, TypeOK
  <1>10. OutcomesFirst'
    <2> DEFINE n == Cardinality(AboutToCount)
    <2> DEFINE k == Outs(taken) + Outs(reported) + failed
    <2> DEFINE g == taken["gets"] + reported["gets"]
    <2>1. n \in Nat /\ k \in Nat /\ g \in Nat /\ Outs(period_stats) \in Nat
          /\ period_stats["gets"] \in Nat
      BY <1>7, AboutFinite, CountersNat
    <2>2. Outs(period_stats) + k = period_stats["gets"] + g + n
      <3>1. OutcomesFirst
        BY DEF Inv
      <3>2. Outs(taken) \in Nat /\ Outs(reported) \in Nat /\ taken["gets"] \in Nat
            /\ reported["gets"] \in Nat
        BY <1>7, CountersNat
      <3> QED
        BY <1>7, <2>1, <3>1, <3>2 DEF OutcomesFirst
    <2>3. k' = k /\ g' = g
      BY <1>2 DEF Outs
    <2>4. Outs(period_stats)' = Outs(period_stats)
                                + (IF h \in {"t1_hits", "t2_hits", "misses"} THEN 1 ELSE 0)
      BY <1>7, <1>8 DEF Outs, Counters
    <2>5. period_stats'["gets"] = period_stats["gets"] + (IF h = "gets" THEN 1 ELSE 0)
      BY <1>7, <1>8 DEF Counters
    <2>6. n' = IF h \in {"t1_hits", "t2_hits", "misses"} THEN n + 1
               ELSE IF h = "gets" THEN n - 1 ELSE n
      BY <1>5, <1>6, AboutFinite, FS_AddElement, FS_RemoveElement
    <2>7. Outs(period_stats)' + k' = period_stats'["gets"] + g' + n'
      <3> HIDE DEF n, k, g
      <3> QED
        BY <2>1, <2>2, <2>3, <2>4, <2>5, <2>6
    <2>8. /\ Outs(taken)' \in Nat /\ Outs(reported)' \in Nat /\ taken'["gets"] \in Nat
          /\ reported'["gets"] \in Nat /\ failed' \in Nat /\ Outs(period_stats)' \in Nat
          /\ period_stats'["gets"] \in Nat /\ n' \in Nat
      <3>1. n' \in Nat
        BY <2>1, <2>6, <1>5, <1>6, AboutFinite, FS_EmptySet, FS_RemoveElement, FS_CardinalityType
      <3>2. Outs(taken) \in Nat /\ Outs(reported) \in Nat /\ taken["gets"] \in Nat
            /\ reported["gets"] \in Nat
        BY <1>7, CountersNat
      <3>3. Outs(taken)' = Outs(taken) /\ Outs(reported)' = Outs(reported)
        BY <1>2 DEF Outs
      <3> QED
        BY <1>2, <1>7, <2>1, <2>4, <2>5, <3>1, <3>2, <3>3
    <2> QED
      BY <2>7, <2>8 DEF OutcomesFirst
  <1>11. TakenOK' /\ OutcomesCoverGets'
    BY <1>2 DEF Inv, TakenOK, NotYet, OutcomesCoverGets
  <1>12. SummaryCovers'
    <2>1. \A d \in Counters : period_stats'[d] \in Nat /\ period_stats[d] <= period_stats'[d]
                              /\ period_stats[d] \in Nat
      BY <1>1, <1>4, <1>7
    <2>2. ASSUME NEW j \in {2, 3, 4}
          PROVE  WillTell(j) \in Nat /\ WillTell(j)' \in Nat /\ WillTell(j) <= WillTell(j)'
      <3>1. ExchangeOrder[j] \in Counters
        BY DEF ExchangeOrder, Counters
      <3>2. NotYet(j)' <=> NotYet(j)
        BY <1>2 DEF NotYet
      <3> QED
        BY <1>2, <1>7, <2>1, <3>1, <3>2 DEF WillTell
    <2>3. Outs(reported) \in Nat /\ Outs(reported)' = Outs(reported)
          /\ taken["gets"] \in Nat /\ reported["gets"] \in Nat
      BY <1>2, <1>7, CountersNat DEF Outs
    <2>4. WillTell(2) + WillTell(3) + WillTell(4) <= WillTell(2)' + WillTell(3)' + WillTell(4)'
      BY <2>2
    <2>5. SummaryCovers /\ (NotYet(1)' <=> NotYet(1))
      BY <1>2 DEF Inv, NotYet
    <2> QED
      BY <1>2, <1>7, <2>2, <2>3, <2>4, <2>5 DEF SummaryCovers
  <1> QED
    BY <1>9, <1>10, <1>11, <1>12 DEF Inv

-----------------------------------------------------------------------------
(* What neither the clients nor the counters see *)
LEMMA QuietInv ==
    ASSUME Inv, TypeOK', period_stats' = period_stats, taken' = taken, reported' = reported,
           failed' = failed, left' = left,
           \/ summary' = summary
           \/ /\ summary.pc \notin {"exchange", "print"}
              /\ summary'.pc # "print" /\ summary'.i = 1
    PROVE  Inv'
  <1>1. (\A c \in Clients : left'[c] \in Remainders) /\ OutcomesCoverGets'
    BY DEF Inv, OutcomesCoverGets
  <1>2. OutcomesFirst'
    <2>1. AboutToCount' = AboutToCount
      BY DEF AboutToCount
    <2> QED
      BY <2>1 DEF Inv, OutcomesFirst, Outs
  <1>3. CASE summary' = summary
    BY <1>1, <1>2, <1>3 DEF Inv, TakenOK, SummaryCovers, NotYet, WillTell, Outs
  <1>4. CASE /\ summary.pc \notin {"exchange", "print"}
             /\ summary'.pc # "print" /\ summary'.i = 1
    <2>1. taken' = Zero
      BY <1>4 DEF Inv, TakenOK
    <2>2. \A k \in 1 .. Len(ExchangeOrder) : ExchangeOrder[k] \in Counters
      BY DEF ExchangeOrder, Counters
    <2>3. TakenOK'
      BY <1>4, <2>1, <2>2 DEF TakenOK, NotYet, Zero
    <2>4. SummaryCovers'
      BY <1>4 DEF SummaryCovers, NotYet
    <2> QED
      BY <1>1, <1>2, <2>3, <2>4 DEF Inv
  <1> QED
    BY <1>3, <1>4

LEMMA WaitsInv ==
    ASSUME Inv, Waits, failed' = failed, left' = left, calls' = calls, running' = running,
           phase' = phase
    PROVE  Inv'
  <1>1. PICK to \in {"testing", "exited", "parking", "check", "waiting", "exchange"} :
          /\ summary.pc \notin {"exchange", "print"}
          /\ summary' = [pc |-> to, i |-> 1]
          /\ period_stats' = period_stats /\ taken' = taken /\ reported' = reported
    BY DEF Waits, Goes
  <1>2. summary'.pc = to /\ summary'.i = 1
    BY <1>1
  <1>3. TypeOK'
    BY <1>1 DEF Inv, TypeOK, ExchangeOrder
  <1> QED
    BY <1>1, <1>2, <1>3, QuietInv

(* The totals do not change when a counter is taken, for nothing was held of *)
(* it; the gets are covered from when they are taken.                        *)
LEMMA ExchangeInv ==
    ASSUME Inv, Exchange, failed' = failed, left' = left, calls' = calls, running' = running,
           phase' = phase
    PROVE  Inv'
  <1> DEFINE i == summary.i
  <1> DEFINE c == ExchangeOrder[i]
  <1>1. /\ summary.pc = "exchange" /\ reported' = reported
        /\ taken' = [taken EXCEPT ![c] = period_stats[c]]
        /\ period_stats' = [period_stats EXCEPT ![c] = 0]
        /\ TakesNext
    BY DEF Exchange
  <1>2. /\ Len(ExchangeOrder) = 8
        /\ ExchangeOrder[1] = "gets" /\ ExchangeOrder[2] = "t1_hits" /\ ExchangeOrder[3] = "t2_hits"
        /\ ExchangeOrder[4] = "misses" /\ ExchangeOrder[5] = "puts"
        /\ ExchangeOrder[6] = "puts_rejected" /\ ExchangeOrder[7] = "evictions"
        /\ ExchangeOrder[8] = "get_latency_sum_us"
    BY DEF ExchangeOrder
  <1>3. i \in 1 .. 8 /\ period_stats \in [Counters -> Nat] /\ taken \in [Counters -> Nat]
        /\ reported \in [Counters -> Nat] /\ failed \in Nat
    BY <1>2 DEF Inv, TypeOK
  <1>4. c \in Counters /\ \A k \in 1 .. 8 : ExchangeOrder[k] = c <=> k = i
    BY <1>2, <1>3 DEF Counters
  <1>5. /\ i = 8 => summary' = [pc |-> "print", i |-> 1]
        /\ i # 8 => summary' = [pc |-> "exchange", i |-> i + 1]
    BY <1>1, <1>2 DEF TakesNext, Inv, TypeOK
  <1>6. \A k \in 1 .. 8 : (NotYet(k) <=> i <= k) /\ (NotYet(k)' <=> i + 1 <= k)
    <2>1. CASE i = 8
      BY <1>1, <1>3, <1>5, <2>1 DEF NotYet
    <2>2. CASE i # 8
      BY <1>1, <1>3, <1>5, <2>2 DEF NotYet
    <2> QED
      BY <2>1, <2>2
  <1>7. \A k \in 1 .. 8 : i <= k => taken[ExchangeOrder[k]] = 0
    BY <1>2, <1>6 DEF Inv, TakenOK
  <1>8. TypeOK'
    <2>1. taken' \in [Counters -> Nat] /\ period_stats' \in [Counters -> Nat]
      BY <1>1, <1>3, <1>4
    <2>2. summary' \in [pc : {"exchange", "print"}, i : 1 .. Len(ExchangeOrder)]
      BY <1>2, <1>3, <1>5
    <2> QED
      BY <1>1, <2>1, <2>2 DEF Inv, TypeOK
  <1>9. TakenOK'
    <2>1. ASSUME NEW k \in 1 .. 8, NotYet(k)' PROVE taken'[ExchangeOrder[k]] = 0
      <3>1. i <= k /\ k # i
        BY <1>3, <1>6, <2>1
      <3> QED
        BY <1>1, <1>2, <1>3, <1>4, <1>7, <3>1
    <2>2. summary'.pc \in {"exchange", "print"}
      BY <1>5
    <2> QED
      BY <1>2, <2>1, <2>2 DEF TakenOK
  <1>10. \A d \in Counters : period_stats'[d] + taken'[d] = period_stats[d] + taken[d]
                             /\ period_stats'[d] \in Nat /\ taken'[d] \in Nat
                             /\ period_stats[d] \in Nat /\ taken[d] \in Nat /\ reported[d] \in Nat
    <2>1. taken[c] = 0
      BY <1>3, <1>7
    <2> QED
      BY <1>1, <1>3, <1>4, <2>1
  <1>11. OutcomesFirst'
    <2>1. AboutToCount' = AboutToCount
      BY DEF AboutToCount
    <2>2. {"t1_hits", "t2_hits", "misses", "gets"} \subseteq Counters
      BY DEF Counters
    <2>3. /\ Outs(period_stats)' + Outs(taken)' = Outs(period_stats) + Outs(taken)
          /\ Outs(reported)' = Outs(reported)
          /\ Outs(period_stats)' \in Nat /\ Outs(taken)' \in Nat /\ Outs(period_stats) \in Nat
          /\ Outs(taken) \in Nat /\ Outs(reported) \in Nat
      <3>1. \A d \in {"t1_hits", "t2_hits", "misses"} :
              period_stats'[d] + taken'[d] = period_stats[d] + taken[d]
              /\ period_stats'[d] \in Nat /\ taken'[d] \in Nat
              /\ period_stats[d] \in Nat /\ taken[d] \in Nat /\ reported[d] \in Nat
        BY <1>10, <2>2
      <3>2. Outs(reported)' = Outs(reported)
        BY <1>1 DEF Outs
      <3>3. period_stats' \in [Counters -> Nat] /\ taken' \in [Counters -> Nat]
        BY <1>8 DEF TypeOK
      <3>4. Outs(period_stats') \in Nat /\ Outs(taken') \in Nat
        BY <3>3, CountersNat
      <3>5. Outs(period_stats) \in Nat /\ Outs(taken) \in Nat /\ Outs(reported) \in Nat
        BY <1>3, CountersNat
      <3>6. Outs(period_stats') + Outs(taken') = Outs(period_stats) + Outs(taken)
        BY <3>1 DEF Outs
      <3>7. Outs(period_stats)' = Outs(period_stats') /\ Outs(taken)' = Outs(taken')
        BY DEF Outs
      <3> QED
        BY <3>2, <3>4, <3>5, <3>6, <3>7
    <2>4. period_stats'["gets"] + taken'["gets"] = period_stats["gets"] + taken["gets"]
          /\ period_stats'["gets"] \in Nat /\ taken'["gets"] \in Nat
          /\ period_stats["gets"] \in Nat /\ taken["gets"] \in Nat /\ reported["gets"] \in Nat
      BY <1>10, <2>2
    <2>5. OutcomesFirst /\ Cardinality(AboutToCount) \in Nat
      BY AboutFinite DEF Inv
    <2> QED
      BY <1>1, <1>3, <2>1, <2>3, <2>4, <2>5 DEF OutcomesFirst
  <1>12. SummaryCovers'
    <2>1. {"t1_hits", "t2_hits", "misses", "gets"} \subseteq Counters
      BY DEF Counters
    <2>2. CASE i = 1
      <3>1. /\ WillTell(2)' = period_stats["t1_hits"] /\ WillTell(3)' = period_stats["t2_hits"]
            /\ WillTell(4)' = period_stats["misses"]
        BY <1>1, <1>2, <1>3, <1>4, <1>6, <2>1, <2>2 DEF WillTell
      <3>2. taken["gets"] = 0 /\ Outs(taken) = 0 /\ taken'["gets"] = period_stats["gets"]
        BY <1>1, <1>2, <1>3, <1>7, <2>1, <2>2 DEF Outs
      <3>3. OutcomesFirst /\ Cardinality(AboutToCount) \in Nat
        BY AboutFinite DEF Inv
      <3>4. Outs(reported)' = Outs(reported) /\ Outs(reported) \in Nat
        BY <1>1, <1>3, CountersNat DEF Outs
      <3>5. Outs(period_stats) = WillTell(2)' + WillTell(3)' + WillTell(4)'
        BY <3>1 DEF Outs
      <3>6. period_stats["gets"] + reported["gets"] <= Outs(period_stats) + Outs(reported) + failed
        BY <1>3, <1>10, <2>1, <3>2, <3>3, <3>4, CountersNat DEF OutcomesFirst
      <3>7. /\ WillTell(2)' \in Nat /\ WillTell(3)' \in Nat /\ WillTell(4)' \in Nat
            /\ period_stats["gets"] \in Nat /\ reported["gets"] \in Nat
        BY <1>10, <2>1, <3>1
      <3> QED
        BY <1>1, <1>3, <3>2, <3>4, <3>5, <3>6, <3>7 DEF SummaryCovers
    <2>3. CASE i # 1
      <3>1. ASSUME NEW k \in {2, 3, 4} PROVE WillTell(k)' = WillTell(k)
        <4>1. k \in 1 .. 8 /\ ExchangeOrder[k] \in Counters
          BY <1>2, <2>1
        <4>2. CASE k < i
          BY <1>1, <1>3, <1>4, <1>6, <4>1, <4>2 DEF WillTell
        <4>3. CASE k = i
          BY <1>1, <1>3, <1>4, <1>6, <4>1, <4>3 DEF WillTell
        <4>4. CASE k > i
          BY <1>1, <1>3, <1>4, <1>6, <4>1, <4>4 DEF WillTell
        <4> QED
          BY <1>3, <4>1, <4>2, <4>3, <4>4
      <3>2. taken'["gets"] = taken["gets"]
        BY <1>1, <1>2, <1>3, <1>4, <2>1, <2>3
      <3>3. ~NotYet(1) /\ SummaryCovers
        BY <1>3, <1>6, <2>3 DEF Inv
      <3>4. Outs(reported)' = Outs(reported)
        BY <1>1 DEF Outs
      <3> QED
        BY <1>1, <3>1, <3>2, <3>3, <3>4 DEF SummaryCovers
    <2> QED
      BY <2>2, <2>3
  <1>13. OutcomesCoverGets' /\ \A d \in Clients : left'[d] \in Remainders
    BY <1>1 DEF Inv, OutcomesCoverGets
  <1> QED
    BY <1>8, <1>9, <1>11, <1>12, <1>13 DEF Inv

LEMMA ReportInv ==
    ASSUME Inv, Report, failed' = failed, left' = left, calls' = calls, running' = running,
           phase' = phase
    PROVE  Inv'
  <1>1. /\ summary.pc = "print" /\ reported' = Plus(reported, taken) /\ taken' = Zero
        /\ summary' = [pc |-> "loop", i |-> 1] /\ period_stats' = period_stats
    BY DEF Report
  <1>2. period_stats \in [Counters -> Nat] /\ taken \in [Counters -> Nat]
        /\ reported \in [Counters -> Nat] /\ failed \in Nat
    BY DEF Inv, TypeOK
  <1>3. \A d \in Counters : reported'[d] = reported[d] + taken[d] /\ taken'[d] = 0
    BY <1>1 DEF Plus, Zero
  <1>4. TypeOK'
    <2>1. reported' \in [Counters -> Nat] /\ taken' \in [Counters -> Nat]
      BY <1>1, <1>2 DEF Plus, Zero
    <2>2. summary' \in [pc : {"loop"}, i : 1 .. Len(ExchangeOrder)]
      BY <1>1 DEF ExchangeOrder
    <2> QED
      BY <1>1, <2>1, <2>2 DEF Inv, TypeOK
  <1>5. /\ Outs(reported)' = Outs(reported) + Outs(taken) /\ Outs(taken)' = 0
        /\ reported'["gets"] = reported["gets"] + taken["gets"] /\ taken'["gets"] = 0
    BY <1>2, <1>3 DEF Outs, Counters
  <1>6. /\ Outs(reported) \in Nat /\ Outs(taken) \in Nat /\ Outs(period_stats) \in Nat
        /\ reported["gets"] \in Nat /\ taken["gets"] \in Nat /\ period_stats["gets"] \in Nat
    BY <1>2, CountersNat
  <1>7. OutcomesFirst'
    <2>1. AboutToCount' = AboutToCount /\ Outs(period_stats)' = Outs(period_stats)
      BY <1>1 DEF AboutToCount, Outs
    <2>2. OutcomesFirst /\ Cardinality(AboutToCount) \in Nat
      BY AboutFinite DEF Inv
    <2> QED
      BY <1>1, <1>2, <1>5, <1>6, <2>1, <2>2 DEF OutcomesFirst
  <1>8. TakenOK' /\ SummaryCovers'
    BY <1>1 DEF TakenOK, SummaryCovers, NotYet
  <1>9. OutcomesCoverGets'
    <2>1. reported["gets"] + taken["gets"] <= Outs(reported) + Outs(taken) + failed
      <3>1. WillTell(2) = taken["t1_hits"] /\ WillTell(3) = taken["t2_hits"]
            /\ WillTell(4) = taken["misses"] /\ ~NotYet(1)
        BY <1>1 DEF WillTell, NotYet, ExchangeOrder
      <3>2. SummaryCovers /\ taken["t1_hits"] \in Nat /\ taken["t2_hits"] \in Nat
            /\ taken["misses"] \in Nat
        BY <1>2, CountersNat DEF Inv
      <3>3. Outs(taken) = taken["t1_hits"] + taken["t2_hits"] + taken["misses"]
        BY DEF Outs
      <3> QED
        BY <1>1, <1>2, <1>6, <3>1, <3>2, <3>3 DEF SummaryCovers
    <2>2. reported'["gets"] <= Outs(reported)' + failed'
      BY <1>2, <1>5, <1>6, <2>1
    <2> QED
      BY <2>2 DEF Outs, OutcomesCoverGets
  <1> QED
    BY <1>4, <1>7, <1>8, <1>9 DEF Inv

LEMMA NextInv == Inv /\ [Next]_vars => Inv'
  <1> SUFFICES ASSUME Inv, [Next]_vars PROVE Inv'
    OBVIOUS
  <1>1. ASSUME NEW c \in Clients, Begin(c) \/ Add(c) PROVE Inv'
    BY <1>1, BeginInv, AddInv
  <1>2. CASE SummaryStep
    BY <1>2, WaitsInv, ExchangeInv, ReportInv DEF SummaryStep
  <1>3. CASE Stop \/ Join \/ UNCHANGED vars
    <2>1. TypeOK'
      BY <1>3 DEF Stop, Join, vars, Inv, TypeOK
    <2>2. /\ period_stats' = period_stats /\ taken' = taken /\ reported' = reported
          /\ failed' = failed /\ left' = left /\ summary' = summary
      BY <1>3 DEF Stop, Join, vars
    <2> QED
      BY <2>1, <2>2, QuietInv
  <1>4. CASE Notify
    <2>1. /\ period_stats' = period_stats /\ taken' = taken /\ reported' = reported
          /\ failed' = failed /\ left' = left /\ calls' = calls /\ running' = running
          /\ phase' = "joining"
      BY <1>4 DEF Notify
    <2>2. CASE summary.pc # "waiting"
      <3>1. summary' = summary
        BY <1>4, <2>2 DEF Notify
      <3>2. TypeOK'
        BY <2>1, <3>1 DEF Inv, TypeOK
      <3> QED
        BY <2>1, <3>1, <3>2, QuietInv
    <2>3. CASE summary.pc = "waiting"
      <3>1. summary' = [summary EXCEPT !.pc = "check"]
        BY <1>4, <2>3 DEF Notify
      <3>2. TypeOK'
        BY <2>1, <3>1 DEF Inv, TypeOK
      <3>3. summary'.pc = "check" /\ summary'.i = summary.i
        BY <3>1 DEF Inv, TypeOK
      <3>4. /\ (\A c \in Clients : left'[c] \in Remainders) /\ OutcomesCoverGets'
        BY <2>1 DEF Inv, OutcomesCoverGets
      <3>5. AboutToCount' = AboutToCount
        BY <2>1 DEF AboutToCount
      <3>6. OutcomesFirst'
        BY <2>1, <3>5 DEF Inv, OutcomesFirst, Outs
      <3>7. TakenOK' /\ SummaryCovers'
        BY <2>1, <2>3, <3>3 DEF Inv, TakenOK, SummaryCovers, NotYet
      <3> QED
        BY <3>2, <3>4, <3>6, <3>7 DEF Inv
    <2> QED
      BY <2>2, <2>3
  <1> QED
    BY <1>1, <1>2, <1>3, <1>4 DEF Next

(* Taken together, the summaries of periodic_summary_fn() so far never tell  *)
(* of more gets than of outcomes and of gets that could not read their       *)
(* entry, however the additions of any number of clients fall between its    *)
(* exchanges.                                                                *)
THEOREM Covers == Spec => []OutcomesCoverGets
  <1>1. Inv => OutcomesCoverGets
    BY DEF Inv
  <1> QED
    BY <1>1, InitInv, NextInv, PTL DEF Spec

=============================================================================
