-------------------------------- MODULE Logger --------------------------------
(***************************************************************************)
(* The periodic summary: logging/logger.cpp, with the counters that the    *)
(* engine's calls add to.                                                  *)
(*                                                                         *)
(* A call adds to its counters one after the other, and the summary thread *)
(* takes each of them with an exchange of its own: what it reports is no   *)
(* snapshot.  stop() tells the thread to end and joins it.                 *)
(*                                                                         *)
(* The additions are relaxed atomics; they are taken to become visible in  *)
(* the order of the code, as locked instructions do on x86-64.  The        *)
(* latency of a get is one unit; the maximum is left out, the code keeping *)
(* it approximate on purpose.                                              *)
(***************************************************************************)
EXTENDS Integers, Sequences, FiniteSets

CONSTANTS
    Clients,
    MaxCalls       \* bound: calls of the engine

ASSUME LoggerAssumption == IsFiniteSet(Clients) /\ MaxCalls \in Nat

VARIABLES
    period_stats,  \* the counters
    taken,         \* what the summary has exchanged so far
    reported,      \* history: the sums of all summaries
    failed,        \* history: gets that found an entry and could not read it
    left,          \* what each client's call has still to add
    calls,
    running,
    summary,       \* the summary thread
    phase          \* of stop()

vars == <<period_stats, taken, reported, failed, left, calls, running, summary, phase>>

Counters == {"gets", "t1_hits", "t2_hits", "misses", "puts", "puts_rejected", "evictions",
             "get_latency_sum_us"}

Zero == [c \in Counters |-> 0]
Plus(f, g) == [c \in Counters |-> f[c] + g[c]]

(* The exchanges with the hits before the gets *)
HitsFirst == <<"t1_hits", "t2_hits", "misses", "gets", "puts", "puts_rejected", "evictions",
               "get_latency_sum_us">>

(* The order of the exchanges in periodic_summary_fn()                       *)
ExchangeOrder == <<"gets", "t1_hits", "t2_hits", "misses", "puts", "puts_rejected",
                   "evictions", "get_latency_sum_us">>

TypeOK ==
    /\ period_stats \in [Counters -> Nat] /\ taken \in [Counters -> Nat]
    /\ reported \in [Counters -> Nat]
    /\ failed \in Nat
    /\ left \in [Clients -> Seq(Counters)]
    /\ calls \in 0 .. MaxCalls
    /\ running \in BOOLEAN
    /\ summary \in [pc : {"loop", "testing", "parking", "waiting", "check", "exchange", "print",
                           "exited"}, i : 1 .. Len(ExchangeOrder)]
    /\ phase \in {"open", "stopping", "joining", "stopped"}

Init ==
    /\ period_stats = Zero /\ taken = Zero /\ reported = Zero
    /\ failed = 0
    /\ left = [c \in Clients |-> <<>>]
    /\ calls = 0
    /\ running = TRUE
    /\ summary = [pc |-> "loop", i |-> 1]
    /\ phase = "open"

-----------------------------------------------------------------------------
(* What the engine's calls add, in the order of the code *)

Miss == <<"misses", "gets">>
Hit(tier) == <<tier, "gets", "get_latency_sum_us">>
UnreadableGet == <<"gets", "get_latency_sum_us">>
Put == <<"puts">>
PutEvicting == <<"evictions", "puts">>
PutRejected == <<"puts_rejected">>

Begin(c) ==
    /\ phase = "open"
    /\ left[c] = <<>>
    /\ calls < MaxCalls
    /\ calls' = calls + 1
    /\ \E what \in {Miss, Hit("t1_hits"), Hit("t2_hits"), UnreadableGet, Put,
                    PutEvicting, PutRejected} :
          /\ left' = [left EXCEPT ![c] = what]
          /\ failed' = failed + (IF what = UnreadableGet THEN 1 ELSE 0)
    /\ UNCHANGED <<period_stats, taken, reported, running, summary, phase>>

(* fetch_add *)
Add(c) ==
    /\ left[c] # <<>>
    /\ period_stats' = [period_stats EXCEPT ![Head(left[c])] = @ + 1]
    /\ left' = [left EXCEPT ![c] = Tail(@)]
    /\ UNCHANGED <<taken, reported, failed, calls, running, summary, phase>>

-----------------------------------------------------------------------------
(* periodic_summary_fn() *)

NoTimeout == FALSE    \* a wait that only a notification ends

Timeout == TRUE       \* wait_for() comes back when the interval is over

Goes(from, to) ==
    /\ summary.pc = from
    /\ summary' = [pc |-> to, i |-> 1]
    /\ UNCHANGED <<period_stats, taken, reported>>

(* The loop's test; the wait's predicate; the test after the wait *)
Waits ==
    \/ Goes("loop", IF running THEN "testing" ELSE "exited")
    \/ Goes("testing", IF running THEN "parking" ELSE "check")
    \/ Goes("parking", "waiting")
    \/ Timeout /\ Goes("waiting", "check")
    \/ Goes("check", IF running THEN "exchange" ELSE "exited")

TakesNext == summary' = IF summary.i = Len(ExchangeOrder) THEN [pc |-> "print", i |-> 1]
                        ELSE [summary EXCEPT !.i = @ + 1]

Exchange ==
    LET c == ExchangeOrder[summary.i]
    IN  /\ summary.pc = "exchange"
        /\ taken' = [taken EXCEPT ![c] = period_stats[c]]
        /\ period_stats' = [period_stats EXCEPT ![c] = 0]
        /\ TakesNext
        /\ UNCHANGED reported

Report ==
    /\ summary.pc = "print"
    /\ reported' = Plus(reported, taken)
    /\ taken' = Zero
    /\ summary' = [pc |-> "loop", i |-> 1]
    /\ UNCHANGED period_stats

SummaryStep ==
    /\ Waits \/ Exchange \/ Report
    /\ UNCHANGED <<failed, left, calls, running, phase>>

-----------------------------------------------------------------------------
(* stop(), from close() of the engine when no call is under way.  The        *)
(* notification is sent without stop_mu_ and reaches only a waiting thread.  *)

Stop ==
    /\ phase = "open"
    /\ \A c \in Clients : left[c] = <<>>
    /\ running' = FALSE
    /\ phase' = "stopping"
    /\ UNCHANGED <<period_stats, taken, reported, failed, left, calls, summary>>

Notify ==
    /\ phase = "stopping"
    /\ phase' = "joining"
    /\ summary' = IF summary.pc = "waiting" THEN [summary EXCEPT !.pc = "check"] ELSE summary
    /\ UNCHANGED <<period_stats, taken, reported, failed, left, calls, running>>

Join ==
    /\ phase = "joining" /\ summary.pc = "exited"
    /\ phase' = "stopped"
    /\ UNCHANGED <<period_stats, taken, reported, failed, left, calls, running, summary>>

Next ==
    \/ \E c \in Clients : Begin(c) \/ Add(c)
    \/ SummaryStep
    \/ Stop \/ Notify \/ Join

Spec == Init /\ [][Next]_vars

(* Threads run, the interval goes by, and a stop() that has begun goes on.   *)
FairSpec ==
    /\ Spec
    /\ \A c \in Clients : WF_vars(Add(c))
    /\ WF_vars(SummaryStep) /\ WF_vars(Notify) /\ WF_vars(Join)

-----------------------------------------------------------------------------
(* Properties *)

(* The summaries have told the outcome of every get they have told of: the   *)
(* gets are taken before the hits and misses, which a call adds first, so    *)
(* the rates never lag behind the gets.  A get that could not read its entry *)
(* has no outcome.                                                           *)
OutcomesCoverGets ==
    reported["gets"] <= reported["t1_hits"] + reported["t2_hits"] + reported["misses"] + failed

(* stop() returns, though its notification may reach nobody.                 *)
SummaryStops == phase = "stopping" ~> phase = "stopped"
=============================================================================
