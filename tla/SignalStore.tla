---------------------------- MODULE SignalStore ----------------------------
(***************************************************************************)
(* The numbers and the age of a routing signal.  The probe worker reads    *)
(* the signals of a round, waits for all probes of the round, smooths each *)
(* result with what it had read and stores it with a TTL; then it sleeps.  *)
(* ProbePipeline follows the events of a round, this module its clock and  *)
(* its arithmetic.                                                         *)
(*                                                                         *)
(* Time passes in ticks, while the worker sleeps or waits for probes.      *)
(* Times in milliseconds, rates in 1/10000.  throughput_hint_qps, which    *)
(* is smoothed like the others, is left out.                               *)
(***************************************************************************)
EXTENDS Naturals, Sequences, FiniteSetsExt

CONSTANTS
    Targets,     \* build_probe_targets: model_ids in catalog order
    ResultsOf,   \* ResultsOf[m]: what a probe of m may find: [success, ttfb_ms]
    None,        \* no signal
    Interval,    \* PROBE_INTERVAL_SECONDS
    MaxProbe,    \* the longest a probe takes: its timeouts bound each wait for a chunk
    Ttl,         \* ttl_seconds of set_signal
    Freshness,   \* SIGNAL_FRESHNESS_SECONDS
    MaxRounds,   \* bound on probe rounds
    MaxFaults    \* bound on rounds that fail

Models == {Targets[i] : i \in 1..Len(Targets)}
NoChunk == 9999  \* ttfb_ms of a probe that received nothing; a late first chunk may exceed it

ASSUME TimesAssumption ==
    Interval \in Nat \ {0} /\ MaxProbe \in Nat /\ Ttl \in Nat \ {0} /\ Freshness \in Nat

\* A probe ends within MaxProbe, so there are finitely many things it may find.
ASSUME ResultsAssumption ==
    \A m \in Models : ResultsOf[m] \subseteq [success : BOOLEAN, ttfb_ms : Nat] /\ IsFiniteSet(ResultsOf[m])

\* The part of a stored signal that is smoothed, and the signal with its clocks.
Values == [p50 : Nat, p95 : Nat, success_rate : Nat]
Signals == [values : Values, age : Nat, ttl : Nat \ {0}]

ASSUME NoneAssumption == None \notin Signals

VARIABLES
    phase,     \* of the worker: "sleep", "probe", "store"
    timer,     \* ticks since the phase began
    existing,  \* the signals read at the start of the round
    results,   \* results[m]: the finished probe of m in this round, with its age
    signals,   \* Redis routing-signal:<m>, with the age of last_probe_at and the TTL left
    seen,      \* history: the results that made the stored signal of m
    streak,    \* history: successes below NoChunk since the last other result in seen[m]
    skipped,   \* history: skipped[m]: rounds that failed since m was last stored
    rounds, faults

vars == <<phase, timer, existing, results, signals, seen, streak, skipped, rounds, faults>>

Init ==
    /\ phase = "sleep" /\ timer = Interval
    /\ existing = [m \in Models |-> None]
    /\ results = [m \in Models |-> None]
    /\ signals = [m \in Models |-> None]
    /\ seen = [m \in Models |-> {}]
    /\ streak = [m \in Models |-> 0]
    /\ skipped = [m \in Models |-> 0]
    /\ rounds = 0 /\ faults = 0

-----------------------------------------------------------------------------
(* Arithmetic.  int() of a float that should be a whole number may be one   *)
(* less, and a float that should lie half way rounds either way.           *)

Truncated(x, n) == {x \div n} \cup (IF x % n = 0 /\ x > 0 THEN {x \div n - 1} ELSE {})
Rounded(x, n) == {(x + n \div 2) \div n} \cup {(x + (n - 1) \div 2) \div n}

\* probe_model: the p95 of a single probe is made up from its only sample.
P95Of(r) == IF r.ttfb_ms < NoChunk THEN Truncated(115 * r.ttfb_ms, 100) ELSE {NoChunk}
RateOf(r) == IF r.success THEN 10000 ELSE 0

WrongWeighted(prev, new) == 9 * prev + 1 * new

Weighted(prev, new) == 7 * prev + 3 * new

WrongSmoothedP95(prev, new) == Min({(6 * prev) \div 10, (4 * new) \div 10})

SmoothedP95(prev, new) == Max({(6 * prev) \div 10, (4 * new) \div 10})

\* smooth_and_store_signal: the values a signal may get.
Smoothed(previous, r) ==
    UNION {LET prev == IF previous = None
                       THEN [p50 |-> r.ttfb_ms, p95 |-> p95, success_rate |-> RateOf(r)]
                       ELSE previous
           IN [p50 : Truncated(Weighted(prev.p50, r.ttfb_ms), 10),
               p95 : {SmoothedP95(prev.p95, p95)},
               success_rate : Rounded(Weighted(prev.success_rate, RateOf(r)), 10)] :
           p95 \in P95Of(r)}

-----------------------------------------------------------------------------
(* The worker *)

\* A round begins: get_snapshot, build_probe_targets, get_signals.
Wake ==
    /\ phase = "sleep" /\ timer = Interval
    /\ rounds < MaxRounds /\ rounds' = rounds + 1
    /\ phase' = "probe" /\ timer' = 0
    /\ existing' = [m \in Models |-> IF signals[m] = None THEN None ELSE signals[m].values]
    /\ UNCHANGED <<results, signals, seen, streak, skipped, faults>>

\* probe_model returns; it never raises.
FinishProbe(m) ==
    /\ phase = "probe" /\ results[m] = None
    /\ \E r \in ResultsOf[m] : results' = [results EXCEPT ![m] = [result |-> r, age |-> 0]]
    /\ UNCHANGED <<phase, timer, existing, signals, seen, streak, skipped, rounds, faults>>

\* asyncio.gather returns when the slowest probe has ended.
Gathered == \A m \in Models : results[m] # None

Gather ==
    /\ phase = "probe" /\ Gathered
    /\ phase' = "store"
    /\ UNCHANGED <<timer, existing, results, signals, seen, streak, skipped, rounds, faults>>

\* The worker sleeps; what is left of the round is dropped.
GoToSleep(ticks) ==
    /\ phase' = "sleep" /\ timer' = ticks
    /\ existing' = [m \in Models |-> None]
    /\ results' = [m \in Models |-> None]

WrongStored(r) == r.success

\* Every result is stored, that of a failed probe too.
Stored(r) == TRUE

\* set_signal of the next result, in target order.
Store(m) ==
    LET r == results[m].result IN
    /\ phase = "store" /\ results[m] # None
    /\ \E i \in 1..Len(Targets) : Targets[i] = m /\ \A j \in 1..(i - 1) : results[Targets[j]] = None
    /\ \E values \in Smoothed(existing[m], r) :
          signals' = IF Stored(r)
                     THEN [signals EXCEPT ![m] = [values |-> values, age |-> results[m].age, ttl |-> Ttl]]
                     ELSE signals
    /\ seen' = [seen EXCEPT ![m] = IF existing[m] = None THEN {r} ELSE @ \cup {r}]
    /\ streak' = [streak EXCEPT ![m] = IF r.success /\ r.ttfb_ms < NoChunk THEN @ + 1 ELSE 0]
    /\ skipped' = [skipped EXCEPT ![m] = 0]
    /\ IF \A n \in Models \ {m} : results[n] = None
       THEN GoToSleep(0)
       ELSE results' = [results EXCEPT ![m] = None] /\ UNCHANGED <<phase, timer, existing>>
    /\ UNCHANGED <<rounds, faults>>

\* An exception ends the round (Redis, the catalog file), or the worker
\* restarts and begins its next round at once.
RoundFails ==
    /\ phase # "sleep"
    /\ faults < MaxFaults /\ faults' = faults + 1
    /\ \E ticks \in {0, Interval} : GoToSleep(ticks)
    /\ skipped' = [m \in Models |-> IF phase = "store" /\ results[m] = None THEN skipped[m] ELSE skipped[m] + 1]
    /\ UNCHANGED <<signals, seen, streak, rounds>>

RunsOut(s) == s.ttl = 1

\* Time passes in the worker's sleep and while a probe is under way; Redis
\* removes the signals whose TTL has run out.
Tick ==
    /\ \/ phase = "sleep" /\ timer < Interval
       \/ phase = "probe" /\ timer < MaxProbe /\ ~Gathered
    /\ timer' = timer + 1
    /\ results' = [m \in Models |-> IF results[m] = None THEN None ELSE [results[m] EXCEPT !.age = @ + 1]]
    /\ signals' = [m \in Models |-> IF signals[m] = None \/ RunsOut(signals[m]) THEN None
                                    ELSE [signals[m] EXCEPT !.age = @ + 1, !.ttl = @ - 1]]
    /\ UNCHANGED <<phase, existing, seen, streak, skipped, rounds, faults>>

Next ==
    \/ Wake \/ Gather \/ RoundFails \/ Tick
    \/ \E m \in Models : FinishProbe(m) \/ Store(m)

Spec == Init /\ [][Next]_vars

-----------------------------------------------------------------------------
(* What readers see *)

IsFresh(m) == signals[m] # None /\ signals[m].age <= Freshness

\* has_fresh_signals, which ready_health reports: any one of them will do.
HasFreshSignals == \E m \in Models : IsFresh(m)

-----------------------------------------------------------------------------
(* Properties *)

RoundTime == Interval + MaxProbe

\* A stored signal is never older than the rounds that failed explain: one
\* round, its own wait for the slowest probe, and a round more for every one
\* that failed.  It vanishes only when the failed rounds outlast its TTL,
\* and readiness is lost only when that age exceeds the freshness limit.
SignalsStayFresh ==
    \A m \in Models : seen[m] # {} =>
       LET oldest == (skipped[m] + 1) * RoundTime + MaxProbe
       IN /\ signals[m] # None => signals[m].age <= oldest
          /\ signals[m] = None => (skipped[m] + 1) * RoundTime >= Ttl
          /\ oldest <= Freshness /\ oldest < Ttl => HasFreshSignals

Ttfbs(m) == {r.ttfb_ms : r \in seen[m]}

\* Smoothing stays within what was measured since the signal last expired: the
\* p50 between the fastest and the slowest probe (one millisecond less, from
\* int()), the p95 between 0.4 of the fastest and the slowest p95.  It is not
\* an upper percentile: 0.6 of the first sample is stored at once.
SmoothedWithinSeen ==
    \A m \in Models : signals[m] # None =>
       LET v == signals[m].values
           fastest == Min(Ttfbs(m))
           slowest == Max(Ttfbs(m))
           reported == {IF t < NoChunk THEN (115 * t) \div 100 ELSE NoChunk : t \in Ttfbs(m)}
       IN /\ fastest <= v.p50 + 1 /\ v.p50 <= slowest
          /\ (4 * Min({fastest, NoChunk})) \div 10 <= v.p95 /\ v.p95 <= Max(reported)

\* The slowest success below NoChunk that a probe of m may find, and the slowest result.
Slowest(m) == Max({r.ttfb_ms : r \in {r \in ResultsOf[m] : r.success /\ r.ttfb_ms < NoChunk}})
Worst(m) == Max({r.ttfb_ms : r \in ResultsOf[m]})

\* A model that recovers is believed at a known pace: n successes in a row
\* leave at most 0.7^n of the distance that a failure, or a first chunk later
\* than NoChunk, had put between its p50 and its slowest success, and the like
\* of its success rate.
RecoveryIsGeometric ==
    \A m \in Models : signals[m] # None /\ streak[m] \in 1..4 =>
       LET n == streak[m]
           v == signals[m].values
       IN /\ v.p50 > Slowest(m) => (v.p50 - Slowest(m)) * 10^n <= (Worst(m) - Slowest(m)) * 7^n
          /\ (10000 - v.success_rate) * 10^n <= 10000 * 7^n + n * 10^n
=============================================================================
