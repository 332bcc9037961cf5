------------------------- MODULE SignalStoreProofs -------------------------
(***************************************************************************)
(* Theorems about SignalStore, for any models, any probe results, any      *)
(* interval, TTL and freshness limit, and any number of failed rounds.     *)
(***************************************************************************)
EXTENDS SignalStore, FiniteSetTheorems, TLAPS

Probes == [success : BOOLEAN, ttfb_ms : Nat]

\* The worker's clock and its probes: a result is no older than its round.
Shape ==
    /\ phase \in {"sleep", "probe", "store"} /\ timer \in Nat
    /\ timer <= IF phase = "sleep" THEN Interval ELSE MaxProbe
    /\ existing \in [Models -> Values \cup {None}]
    /\ results \in [Models -> [result : Probes, age : Nat] \cup {None}]
    /\ \A m \in Models : results[m] # None =>
          phase # "sleep" /\ results[m].result \in ResultsOf[m] /\ results[m].age <= timer
    /\ phase = "sleep" => \A m \in Models : existing[m] = None
    /\ signals \in [Models -> Signals \cup {None}]
    /\ seen \in [Models -> SUBSET Probes]
    /\ streak \in [Models -> Nat]
    /\ skipped \in [Models -> Nat]

\* How much of the current round m has waited since it was last stored, if no
\* round had failed: none of it once its result of the round is stored.
Waited(m) ==
    IF phase = "sleep" THEN timer
    ELSE IF phase = "store" /\ results[m] = None THEN 0 ELSE Interval + timer

\* The TTL that is gone is the time since m was stored: the failed rounds and
\* what it has waited.  At that time the result was as old as its round.
Elapsed(m) == skipped[m] * RoundTime + Waited(m)

Aged(m) ==
    /\ signals[m] = None => Ttl <= Elapsed(m)
    /\ signals[m] # None => /\ signals[m].ttl >= 1 /\ signals[m].ttl <= Ttl
                            /\ Ttl - signals[m].ttl <= Elapsed(m)
                            /\ signals[m].age <= MaxProbe + (Ttl - signals[m].ttl)

AgeInv == \A m \in Models : seen[m] # {} => Aged(m)

Reported(t) == IF t < NoChunk THEN (115 * t) \div 100 ELSE NoChunk
Capped(t) == IF t < NoChunk THEN t ELSE NoChunk

\* Values that lie between results in S.
Within(v, S) ==
    /\ \E r \in S : r.ttfb_ms <= v.p50 + 1
    /\ \E r \in S : v.p50 <= r.ttfb_ms
    /\ \E r \in S : (4 * Capped(r.ttfb_ms)) \div 10 <= v.p95
    /\ \E r \in S : v.p95 <= Reported(r.ttfb_ms)

\* Values that have recovered for n rounds.
Recovered(v, m, n) ==
    n \in 1..4 =>
       /\ v.p50 > Slowest(m) => (v.p50 - Slowest(m)) * 10^n <= (Worst(m) - Slowest(m)) * 7^n
       /\ (10000 - v.success_rate) * 10^n <= 10000 * 7^n + n * 10^n

\* Values made from the results S of m, of which the last n were successes.
Good(v, m, S, n) == v.p50 <= Worst(m) /\ Within(v, S) /\ Recovered(v, m, n)

\* The values that are stored, and those the round has read and will smooth.
ValuesInv ==
    \A m \in Models :
       /\ seen[m] \subseteq ResultsOf[m]
       /\ signals[m] # None => Good(signals[m].values, m, seen[m], streak[m])
       /\ existing[m] # None /\ ~(phase = "store" /\ results[m] = None) =>
             Good(existing[m], m, seen[m], streak[m])

-----------------------------------------------------------------------------
(* Arithmetic of the smoothing *)

\* int() of a tenth of x: at most that, and less than one whole number short.
LEMMA TruncatedTenth ==
    ASSUME NEW x \in Nat, NEW y \in Truncated(x, 10)
    PROVE  y \in Nat /\ 10 * y <= x /\ x <= 10 * y + 10
BY DEF Truncated

\* The p95 of one probe lies between its sample and what is reported for it.
LEMMA ProbeP95 ==
    ASSUME NEW r \in Probes, NEW p95 \in P95Of(r)
    PROVE  p95 \in Nat /\ Capped(r.ttfb_ms) <= p95 /\ p95 <= Reported(r.ttfb_ms)
<1> DEFINE t == r.ttfb_ms
<1>1. t \in Nat
    BY DEF Probes
<1>2. CASE t < NoChunk
  <2>1. p95 \in Truncated(115 * t, 100)
    BY <1>2 DEF P95Of
  <2> HIDE DEF t
  <2>2. p95 = (115 * t) \div 100 \/ ((115 * t) % 100 = 0 /\ t > 0 /\ p95 = (115 * t) \div 100 - 1)
    <3> DEFINE x == 115 * t
    <3>1. x > 0 => t > 0
      BY <1>1
    <3>2. p95 \in Truncated(x, 100)
      BY <2>1
    <3> HIDE DEF x
    <3>3. p95 = x \div 100 \/ (x % 100 = 0 /\ x > 0 /\ p95 = x \div 100 - 1)
      BY <3>2 DEF Truncated
    <3> QED
      BY <3>1, <3>3 DEF x
  <2>3. p95 \in Nat /\ t <= p95 /\ p95 <= (115 * t) \div 100
    BY <1>1, <2>2
  <2> QED
    BY <1>2, <2>3 DEF Capped, Reported, t
<1>3. CASE ~(t < NoChunk)
    BY <1>1, <1>3 DEF P95Of, Capped, Reported, NoChunk
<1> QED
    BY <1>2, <1>3

\* A rounded tenth of x: at most half short.
LEMMA RoundedTenth ==
    ASSUME NEW x \in Nat, NEW y \in Rounded(x, 10)
    PROVE  y \in Nat /\ x <= 10 * y + 5
BY DEF Rounded

\* The larger of two numbers.
LEMMA MaxOfTwo ==
    ASSUME NEW a \in Nat, NEW b \in Nat
    PROVE  Max({a, b}) = IF a >= b THEN a ELSE b
BY DEF Max

\* v is what smoothing with r makes of the values p50, p95 and rate.
SmoothedFrom(v, r, p50, p95, rate) ==
    /\ 10 * v.p50 <= 7 * p50 + 3 * r.ttfb_ms
    /\ 7 * p50 + 3 * r.ttfb_ms <= 10 * v.p50 + 10
    /\ (4 * Capped(r.ttfb_ms)) \div 10 <= v.p95
    /\ (v.p95 <= p95 \/ v.p95 <= Reported(r.ttfb_ms))
    /\ 7 * rate + 3 * RateOf(r) <= 10 * v.success_rate + 5

\* smooth_and_store_signal smooths what it had read, or the result with itself
\* where there was nothing.
LEMMA SmoothedIs ==
    ASSUME NEW previous \in Values \cup {None}, NEW r \in Probes, NEW v \in Smoothed(previous, r)
    PROVE  /\ v \in Values
           /\ previous # None => SmoothedFrom(v, r, previous.p50, previous.p95, previous.success_rate)
           /\ previous = None => SmoothedFrom(v, r, r.ttfb_ms, Reported(r.ttfb_ms), RateOf(r))
<1> DEFINE t == r.ttfb_ms
           Prev(p) == IF previous = None
                      THEN [p50 |-> r.ttfb_ms, p95 |-> p, success_rate |-> RateOf(r)]
                      ELSE previous
<1>1. PICK new \in P95Of(r) :
            v \in [p50 : Truncated(Weighted(Prev(new).p50, t), 10),
                   p95 : {SmoothedP95(Prev(new).p95, new)},
                   success_rate : Rounded(Weighted(Prev(new).success_rate, RateOf(r)), 10)]
    BY DEF Smoothed
<1> DEFINE a == Prev(new).p50
           c == Prev(new).p95
           s == Prev(new).success_rate
<1>2. t \in Nat /\ RateOf(r) \in Nat
    BY DEF Probes, RateOf
<1>3. new \in Nat /\ Capped(t) <= new /\ new <= Reported(t) /\ Capped(t) \in Nat /\ Reported(t) \in Nat
    BY <1>2, ProbeP95 DEF Capped, Reported, NoChunk
<1>p. /\ previous # None => previous \in Values /\ a = previous.p50 /\ c = previous.p95 /\ s = previous.success_rate
      /\ previous = None => a = t /\ c = new /\ s = RateOf(r)
    OBVIOUS
<1>4. a \in Nat /\ c \in Nat /\ s \in Nat
  <2> HIDE DEF a, c, s, t
  <2> QED
    BY <1>p, <1>2, <1>3 DEF Values
<1>5. /\ v.p50 \in Truncated(Weighted(a, t), 10)
      /\ v.p95 = SmoothedP95(c, new)
      /\ v.success_rate \in Rounded(Weighted(s, RateOf(r)), 10)
      /\ v = [p50 |-> v.p50, p95 |-> v.p95, success_rate |-> v.success_rate]
    BY <1>1
<1> HIDE DEF a, c, s, Prev, t
<1>6. v.p50 \in Nat /\ 10 * v.p50 <= 7 * a + 3 * t /\ 7 * a + 3 * t <= 10 * v.p50 + 10
  <2>1. Weighted(a, t) \in Nat /\ Weighted(a, t) = 7 * a + 3 * t
    BY <1>2, <1>4 DEF Weighted
  <2> QED
    BY <1>5, <2>1, TruncatedTenth
<1>7. v.p95 \in Nat /\ (4 * Capped(t)) \div 10 <= v.p95 /\ (v.p95 <= c \/ v.p95 <= Reported(t))
  <2> DEFINE x == (6 * c) \div 10
             y == (4 * new) \div 10
  <2>1. x \in Nat /\ y \in Nat /\ x <= c /\ y <= new /\ (4 * Capped(t)) \div 10 <= y
    BY <1>3, <1>4
  <2>2. v.p95 = Max({x, y})
    BY <1>5 DEF SmoothedP95
  <2> HIDE DEF x, y
  <2>3. v.p95 = IF x >= y THEN x ELSE y
    BY <2>1, <2>2, MaxOfTwo
  <2>4. (4 * Capped(t)) \div 10 \in Nat
    BY <1>3
  <2> QED
    BY <1>3, <1>4, <2>1, <2>3, <2>4
<1>8. v.success_rate \in Nat /\ 7 * s + 3 * RateOf(r) <= 10 * v.success_rate + 5
  <2>1. Weighted(s, RateOf(r)) \in Nat /\ Weighted(s, RateOf(r)) = 7 * s + 3 * RateOf(r)
    BY <1>2, <1>4 DEF Weighted
  <2> QED
    BY <1>5, <2>1, RoundedTenth
<1>9. v \in Values
    BY <1>5, <1>6, <1>7, <1>8 DEF Values
<1>10. SmoothedFrom(v, r, a, c, s)
    BY <1>6, <1>7, <1>8 DEF SmoothedFrom, t
<1>11. previous # None => SmoothedFrom(v, r, previous.p50, previous.p95, previous.success_rate)
    BY <1>p, <1>10
<1>12. previous = None => SmoothedFrom(v, r, r.ttfb_ms, Reported(r.ttfb_ms), RateOf(r))
  <2> SUFFICES ASSUME previous = None PROVE SmoothedFrom(v, r, t, Reported(t), RateOf(r))
    BY DEF t
  <2>1. a = t /\ c = new /\ s = RateOf(r) /\ new <= Reported(t) /\ new \in Nat /\ Reported(t) \in Nat
    BY <1>3, <1>p
  <2>2. v.p95 <= Reported(t)
    BY <1>7, <2>1
  <2> QED
    BY <1>6, <1>7, <1>8, <2>1, <2>2 DEF SmoothedFrom, t
<1> QED
    BY <1>9, <1>11, <1>12

-----------------------------------------------------------------------------
(* The clock of a round *)

LEMMA ShapeInit == Init => Shape
BY TimesAssumption DEF Init, Shape

\* A tick ages a signal and shortens its TTL.
LEMMA OlderSignal ==
    ASSUME NEW s \in Signals, ~RunsOut(s), NEW t, t = [s EXCEPT !.age = @ + 1, !.ttl = @ - 1]
    PROVE  t \in Signals /\ t.values = s.values /\ t.age = s.age + 1 /\ t.ttl = s.ttl - 1
<1>1. /\ s.values \in Values /\ s.age \in Nat /\ s.ttl \in Nat \ {0}
      /\ s = [values |-> s.values, age |-> s.age, ttl |-> s.ttl]
    BY DEF Signals
<1>2. t = [values |-> s.values, age |-> s.age + 1, ttl |-> s.ttl - 1]
    BY <1>1
<1>3. s.ttl - 1 \in Nat \ {0} /\ s.age + 1 \in Nat
    BY <1>1 DEF RunsOut
<1> QED
    BY <1>1, <1>2, <1>3 DEF Signals

\* A probe ends within the round's wait, and a result is smoothed to a signal.
LEMMA ShapeNext == Shape /\ [Next]_vars => Shape'
<1> SUFFICES ASSUME Shape, [Next]_vars PROVE Shape'
    OBVIOUS
<1> USE TimesAssumption
<1>1. CASE Wake
  <2>1. \A m \in Models : signals[m] # None => signals[m].values \in Values
    BY DEF Shape, Signals
  <2> QED
    BY <1>1, <2>1 DEF Wake, Shape
<1>2. CASE Gather
    BY <1>2 DEF Gather, Shape
<1>3. CASE RoundFails
    BY <1>3 DEF RoundFails, GoToSleep, Shape
<1>4. CASE Tick
  <2>1. \A m \in Models : results[m] # None =>
            [results[m] EXCEPT !.age = @ + 1] \in [result : Probes, age : Nat]
    BY DEF Shape
  <2>2. \A m \in Models : signals[m] # None /\ ~RunsOut(signals[m]) =>
            [signals[m] EXCEPT !.age = @ + 1, !.ttl = @ - 1] \in Signals
    BY OlderSignal DEF Shape
  <2>3. signals' \in [Models -> Signals \cup {None}]
    BY <1>4, <2>2 DEF Tick, Shape
  <2>4. results' \in [Models -> [result : Probes, age : Nat] \cup {None}]
    BY <1>4, <2>1 DEF Tick, Shape
  <2>5. \A m \in Models : results'[m] # None =>
            results[m] # None /\ results'[m].result = results[m].result /\ results'[m].age = results[m].age + 1
    <3> TAKE m \in Models
    <3> HAVE results'[m] # None
    <3>1. results[m] # None /\ results'[m] = [results[m] EXCEPT !.age = @ + 1]
      BY <1>4 DEF Tick
    <3>2. results[m] \in [result : Probes, age : Nat]
      BY <3>1 DEF Shape
    <3> QED
      BY <3>1, <3>2
  <2>0. timer \in Nat
    BY DEF Shape
  <2>6. /\ phase' = phase /\ timer' = timer + 1 /\ timer' \in Nat
        /\ existing' = existing /\ seen' = seen /\ streak' = streak /\ skipped' = skipped
    <3>1. /\ phase' = phase /\ timer' = timer + 1
          /\ existing' = existing /\ seen' = seen /\ streak' = streak /\ skipped' = skipped
      BY <1>4 DEF Tick
    <3> QED
      BY <2>0, <3>1
  <2>8. timer' <= IF phase = "sleep" THEN Interval ELSE MaxProbe
    <3>1. Interval \in Nat /\ MaxProbe \in Nat
      OBVIOUS
    <3>2. \/ phase = "sleep" /\ timer < Interval
          \/ phase = "probe" /\ timer < MaxProbe
      BY <1>4 DEF Tick
    <3> QED
      BY <2>0, <2>6, <3>1, <3>2
  <2>7. \A m \in Models : results[m] # None => results[m].age \in Nat
    BY DEF Shape
  <2> QED
    BY <2>3, <2>4, <2>5, <2>6, <2>7, <2>8 DEF Shape
<1>5. ASSUME NEW m \in Models, FinishProbe(m) PROVE Shape'
    BY <1>5, ResultsAssumption DEF FinishProbe, Shape, Probes
<1>6. ASSUME NEW m \in Models, Store(m) PROVE Shape'
  <2> DEFINE r == results[m].result
  <2>1. r \in Probes /\ existing[m] \in Values \cup {None} /\ results[m].age \in Nat
    BY <1>6 DEF Store, Shape
  <2>2. PICK values \in Smoothed(existing[m], r) :
            signals' = [signals EXCEPT ![m] = [values |-> values, age |-> results[m].age, ttl |-> Ttl]]
    BY <1>6 DEF Store, Stored
  <2>3. values \in Values
    BY <2>1, <2>2, SmoothedIs
  <2>4. [values |-> values, age |-> results[m].age, ttl |-> Ttl] \in Signals
    BY <2>1, <2>3 DEF Signals
  <2>5. signals' \in [Models -> Signals \cup {None}]
    BY <2>2, <2>4 DEF Shape
  <2>6. seen' \in [Models -> SUBSET Probes] /\ streak' \in [Models -> Nat] /\ skipped' \in [Models -> Nat]
    BY <1>6, <2>1 DEF Store, Shape
  <2>7. CASE GoToSleep(0)
    BY <1>6, <2>5, <2>6, <2>7 DEF GoToSleep, Shape
  <2>8. CASE results' = [results EXCEPT ![m] = None] /\ UNCHANGED <<phase, timer, existing>>
    BY <1>6, <2>5, <2>6, <2>8 DEF Store, Shape
  <2> QED
    BY <1>6, <2>7, <2>8 DEF Store
<1>7. CASE UNCHANGED vars
    BY <1>7 DEF vars, Shape
<1> QED
    BY <1>1, <1>2, <1>3, <1>4, <1>5, <1>6, <1>7 DEF Next

LEMMA ElapsedIs ==
    Shape => \A m \in Models :
       /\ Waited(m) \in Nat /\ Waited(m) <= RoundTime
       /\ RoundTime \in Nat /\ skipped[m] * RoundTime \in Nat
       /\ Elapsed(m) \in Nat /\ Elapsed(m) <= (skipped[m] + 1) * RoundTime
<1> SUFFICES ASSUME Shape, NEW m \in Models
             PROVE  /\ Waited(m) \in Nat /\ Waited(m) <= RoundTime
                    /\ RoundTime \in Nat /\ skipped[m] * RoundTime \in Nat
                    /\ Elapsed(m) \in Nat /\ Elapsed(m) <= (skipped[m] + 1) * RoundTime
    OBVIOUS
<1>1. Waited(m) \in Nat /\ Waited(m) <= RoundTime /\ RoundTime \in Nat
    BY TimesAssumption DEF Shape, Waited, RoundTime
<1>2. skipped[m] \in Nat
    BY DEF Shape
<1>3. skipped[m] * RoundTime \in Nat /\ (skipped[m] + 1) * RoundTime = skipped[m] * RoundTime + RoundTime
    BY <1>1, <1>2
<1> QED
    BY <1>1, <1>3 DEF Elapsed

ElapsedTyped == \A m \in Models : Elapsed(m) \in Nat

LEMMA ElapsedLater == Shape' => \A m \in Models : Elapsed(m)' \in Nat
<1>1. Shape => ElapsedTyped
    BY ElapsedIs DEF ElapsedTyped
<1>2. Shape' => ElapsedTyped'
    BY <1>1, PTL
<1> QED
    BY <1>2 DEF ElapsedTyped

\* Where the signal is kept and no less has elapsed, it is as aged as it was.
LEMMA StillAged ==
    ASSUME Shape, Shape', NEW m \in Models, Aged(m),
           signals'[m] = signals[m], Elapsed(m) <= Elapsed(m)'
    PROVE  Aged(m)'
<1>1. Elapsed(m) \in Nat
    BY ElapsedIs
<1>2. Elapsed(m)' \in Nat
    BY ElapsedLater
<1>3. signals[m] # None => signals[m].ttl \in Nat /\ signals[m].age \in Nat
    BY DEF Shape, Signals
<1> QED
    BY <1>1, <1>2, <1>3, TimesAssumption DEF Aged

LEMMA AgeInit == Init => AgeInv
BY DEF Init, AgeInv

LEMMA AgeNext == Shape /\ AgeInv /\ [Next]_vars => AgeInv'
<1> SUFFICES ASSUME Shape, AgeInv, [Next]_vars, NEW m \in Models, seen'[m] # {} PROVE Aged(m)'
    BY DEF AgeInv
<1> USE TimesAssumption
<1>s. Shape'
    BY ShapeNext
<1>e. /\ Waited(m) \in Nat /\ Waited(m) <= RoundTime
      /\ RoundTime \in Nat /\ skipped[m] * RoundTime \in Nat
      /\ skipped[m] \in Nat /\ timer \in Nat /\ Elapsed(m) \in Nat
    BY ElapsedIs DEF Shape
<1>n. Elapsed(m)' \in Nat
    BY <1>s, ElapsedLater
<1>1. CASE Wake
  <2>1. Waited(m)' = Waited(m)
    BY <1>1, <1>e DEF Wake, Waited
  <2>2. Elapsed(m)' = Elapsed(m)
    BY <1>1, <2>1 DEF Wake, Elapsed, RoundTime
  <2> QED
    BY <1>1, <1>s, <1>e, <2>2, StillAged DEF Wake, AgeInv
<1>2. CASE Gather
  <2>1. Waited(m)' = Waited(m)
    BY <1>2, <1>e DEF Gather, Gathered, Waited
  <2>2. Elapsed(m)' = Elapsed(m)
    BY <1>2, <2>1 DEF Gather, Elapsed, RoundTime
  <2> QED
    BY <1>2, <1>s, <1>e, <2>2, StillAged DEF Gather, AgeInv
<1>3. CASE RoundFails
  <2>1. phase' = "sleep" /\ timer' \in Nat /\ Waited(m)' = timer'
    BY <1>3 DEF RoundFails, GoToSleep, Waited
  <2>2. CASE phase = "store" /\ results[m] = None
    <3>1. skipped'[m] = skipped[m] /\ Waited(m) = 0
      BY <1>3, <2>2 DEF RoundFails, Waited
    <3>2. Elapsed(m) <= Elapsed(m)'
      BY <1>e, <2>1, <3>1 DEF Elapsed, RoundTime
    <3> QED
      BY <1>3, <1>s, <3>2, StillAged DEF RoundFails, AgeInv
  <2>3. CASE ~(phase = "store" /\ results[m] = None)
    <3>1. skipped'[m] = skipped[m] + 1
      BY <1>3, <2>3 DEF RoundFails
    <3>2. (skipped[m] + 1) * RoundTime = skipped[m] * RoundTime + RoundTime
      BY <1>e
    <3>3. Elapsed(m)' = (skipped[m] + 1) * RoundTime + timer'
      BY <2>1, <3>1 DEF Elapsed, RoundTime
    <3>4. Elapsed(m) <= Elapsed(m)'
      BY <1>e, <2>1, <3>2, <3>3 DEF Elapsed
    <3> QED
      BY <1>3, <1>s, <3>4, StillAged DEF RoundFails, AgeInv
  <2> QED
    BY <2>2, <2>3
<1>4. CASE Tick
  <2>1. Waited(m)' = Waited(m) + 1
    <3>1. phase' = phase /\ timer' = timer + 1 /\ phase # "store"
      BY <1>4 DEF Tick
    <3> QED
      BY <1>e, <3>1 DEF Waited
  <2>2. Elapsed(m)' = Elapsed(m) + 1
    <3>1. Elapsed(m)' = skipped[m] * RoundTime + (Waited(m) + 1)
      BY <1>4, <2>1 DEF Tick, Elapsed, RoundTime
    <3> QED
      BY <1>e, <3>1 DEF Elapsed
  <2>3. Aged(m)
    BY <1>4 DEF Tick, AgeInv
  <2>4. signals[m] = None => Aged(m)'
    <3>1. signals[m] = None => signals'[m] = None
      BY <1>4 DEF Tick
    <3> QED
      BY <1>e, <2>2, <2>3, <3>1 DEF Aged
  <2>5. CASE signals[m] # None
    <3>1. signals[m] \in Signals
      BY <2>5 DEF Shape
    <3>2. signals[m].ttl \in Nat /\ signals[m].age \in Nat
      BY <3>1 DEF Signals
    <3>3. CASE signals[m].ttl = 1
      <4>1. signals'[m] = None
        BY <1>4, <3>3 DEF Tick, RunsOut
      <4> QED
        BY <1>e, <2>2, <2>3, <2>5, <3>3, <4>1 DEF Aged
    <3>4. CASE signals[m].ttl # 1
      <4>1. signals'[m] = [signals[m] EXCEPT !.age = @ + 1, !.ttl = @ - 1]
        BY <1>4, <2>5, <3>4 DEF Tick, RunsOut
      <4>2. /\ signals'[m].ttl = signals[m].ttl - 1 /\ signals'[m].age = signals[m].age + 1
            /\ signals'[m] \in Signals
        BY <3>1, <3>4, <4>1, OlderSignal DEF RunsOut
      <4>3. signals[m].ttl >= 1 /\ signals[m].ttl <= Ttl /\ Ttl - signals[m].ttl <= Elapsed(m)
            /\ signals[m].age <= MaxProbe + (Ttl - signals[m].ttl)
        BY <2>3, <2>5 DEF Aged
      <4>4. /\ signals'[m].ttl >= 1 /\ signals'[m].ttl <= Ttl
            /\ Ttl - signals'[m].ttl <= Elapsed(m)'
            /\ signals'[m].age <= MaxProbe + (Ttl - signals'[m].ttl)
        BY <1>e, <2>2, <3>2, <3>4, <4>2, <4>3
      <4>5. signals'[m] # None
        BY <4>2, NoneAssumption
      <4> QED
        BY <4>4, <4>5 DEF Aged
    <3> QED
      BY <3>3, <3>4
  <2> QED
    BY <2>4, <2>5
<1>5. ASSUME NEW n \in Models, FinishProbe(n) PROVE Aged(m)'
  <2>1. Waited(m)' = Waited(m)
    BY <1>5 DEF FinishProbe, Waited
  <2>2. Elapsed(m)' = Elapsed(m)
    BY <1>5, <2>1 DEF FinishProbe, Elapsed, RoundTime
  <2> QED
    BY <1>5, <1>s, <1>e, <2>2, StillAged DEF FinishProbe, AgeInv
<1>6. ASSUME NEW n \in Models, Store(n) PROVE Aged(m)'
  <2>1. CASE n = m
    <3>1. PICK values \in Smoothed(existing[m], results[m].result) :
              signals' = [signals EXCEPT ![m] = [values |-> values, age |-> results[m].age, ttl |-> Ttl]]
      BY <1>6, <2>1 DEF Store, Stored
    <3>2. /\ signals'[m] = [values |-> values, age |-> results[m].age, ttl |-> Ttl]
          /\ signals'[m].age = results[m].age /\ signals'[m].ttl = Ttl
      BY <3>1 DEF Shape
    <3>3. results[m].age \in Nat /\ results[m].age <= MaxProbe
      BY <1>6, <2>1 DEF Store, Shape
    <3>4. Elapsed(m)' \in Nat /\ signals'[m] # None
      <4>1. signals'[m] \in Signals
        <5>1. values \in Values
          <6>1. results[m].result \in Probes /\ existing[m] \in Values \cup {None}
            BY <1>6, <2>1 DEF Store, Shape
          <6> QED
            BY <3>1, <6>1, SmoothedIs
        <5> QED
          BY <3>2, <3>3, <5>1 DEF Signals
      <4> QED
        BY <1>n, <4>1, NoneAssumption
    <3>5. Ttl >= 1 /\ Ttl - Ttl = 0 /\ MaxProbe + 0 = MaxProbe
      OBVIOUS
    <3> QED
      BY <3>2, <3>3, <3>4, <3>5 DEF Aged
  <2>2. CASE n # m
    <3>1. signals'[m] = signals[m] /\ skipped'[m] = skipped[m] /\ seen'[m] = seen[m]
      BY <1>6, <2>2 DEF Store, Shape
    <3>2. Waited(m)' = Waited(m)
      <4>1. CASE \A k \in Models \ {n} : results[k] = None
        BY <1>6, <2>2, <4>1 DEF Store, GoToSleep, Waited
      <4>2. CASE ~ \A k \in Models \ {n} : results[k] = None
        <5>1. results' = [results EXCEPT ![n] = None] /\ phase' = phase /\ timer' = timer
          BY <1>6, <4>2 DEF Store
        <5> QED
          BY <2>2, <5>1 DEF Waited, Shape
      <4> QED
        BY <4>1, <4>2
    <3>3. Elapsed(m)' = Elapsed(m)
      BY <3>1, <3>2 DEF Elapsed, RoundTime
    <3> QED
      BY <1>s, <1>e, <3>1, <3>3, StillAged DEF AgeInv
  <2> QED
    BY <2>1, <2>2
<1>7. CASE UNCHANGED vars
  <2>1. Elapsed(m)' = Elapsed(m) /\ signals' = signals /\ seen' = seen
    BY <1>7 DEF vars, Elapsed, Waited, RoundTime
  <2> QED
    BY <1>s, <1>e, <2>1, StillAged DEF AgeInv
<1> QED
    BY <1>1, <1>2, <1>3, <1>4, <1>5, <1>6, <1>7 DEF Next

\* Signals age with the rounds that failed, and with nothing else.
THEOREM StayFresh == Spec => []SignalsStayFresh
<1>1. Shape /\ AgeInv => SignalsStayFresh
  <2> SUFFICES ASSUME Shape, AgeInv, NEW m \in Models, seen[m] # {}
               PROVE  LET oldest == (skipped[m] + 1) * RoundTime + MaxProbe
                      IN /\ signals[m] # None => signals[m].age <= oldest
                         /\ signals[m] = None => (skipped[m] + 1) * RoundTime >= Ttl
                         /\ oldest <= Freshness /\ oldest < Ttl => HasFreshSignals
    BY DEF SignalsStayFresh
  <2> DEFINE most == (skipped[m] + 1) * RoundTime
  <2>1. most \in Nat /\ Elapsed(m) \in Nat /\ Elapsed(m) <= most
    <3>1. skipped[m] + 1 \in Nat /\ RoundTime \in Nat
      BY ElapsedIs DEF Shape
    <3> QED
      BY <3>1, ElapsedIs
  <2>2. Aged(m)
    BY DEF AgeInv
  <2> HIDE DEF most
  <2>3. signals[m] = None => most >= Ttl
    BY <2>1, <2>2, TimesAssumption DEF Aged
  <2>4. signals[m] # None => signals[m].age <= most + MaxProbe
    <3> HAVE signals[m] # None
    <3>1. signals[m].age \in Nat /\ signals[m].ttl \in Nat
      BY DEF Shape, Signals
    <3> QED
      BY <2>1, <2>2, <3>1, TimesAssumption DEF Aged
  <2>5. most + MaxProbe <= Freshness /\ most + MaxProbe < Ttl => HasFreshSignals
    <3> HAVE most + MaxProbe <= Freshness /\ most + MaxProbe < Ttl
    <3>1. signals[m] # None
      BY <2>1, <2>3, TimesAssumption
    <3>2. signals[m].age \in Nat
      BY <3>1 DEF Shape, Signals
    <3>3. signals[m].age <= Freshness
      BY <2>1, <2>4, <3>1, <3>2, TimesAssumption
    <3> QED
      BY <3>1, <3>3 DEF HasFreshSignals, IsFresh
  <2> QED
    BY <2>3, <2>4, <2>5 DEF most
<1> QED
    BY <1>1, ShapeInit, ShapeNext, AgeInit, AgeNext, PTL DEF Spec

-----------------------------------------------------------------------------
(* Extremes of what probes may find *)

\* A set of numbers that is not empty has a least member.
LEMMA LeastNatural ==
    ASSUME NEW T \in SUBSET Nat, T # {}
    PROVE  \E x \in T : \A y \in T : x <= y
<1> DEFINE R == {ss \in Nat \X Nat : ss[1] < ss[2]}
<1>0. OpToRel(<, Nat) = R
    BY Zenon DEF OpToRel
<1>1. IsWellFoundedOn(R, Nat)
    BY <1>0, NatLessThanWellFounded, Zenon
<1>2. \A x, y \in Nat : <<x, y>> \in R <=> x < y
    OBVIOUS
<1> HIDE DEF R
<1>3. PICK x \in T : \A y \in T : ~(<<y, x>> \in R)
    BY <1>1, WFMin, Zenon
<1>4. \A y \in T : y \in Nat /\ ~(y < x)
    BY <1>2, <1>3
<1> QED
    BY <1>4

\* A finite set of numbers that is not empty has a greatest member: the
\* smallest subset without one would still lack it without any one member.
LEMMA GreatestNatural ==
    ASSUME NEW S \in SUBSET Nat, IsFiniteSet(S), S # {}
    PROVE  \E x \in S : \A y \in S : y <= x
<1> DEFINE Topless(U) == U # {} /\ ~\E x \in U : \A y \in U : y <= x
           Sizes == {n \in Nat : \E U \in SUBSET S : Topless(U) /\ Cardinality(U) = n}
<1> SUFFICES ASSUME Topless(S) PROVE FALSE
    OBVIOUS
<1>1. \A U \in SUBSET S : IsFiniteSet(U) /\ Cardinality(U) \in Nat
    BY FS_Subset, FS_CardinalityType
<1>2. Cardinality(S) \in Sizes
    BY <1>1
<1>3. PICK n \in Sizes : \A k \in Sizes : n <= k
    BY <1>2, LeastNatural
<1>4. PICK U \in SUBSET S : Topless(U) /\ Cardinality(U) = n
    BY <1>3
<1>5. PICK a \in U : TRUE
    BY <1>4
<1> DEFINE V == U \ {a}
<1>6. Cardinality(V) = n - 1 /\ Cardinality(V) \in Nat /\ V \in SUBSET S
    BY <1>1, <1>4, <1>5, FS_RemoveElement
<1>7. ~Topless(V)
  <2>1. Topless(V) => Cardinality(V) \in Sizes
    BY <1>6
  <2>2. Cardinality(V) \in Sizes => n <= Cardinality(V)
    BY <1>3, Zenon
  <2>3. ~(n <= Cardinality(V)) /\ n \in Nat
    BY <1>6
  <2> QED
    BY <2>1, <2>2, <2>3, Zenon
<1>8. CASE V = {}
    BY <1>4, <1>5, <1>8
<1>9. CASE V # {}
  <2>1. PICK x \in V : \A y \in V : y <= x
    BY <1>7, <1>9
  <2>2. x \in Nat /\ a \in Nat /\ x \in U
    BY <2>1, <1>5
  <2>3. (\A y \in U : y <= x) \/ (\A y \in U : y <= a)
    BY <2>1, <2>2
  <2> QED
    BY <1>4, <1>5, <2>2, <2>3
<1> QED
    BY <1>8, <1>9

LEMMA MaxIs ==
    ASSUME NEW S \in SUBSET Nat, IsFiniteSet(S), NEW z \in S
    PROVE  Max(S) \in S /\ \A y \in S : y <= Max(S)
<1>1. PICK x \in S : \A y \in S : y <= x
    BY GreatestNatural
<1> QED
    BY <1>1 DEF Max

LEMMA MinIs ==
    ASSUME NEW S \in SUBSET Nat, NEW z \in S
    PROVE  Min(S) \in S /\ \A y \in S : Min(S) <= y
<1>1. PICK x \in S : \A y \in S : x <= y
    BY LeastNatural
<1> QED
    BY <1>1 DEF Min

\* A function takes finitely many values on a finite set.
LEMMA FiniteImage ==
    ASSUME NEW S, IsFiniteSet(S), NEW f, f = [x \in S |-> f[x]]
    PROVE  IsFiniteSet({f[x] : x \in S})
<1> DEFINE T == {f[x] : x \in S}
<1>1. f \in Surjection(S, T)
    BY DEF Surjection
<1> QED
    BY <1>1, FS_Surjection

\* The times of finitely many results.
LEMMA TtfbsOf ==
    ASSUME NEW S \in SUBSET Probes, IsFiniteSet(S)
    PROVE  /\ {r.ttfb_ms : r \in S} \in SUBSET Nat
           /\ IsFiniteSet({r.ttfb_ms : r \in S})
<1>1. \A r \in S : r.ttfb_ms \in Nat
    BY DEF Probes
<1>2. IsFiniteSet({r.ttfb_ms : r \in S})
  <2> DEFINE f == [r \in S |-> r.ttfb_ms]
  <2>1. {f[r] : r \in S} = {r.ttfb_ms : r \in S}
    OBVIOUS
  <2>2. f = [r \in S |-> f[r]]
    OBVIOUS
  <2> HIDE DEF f
  <2> QED
    BY <2>1, <2>2, FiniteImage
<1> QED
    BY <1>1, <1>2

\* The slowest success below NoChunk is no slower than the slowest result.
LEMMA SlowestIs ==
    ASSUME NEW m \in Models, NEW r \in ResultsOf[m]
    PROVE  /\ Worst(m) \in Nat /\ r.ttfb_ms <= Worst(m) /\ r \in Probes
           /\ r.success /\ r.ttfb_ms < NoChunk =>
                 Slowest(m) \in Nat /\ r.ttfb_ms <= Slowest(m) /\ Slowest(m) <= Worst(m)
<1>1. ResultsOf[m] \in SUBSET Probes /\ IsFiniteSet(ResultsOf[m])
    BY ResultsAssumption DEF Probes
<1> DEFINE All == {q.ttfb_ms : q \in ResultsOf[m]}
           Fine == {q \in ResultsOf[m] : q.success /\ q.ttfb_ms < NoChunk}
           Some == {q.ttfb_ms : q \in Fine}
<1>2. All \in SUBSET Nat /\ IsFiniteSet(All) /\ r.ttfb_ms \in All
    BY <1>1, TtfbsOf
<1>3. Max(All) \in All /\ \A y \in All : y <= Max(All)
    BY <1>2, MaxIs
<1>4. ASSUME r.success, r.ttfb_ms < NoChunk
      PROVE  Max(Some) \in Some /\ \A y \in Some : y <= Max(Some)
  <2>1. Fine \in SUBSET Probes /\ IsFiniteSet(Fine)
    BY <1>1, FS_Subset
  <2>2. Some \in SUBSET Nat /\ IsFiniteSet(Some)
    BY <2>1, TtfbsOf
  <2>3. r.ttfb_ms \in Some
    BY <1>4
  <2> QED
    BY <2>2, <2>3, MaxIs
<1>5. Some \subseteq All
    OBVIOUS
<1>6. r.success /\ r.ttfb_ms < NoChunk => r.ttfb_ms \in Some
    OBVIOUS
<1>7. Worst(m) = Max(All) /\ Slowest(m) = Max(Some)
    BY DEF Worst, Slowest
<1> HIDE DEF All, Some
<1> QED
    BY <1>1, <1>2, <1>3, <1>4, <1>5, <1>6, <1>7

-----------------------------------------------------------------------------
(* What smoothing preserves *)

\* The smoothed values lie between the results that made them.
LEMMA WithinStep ==
    ASSUME NEW old \in Values, NEW v \in Values, NEW r \in Probes, NEW S \in SUBSET Probes, Within(old, S),
           SmoothedFrom(v, r, old.p50, old.p95, old.success_rate)
    PROVE  Within(v, S \cup {r})
<1> DEFINE t == r.ttfb_ms
<1>1. /\ t \in Nat /\ v.p50 \in Nat /\ v.p95 \in Nat /\ old.p50 \in Nat /\ old.p95 \in Nat
      /\ \A q \in S : q.ttfb_ms \in Nat
    BY DEF Probes, Values
<1>2. /\ 10 * v.p50 <= 7 * old.p50 + 3 * t
      /\ 7 * old.p50 + 3 * t <= 10 * v.p50 + 10
      /\ (4 * Capped(t)) \div 10 <= v.p95
      /\ v.p95 <= old.p95 \/ v.p95 <= Reported(t)
    BY DEF SmoothedFrom
<1>3. \E q \in S \cup {r} : q.ttfb_ms <= v.p50 + 1
  <2>1. PICK q \in S : q.ttfb_ms <= old.p50 + 1
    BY DEF Within
  <2>2. t <= v.p50 + 1 \/ old.p50 <= v.p50
    BY <1>1, <1>2
  <2>3. t <= v.p50 + 1 \/ q.ttfb_ms <= v.p50 + 1
    BY <1>1, <2>1, <2>2
  <2> QED
    BY <2>3
<1>4. \E q \in S \cup {r} : v.p50 <= q.ttfb_ms
  <2>1. PICK q \in S : old.p50 <= q.ttfb_ms
    BY DEF Within
  <2>2. v.p50 <= t \/ v.p50 <= old.p50
    BY <1>1, <1>2
  <2>3. v.p50 <= t \/ v.p50 <= q.ttfb_ms
    BY <1>1, <2>1, <2>2
  <2> QED
    BY <2>3
<1>5. \E q \in S \cup {r} : v.p95 <= Reported(q.ttfb_ms)
  <2>1. PICK q \in S : old.p95 <= Reported(q.ttfb_ms)
    BY DEF Within
  <2>2. Reported(q.ttfb_ms) \in Nat
    BY <1>1 DEF Reported, NoChunk
  <2>3. v.p95 <= Reported(t) \/ v.p95 <= Reported(q.ttfb_ms)
    BY <1>1, <1>2, <2>1, <2>2
  <2> QED
    BY <2>3
<1>6. \E q \in S \cup {r} : (4 * Capped(q.ttfb_ms)) \div 10 <= v.p95
    BY <1>2
<1> QED
    BY <1>3, <1>4, <1>5, <1>6 DEF Within

LEMMA WithinFirst ==
    ASSUME NEW v \in Values, NEW r \in Probes,
           SmoothedFrom(v, r, r.ttfb_ms, Reported(r.ttfb_ms), RateOf(r))
    PROVE  Within(v, {r})
<1> DEFINE t == r.ttfb_ms
<1>1. t \in Nat /\ v.p50 \in Nat
    BY DEF Probes, Values
<1>2. /\ 10 * v.p50 <= 7 * t + 3 * t
      /\ 7 * t + 3 * t <= 10 * v.p50 + 10
      /\ (4 * Capped(t)) \div 10 <= v.p95
      /\ v.p95 <= Reported(t)
    BY DEF SmoothedFrom
<1>3. t <= v.p50 + 1 /\ v.p50 <= t
    BY <1>1, <1>2
<1> QED
    BY <1>2, <1>3 DEF Within

\* One more success brings the p50 and the rate closer by 3 parts in 10.
LEMMA RecoveredStep ==
    ASSUME NEW m \in Models, NEW r \in ResultsOf[m], NEW old \in Values, NEW v \in Values, NEW n \in Nat,
           old.p50 <= Worst(m), Recovered(old, m, n), r.success, r.ttfb_ms < NoChunk,
           SmoothedFrom(v, r, old.p50, old.p95, old.success_rate)
    PROVE  Recovered(v, m, n + 1)
<1> DEFINE t == r.ttfb_ms
           L == Slowest(m)
           W == Worst(m)
           p == v.p50
           q == old.p50
           x == v.success_rate
           y == old.success_rate
<1>1. /\ t \in Nat /\ L \in Nat /\ W \in Nat /\ t <= L /\ L <= W
      /\ p \in Nat /\ q \in Nat /\ x \in Nat /\ y \in Nat /\ q <= W
    BY SlowestIs DEF Probes, Values
<1>2. 10 * p <= 7 * q + 3 * t /\ 7 * y + 3 * 10000 <= 10 * x + 5
    BY DEF SmoothedFrom, RateOf
<1>3. n \in 1..4 =>
         /\ q > L => (q - L) * 10^n <= (W - L) * 7^n
         /\ (10000 - y) * 10^n <= 10000 * 7^n + n * 10^n
    BY DEF Recovered
<1>4. SUFFICES ASSUME n + 1 \in 1..4
               PROVE  /\ p > L => (p - L) * 10^(n + 1) <= (W - L) * 7^(n + 1)
                      /\ (10000 - x) * 10^(n + 1) <= 10000 * 7^(n + 1) + (n + 1) * 10^(n + 1)
    BY DEF Recovered
<1> HIDE DEF t, L, W, p, q, x, y
<1>5. 10 * (p - L) <= 7 * (q - L) /\ 10 * (10000 - x) <= 7 * (10000 - y) + 5
    BY <1>1, <1>2
<1>6. n = 0 \/ n = 1 \/ n = 2 \/ n = 3
    BY <1>4
<1>7. CASE n = 0
  <2>1. q - L <= W - L /\ 10000 - y <= 10000 /\ 10^1 = 10 /\ 7^1 = 7
    BY <1>1
  <2> QED
    BY <1>1, <1>5, <1>7, <2>1
<1>8. CASE n = 1
  <2>1. 10^1 = 10 /\ 7^1 = 7 /\ 10^2 = 100 /\ 7^2 = 49
    OBVIOUS
  <2> QED
    BY <1>1, <1>3, <1>5, <1>8, <2>1
<1>9. CASE n = 2
  <2>1. 10^2 = 100 /\ 7^2 = 49 /\ 10^3 = 1000 /\ 7^3 = 343
    OBVIOUS
  <2> QED
    BY <1>1, <1>3, <1>5, <1>9, <2>1
<1>10. CASE n = 3
  <2>1. 10^3 = 1000 /\ 7^3 = 343 /\ 10^4 = 10000 /\ 7^4 = 2401
    OBVIOUS
  <2> QED
    BY <1>1, <1>3, <1>5, <1>10, <2>1
<1> QED
    BY <1>6, <1>7, <1>8, <1>9, <1>10

\* A first result that is a success is as good as any number of them.
LEMMA RecoveredFirst ==
    ASSUME NEW m \in Models, NEW r \in ResultsOf[m], NEW v \in Values, NEW n \in Nat,
           r.success, r.ttfb_ms < NoChunk,
           SmoothedFrom(v, r, r.ttfb_ms, Reported(r.ttfb_ms), RateOf(r))
    PROVE  Recovered(v, m, n)
<1> DEFINE t == r.ttfb_ms
           x == v.success_rate
           p == v.p50
<1>1. t \in Nat /\ Slowest(m) \in Nat /\ t <= Slowest(m) /\ p \in Nat /\ x \in Nat
    BY SlowestIs DEF Probes, Values
<1>2. 10 * p <= 7 * t + 3 * t /\ 7 * 10000 + 3 * 10000 <= 10 * x + 5
    BY DEF SmoothedFrom, RateOf
<1>3. ~(p > Slowest(m)) /\ 10000 - x <= 0
    BY <1>1, <1>2
<1>4. n \in 1..4 => (10000 - x) * 10^n <= 10000 * 7^n + n * 10^n
  <2> HIDE DEF x
  <2> SUFFICES ASSUME n \in 1..4 PROVE (10000 - x) * 10^n <= 10000 * 7^n + n * 10^n
    OBVIOUS
  <2>1. /\ 10^1 = 10 /\ 10^2 = 100 /\ 10^3 = 1000 /\ 10^4 = 10000
        /\ 7^1 = 7 /\ 7^2 = 49 /\ 7^3 = 343 /\ 7^4 = 2401
    OBVIOUS
  <2>2. CASE n = 1
    BY <1>1, <1>3, <2>1, <2>2
  <2>3. CASE n = 2
    BY <1>1, <1>3, <2>1, <2>3
  <2>4. CASE n = 3
    BY <1>1, <1>3, <2>1, <2>4
  <2>5. CASE n = 4
    BY <1>1, <1>3, <2>1, <2>5
  <2> QED
    BY <2>2, <2>3, <2>4, <2>5
<1> QED
    BY <1>3, <1>4 DEF Recovered

LEMMA ValuesInit == Init => ValuesInv
BY DEF Init, ValuesInv

\* What is stored is made from the results of m since it was last absent.
LEMMA StoreGood ==
    ASSUME Shape, ValuesInv, NEW m \in Models, Store(m)
    PROVE  /\ seen'[m] \subseteq ResultsOf[m]
           /\ Good(signals'[m].values, m, seen'[m], streak'[m])
<1> DEFINE r == results[m].result
           old == existing[m]
<1>1. /\ r \in ResultsOf[m] /\ r \in Probes /\ old \in Values \cup {None} /\ results[m] # None
      /\ streak[m] \in Nat /\ seen[m] \subseteq ResultsOf[m] /\ seen[m] \in SUBSET Probes
    BY DEF Store, Shape, ValuesInv
<1>2. PICK v \in Smoothed(old, r) :
          signals' = [signals EXCEPT ![m] = [values |-> v, age |-> results[m].age, ttl |-> Ttl]]
    BY DEF Store, Stored
<1>3. signals'[m].values = v
    BY <1>2 DEF Shape
<1>4. /\ v \in Values
      /\ old # None => SmoothedFrom(v, r, old.p50, old.p95, old.success_rate)
      /\ old = None => SmoothedFrom(v, r, r.ttfb_ms, Reported(r.ttfb_ms), RateOf(r))
    BY <1>1, SmoothedIs
<1>5. seen'[m] = IF old = None THEN {r} ELSE seen[m] \cup {r}
    BY DEF Store, Shape
<1>6. streak'[m] = IF r.success /\ r.ttfb_ms < NoChunk THEN streak[m] + 1 ELSE 0
    BY DEF Store, Shape
<1>7. seen'[m] \subseteq ResultsOf[m]
    BY <1>1, <1>5
<1>8. old # None => Good(old, m, seen[m], streak[m])
    BY <1>1 DEF ValuesInv
<1>t. r.ttfb_ms \in Nat /\ Worst(m) \in Nat /\ r.ttfb_ms <= Worst(m) /\ v.p50 \in Nat
    BY <1>1, <1>4, SlowestIs DEF Probes, Values
<1> HIDE DEF r, old
<1>9. CASE old = None
  <2>1. SmoothedFrom(v, r, r.ttfb_ms, Reported(r.ttfb_ms), RateOf(r))
    BY <1>4, <1>9
  <2>2. v.p50 <= Worst(m)
    BY <1>t, <2>1 DEF SmoothedFrom
  <2>3. Within(v, seen'[m])
    BY <1>1, <1>4, <1>5, <1>9, <2>1, WithinFirst
  <2>4. Recovered(v, m, streak'[m])
    <3>1. CASE r.success /\ r.ttfb_ms < NoChunk
      <4>1. streak'[m] \in Nat
        BY <1>1, <1>6
      <4> QED
        BY <1>1, <1>4, <2>1, <3>1, <4>1, RecoveredFirst
    <3>2. CASE ~(r.success /\ r.ttfb_ms < NoChunk)
      BY <1>6, <3>2 DEF Recovered
    <3> QED
      BY <3>1, <3>2
  <2> QED
    BY <1>3, <1>7, <2>2, <2>3, <2>4 DEF Good
<1>10. CASE old # None
  <2>1. old \in Values /\ SmoothedFrom(v, r, old.p50, old.p95, old.success_rate)
    BY <1>1, <1>4, <1>10
  <2>2. old.p50 <= Worst(m) /\ Within(old, seen[m]) /\ Recovered(old, m, streak[m])
    BY <1>8, <1>10 DEF Good
  <2>3. v.p50 <= Worst(m)
    <3>1. old.p50 \in Nat
      BY <2>1 DEF Values
    <3> QED
      BY <1>t, <2>1, <2>2, <3>1 DEF SmoothedFrom
  <2>4. Within(v, seen'[m])
    BY <1>1, <1>4, <1>5, <1>10, <2>1, <2>2, WithinStep
  <2>5. Recovered(v, m, streak'[m])
    <3>1. CASE r.success /\ r.ttfb_ms < NoChunk
      <4>1. Recovered(v, m, streak[m] + 1)
        BY <1>1, <1>4, <2>1, <2>2, <3>1, RecoveredStep
      <4> QED
        BY <1>6, <3>1, <4>1
    <3>2. CASE ~(r.success /\ r.ttfb_ms < NoChunk)
      BY <1>6, <3>2 DEF Recovered
    <3> QED
      BY <3>1, <3>2
  <2> QED
    BY <1>3, <1>7, <2>3, <2>4, <2>5 DEF Good
<1> QED
    BY <1>9, <1>10

\* The worker smooths what it read at the start of the round: nobody else
\* stores a signal of m meanwhile, though it may run out.
LEMMA ValuesNext == Shape /\ ValuesInv /\ [Next]_vars => ValuesInv'
<1> SUFFICES ASSUME Shape, ValuesInv, [Next]_vars, NEW m \in Models
             PROVE  /\ seen'[m] \subseteq ResultsOf[m]
                    /\ signals'[m] # None => Good(signals'[m].values, m, seen'[m], streak'[m])
                    /\ existing'[m] # None /\ ~(phase' = "store" /\ results'[m] = None) =>
                          Good(existing'[m], m, seen'[m], streak'[m])
    BY DEF ValuesInv
<1> DEFINE Kept ==
              /\ seen'[m] \subseteq ResultsOf[m]
              /\ signals'[m] # None => Good(signals'[m].values, m, seen'[m], streak'[m])
              /\ existing'[m] # None /\ ~(phase' = "store" /\ results'[m] = None) =>
                    Good(existing'[m], m, seen'[m], streak'[m])
<1>0. /\ seen[m] \subseteq ResultsOf[m]
      /\ signals[m] # None => Good(signals[m].values, m, seen[m], streak[m])
      /\ existing[m] # None /\ ~(phase = "store" /\ results[m] = None) =>
            Good(existing[m], m, seen[m], streak[m])
    BY DEF ValuesInv
<1>1. CASE Wake
    BY <1>0, <1>1 DEF Wake
<1>2. CASE Gather
    BY <1>0, <1>2 DEF Gather, Gathered
<1>3. CASE RoundFails
    BY <1>0, <1>3 DEF RoundFails, GoToSleep
<1>4. CASE Tick
  <2>1. signals'[m] # None => signals[m] # None /\ signals'[m].values = signals[m].values
    <3> HAVE signals'[m] # None
    <3>1. signals[m] # None /\ ~RunsOut(signals[m])
          /\ signals'[m] = [signals[m] EXCEPT !.age = @ + 1, !.ttl = @ - 1]
      BY <1>4 DEF Tick
    <3>2. signals[m] \in Signals
      BY <3>1 DEF Shape
    <3> QED
      BY <3>1, <3>2, OlderSignal
  <2>2. phase # "store" /\ phase' = phase
    BY <1>4 DEF Tick
  <2>3. seen' = seen /\ streak' = streak /\ existing' = existing
    BY <1>4 DEF Tick
  <2> QED
    BY <1>0, <2>1, <2>2, <2>3
<1>5. ASSUME NEW n \in Models, FinishProbe(n) PROVE Kept
    BY <1>0, <1>5 DEF FinishProbe
<1>6. ASSUME NEW n \in Models, Store(n) PROVE Kept
  <2>1. CASE n = m
    <3>1. existing'[m] = None \/ (phase' = "store" /\ results'[m] = None)
      BY <1>6, <2>1 DEF Store, GoToSleep, Shape
    <3> QED
      BY <1>6, <2>1, <3>1, StoreGood
  <2>2. CASE n # m
    <3>1. signals'[m] = signals[m] /\ seen'[m] = seen[m] /\ streak'[m] = streak[m]
      BY <1>6, <2>2 DEF Store, Shape
    <3>2. CASE \A k \in Models \ {n} : results[k] = None
      BY <1>0, <1>6, <3>1, <3>2 DEF Store, GoToSleep
    <3>3. CASE ~ \A k \in Models \ {n} : results[k] = None
      <4>1. results' = [results EXCEPT ![n] = None] /\ phase' = phase /\ existing' = existing
        BY <1>6, <3>3 DEF Store
      <4>2. results'[m] = results[m]
        BY <2>2, <4>1 DEF Shape
      <4> QED
        BY <1>0, <3>1, <4>1, <4>2
    <3> QED
      BY <3>2, <3>3
  <2> QED
    BY <2>1, <2>2
<1>7. CASE UNCHANGED vars
    BY <1>0, <1>7 DEF vars
<1> QED
    BY <1>1, <1>2, <1>3, <1>4, <1>5, <1>6, <1>7 DEF Next

LEMMA Invariants == Spec => [](Shape /\ ValuesInv)
BY ShapeInit, ShapeNext, ValuesInit, ValuesNext, PTL DEF Spec

\* The smoothed values are what some probes found, or lie between.
THEOREM WithinSeen == Spec => []SmoothedWithinSeen
<1>1. Shape /\ ValuesInv => SmoothedWithinSeen
  <2> SUFFICES ASSUME Shape, ValuesInv, NEW m \in Models, signals[m] # None
               PROVE  LET v == signals[m].values
                          fastest == Min(Ttfbs(m))
                          slowest == Max(Ttfbs(m))
                          reported == {IF t < NoChunk THEN (115 * t) \div 100 ELSE NoChunk : t \in Ttfbs(m)}
                      IN /\ fastest <= v.p50 + 1 /\ v.p50 <= slowest
                         /\ (4 * Min({fastest, NoChunk})) \div 10 <= v.p95 /\ v.p95 <= Max(reported)
    BY DEF SmoothedWithinSeen
  <2> DEFINE v == signals[m].values
             T == Ttfbs(m)
             R == {IF t < NoChunk THEN (115 * t) \div 100 ELSE NoChunk : t \in T}
  <2>1. Within(v, seen[m]) /\ v \in Values
    BY DEF ValuesInv, Good, Shape, Signals
  <2>2. v.p50 \in Nat /\ v.p95 \in Nat
    BY <2>1 DEF Values
  <2>3. seen[m] \in SUBSET Probes /\ IsFiniteSet(seen[m])
    BY ResultsAssumption, FS_Subset DEF ValuesInv, Shape
  <2>4. T \in SUBSET Nat /\ IsFiniteSet(T) /\ \A r \in seen[m] : r.ttfb_ms \in T
    BY <2>3, TtfbsOf DEF Ttfbs
  <2>5. R \in SUBSET Nat /\ IsFiniteSet(R) /\ \A t \in T : Reported(t) \in R
    <3> DEFINE f == [t \in T |-> Reported(t)]
    <3>1. {f[t] : t \in T} = R
      BY DEF Reported
    <3>2. f = [t \in T |-> f[t]]
      OBVIOUS
    <3>3. IsFiniteSet(R)
      <4> HIDE DEF f, R, T
      <4> QED
        BY <2>4, <3>1, <3>2, FiniteImage
    <3>4. \A t \in T : Reported(t) \in Nat
      BY <2>4 DEF Reported, NoChunk
    <3> QED
      BY <3>3, <3>4 DEF Reported
  <2> HIDE DEF v, T, R
  <2>6. Min(T) \in Nat /\ \A r \in seen[m] : Min(T) <= r.ttfb_ms
    BY <2>1, <2>4, MinIs DEF Within
  <2>7. Max(T) \in Nat /\ \A r \in seen[m] : r.ttfb_ms <= Max(T)
    BY <2>1, <2>4, MaxIs DEF Within
  <2>8. Max(R) \in Nat /\ \A r \in seen[m] : Reported(r.ttfb_ms) \in Nat /\ Reported(r.ttfb_ms) <= Max(R)
    BY <2>1, <2>4, <2>5, MaxIs DEF Within
  <2>9. Min(T) <= v.p50 + 1
    <3>1. PICK r \in seen[m] : r.ttfb_ms <= v.p50 + 1
      BY <2>1 DEF Within
    <3>2. r.ttfb_ms \in Nat
      BY <2>4
    <3> QED
      BY <2>2, <2>6, <3>1, <3>2
  <2>10. v.p50 <= Max(T)
    <3>1. PICK r \in seen[m] : v.p50 <= r.ttfb_ms
      BY <2>1 DEF Within
    <3>2. r.ttfb_ms \in Nat
      BY <2>4
    <3> QED
      BY <2>2, <2>7, <3>1, <3>2
  <2>11. v.p95 <= Max(R)
    <3>1. PICK r \in seen[m] : v.p95 <= Reported(r.ttfb_ms)
      BY <2>1 DEF Within
    <3> QED
      BY <2>2, <2>8, <3>1
  <2>12. (4 * Min({Min(T), NoChunk})) \div 10 <= v.p95
    <3>1. PICK r \in seen[m] : (4 * Capped(r.ttfb_ms)) \div 10 <= v.p95
      BY <2>1 DEF Within
    <3> DEFINE z == Min({Min(T), NoChunk})
    <3>2. z \in {Min(T), NoChunk} /\ z <= Min(T) /\ z <= NoChunk
      BY <2>6, MinIs DEF NoChunk
    <3> HIDE DEF z
    <3>3. z \in Nat /\ z <= r.ttfb_ms /\ r.ttfb_ms \in Nat
      <4>1. r.ttfb_ms \in Nat
        BY <2>4
      <4>2. z \in Nat
        BY <2>6, <3>2 DEF NoChunk
      <4>3. Min(T) <= r.ttfb_ms /\ Min(T) \in Nat
        BY <2>6
      <4> QED
        BY <3>2, <4>1, <4>2, <4>3
    <3>4. Capped(r.ttfb_ms) \in Nat /\ z <= Capped(r.ttfb_ms)
      BY <3>2, <3>3 DEF Capped, NoChunk
    <3>5. (4 * z) \div 10 <= (4 * Capped(r.ttfb_ms)) \div 10
      BY <3>3, <3>4
    <3> QED
      BY <2>2, <3>1, <3>3, <3>4, <3>5 DEF z
  <2> QED
    BY <2>9, <2>10, <2>11, <2>12 DEF v, T, R
<1> QED
    BY <1>1, Invariants, PTL

\* n successes in a row leave at most 0.7^n of the distance.
THEOREM Recovery == Spec => []RecoveryIsGeometric
<1>1. ValuesInv => RecoveryIsGeometric
  <2> SUFFICES ASSUME ValuesInv, NEW m \in Models, signals[m] # None, streak[m] \in 1..4
               PROVE  LET n == streak[m]
                          v == signals[m].values
                      IN /\ v.p50 > Slowest(m) => (v.p50 - Slowest(m)) * 10^n <= (Worst(m) - Slowest(m)) * 7^n
                         /\ (10000 - v.success_rate) * 10^n <= 10000 * 7^n + n * 10^n
    BY DEF RecoveryIsGeometric
  <2>1. Recovered(signals[m].values, m, streak[m])
    BY DEF ValuesInv, Good
  <2> QED
    BY <2>1 DEF Recovered
<1> QED
    BY <1>1, Invariants, PTL
=============================================================================
