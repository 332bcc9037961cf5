------------------------- MODULE RateLimiterProofs -------------------------
(***************************************************************************)
(* Theorems about RateLimiter, for any number of overlapping requests, any *)
(* limits on one agent's keys and any length of a minute.                  *)
(***************************************************************************)
EXTENDS RateLimiter, FiniteSetTheorems, TLAPS

Jobs == [minute : Minutes, limit : Nat, count : Nat, onTime : BOOLEAN]

TypeInv ==
    /\ now \in 0..MaxTime
    /\ count \in [Minutes -> Nat]
    /\ expireAt \in [Minutes -> Nat \cup {None}]
    /\ pc \in [Handlers -> {"idle", "incr", "expire"}]
    /\ job \in [Handlers -> Jobs]
    /\ started \in [Minutes -> Nat]
    /\ admitted \in [Minutes -> Seq(Nat)]
    /\ refused \in [Minutes -> SUBSET Nat]

\* A request works on a minute that has begun.  One that created its key has
\* counted 1 and is among those that started.
JobInv ==
    \A h \in Handlers :
       /\ pc[h] # "idle" => job[h].minute <= MinuteOf(now)
       /\ pc[h] = "expire" => job[h].count = 1 /\ started[job[h].minute] >= 1

\* A key lives beyond its minute.
KeyInv ==
    \A k \in Minutes : expireAt[k] # None => MinuteOf(expireAt[k]) > k

Waiting(k) == {h \in Handlers : pc[h] = "incr" /\ job[h].minute = k}

\* The requests that read the clock in a minute cover its count and those that
\* have yet to add to it.
StartedInv ==
    \A k \in Minutes : count[k] + Cardinality(Waiting(k)) <= started[k]

Within(s, l) == {i \in DOMAIN s : s[i] <= l}

\* Requests that counted 1 in time and will be let through after EXPIRE.
Pending(k, l) ==
    {h \in Handlers : /\ pc[h] = "expire" /\ job[h].minute = k /\ job[h].onTime
                      /\ job[h].limit >= 1 /\ job[h].limit <= l}

Passed(k, l) == Cardinality(Within(admitted[k], l)) + Cardinality(Pending(k, l))

\* While a minute lasts, each request let through has its own place in the
\* count; the last place any of them took was within its limit.
AdmittedInv ==
    \A k \in Minutes, l \in Limits :
       /\ Passed(k, l) <= l
       /\ MinuteOf(now) <= k => Passed(k, l) <= count[k]

LimiterInv == TypeInv /\ JobInv /\ KeyInv /\ StartedInv /\ RefusedForItsOwnMinute /\ AdmittedInv

-----------------------------------------------------------------------------
(* Minutes, and sets that gain or lose one member *)

\* The minutes are numbered along the clock, and a minute's length later is the
\* next minute.
LEMMA MinutesPass ==
    /\ Minutes = 0..MinuteOf(MaxTime) /\ MaxTime \in Nat /\ Minute \in Nat
    /\ \A t \in Nat : MinuteOf(t) \in Nat /\ MinuteOf(t + Minute) = MinuteOf(t) + 1
    /\ \A t, u \in Nat : t <= u => MinuteOf(t) <= MinuteOf(u)
<1>1. \A t \in Nat : MinuteOf(t) \in Nat
    BY MinuteAssumption DEF MinuteOf
<1>2. \A t \in Nat : MinuteOf(t + Minute) = MinuteOf(t) + 1
    BY MinuteAssumption DEF MinuteOf
<1>3. \A t, u \in Nat : t <= u => MinuteOf(t) <= MinuteOf(u)
    BY MinuteAssumption DEF MinuteOf
<1> QED
    BY <1>1, <1>2, <1>3, MinuteAssumption DEF Minutes

\* A minute that has begun is one the model keeps.
LEMMA CurrentMinute == now \in 0..MaxTime => MinuteOf(now) \in Minutes
<1> SUFFICES ASSUME now \in 0..MaxTime PROVE MinuteOf(now) \in Minutes
    OBVIOUS
<1>1. now \in Nat /\ now <= MaxTime
    BY MinutesPass
<1>2. MinuteOf(now) \in Nat /\ MinuteOf(MaxTime) \in Nat /\ MinuteOf(now) <= MinuteOf(MaxTime)
    BY <1>1, MinutesPass
<1> QED
    BY <1>2, MinutesPass

\* The sets of requests that are counted are finite.
LEMMA CountedSets ==
    /\ \A k : IsFiniteSet(Waiting(k)) /\ Cardinality(Waiting(k)) \in Nat
    /\ \A k, l : IsFiniteSet(Pending(k, l)) /\ Cardinality(Pending(k, l)) \in Nat
<1>1. \A S \in SUBSET Handlers : IsFiniteSet(S)
    BY HandlersAssumption, FS_Subset
<1>2. \A k : Waiting(k) \in SUBSET Handlers
    BY DEF Waiting
<1>3. \A k, l : Pending(k, l) \in SUBSET Handlers
    BY DEF Pending
<1>4. \A k : IsFiniteSet(Waiting(k))
    BY <1>1, <1>2
<1>5. \A k, l : IsFiniteSet(Pending(k, l))
    BY <1>1, <1>3
<1> QED
    BY <1>4, <1>5, FS_CardinalityType

\* Letting a request through adds it to those within every limit from its own.
LEMMA OneLetThrough ==
    ASSUME NEW s \in Seq(Nat), NEW x \in Nat, NEW l \in Nat
    PROVE  /\ Cardinality(Within(s, l)) \in Nat
           /\ Cardinality(Within(Append(s, x), l))
                 = IF x <= l THEN Cardinality(Within(s, l)) + 1 ELSE Cardinality(Within(s, l))
<1> DEFINE n == Len(s)
           t == Append(s, x)
<1>1. n \in Nat /\ DOMAIN s = 1..n /\ DOMAIN t = 1..(n + 1)
      /\ t[n + 1] = x /\ \A i \in 1..n : t[i] = s[i]
    OBVIOUS
<1>2. \A i : i \in 1..(n + 1) <=> i \in 1..n \/ i = n + 1
    BY <1>1
<1>3. n + 1 \notin 1..n
    BY <1>1
<1>4. Within(s, l) \subseteq 1..n /\ n + 1 \notin Within(s, l)
    BY <1>1, <1>3 DEF Within
<1>5. Within(t, l) = IF x <= l THEN Within(s, l) \cup {n + 1} ELSE Within(s, l)
    BY <1>1, <1>2, <1>3 DEF Within
<1>6. IsFiniteSet(Within(s, l))
  <2>1. IsFiniteSet(1..n)
      BY <1>1, FS_Interval
  <2> QED
      BY <1>4, <2>1, FS_Subset
<1>7. Cardinality(Within(s, l)) \in Nat
    BY <1>6, FS_CardinalityType
<1> DEFINE m == n + 1
           W == Within(s, l)
<1> HIDE DEF m, W
<1>8. Cardinality(W \cup {m}) = Cardinality(W) + 1
  <2>1. IsFiniteSet(W) /\ m \notin W
      BY <1>4, <1>6 DEF m, W
  <2> QED
      BY <2>1, FS_AddElement
<1> QED
    BY <1>5, <1>7, <1>8 DEF m, W

\* A request that leaves the waiting ones was one of them.
LEMMA OneLess ==
    ASSUME NEW S, IsFiniteSet(S), NEW x \in S
    PROVE  Cardinality(S) \in Nat /\ Cardinality(S \ {x}) \in Nat
           /\ Cardinality(S) = Cardinality(S \ {x}) + 1
<1>1. Cardinality(S) \in Nat /\ Cardinality(S \ {x}) \in Nat
    BY FS_RemoveElement, FS_CardinalityType
<1>2. Cardinality(S \ {x}) = Cardinality(S) - 1
    BY FS_RemoveElement
<1> DEFINE a == Cardinality(S)
           b == Cardinality(S \ {x})
<1> HIDE DEF a, b
<1>3. a \in Nat /\ b \in Nat /\ b = a - 1
    BY <1>1, <1>2 DEF a, b
<1>4. a = b + 1
    BY <1>3
<1> QED
    BY <1>3, <1>4 DEF a, b

\* Where nobody joins those who will be let through, no more have passed.
LEMMA PassedKept ==
    ASSUME TypeInv, NEW k \in Minutes, NEW l \in Limits, admitted'[k] = admitted[k],
           Pending(k, l)' \subseteq Pending(k, l)
    PROVE  Passed(k, l) \in Nat /\ Passed(k, l)' \in Nat /\ Passed(k, l)' <= Passed(k, l)
<1>1. admitted[k] \in Seq(Nat) /\ l \in Nat
    BY LimitsAssumption DEF TypeInv
<1> DEFINE P == Pending(k, l)
           Q == Pending(k, l)'
           w == Cardinality(Within(admitted[k], l))
<1>2. w \in Nat
    BY <1>1, OneLetThrough
<1>3. /\ IsFiniteSet(P) /\ Cardinality(P) \in Nat /\ Q \in SUBSET P
    BY CountedSets
<1> HIDE DEF P
<1>4. \A R \in SUBSET P : IsFiniteSet(R) /\ Cardinality(R) <= Cardinality(P)
    BY <1>3, FS_Subset
<1>5. \A R \in SUBSET P : Cardinality(R) \in Nat /\ Cardinality(R) <= Cardinality(P)
    BY <1>4, FS_CardinalityType
<1>6. Cardinality(Q) \in Nat /\ Cardinality(Q) <= Cardinality(P)
    BY <1>3, <1>5, Zenon
<1>7. Passed(k, l) = w + Cardinality(P) /\ Passed(k, l)' = w + Cardinality(Q)
    BY DEF Passed, P
<1> HIDE DEF w, Q
<1> QED
    BY <1>2, <1>3, <1>6, <1>7

\* The comparison ends the request and notes it as refused or let through.
LEMMA Decided ==
    ASSUME TypeInv, NEW h \in Handlers, NEW n \in Nat, NEW onTime \in BOOLEAN, Decide(h, n, onTime)
    PROVE  LET k == job[h].minute
               l == job[h].limit
           IN  /\ pc' = [pc EXCEPT ![h] = "idle"] /\ job' = [job EXCEPT ![h] = NoJob]
               /\ k \in Minutes /\ l \in Nat
               /\ \/ n > l /\ refused' = [refused EXCEPT ![k] = @ \cup {l}] /\ admitted' = admitted
                  \/ n <= l /\ refused' = refused /\ onTime
                            /\ admitted' = [admitted EXCEPT ![k] = Append(@, l)]
                  \/ n <= l /\ refused' = refused /\ ~onTime /\ admitted' = admitted
               /\ pc' \in [Handlers -> {"idle", "incr", "expire"}] /\ job' \in [Handlers -> Jobs]
               /\ refused' \in [Minutes -> SUBSET Nat] /\ admitted' \in [Minutes -> Seq(Nat)]
<1> DEFINE k == job[h].minute
           l == job[h].limit
<1>1. job[h] \in Jobs
    BY DEF TypeInv
<1>2. k \in Minutes /\ l \in Nat
    BY <1>1 DEF Jobs
<1>3. /\ pc' = [pc EXCEPT ![h] = "idle"] /\ job' = [job EXCEPT ![h] = NoJob]
      /\ IF n > l
         THEN refused' = [refused EXCEPT ![k] = @ \cup {l}] /\ UNCHANGED admitted
         ELSE /\ admitted' = IF onTime THEN [admitted EXCEPT ![k] = Append(@, l)] ELSE admitted
              /\ UNCHANGED refused
    BY Zenon DEF Decide
<1> HIDE DEF k, l
<1>4. \/ n > l /\ refused' = [refused EXCEPT ![k] = @ \cup {l}] /\ admitted' = admitted
      \/ n <= l /\ refused' = refused /\ onTime
                /\ admitted' = [admitted EXCEPT ![k] = Append(@, l)]
      \/ n <= l /\ refused' = refused /\ ~onTime /\ admitted' = admitted
  <2>1. n > l \/ n <= l
      BY <1>2
  <2>2. n <= l => ~(n > l)
      BY <1>2
  <2> QED
      BY <1>3, <2>1, <2>2, Zenon
<1>5. NoJob \in Jobs
    BY MinutesPass DEF NoJob, Jobs
<1>6. pc' \in [Handlers -> {"idle", "incr", "expire"}] /\ job' \in [Handlers -> Jobs]
    BY <1>3, <1>5 DEF TypeInv
<1>7. refused' \in [Minutes -> SUBSET Nat]
    BY <1>2, <1>4 DEF TypeInv
<1>8. admitted' \in [Minutes -> Seq(Nat)]
  <2>1. Append(admitted[k], l) \in Seq(Nat)
      BY <1>2 DEF TypeInv
  <2> QED
      BY <1>2, <1>4, <2>1 DEF TypeInv
<1> QED
    BY <1>2, <1>3, <1>4, <1>6, <1>7, <1>8, Zenon DEF k, l

\* At the start no request is at work and nothing is counted.
LEMMA LimiterInit == Init => LimiterInv
<1> SUFFICES ASSUME Init PROVE LimiterInv
    OBVIOUS
<1> USE DEF Init
<1>1. NoJob \in Jobs
    BY MinutesPass DEF NoJob, Jobs
<1>2. TypeInv
    BY <1>1, MinutesPass DEF TypeInv
<1>3. JobInv /\ KeyInv /\ RefusedForItsOwnMinute
    BY DEF JobInv, KeyInv, RefusedForItsOwnMinute
<1>4. StartedInv
  <2>1. \A k : Waiting(k) = {}
      BY DEF Waiting
  <2>2. \A k \in Minutes : count[k] = 0 /\ started[k] = 0 /\ Cardinality(Waiting(k)) = 0
      BY <2>1, FS_EmptySet
  <2> HIDE DEF Init
  <2> QED
      BY <2>2 DEF StartedInv
<1>5. AdmittedInv
  <2>1. \A l : Within(<<>>, l) = {}
      BY DEF Within
  <2>2. \A k \in Minutes : admitted[k] = <<>> /\ count[k] = 0
      OBVIOUS
  <2>3. \A k \in Minutes, l \in Limits : Within(admitted[k], l) = {} /\ Pending(k, l) = {}
      BY <2>1, <2>2 DEF Pending
  <2>5. \A l \in Limits : l \in Nat
      BY LimitsAssumption
  <2> HIDE DEF Init
  <2>4. \A k \in Minutes, l \in Limits : Passed(k, l) = 0
    <3>1. Cardinality({}) = 0
        BY FS_EmptySet
    <3> QED
        BY <2>3, <3>1 DEF Passed
  <2>6. \A l \in Limits : 0 <= l
      BY <2>5
  <2> QED
      BY <2>2, <2>4, <2>6 DEF AdmittedInv
<1> QED
    BY <1>2, <1>3, <1>4, <1>5 DEF LimiterInv

-----------------------------------------------------------------------------
(* The steps *)

\* A request that reads the clock joins those waiting in the current minute.
LEMMA ReadClockStep ==
    ASSUME LimiterInv, NEW h \in Handlers, NEW l \in Limits, ReadClock(h, l)
    PROVE  LimiterInv'
<1> USE DEF LimiterInv
<1> DEFINE m == MinuteOf(now)
           j == [NoJob EXCEPT !.minute = m, !.limit = l]
<1>1. /\ pc[h] = "idle" /\ pc' = [pc EXCEPT ![h] = "incr"]
      /\ UNCHANGED <<now, count, expireAt, admitted, refused>>
    BY DEF ReadClock
<1>2. started' = [started EXCEPT ![m] = @ + 1] /\ job' = [job EXCEPT ![h] = j]
    BY DEF ReadClock
<1>3. m \in Minutes /\ m \in Nat
    BY CurrentMinute, MinutesPass DEF TypeInv
<1> HIDE DEF m
<1>4. j \in Jobs /\ j.minute = m
    BY <1>3, LimitsAssumption DEF NoJob, Jobs
<1> HIDE DEF j
<1>5. TypeInv'
  <2>1. started[m] + 1 \in Nat
      BY <1>3 DEF TypeInv
  <2>2. started' \in [Minutes -> Nat]
      BY <1>2, <2>1 DEF TypeInv
  <2>3. job' \in [Handlers -> Jobs] /\ pc' \in [Handlers -> {"idle", "incr", "expire"}]
      BY <1>1, <1>2, <1>4 DEF TypeInv
  <2> QED
      BY <1>1, <2>2, <2>3 DEF TypeInv
<1>6. \A k \in Minutes : started[k] \in Nat /\ started'[k] = IF k = m THEN started[k] + 1 ELSE started[k]
    BY <1>2, <1>3 DEF TypeInv
<1>7. \A k \in Minutes : started'[k] >= started[k] /\ started'[k] \in Nat
    BY <1>6
<1>8. /\ pc'[h] = "incr" /\ job'[h] = j
      /\ \A g \in Handlers : g # h => pc'[g] = pc[g] /\ job'[g] = job[g]
      /\ \A g \in Handlers : job[g].minute \in Minutes
    BY <1>1, <1>2 DEF TypeInv, Jobs
<1>9. JobInv'
  <2> SUFFICES ASSUME NEW g \in Handlers
               PROVE  /\ pc'[g] # "idle" => job'[g].minute <= m
                      /\ pc'[g] = "expire" => job'[g].count = 1 /\ started'[job'[g].minute] >= 1
      BY <1>1 DEF JobInv, m
  <2>1. CASE g = h
      BY <1>3, <1>4, <1>8, <2>1
  <2>2. CASE g # h
    <3>1. /\ pc[g] # "idle" => job[g].minute <= m
          /\ pc[g] = "expire" => job[g].count = 1 /\ started[job[g].minute] >= 1
        BY DEF JobInv, m
    <3>2. started[job[g].minute] >= 1 => started'[job[g].minute] >= 1
        BY <1>6, <1>7, <1>8
    <3> QED
        BY <1>8, <2>2, <3>1, <3>2
  <2> QED
      BY <2>1, <2>2
<1>10. KeyInv'
    BY <1>1 DEF KeyInv
<1>11. StartedInv'
  <2>1. \A k : Waiting(k)' = IF k = m THEN Waiting(k) \cup {h} ELSE Waiting(k)
      BY <1>1, <1>4, <1>8 DEF Waiting
  <2>2. h \notin Waiting(m)
      BY <1>1 DEF Waiting
  <2>3. Cardinality(Waiting(m) \cup {h}) = Cardinality(Waiting(m)) + 1
      BY <2>2, CountedSets, FS_AddElement
  <2> SUFFICES ASSUME NEW k \in Minutes PROVE count[k] + Cardinality(Waiting(k)') <= started'[k]
      BY <1>1 DEF StartedInv
  <2>4. count[k] + Cardinality(Waiting(k)) <= started[k] /\ count[k] \in Nat
      BY DEF StartedInv, TypeInv
  <2>5. Cardinality(Waiting(k)) \in Nat
      BY CountedSets
  <2>6. Cardinality(Waiting(k)') = IF k = m THEN Cardinality(Waiting(k)) + 1 ELSE Cardinality(Waiting(k))
      BY <2>1, <2>3
  <2> QED
      BY <1>6, <2>4, <2>5, <2>6
<1>12. RefusedForItsOwnMinute'
  <2> SUFFICES ASSUME NEW k \in Minutes, NEW x \in refused[k] PROVE started'[k] > x
      BY <1>1 DEF RefusedForItsOwnMinute
  <2>1. x \in Nat /\ started[k] > x
      BY DEF RefusedForItsOwnMinute, TypeInv
  <2> QED
      BY <1>6, <1>7, <2>1
<1>13. AdmittedInv'
  <2>1. \A k, x : Pending(k, x)' \subseteq Pending(k, x)
      BY <1>8 DEF Pending
  <2> SUFFICES ASSUME NEW k \in Minutes, NEW x \in Limits
               PROVE  Passed(k, x)' <= x /\ (m <= k => Passed(k, x)' <= count[k])
      BY <1>1 DEF AdmittedInv, m
  <2>2. Passed(k, x) \in Nat /\ Passed(k, x)' \in Nat /\ Passed(k, x)' <= Passed(k, x)
      BY <1>1, <2>1, PassedKept
  <2>3. Passed(k, x) <= x /\ (m <= k => Passed(k, x) <= count[k]) /\ x \in Nat /\ count[k] \in Nat
      BY LimitsAssumption DEF AdmittedInv, m, TypeInv
  <2> QED
      BY <2>2, <2>3
<1> QED
    BY <1>5, <1>9, <1>10, <1>11, <1>12, <1>13

\* A request that ends is no longer counted as waiting or pending; the others
\* are where they were.
LEMMA RequestEnds ==
    ASSUME TypeInv, JobInv, NEW h \in Handlers,
           pc' = [pc EXCEPT ![h] = "idle"], job' = [job EXCEPT ![h] = NoJob],
           UNCHANGED <<now, started>>
    PROVE  /\ JobInv'
           /\ \A k : Waiting(k)' = Waiting(k) \ {h}
           /\ \A k, x : Pending(k, x)' = Pending(k, x) \ {h}
<1>1. /\ pc'[h] = "idle" /\ \A g \in Handlers : g # h => pc'[g] = pc[g] /\ job'[g] = job[g]
    BY DEF TypeInv
<1>2. JobInv'
    BY <1>1 DEF JobInv
<1>3. \A k : Waiting(k)' = Waiting(k) \ {h}
    BY <1>1 DEF Waiting
<1>4. \A k, x : Pending(k, x)' = Pending(k, x) \ {h}
    BY <1>1 DEF Pending
<1> QED
    BY <1>2, <1>3, <1>4

\* Fewer waiting requests leave the count covered.
LEMMA FewerWaiting ==
    \A k : \A S \in SUBSET Waiting(k) :
       Cardinality(S) \in Nat /\ Cardinality(Waiting(k)) \in Nat
       /\ Cardinality(S) <= Cardinality(Waiting(k))
<1> SUFFICES ASSUME NEW k, NEW S \in SUBSET Waiting(k)
             PROVE  Cardinality(S) \in Nat /\ Cardinality(Waiting(k)) \in Nat
                    /\ Cardinality(S) <= Cardinality(Waiting(k))
    OBVIOUS
<1> DEFINE W == Waiting(k)
<1>1. IsFiniteSet(W) /\ Cardinality(W) \in Nat /\ S \in SUBSET W
    BY CountedSets
<1> HIDE DEF W
<1>2. IsFiniteSet(S) /\ Cardinality(S) <= Cardinality(W)
    BY <1>1, FS_Subset
<1> QED
    BY <1>1, <1>2, FS_CardinalityType DEF W

\* Where no request joins those to be let through and no current count drops,
\* the invariant of the admissions stays.
LEMMA AdmittedKept ==
    ASSUME TypeInv, TypeInv', AdmittedInv, UNCHANGED admitted,
           \A k \in Minutes, x \in Limits : Pending(k, x)' \subseteq Pending(k, x),
           \A k \in Minutes : MinuteOf(now)' <= k => MinuteOf(now) <= k /\ count'[k] >= count[k]
    PROVE  AdmittedInv'
<1> DEFINE m == MinuteOf(now)
<1> SUFFICES ASSUME NEW k \in Minutes, NEW x \in Limits
             PROVE  Passed(k, x)' <= x /\ (m' <= k => Passed(k, x)' <= count'[k])
    BY DEF AdmittedInv
<1>1. Passed(k, x) \in Nat /\ Passed(k, x)' \in Nat /\ Passed(k, x)' <= Passed(k, x)
    BY PassedKept
<1>2. Passed(k, x) <= x /\ (m <= k => Passed(k, x) <= count[k]) /\ x \in Nat
      /\ count[k] \in Nat /\ count'[k] \in Nat
    BY LimitsAssumption DEF AdmittedInv, TypeInv
<1>3. m' <= k => m <= k /\ count'[k] >= count[k]
    OBVIOUS
<1> HIDE DEF m
<1> QED
    BY <1>1, <1>2, <1>3

\* A key that goes, goes after its minute.
LEMMA TickStep == LimiterInv /\ Tick => LimiterInv'
<1> SUFFICES ASSUME LimiterInv, Tick PROVE LimiterInv'
    OBVIOUS
<1> USE DEF LimiterInv
<1> DEFINE u == now + 1
<1>1. now \in Nat /\ now < MaxTime /\ u \in 0..MaxTime /\ u \in Nat /\ now <= u
    BY MinutesPass DEF Tick, TypeInv
<1>2. /\ now' = u
      /\ count' = [k \in Minutes |-> IF expireAt[k] = u THEN 0 ELSE count[k]]
      /\ expireAt' = [k \in Minutes |-> IF expireAt[k] = u THEN None ELSE expireAt[k]]
      /\ UNCHANGED <<pc, job, started, admitted, refused>>
    BY DEF Tick, Lapses
<1>3. MinuteOf(now) \in Nat /\ MinuteOf(u) \in Nat /\ MinuteOf(now) <= MinuteOf(u)
    BY <1>1, MinutesPass
<1> HIDE DEF u
<1>4. TypeInv'
    BY <1>1, <1>2 DEF TypeInv
<1>5. JobInv'
  <2> SUFFICES ASSUME NEW h \in Handlers PROVE pc[h] # "idle" => job[h].minute <= MinuteOf(u)
      BY <1>2 DEF JobInv
  <2>1. job[h].minute \in Nat
      BY MinutesPass DEF TypeInv, Jobs
  <2>2. pc[h] # "idle" => job[h].minute <= MinuteOf(now)
      BY DEF JobInv
  <2> QED
      BY <1>3, <2>1, <2>2
<1>6. KeyInv'
    BY <1>2 DEF KeyInv
<1>7. \A k \in Minutes : count[k] \in Nat /\ count'[k] \in Nat /\ count'[k] <= count[k]
  <2> SUFFICES ASSUME NEW k \in Minutes PROVE count[k] \in Nat /\ count'[k] \in Nat /\ count'[k] <= count[k]
      OBVIOUS
  <2>1. count[k] \in Nat /\ (count'[k] = 0 \/ count'[k] = count[k])
      BY <1>2 DEF TypeInv
  <2> QED
      BY <2>1
<1>8. StartedInv'
  <2> SUFFICES ASSUME NEW k \in Minutes PROVE count'[k] + Cardinality(Waiting(k)) <= started[k]
      BY <1>2 DEF StartedInv, Waiting
  <2>1. count[k] + Cardinality(Waiting(k)) <= started[k] /\ started[k] \in Nat
      BY DEF StartedInv, TypeInv
  <2> QED
      BY <1>7, <2>1, CountedSets
<1>9. RefusedForItsOwnMinute'
    BY <1>2 DEF RefusedForItsOwnMinute
<1>10. AdmittedInv'
  <2>1. \A k \in Minutes, x \in Limits : Pending(k, x)' \subseteq Pending(k, x)
      BY <1>2 DEF Pending
  <2>2. ASSUME NEW k \in Minutes, MinuteOf(u) <= k PROVE MinuteOf(now) <= k /\ count'[k] >= count[k]
    <3>1. k \in Nat /\ ~(MinuteOf(u) > k)
        BY <1>3, <2>2, MinutesPass
    <3>2. u # None
        BY <1>1, HandlersAssumption
    <3>3. expireAt[k] # u
        BY <3>1, <3>2 DEF KeyInv
    <3>4. count'[k] = count[k]
        BY <1>2, <3>3
    <3> QED
        BY <1>3, <1>7, <2>2, <3>1, <3>4
  <2>3. MinuteOf(now)' = MinuteOf(u)
      BY <1>2
  <2> QED
      BY <1>2, <1>4, <2>1, <2>2, <2>3, AdmittedKept
<1> QED
    BY <1>4, <1>5, <1>6, <1>8, <1>9, <1>10

\* EXPIRE makes the key outlive its minute.
LEMMA LifetimeKept ==
    ASSUME TypeInv, JobInv, KeyInv, NEW h \in Handlers, pc[h] = "expire",
           SetLifetime(job[h].minute)
    PROVE  expireAt' \in [Minutes -> Nat \cup {None}] /\ KeyInv'
<1> DEFINE k0 == job[h].minute
           ends == now + Minute
<1>1. job[h] \in Jobs
    BY DEF TypeInv
<1>2. k0 \in Minutes /\ k0 <= MinuteOf(now)
    BY <1>1 DEF JobInv, Jobs
<1>3. expireAt' = [expireAt EXCEPT ![k0] = IF count[k0] > 0 THEN ends ELSE None]
    BY DEF SetLifetime, Lifetime
<1>4. now \in Nat /\ ends \in Nat /\ MinuteOf(now) \in Nat /\ MinuteOf(ends) = MinuteOf(now) + 1
  <2>1. now \in Nat /\ Minute \in Nat
      BY MinutesPass DEF TypeInv
  <2>2. ends \in Nat
      BY <2>1
  <2> QED
      BY <2>1, <2>2, MinutesPass, Zenon
<1> HIDE DEF ends
<1>5. expireAt' \in [Minutes -> Nat \cup {None}]
    BY <1>2, <1>3, <1>4 DEF TypeInv
<1>6. KeyInv'
  <2> SUFFICES ASSUME NEW k \in Minutes, expireAt'[k] # None PROVE MinuteOf(expireAt'[k]) > k
      BY DEF KeyInv
  <2>1. CASE k = k0
    <3>1. expireAt'[k] = ends
        BY <1>2, <1>3, <2>1 DEF TypeInv
    <3>2. k \in Nat
        BY MinutesPass
    <3> QED
        BY <1>2, <1>4, <2>1, <3>1, <3>2
  <2>2. CASE k # k0
    <3>1. expireAt'[k] = expireAt[k]
        BY <1>2, <1>3, <2>2 DEF TypeInv
    <3> QED
        BY <3>1 DEF KeyInv
  <2> QED
      BY <2>1, <2>2
<1> QED
    BY <1>5, <1>6

\* A request that is decided after EXPIRE moves from the pending ones to those
\* let through.
LEMMA ExpireStep ==
    ASSUME LimiterInv, NEW h \in Handlers, Expire(h)
    PROVE  LimiterInv'
<1> USE DEF LimiterInv
<1> DEFINE k0 == job[h].minute
           l0 == job[h].limit
<1>1. job[h] \in Jobs /\ pc[h] = "expire"
    BY DEF TypeInv, Expire
<1>2. /\ job[h].count = 1 /\ started[k0] >= 1 /\ k0 <= MinuteOf(now)
      /\ job[h].onTime \in BOOLEAN /\ k0 \in Minutes /\ l0 \in Nat
    BY <1>1 DEF JobInv, Jobs
<1>3. /\ SetLifetime(k0)
      /\ Decide(h, 1, job[h].onTime)
      /\ UNCHANGED <<now, count, started>>
    BY <1>2 DEF Expire
<1>4. expireAt' \in [Minutes -> Nat \cup {None}] /\ KeyInv'
    BY <1>1, <1>3, LifetimeKept
<1>5. /\ pc' = [pc EXCEPT ![h] = "idle"] /\ job' = [job EXCEPT ![h] = NoJob]
      /\ \/ 1 > l0 /\ refused' = [refused EXCEPT ![k0] = @ \cup {l0}] /\ admitted' = admitted
         \/ 1 <= l0 /\ refused' = refused /\ job[h].onTime
                    /\ admitted' = [admitted EXCEPT ![k0] = Append(@, l0)]
         \/ 1 <= l0 /\ refused' = refused /\ ~job[h].onTime /\ admitted' = admitted
      /\ pc' \in [Handlers -> {"idle", "incr", "expire"}] /\ job' \in [Handlers -> Jobs]
      /\ refused' \in [Minutes -> SUBSET Nat] /\ admitted' \in [Minutes -> Seq(Nat)]
  <2>1. 1 \in Nat
      OBVIOUS
  <2> QED
      BY <1>2, <1>3, <2>1, Decided
<1>6. TypeInv'
    BY <1>2, <1>3, <1>4, <1>5 DEF TypeInv
<1>7. /\ JobInv'
      /\ \A k : Waiting(k)' = Waiting(k) \ {h}
      /\ \A k, x : Pending(k, x)' = Pending(k, x) \ {h}
    BY <1>3, <1>5, RequestEnds
<1>9. StartedInv'
  <2>1. \A k : Waiting(k)' = Waiting(k)
      BY <1>1, <1>7 DEF Waiting
  <2> QED
      BY <1>3, <2>1 DEF StartedInv
<1>10. RefusedForItsOwnMinute'
  <2> SUFFICES ASSUME NEW k \in Minutes, NEW x \in refused'[k] PROVE started[k] > x
      BY <1>3 DEF RefusedForItsOwnMinute
  <2>1. x \in refused[k] \/ (k = k0 /\ x = l0 /\ 1 > l0)
      BY <1>2, <1>5 DEF TypeInv
  <2>2. x \in refused[k] => started[k] > x
      BY DEF RefusedForItsOwnMinute
  <2>3. started[k0] \in Nat
      BY <1>2 DEF TypeInv
  <2>4. k = k0 /\ x = l0 /\ 1 > l0 => started[k] > x
      BY <1>2, <2>3
  <2> QED
      BY <2>1, <2>2, <2>4
<1>11. AdmittedInv'
  <2> SUFFICES ASSUME NEW k \in Minutes, NEW x \in Limits
               PROVE  Passed(k, x)' <= x /\ (MinuteOf(now) <= k => Passed(k, x)' <= count[k])
      BY <1>3 DEF AdmittedInv
  <2>1. Passed(k, x) <= x /\ (MinuteOf(now) <= k => Passed(k, x) <= count[k]) /\ x \in Nat
        /\ count[k] \in Nat
      BY LimitsAssumption DEF AdmittedInv, TypeInv
  <2>2. Pending(k, x)' = Pending(k, x) \ {h}
      BY <1>7
  <2>3. CASE admitted'[k] = admitted[k]
    <3>1. Passed(k, x) \in Nat /\ Passed(k, x)' \in Nat /\ Passed(k, x)' <= Passed(k, x)
        BY <2>2, <2>3, PassedKept
    <3> QED
        BY <2>1, <3>1
  <2>4. CASE admitted'[k] # admitted[k]
    <3>1. /\ k = k0 /\ 1 <= l0 /\ job[h].onTime /\ admitted'[k] = Append(admitted[k], l0)
          /\ admitted[k] \in Seq(Nat)
        BY <1>2, <1>5, <2>4 DEF TypeInv
    <3> DEFINE w == Cardinality(Within(admitted[k], x))
               v == Cardinality(Within(admitted'[k], x))
               P == Pending(k, x)
               p == Cardinality(P)
               q == Cardinality(P \ {h})
    <3>2. w \in Nat /\ v = IF l0 <= x THEN w + 1 ELSE w
      <4>1. /\ w \in Nat
            /\ Cardinality(Within(Append(admitted[k], l0), x)) = IF l0 <= x THEN w + 1 ELSE w
        <5>1. l0 \in Nat /\ x \in Nat /\ admitted[k] \in Seq(Nat)
            BY <1>2, <2>1, <3>1
        <5> QED
            BY <5>1, OneLetThrough, Zenon
      <4> QED
          BY <3>1, <4>1, Zenon
    <3>3. Passed(k, x) = w + p /\ Passed(k, x)' = v + q
        BY <2>2 DEF Passed
    <3>4. p \in Nat /\ q \in Nat /\ (p = q \/ p = q + 1) /\ (l0 <= x => p = q + 1)
      <4>1. IsFiniteSet(P)
          BY CountedSets
      <4>2. l0 <= x => h \in P
        <5>1. l0 >= 1
            BY <1>2, <3>1
        <5> QED
            BY <1>1, <3>1, <5>1, Zenon DEF Pending
      <4> HIDE DEF P
      <4>3. h \in P => p \in Nat /\ q \in Nat /\ p = q + 1
          BY <4>1, OneLess
      <4>4. h \notin P => P \ {h} = P /\ p \in Nat
          BY <4>1, FS_CardinalityType
      <4> QED
          BY <4>2, <4>3, <4>4
    <3> HIDE DEF w, v, p, q
    <3>5. Passed(k, x)' <= Passed(k, x) /\ Passed(k, x) \in Nat /\ Passed(k, x)' \in Nat
        BY <3>2, <3>3, <3>4
    <3> QED
        BY <2>1, <3>5
  <2> QED
      BY <2>3, <2>4
<1> QED
    BY <1>4, <1>6, <1>7, <1>9, <1>10, <1>11

\* What INCR does, by whether it created the key.
LEMMA Counted ==
    ASSUME TypeInv, JobInv, NEW h \in Handlers, Incr(h)
    PROVE  LET k == job[h].minute
               n == count[k] + 1
               onTime == MinuteOf(now) = k
           IN  /\ pc[h] = "incr" /\ k \in Minutes /\ job[h].limit \in Nat /\ n \in Nat
               /\ k <= MinuteOf(now)
               /\ count' = [count EXCEPT ![k] = n]
               /\ UNCHANGED <<now, expireAt, started>>
               /\ \/ /\ n = 1 /\ pc' = [pc EXCEPT ![h] = "expire"]
                     /\ job' = [job EXCEPT ![h] = [@ EXCEPT !.count = 1, !.onTime = onTime]]
                     /\ UNCHANGED <<admitted, refused>>
                  \/ n # 1 /\ Decide(h, n, onTime)
<1> DEFINE k == job[h].minute
           n == count[k] + 1
<1>1. job[h] \in Jobs /\ pc[h] = "incr"
    BY DEF TypeInv, Incr
<1>2. k \in Minutes /\ job[h].limit \in Nat /\ n \in Nat
    BY <1>1 DEF Jobs, TypeInv
<1>3. k <= MinuteOf(now)
    BY <1>1 DEF JobInv
<1>4. /\ count' = [count EXCEPT ![k] = n]
      /\ UNCHANGED <<now, expireAt, started>>
      /\ \/ /\ n = 1 /\ pc' = [pc EXCEPT ![h] = "expire"]
            /\ job' = [job EXCEPT ![h] = [@ EXCEPT !.count = 1, !.onTime = (MinuteOf(now) = k)]]
            /\ UNCHANGED <<admitted, refused>>
         \/ n # 1 /\ Decide(h, n, MinuteOf(now) = k)
    BY Zenon DEF Incr, Counter
<1> QED
    BY <1>1, <1>2, <1>3, <1>4, Zenon

\* A request that counts itself is one of those waiting in its minute; it stops
\* waiting, so the requests that started still cover the count.
LEMMA CountIsCovered ==
    ASSUME TypeInv, StartedInv, NEW h \in Handlers, pc[h] = "incr", job[h].minute \in Minutes,
           count' = [count EXCEPT ![job[h].minute] = count[job[h].minute] + 1],
           UNCHANGED started, \A k : Waiting(k)' = Waiting(k) \ {h}
    PROVE  StartedInv' /\ count[job[h].minute] + 1 <= started[job[h].minute]
<1> DEFINE k0 == job[h].minute
           n == count[k0] + 1
<1>1. \A k \in Minutes : count[k] \in Nat /\ started[k] \in Nat
                         /\ count[k] + Cardinality(Waiting(k)) <= started[k]
    BY DEF TypeInv, StartedInv
<1>2. h \in Waiting(k0)
    BY DEF Waiting
<1> DEFINE S == Waiting(k0)
           a == Cardinality(S)
           b == Cardinality(S \ {h})
<1>3. a \in Nat /\ b \in Nat /\ a = b + 1
  <2>1. IsFiniteSet(S) /\ h \in S
      BY <1>2, CountedSets
  <2> HIDE DEF S
  <2> QED
      BY <2>1, OneLess
<1>4. \A k \in Minutes : count'[k] = IF k = k0 THEN n ELSE count[k]
    BY DEF TypeInv
<1>5. count[k0] \in Nat /\ started[k0] \in Nat /\ count[k0] + a <= started[k0]
    BY <1>1
<1> HIDE DEF a, b, k0
<1>6. n + b <= started[k0] /\ n <= started[k0]
    BY <1>3, <1>5
<1>7. StartedInv'
  <2> SUFFICES ASSUME NEW k \in Minutes PROVE count'[k] + Cardinality(Waiting(k)') <= started[k]
      BY DEF StartedInv
  <2>1. CASE k = k0
    <3>1. Cardinality(Waiting(k)') = b
        BY <2>1 DEF b
    <3>2. count'[k] = n
        BY <1>4, <2>1
    <3> QED
        BY <1>6, <2>1, <3>1, <3>2
  <2>2. CASE k # k0
    <3>1. h \notin Waiting(k)
        BY <2>2 DEF Waiting, k0
    <3>2. Waiting(k)' = Waiting(k)
        BY <3>1
    <3>3. count'[k] = count[k]
        BY <1>4, <2>2
    <3> QED
        BY <1>1, <3>2, <3>3
  <2> QED
      BY <2>1, <2>2
<1> QED
    BY <1>6, <1>7 DEF k0

\* A request that stops half-way leaves the count and the key that its commands
\* have made.
LEMMA StopStep ==
    ASSUME LimiterInv, NEW h \in Handlers, Stop(h)
    PROVE  LimiterInv'
<1> USE DEF LimiterInv
<1> DEFINE k0 == job[h].minute
<1>1. /\ pc' = [pc EXCEPT ![h] = "idle"] /\ job' = [job EXCEPT ![h] = NoJob]
      /\ UNCHANGED <<now, started, admitted, refused>>
    BY DEF Stop
<1>2. /\ JobInv'
      /\ \A k : Waiting(k)' = Waiting(k) \ {h}
      /\ \A k, x : Pending(k, x)' = Pending(k, x) \ {h}
    BY <1>1, RequestEnds
<1>3. k0 \in Minutes /\ count[k0] + 1 \in Nat
    BY DEF TypeInv, Jobs
<1>4. \/ UNCHANGED <<count, expireAt>>
      \/ pc[h] = "incr" /\ count' = [count EXCEPT ![k0] = count[k0] + 1] /\ UNCHANGED expireAt
      \/ pc[h] = "expire" /\ SetLifetime(k0) /\ UNCHANGED count
    BY DEF Stop, Counter
<1>5. expireAt' \in [Minutes -> Nat \cup {None}] /\ KeyInv'
  <2>1. CASE UNCHANGED expireAt
      BY <2>1 DEF TypeInv, KeyInv
  <2>2. CASE pc[h] = "expire" /\ SetLifetime(k0)
      BY <2>2, LifetimeKept
  <2> QED
      BY <1>4, <2>1, <2>2
<1>6. count' \in [Minutes -> Nat] /\ \A k \in Minutes : count'[k] >= count[k]
  <2> HIDE DEF k0
  <2>1. count \in [Minutes -> Nat] /\ \A k \in Minutes : count[k] \in Nat
      BY DEF TypeInv
  <2>2. CASE UNCHANGED count
      BY <2>1, <2>2
  <2>3. CASE count' = [count EXCEPT ![k0] = count[k0] + 1]
      BY <1>3, <2>1, <2>3
  <2> QED
      BY <1>4, <2>2, <2>3
<1>7. TypeInv'
  <2>1. NoJob \in Jobs
      BY MinutesPass DEF NoJob, Jobs
  <2> QED
      BY <1>1, <1>5, <1>6, <2>1 DEF TypeInv
<1>8. RefusedForItsOwnMinute'
    BY <1>1 DEF RefusedForItsOwnMinute
<1>9. StartedInv'
  <2>1. CASE pc[h] = "incr" /\ count' = [count EXCEPT ![k0] = count[k0] + 1]
      BY <1>1, <1>2, <1>3, <2>1, CountIsCovered
  <2>2. CASE UNCHANGED count
    <3> SUFFICES ASSUME NEW k \in Minutes PROVE count[k] + Cardinality(Waiting(k)') <= started[k]
        BY <1>1, <2>2 DEF StartedInv
    <3>1. count[k] + Cardinality(Waiting(k)) <= started[k] /\ count[k] \in Nat /\ started[k] \in Nat
        BY DEF StartedInv, TypeInv
    <3>2. Waiting(k)' \in SUBSET Waiting(k)
        BY <1>2
    <3>3. Cardinality(Waiting(k)') \in Nat /\ Cardinality(Waiting(k)) \in Nat
          /\ Cardinality(Waiting(k)') <= Cardinality(Waiting(k))
        BY <3>2, FewerWaiting, Zenon
    <3> QED
        BY <3>1, <3>3
  <2> QED
      BY <1>4, <2>1, <2>2
<1>10. AdmittedInv'
  <2>1. \A k \in Minutes : count'[k] >= count[k] /\ MinuteOf(now)' = MinuteOf(now)
      BY <1>1, <1>6
  <2>2. \A k \in Minutes, x \in Limits : Pending(k, x)' \subseteq Pending(k, x)
      BY <1>2
  <2> QED
      BY <1>1, <1>7, <2>1, <2>2, AdmittedKept
<1> QED
    BY <1>2, <1>5, <1>7, <1>8, <1>9, <1>10

\* The request that creates the key has counted 1; it is the first of its
\* minute unless it came late.
LEMMA FirstIncrStep ==
    ASSUME LimiterInv, NEW h \in Handlers, Incr(h), count[job[h].minute] + 1 = 1
    PROVE  LimiterInv'
<1> USE DEF LimiterInv
<1> DEFINE k0 == job[h].minute
           l0 == job[h].limit
           n == count[k0] + 1
           late == MinuteOf(now) # k0
           j == [job[h] EXCEPT !.count = 1, !.onTime = ~late]
<1>1. /\ pc[h] = "incr" /\ k0 \in Minutes /\ l0 \in Nat /\ n \in Nat
      /\ k0 <= MinuteOf(now)
      /\ count' = [count EXCEPT ![k0] = n]
      /\ UNCHANGED <<now, expireAt, started>>
      /\ pc' = [pc EXCEPT ![h] = "expire"]
      /\ job' = [job EXCEPT ![h] = [@ EXCEPT !.count = 1, !.onTime = (MinuteOf(now) = k0)]]
      /\ UNCHANGED <<admitted, refused>>
    BY Counted, Zenon
<1>2. job' = [job EXCEPT ![h] = j]
    BY <1>1
<1>3. job[h] \in Jobs
    BY DEF TypeInv
<1> HIDE DEF late
<1>4. j \in Jobs /\ j.minute = k0 /\ j.limit = l0 /\ j.count = 1 /\ j.onTime = ~late
  <2>1. late \in BOOLEAN
      BY DEF late
  <2> QED
      BY <1>3, <2>1 DEF Jobs
<1> HIDE DEF j
<1>5. /\ pc'[h] = "expire" /\ job'[h] = j
      /\ \A g \in Handlers : g # h => pc'[g] = pc[g] /\ job'[g] = job[g]
    BY <1>1, <1>2 DEF TypeInv
<1>6. TypeInv'
    BY <1>1, <1>2, <1>4 DEF TypeInv
<1>7. \A k : Waiting(k)' = Waiting(k) \ {h}
    BY <1>5 DEF Waiting
<1>8. StartedInv' /\ n <= started[k0]
    BY <1>1, <1>7, CountIsCovered
<1>9. started[k0] >= 1
  <2>1. n = 1 /\ started[k0] \in Nat
      BY <1>1 DEF TypeInv
  <2> QED
      BY <1>8, <2>1
<1>10. JobInv'
  <2> SUFFICES ASSUME NEW g \in Handlers
               PROVE  /\ pc'[g] # "idle" => job'[g].minute <= MinuteOf(now)
                      /\ pc'[g] = "expire" => job'[g].count = 1 /\ started[job'[g].minute] >= 1
      BY <1>1 DEF JobInv
  <2>1. CASE g = h
      BY <1>1, <1>4, <1>5, <1>9, <2>1
  <2>2. CASE g # h
      BY <1>5, <2>2 DEF JobInv
  <2> QED
      BY <2>1, <2>2
<1>11. KeyInv' /\ RefusedForItsOwnMinute'
    BY <1>1 DEF KeyInv, RefusedForItsOwnMinute
<1>12. AdmittedInv'
  <2> SUFFICES ASSUME NEW k \in Minutes, NEW x \in Limits
               PROVE  Passed(k, x)' <= x /\ (MinuteOf(now) <= k => Passed(k, x)' <= count'[k])
      BY <1>1 DEF AdmittedInv
  <2> DEFINE P == Pending(k, x)
  <2>1. Passed(k, x) <= x /\ (MinuteOf(now) <= k => Passed(k, x) <= count[k]) /\ x \in Nat
        /\ count[k] \in Nat
      BY LimitsAssumption DEF AdmittedInv, TypeInv
  <2>2. count'[k] \in Nat /\ count'[k] >= count[k] /\ (k = k0 => count[k] = 0 /\ count'[k] = 1)
    <3>1. count'[k] = IF k = k0 THEN n ELSE count[k]
        BY <1>1 DEF TypeInv
    <3>2. k = k0 => n = 1 /\ count[k] = 0
        BY <2>1
    <3> HIDE DEF k0
    <3> QED
        BY <2>1, <3>1, <3>2
  <2>3. CASE k = k0 /\ ~late /\ l0 >= 1 /\ l0 <= x
    <3>1. MinuteOf(now) <= k /\ count[k] = 0 /\ count'[k] = 1
      <4>1. MinuteOf(now) = k
          BY <2>3 DEF late
      <4>2. k \in Nat
          BY MinutesPass
      <4> QED
          BY <2>2, <2>3, <4>1, <4>2
    <3>2. Pending(k, x)' = P \cup {h}
        BY <1>4, <1>5, <2>3 DEF Pending
    <3>3. IsFiniteSet(P) /\ Cardinality(P) \in Nat
        BY CountedSets
    <3> DEFINE w == Cardinality(Within(admitted[k], x))
               p == Cardinality(P)
               q == Cardinality(P \cup {h})
    <3>4. p \in Nat /\ q \in Nat /\ q <= p + 1
      <4> HIDE DEF P
      <4>1. IsFiniteSet(P \cup {h}) /\ (q = p \/ q = p + 1)
          BY <3>3, FS_AddElement
      <4> QED
          BY <3>3, <4>1, FS_CardinalityType
    <3>5. w \in Nat
      <4>1. admitted[k] \in Seq(Nat)
          BY DEF TypeInv
      <4> QED
          BY <2>1, <4>1, OneLetThrough, Zenon
    <3>6. Passed(k, x) = w + p /\ Passed(k, x)' = w + q
        BY <1>1, <3>2 DEF Passed
    <3>7. 1 <= x
        BY <1>1, <2>1, <2>3
    <3> HIDE DEF w, p, q
    <3>8. w + p <= 0
        BY <2>1, <3>1, <3>6
    <3>9. w + q <= 1
        BY <3>4, <3>5, <3>8
    <3>10. w + q <= x
        BY <2>1, <3>4, <3>5, <3>7, <3>9
    <3> QED
        BY <3>1, <3>6, <3>9, <3>10
  <2>4. CASE ~(k = k0 /\ ~late /\ l0 >= 1 /\ l0 <= x)
    <3>1. Pending(k, x)' \subseteq Pending(k, x)
        BY <1>4, <1>5, <2>4 DEF Pending
    <3>2. Passed(k, x) \in Nat /\ Passed(k, x)' \in Nat /\ Passed(k, x)' <= Passed(k, x)
        BY <1>1, <3>1, PassedKept
    <3> QED
        BY <2>1, <2>2, <3>2
  <2> QED
      BY <2>3, <2>4
<1> QED
    BY <1>6, <1>8, <1>10, <1>11, <1>12

\* Any later request of the minute is decided on its count: when it is let
\* through, those let through before it have the lower places.
LEMMA LaterIncrStep ==
    ASSUME LimiterInv, NEW h \in Handlers, Incr(h), count[job[h].minute] + 1 # 1
    PROVE  LimiterInv'
<1> USE DEF LimiterInv
<1> DEFINE k0 == job[h].minute
           l0 == job[h].limit
           n == count[k0] + 1
           onTime == MinuteOf(now) = k0
<1>1. /\ pc[h] = "incr" /\ k0 \in Minutes /\ l0 \in Nat /\ n \in Nat
      /\ count' = [count EXCEPT ![k0] = n]
      /\ UNCHANGED <<now, expireAt, started>>
      /\ Decide(h, n, onTime)
    BY Counted, Zenon
<1>2. /\ pc' = [pc EXCEPT ![h] = "idle"] /\ job' = [job EXCEPT ![h] = NoJob]
      /\ \/ n > l0 /\ refused' = [refused EXCEPT ![k0] = @ \cup {l0}] /\ admitted' = admitted
         \/ n <= l0 /\ refused' = refused /\ onTime
                    /\ admitted' = [admitted EXCEPT ![k0] = Append(@, l0)]
         \/ n <= l0 /\ refused' = refused /\ ~onTime /\ admitted' = admitted
      /\ pc' \in [Handlers -> {"idle", "incr", "expire"}] /\ job' \in [Handlers -> Jobs]
      /\ refused' \in [Minutes -> SUBSET Nat] /\ admitted' \in [Minutes -> Seq(Nat)]
  <2>1. onTime \in BOOLEAN
      OBVIOUS
  <2> HIDE DEF n, onTime
  <2> QED
      BY <1>1, <2>1, Decided
<1>3. TypeInv'
    BY <1>1, <1>2 DEF TypeInv
<1>4. /\ JobInv'
      /\ \A k : Waiting(k)' = Waiting(k) \ {h}
      /\ \A k, x : Pending(k, x)' = Pending(k, x) \ {h}
    BY <1>1, <1>2, RequestEnds
<1>5. StartedInv' /\ n <= started[k0]
    BY <1>1, <1>4, CountIsCovered
<1>6. KeyInv'
    BY <1>1 DEF KeyInv
<1>7. RefusedForItsOwnMinute'
  <2> SUFFICES ASSUME NEW k \in Minutes, NEW x \in refused'[k] PROVE started[k] > x
      BY <1>1 DEF RefusedForItsOwnMinute
  <2> HIDE DEF n, onTime, k0, l0
  <2>1. x \in refused[k] \/ (k = k0 /\ x = l0 /\ n > l0)
    <3>1. \/ n > l0 /\ refused' = [refused EXCEPT ![k0] = @ \cup {l0}]
          \/ refused' = refused
        BY <1>2, Zenon
    <3>2. refused \in [Minutes -> SUBSET Nat]
        BY DEF TypeInv
    <3> QED
        BY <3>1, <3>2
  <2>2. x \in refused[k] => started[k] > x
      BY DEF RefusedForItsOwnMinute
  <2>3. started[k0] \in Nat
      BY <1>1 DEF TypeInv
  <2>4. n > l0 => started[k0] > l0
      BY <1>1, <1>5, <2>3
  <2> QED
      BY <2>1, <2>2, <2>4
<1>8. AdmittedInv'
  <2> SUFFICES ASSUME NEW k \in Minutes, NEW x \in Limits
               PROVE  Passed(k, x)' <= x /\ (MinuteOf(now) <= k => Passed(k, x)' <= count'[k])
      BY <1>1 DEF AdmittedInv
  <2>1. Passed(k, x) <= x /\ (MinuteOf(now) <= k => Passed(k, x) <= count[k]) /\ x \in Nat
        /\ count[k] \in Nat
      BY LimitsAssumption DEF AdmittedInv, TypeInv
  <2>2. count'[k] \in Nat /\ count'[k] >= count[k] /\ (k = k0 => count'[k] = count[k] + 1 /\ count'[k] = n)
    <3>1. count'[k] = IF k = k0 THEN count[k] + 1 ELSE count[k]
        BY <1>1 DEF TypeInv
    <3> QED
        BY <2>1, <3>1
  <2>3. Pending(k, x)' = Pending(k, x)
      BY <1>1, <1>4 DEF Pending
  <2>4. CASE admitted'[k] = admitted[k]
    <3>1. Passed(k, x) \in Nat /\ Passed(k, x)' \in Nat /\ Passed(k, x)' <= Passed(k, x)
        BY <2>3, <2>4, PassedKept
    <3> QED
        BY <2>1, <2>2, <3>1
  <2>5. CASE admitted'[k] # admitted[k]
    <3>1. /\ k = k0 /\ n <= l0 /\ onTime /\ admitted'[k] = Append(admitted[k], l0)
          /\ admitted[k] \in Seq(Nat)
      <4> HIDE DEF n, onTime
      <4> QED
          BY <1>1, <1>2, <2>5 DEF TypeInv
    <3> DEFINE w == Cardinality(Within(admitted[k], x))
               v == Cardinality(Within(admitted'[k], x))
               p == Cardinality(Pending(k, x))
               c == count[k]
               d == count'[k]
    <3>2. w \in Nat /\ v = IF l0 <= x THEN w + 1 ELSE w
      <4>1. /\ w \in Nat
            /\ Cardinality(Within(Append(admitted[k], l0), x)) = IF l0 <= x THEN w + 1 ELSE w
        <5>1. l0 \in Nat /\ x \in Nat /\ admitted[k] \in Seq(Nat)
            BY <1>1, <2>1, <3>1
        <5> QED
            BY <5>1, OneLetThrough, Zenon
      <4> QED
          BY <3>1, <4>1, Zenon
    <3>3. Passed(k, x) = w + p /\ Passed(k, x)' = v + p /\ p \in Nat
        BY <2>3, CountedSets DEF Passed
    <3>4. MinuteOf(now) <= k
      <4>1. MinuteOf(now) = k
          BY <3>1
      <4>2. k \in Nat
          BY MinutesPass
      <4> QED
          BY <4>1, <4>2
    <3>5. c \in Nat /\ d = c + 1 /\ d = n
        BY <2>1, <2>2, <3>1
    <3>6. w + p <= c /\ w + p <= x
        BY <2>1, <3>3, <3>4
    <3> HIDE DEF w, v, p, c, d, n
    <3>7. v + p <= d
        BY <3>2, <3>3, <3>5, <3>6
    <3>8. v + p <= x
      <4>1. CASE l0 <= x
          BY <1>1, <2>1, <3>1, <3>2, <3>3, <3>5, <3>7, <4>1
      <4>2. CASE ~(l0 <= x)
          BY <3>2, <3>6, <4>2
      <4> QED
          BY <4>1, <4>2
    <3> QED
        BY <3>3, <3>7, <3>8 DEF d
  <2> QED
      BY <2>4, <2>5
<1> QED
    BY <1>3, <1>4, <1>5, <1>6, <1>7, <1>8

\* Every step keeps the limiter's bookkeeping.
LEMMA LimiterNext == LimiterInv /\ [Next]_vars => LimiterInv'
<1> SUFFICES ASSUME LimiterInv, [Next]_vars PROVE LimiterInv'
    OBVIOUS
<1>1. ASSUME NEW h \in Handlers, Incr(h) PROVE LimiterInv'
    BY <1>1, FirstIncrStep, LaterIncrStep
<1>2. ASSUME UNCHANGED vars PROVE LimiterInv'
  <2> USE <1>2 DEF vars
  <2>1. \A k : Waiting(k)' = Waiting(k)
      BY DEF Waiting
  <2>2. \A k, x : Passed(k, x)' = Passed(k, x)
      BY DEF Passed, Pending
  <2>3. TypeInv' /\ JobInv' /\ KeyInv' /\ RefusedForItsOwnMinute'
      BY DEF LimiterInv, TypeInv, JobInv, KeyInv, RefusedForItsOwnMinute
  <2>4. StartedInv' /\ AdmittedInv'
      BY <2>1, <2>2 DEF LimiterInv, StartedInv, AdmittedInv
  <2> QED
      BY <2>3, <2>4 DEF LimiterInv
<1> QED
    BY <1>1, <1>2, ReadClockStep, ExpireStep, StopStep, TickStep DEF Next

-----------------------------------------------------------------------------
(* Theorems *)

\* The limiter's bookkeeping holds in every state of every behaviour of
\* enforce_rpm.
LEMMA LimiterInvariant == Spec => []LimiterInv
<1> QED
    BY LimiterInit, LimiterNext, PTL DEF Spec

\* enforce_rpm lets no more requests through in a minute than a limit allows,
\* however requests overlap, come late or stop before or after any of
\* their commands has run.
THEOREM LimitHoldsEveryMinute == Spec => []AdmittedPerMinute
<1>1. LimiterInv => AdmittedPerMinute
  <2> SUFFICES ASSUME LimiterInv, NEW k \in Minutes, NEW l \in Limits
               PROVE  Cardinality(Within(admitted[k], l)) <= l
      BY DEF AdmittedPerMinute, Within
  <2>1. admitted[k] \in Seq(Nat) /\ l \in Nat
      BY LimitsAssumption DEF LimiterInv, TypeInv
  <2>2. Cardinality(Within(admitted[k], l)) \in Nat
      BY <2>1, OneLetThrough, Zenon
  <2>3. Cardinality(Pending(k, l)) \in Nat
      BY CountedSets
  <2>4. Cardinality(Within(admitted[k], l)) + Cardinality(Pending(k, l)) <= l
      BY DEF LimiterInv, AdmittedInv, Passed
  <2> QED
      BY <2>1, <2>2, <2>3, <2>4
<1> QED
    BY <1>1, LimiterInvariant, PTL

\* enforce_rpm refuses a request only when more than its limit have read the
\* clock in the request's own minute.
THEOREM RefusalHasItsCause == Spec => []RefusedForItsOwnMinute
<1>1. LimiterInv => RefusedForItsOwnMinute
    BY DEF LimiterInv
<1> QED
    BY <1>1, LimiterInvariant, PTL
=============================================================================
