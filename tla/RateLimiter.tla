---------------------------- MODULE RateLimiter ----------------------------
(***************************************************************************)
(* RedisQuotaManager.enforce_rpm: a request counts itself on the key of    *)
(* the current minute with INCR, the first one gives the key a lifetime of *)
(* a minute, and a count above the credential's limit refuses the request. *)
(* The module has one agent; its credentials may have different limits and *)
(* share the keys.  Clock, keys and requests run independently: a request  *)
(* may be delayed after it read the clock or stop between two commands.    *)
(*                                                                         *)
(* InMemoryQuotaManager does the same in one step and never drops a key.   *)
(***************************************************************************)
EXTENDS Naturals, Sequences, FiniteSets, Functions

CONSTANTS
    Handlers,
    Limits,       \* the rate_limit_rpm of the agent's credentials
    Minute,       \* ticks in a minute
    None,
    MaxTime,      \* bound on the clock
    MaxRequests,  \* bound on the requests of all minutes together
    MaxFaults     \* bound on requests that stop half-way

ASSUME LimitsAssumption == Limits \subseteq Nat
ASSUME MinuteAssumption == Minute \in Nat \ {0} /\ MaxTime \in Nat
ASSUME BoundsAssumption == MaxRequests \in Nat /\ MaxFaults \in Nat
ASSUME HandlersAssumption == IsFiniteSet(Handlers) /\ None \notin Nat

MinuteOf(t) == t \div Minute
Minutes == 0..MinuteOf(MaxTime)

VARIABLES
    now,
    count,      \* the value of quota:rpm:...:<minute>, 0 when the key is absent
    expireAt,   \* the time the key goes, or None
    pc, job,    \* a request's next step, and its minute_key, limit and count
    started,    \* history: requests that read the clock in a minute
    admitted,   \* history: the limits of requests let through, by minute, whose
                \* INCR ran within the minute they had read
    refused,    \* history: the limits of requests refused, by minute
    faults

vars == <<now, count, expireAt, pc, job, started, admitted, refused, faults>>

NoJob == [minute |-> 0, limit |-> 0, count |-> 0, onTime |-> FALSE]

Init ==
    /\ now = 0
    /\ count = [k \in Minutes |-> 0] /\ expireAt = [k \in Minutes |-> None]
    /\ pc = [h \in Handlers |-> "idle"] /\ job = [h \in Handlers |-> NoJob]
    /\ started = [k \in Minutes |-> 0]
    /\ admitted = [k \in Minutes |-> <<>>]
    /\ refused = [k \in Minutes |-> {}]
    /\ faults = 0

ReadClock(h, l) ==
    /\ pc[h] = "idle"
    /\ SumFunction(started) < MaxRequests
    /\ pc' = [pc EXCEPT ![h] = "incr"]
    /\ job' = [job EXCEPT ![h] = [NoJob EXCEPT !.minute = MinuteOf(now), !.limit = l]]
    /\ started' = [started EXCEPT ![MinuteOf(now)] = @ + 1]
    /\ UNCHANGED <<now, count, expireAt, admitted, refused, faults>>

\* The comparison at the end of enforce_rpm, for a request that counted n.
Decide(h, n, onTime) ==
    LET k == job[h].minute
        l == job[h].limit
    IN  /\ pc' = [pc EXCEPT ![h] = "idle"] /\ job' = [job EXCEPT ![h] = NoJob]
        /\ IF n > l
           THEN refused' = [refused EXCEPT ![k] = @ \cup {l}] /\ UNCHANGED admitted
           ELSE /\ admitted' = IF onTime THEN [admitted EXCEPT ![k] = Append(@, l)] ELSE admitted
                /\ UNCHANGED refused

WrongCounter(h) == MinuteOf(now)

\* The key "quota:rpm:...:{minute}", named when the clock was read.
Counter(h) == job[h].minute

\* INCR creates an absent key with the value 1 and no expiry.
Incr(h) ==
    LET k == Counter(h)
        n == count[k] + 1
        onTime == MinuteOf(now) = k
    IN  /\ pc[h] = "incr"
        /\ count' = [count EXCEPT ![k] = n]
        /\ IF n = 1
           THEN /\ pc' = [pc EXCEPT ![h] = "expire"]
                /\ job' = [job EXCEPT ![h] = [@ EXCEPT !.count = 1, !.onTime = onTime]]
                /\ UNCHANGED <<admitted, refused>>
           ELSE Decide(h, n, onTime)
        /\ UNCHANGED <<now, expireAt, started, faults>>

WrongLifetime == Minute - 1

Lifetime == Minute

SetLifetime(k) ==
    expireAt' = [expireAt EXCEPT ![k] = IF count[k] > 0 THEN now + Lifetime ELSE None]

\* EXPIRE key 60.
Expire(h) ==
    /\ pc[h] = "expire"
    /\ SetLifetime(job[h].minute)
    /\ Decide(h, job[h].count, job[h].onTime)
    /\ UNCHANGED <<now, count, started, faults>>

\* The process dies, the request is cancelled or Redis fails: enforce_rpm is
\* left at its next command, which has run or not.
Stop(h) ==
    /\ faults < MaxFaults /\ faults' = faults + 1
    /\ \/ pc[h] # "idle" /\ UNCHANGED <<count, expireAt>>
       \/ /\ pc[h] = "incr"
          /\ count' = [count EXCEPT ![Counter(h)] = @ + 1]
          /\ UNCHANGED expireAt
       \/ pc[h] = "expire" /\ SetLifetime(job[h].minute) /\ UNCHANGED count
    /\ pc' = [pc EXCEPT ![h] = "idle"] /\ job' = [job EXCEPT ![h] = NoJob]
    /\ UNCHANGED <<now, started, admitted, refused>>

Lapses(k, t) == expireAt[k] = t

\* A tick; Redis drops the keys whose time has come.
Tick ==
    /\ now < MaxTime /\ now' = now + 1
    /\ count' = [k \in Minutes |-> IF Lapses(k, now') THEN 0 ELSE count[k]]
    /\ expireAt' = [k \in Minutes |-> IF Lapses(k, now') THEN None ELSE expireAt[k]]
    /\ UNCHANGED <<pc, job, started, admitted, refused, faults>>

Next ==
    \/ \E h \in Handlers :
          \/ \E l \in Limits : ReadClock(h, l)
          \/ Incr(h) \/ Expire(h) \/ Stop(h)
    \/ Tick

Spec == Init /\ [][Next]_vars

-----------------------------------------------------------------------------
(* Properties *)

\* In no minute are more requests let through than a limit allows: of those
\* that read the clock and counted themselves within one minute, at most l had
\* a limit of l or less.  A key that is made by the first request of a minute
\* outlives the minute, so counting never starts over inside it.
AdmittedPerMinute ==
    \A k \in Minutes, l \in Limits :
       Cardinality({i \in DOMAIN admitted[k] : admitted[k][i] <= l}) <= l

\* A refusal has its cause in its own minute: more requests than the limit read
\* the clock in it.  A request delayed into the next minute does not use up that
\* minute's quota.
RefusedForItsOwnMinute ==
    \A k \in Minutes : \A l \in refused[k] : started[k] > l
=============================================================================
