---------------------------- MODULE ControlPlane ----------------------------
(***************************************************************************)
(* The request handlers of ControlPlaneService: create_decision and        *)
(* record_outcome, run by concurrent asyncio tasks over a shared Redis     *)
(* (RedisQuotaManager) and a shared Postgres (SqlAlchemyDecisionStore).    *)
(*                                                                         *)
(* One action is what happens between two awaits that touch shared state:  *)
(* one Redis command, or one SQL statement, or one commit.                 *)
(*                                                                         *)
(* Requests the code refuses before it has touched any shared state (wrong *)
(* agent_id, unknown decision, foreign decision, other request_id) change  *)
(* nothing here and have no action.  The RPM counter is the subject of     *)
(* RateLimiter; here its refusal is RejectEarly.                           *)
(***************************************************************************)
EXTENDS Naturals, FiniteSets

CONSTANTS
    Handlers,      \* the asyncio tasks that serve requests
    DecisionIds,   \* the values uuid4() may return
    Principals,    \* authenticated credentials: [agent_id, environment, concurrent_limit, daily_budget_usd]
    RequestIds,    \* request_id of a RoutingDecisionRequest
    Keys,          \* the non-empty Idempotency-Key values
    EmptyKey,      \* the Idempotency-Key ""
    None,          \* Python's None, SQL's NULL
    Amounts,       \* budget_limit_usd and final_cost_usd
    MaxFaults      \* bound on the number of crashes, cancellations and I/O errors

IdempotencyKeys == Keys \cup {EmptyKey, None}

\* The Redis key suffix "{environment}:{agent_id}" shared by the concurrency
\* set and the daily budget counter.
QuotaKey(p) == <<p.environment, p.agent_id>>
QuotaKeys == {QuotaKey(p) : p \in Principals}
AgentIds == {p.agent_id : p \in Principals}

ASSUME PrincipalsAssumption ==
    \A p \in Principals : p.concurrent_limit \in Nat /\ p.daily_budget_usd \in Nat

ASSUME ValuesAssumption ==
    /\ None \notin DecisionIds
    /\ None \notin Keys /\ EmptyKey \notin Keys /\ EmptyKey # None
    /\ Amounts \subseteq Nat
    /\ MaxFaults \in Nat

ASSUME FiniteAssumption ==
    IsFiniteSet(Handlers) /\ IsFiniteSet(DecisionIds) /\ IsFiniteSet(Principals)

VARIABLES
    pc,         \* pc[h]: the next step of handler h
    job,        \* job[h]: the request h is serving, None when idle
    used,       \* decision ids uuid4() has returned
    slots,      \* Redis set quota:concurrency:<quota key>
    expiring,   \* quota keys whose concurrency set carries a TTL
    spend,      \* Redis counter quota:budget:<quota key>:<today>
    decisions,  \* table routing_decisions, None where there is no row
    attempts,   \* table routing_attempts: the committed reports whose rows are present
    admitted,   \* history: decision ids whose reservation was granted
    replies,    \* history: decisions returned to an agent
    charged,    \* history: how often an outcome of d was added to a budget counter
    published,  \* history: how often an outcome of d was published
    faults      \* number of faults so far

redisVars == <<slots, expiring, spend>>
dbVars == <<decisions, attempts>>
history == <<admitted, replies, charged, published>>
vars == <<pc, job, used, redisVars, dbVars, history, faults>>

\* A row of routing_decisions.  outcome is 0 while outcome_payload is NULL;
\* otherwise it identifies the report whose payload is stored: the n-th
\* report committed for this decision.
Rows == [agent_id : AgentIds, environment : {p.environment : p \in Principals},
         idempotency_key : IdempotencyKeys, request_id : RequestIds, outcome : Nat]

\* The local variables of a handler.  seen is the set of attempt rows the
\* handler's DELETE found.
Jobs == [principal : Principals, key : IdempotencyKeys, request_id : RequestIds,
         usd : Amounts, did : DecisionIds \cup {None}, seen : SUBSET Nat]

ASSUME NoneAssumption == None \notin Jobs /\ None \notin Rows

CreateSteps == {"budget", "reserve", "expire", "count", "unreserve",
                "compute", "insert", "undo", "reply"}
OutcomeSteps == {"select", "delete", "commit", "release", "charge", "publish"}

Init ==
    /\ pc = [h \in Handlers |-> "idle"]
    /\ job = [h \in Handlers |-> None]
    /\ used = {}
    /\ slots = [q \in QuotaKeys |-> {}]
    /\ expiring = {}
    /\ spend = [q \in QuotaKeys |-> 0]
    /\ decisions = [d \in DecisionIds |-> None]
    /\ attempts = [d \in DecisionIds |-> {}]
    /\ admitted = {}
    /\ replies = {}
    /\ charged = [d \in DecisionIds |-> 0]
    /\ published = [d \in DecisionIds |-> 0]
    /\ faults = 0

-----------------------------------------------------------------------------
(* Steps of a handler.  A definition that starts with "Wrong" is a faulty   *)
(* form of the one after it; it is part of no specification and only shows *)
(* which property would notice that fault.                                 *)

At(h, step) == pc[h] = step

GoTo(h, step) == pc' = [pc EXCEPT ![h] = step] /\ UNCHANGED job

\* The handler returns or raises; FastAPI answers and the task ends.
Finish(h) == pc' = [pc EXCEPT ![h] = "idle"] /\ job' = [job EXCEPT ![h] = None]

Quota(h) == QuotaKey(job[h].principal)
Did(h) == job[h].did

WrongSRemKeeps(q, d) == UNCHANGED <<slots, expiring>>
WrongSRemClears(q, d) == UNCHANGED expiring /\ slots' = [slots EXCEPT ![q] = {}]

\* SREM: Redis removes a set, and with it its TTL, when it becomes empty.
SRem(q, d) ==
    /\ slots' = [slots EXCEPT ![q] = @ \ {d}]
    /\ expiring' = IF slots[q] \subseteq {d} THEN expiring \ {q} ELSE expiring

Reply(a, key, d) == replies' = replies \cup {[agent_id |-> a, key |-> key, did |-> d]}

-----------------------------------------------------------------------------
(* create_decision *)

\* The row get_by_idempotency selects: a falsy key ("" or None) selects none.
\* The environment is not part of the lookup.
Matches(a, key) ==
    {d \in DecisionIds : /\ key \in Keys
                         /\ decisions[d] # None
                         /\ decisions[d].agent_id = a
                         /\ decisions[d].idempotency_key = key}

\* Idempotent replay: the stored response is returned as it is.
ReplayDecision(h, p, key) ==
    /\ At(h, "idle")
    /\ \E d \in Matches(p.agent_id, key) : Reply(p.agent_id, key, d)
    /\ UNCHANGED <<pc, job, used, redisVars, dbVars, admitted, charged, published, faults>>

BeginCreate(h, p, key, r, usd) ==
    /\ At(h, "idle")
    /\ Matches(p.agent_id, key) = {}
    /\ pc' = [pc EXCEPT ![h] = "budget"]
    /\ job' = [job EXCEPT ![h] = [principal |-> p, key |-> key, request_id |-> r,
                                  usd |-> usd, did |-> None, seen |-> {}]]
    /\ UNCHANGED <<used, redisVars, dbVars, history, faults>>

\* enforce_rpm refuses, the catalog cannot be read, or the policy is unknown
\* or inactive.
RejectEarly(h) ==
    /\ pc[h] \in {"budget", "reserve"}
    /\ Finish(h)
    /\ UNCHANGED <<used, redisVars, dbVars, history, faults>>

WrongOverBudget(h) == spend[Quota(h)] > job[h].principal.daily_budget_usd

OverBudget(h) == spend[Quota(h)] + job[h].usd > job[h].principal.daily_budget_usd

\* GET of today's counter; the sum is compared with the credential's cap.
CheckBudget(h) ==
    /\ At(h, "budget")
    /\ IF OverBudget(h) THEN Finish(h) ELSE GoTo(h, "reserve")
    /\ UNCHANGED <<used, redisVars, dbVars, history, faults>>

\* uuid4() and SADD.
ReserveAdd(h) ==
    /\ At(h, "reserve")
    /\ \E d \in DecisionIds \ used :
          /\ used' = used \cup {d}
          /\ job' = [job EXCEPT ![h].did = d]
          /\ slots' = [slots EXCEPT ![Quota(h)] = @ \cup {d}]
    /\ pc' = [pc EXCEPT ![h] = "expire"]
    /\ UNCHANGED <<expiring, spend, dbVars, history, faults>>

\* EXPIRE restarts the TTL of the whole set; it does nothing to a key that
\* no longer exists.
ReserveExpire(h) ==
    /\ At(h, "expire")
    /\ expiring' = IF slots[Quota(h)] = {} THEN expiring ELSE expiring \cup {Quota(h)}
    /\ GoTo(h, "count")
    /\ UNCHANGED <<used, slots, spend, dbVars, history, faults>>

WrongOverLimit(h) == Cardinality(slots[Quota(h)] \ {Did(h)}) > job[h].principal.concurrent_limit

OverLimit(h) == Cardinality(slots[Quota(h)]) > job[h].principal.concurrent_limit

\* SCARD, compared with the credential's limit.
ReserveCount(h) ==
    /\ At(h, "count")
    /\ IF OverLimit(h)
       THEN GoTo(h, "unreserve") /\ UNCHANGED admitted
       ELSE GoTo(h, "compute") /\ admitted' = admitted \cup {Did(h)}
    /\ UNCHANGED <<used, redisVars, dbVars, replies, charged, published, faults>>

\* SREM of the refused reservation, then 429.
Unreserve(h) ==
    /\ At(h, "unreserve")
    /\ SRem(Quota(h), Did(h))
    /\ Finish(h)
    /\ UNCHANGED <<used, spend, dbVars, history, faults>>

\* get_signals and calculate_routing_decision; the latter raises ValueError
\* when no model survives the filters.
Compute(h) ==
    /\ At(h, "compute")
    /\ \E step \in {"insert", "undo"} : GoTo(h, step)
    /\ UNCHANGED <<used, redisVars, dbVars, history, faults>>

\* The row this handler inserts, with the unique constraint on
\* (agent_id, idempotency_key): NULL keys never conflict, "" does.
NewRow(h) == [agent_id |-> job[h].principal.agent_id,
              environment |-> job[h].principal.environment,
              idempotency_key |-> job[h].key,
              request_id |-> job[h].request_id,
              outcome |-> 0]

WrongConflicts(row) == FALSE

Conflicts(row) ==
    /\ row.idempotency_key # None
    /\ \E d \in DecisionIds : /\ decisions[d] # None
                              /\ decisions[d].agent_id = row.agent_id
                              /\ decisions[d].idempotency_key = row.idempotency_key

Insert(h) ==
    /\ At(h, "insert")
    /\ IF Conflicts(NewRow(h))
       THEN GoTo(h, "undo") /\ UNCHANGED decisions
       ELSE GoTo(h, "reply") /\ decisions' = [decisions EXCEPT ![Did(h)] = NewRow(h)]
    /\ UNCHANGED <<used, redisVars, attempts, history, faults>>

WrongUndoReserve(h) == At(h, "undo") /\ Finish(h) /\ UNCHANGED <<used, redisVars, dbVars, history, faults>>

\* except Exception: release_concurrency, then the exception goes on.
UndoReserve(h) ==
    /\ At(h, "undo")
    /\ SRem(Quota(h), Did(h))
    /\ Finish(h)
    /\ UNCHANGED <<used, spend, dbVars, history, faults>>

ReplyDecision(h) ==
    /\ At(h, "reply")
    /\ Reply(job[h].principal.agent_id, job[h].key, Did(h))
    /\ Finish(h)
    /\ UNCHANGED <<used, redisVars, dbVars, admitted, charged, published, faults>>

-----------------------------------------------------------------------------
(* record_outcome *)

WrongOwns(p, d, r) == TRUE

\* get_decision_context and the ownership checks: the agent must own the
\* decision, and name its request; its environment is not compared.
Owns(p, d, r) ==
    decisions[d] # None /\ decisions[d].agent_id = p.agent_id /\ decisions[d].request_id = r

BeginOutcome(h, p, d, r, usd) ==
    /\ At(h, "idle")
    /\ Owns(p, d, r)
    /\ pc' = [pc EXCEPT ![h] = "select"]
    /\ job' = [job EXCEPT ![h] = [principal |-> p, key |-> None, request_id |-> r,
                                  usd |-> usd, did |-> d, seen |-> {}]]
    /\ UNCHANGED <<used, redisVars, dbVars, history, faults>>

WrongAlreadyReported(h) == FALSE

AlreadyReported(h) == decisions[Did(h)].outcome > 0

WrongSelectDuplicateGoesOn(h) ==
    /\ At(h, "select")
    /\ IF AlreadyReported(h) THEN GoTo(h, "release") ELSE GoTo(h, "delete")
    /\ UNCHANGED <<used, redisVars, dbVars, history, faults>>

\* SELECT of the row at the start of the transaction; a stored outcome is
\* answered as a duplicate.  No row lock is taken.
SelectOutcome(h) ==
    /\ At(h, "select")
    /\ IF AlreadyReported(h) THEN Finish(h) ELSE GoTo(h, "delete")
    /\ UNCHANGED <<used, redisVars, dbVars, history, faults>>

\* DELETE of the attempt rows this statement can see (READ COMMITTED).
DeleteAttempts(h) ==
    /\ At(h, "delete")
    /\ job' = [job EXCEPT ![h].seen = attempts[Did(h)]]
    /\ pc' = [pc EXCEPT ![h] = "commit"]
    /\ UNCHANGED <<used, redisVars, dbVars, history, faults>>

WrongAttemptsAfter(rows, deleted, n) == rows \ deleted

AttemptsAfter(rows, deleted, n) == (rows \ deleted) \cup {n}

\* Flush and commit: attempt rows and outcome columns become visible at once.
CommitOutcome(h) ==
    /\ At(h, "commit")
    /\ LET d == Did(h)
           n == decisions[d].outcome + 1
       IN /\ decisions' = [decisions EXCEPT ![d].outcome = n]
          /\ attempts' = [attempts EXCEPT ![d] = AttemptsAfter(@, job[h].seen, n)]
    /\ GoTo(h, "release")
    /\ UNCHANGED <<used, redisVars, history, faults>>

WrongReleaseSlot(h) ==
    /\ At(h, "release") /\ SRem(Quota(h), Did(h)) /\ GoTo(h, "publish")
    /\ UNCHANGED <<used, spend, dbVars, history, faults>>

\* release_concurrency, under the quota key of the reporting credential.
ReleaseSlot(h) ==
    /\ At(h, "release")
    /\ SRem(Quota(h), Did(h))
    /\ GoTo(h, "charge")
    /\ UNCHANGED <<used, spend, dbVars, history, faults>>

\* INCRBYFLOAT under today's key.  The EXPIRE of seven days that follows
\* outlives the day and has no step; failing in it is a Drop before publish.
RecordSpend(h) ==
    /\ At(h, "charge")
    /\ spend' = [spend EXCEPT ![Quota(h)] = @ + job[h].usd]
    /\ charged' = [charged EXCEPT ![Did(h)] = @ + 1]
    /\ GoTo(h, "publish")
    /\ UNCHANGED <<used, slots, expiring, dbVars, admitted, replies, published, faults>>

PublishOutcome(h) ==
    /\ At(h, "publish")
    /\ published' = [published EXCEPT ![Did(h)] = @ + 1]
    /\ Finish(h)
    /\ UNCHANGED <<used, redisVars, dbVars, admitted, replies, charged, faults>>

-----------------------------------------------------------------------------
(* Faults and time *)

Fault == faults < MaxFaults /\ faults' = faults + 1

\* The process dies, the task is cancelled (CancelledError is not an
\* Exception), or Redis or Postgres fails outside the try block: the handler
\* stops where it is and an open transaction rolls back.
Drop(h) ==
    /\ ~At(h, "idle")
    /\ Fault
    /\ Finish(h)
    /\ UNCHANGED <<used, redisVars, dbVars, history>>

\* An I/O error inside the try block: the signals cannot be read, or the
\* INSERT fails, or its commit succeeds but the acknowledgement is lost.
RaiseInTry(h) ==
    /\ pc[h] \in {"compute", "insert"}
    /\ Fault
    /\ GoTo(h, "undo")
    /\ \/ UNCHANGED decisions
       \/ /\ At(h, "insert")
          /\ ~Conflicts(NewRow(h))
          /\ decisions' = [decisions EXCEPT ![Did(h)] = NewRow(h)]
    /\ UNCHANGED <<used, redisVars, attempts, history>>

\* The TTL of a concurrency set runs out: every reservation in it is gone.
ExpireSlots(q) ==
    /\ q \in expiring
    /\ slots' = [slots EXCEPT ![q] = {}]
    /\ expiring' = expiring \ {q}
    /\ UNCHANGED <<pc, job, used, spend, dbVars, history, faults>>

\* date.today() changes: the counters of the new day do not exist yet.
NewDay ==
    /\ spend' = [q \in QuotaKeys |-> 0]
    /\ UNCHANGED <<pc, job, used, slots, expiring, dbVars, history, faults>>

-----------------------------------------------------------------------------
(* Specifications *)

Request(h) ==
    \E p \in Principals :
       \/ \E key \in IdempotencyKeys :
             \/ ReplayDecision(h, p, key)
             \/ \E r \in RequestIds, usd \in Amounts : BeginCreate(h, p, key, r, usd)
       \/ \E d \in DecisionIds, r \in RequestIds, usd \in Amounts :
             BeginOutcome(h, p, d, r, usd)

CreateStep(h) ==
    \/ RejectEarly(h) \/ CheckBudget(h)
    \/ ReserveAdd(h) \/ ReserveExpire(h) \/ ReserveCount(h) \/ Unreserve(h)
    \/ Compute(h) \/ Insert(h) \/ UndoReserve(h) \/ ReplyDecision(h)

OutcomeStep(h) ==
    \/ SelectOutcome(h) \/ DeleteAttempts(h) \/ CommitOutcome(h)
    \/ ReleaseSlot(h) \/ RecordSpend(h) \/ PublishOutcome(h)

HandlerStep(h) == CreateStep(h) \/ OutcomeStep(h)

Next ==
    \/ \E h \in Handlers : Request(h) \/ HandlerStep(h) \/ Drop(h) \/ RaiseInTry(h)
    \/ \E q \in QuotaKeys : ExpireSlots(q)
    \/ NewDay

Spec == Init /\ [][Next]_vars

\* uvicorn keeps scheduling every task and every call to Redis or Postgres
\* returns or times out; requests, faults and clocks carry no promise.
FairSpec == Spec /\ \A h \in Handlers : WF_vars(HandlerStep(h))

\* The reports of one decision do not overlap: an agent that waits for the
\* answer to a report, or for its failure on the server, before it retries.
Reporting(h, d) == pc[h] \in OutcomeSteps /\ Did(h) = d

SerialReports ==
    \A g, h \in Handlers, d \in DecisionIds : Reporting(g, d) /\ Reporting(h, d) => g = h

SerialSpec == Init /\ [][Next /\ SerialReports']_vars
-----------------------------------------------------------------------------
(* Properties *)

Outcome(d) == IF decisions[d] = None THEN 0 ELSE decisions[d].outcome

Status(d) ==
    IF decisions[d] = None THEN "absent" ELSE IF Outcome(d) = 0 THEN "open" ELSE "completed"

Serving(h, d, steps) == pc[h] \in steps /\ Did(h) = d

\* Every variable has its type; a handler holds a request exactly while it is
\* busy, reports only decisions that are stored, and every stored decision
\* has an id that uuid4() returned.
TypeOK ==
    /\ pc \in [Handlers -> {"idle"} \cup CreateSteps \cup OutcomeSteps]
    /\ job \in [Handlers -> Jobs \cup {None}]
    /\ \A h \in Handlers :
          /\ pc[h] = "idle" <=> job[h] = None
          /\ pc[h] \notin {"idle", "budget", "reserve"} => Did(h) \in used
          /\ pc[h] \in OutcomeSteps => decisions[Did(h)] # None
    /\ \A d \in DecisionIds : decisions[d] # None => d \in used
    /\ used \in SUBSET DecisionIds
    /\ slots \in [QuotaKeys -> SUBSET DecisionIds]
    /\ expiring \in SUBSET QuotaKeys
    /\ spend \in [QuotaKeys -> Nat]
    /\ decisions \in [DecisionIds -> Rows \cup {None}]
    /\ attempts \in [DecisionIds -> SUBSET Nat]
    /\ admitted \in SUBSET DecisionIds
    /\ replies \in SUBSET [agent_id : AgentIds, key : IdempotencyKeys, did : DecisionIds]
    /\ charged \in [DecisionIds -> Nat]
    /\ published \in [DecisionIds -> Nat]
    /\ faults \in 0..MaxFaults

\* reserve_concurrency adds first and counts afterwards, in three separate
\* Redis commands.  Whatever the interleaving, and whatever expires or
\* crashes, the reservations it granted and that are still in the set never
\* exceed the limit of some credential that shares the set.
AdmittedWithinLimit ==
    \A q \in QuotaKeys :
       \/ slots[q] \cap admitted = {}
       \/ \E p \in Principals :
             /\ QuotaKey(p) = q
             /\ Cardinality(slots[q] \cap admitted) <= p.concurrent_limit

\* create_decision answers one Idempotency-Key ("" included) of one agent with one
\* decision, however many requests carry it, in whatever environment, at the
\* same time or later; and the decision it answers with is in the table.
IdempotentReplies ==
    \A x \in replies :
       /\ decisions[x.did] # None
       /\ decisions[x.did].agent_id = x.agent_id
       /\ decisions[x.did].idempotency_key = x.key
       /\ \A y \in replies :
             x.key # None /\ x.agent_id = y.agent_id /\ x.key = y.key => x.did = y.did

\* What follows the commit of an outcome (the charge, the event) happens at
\* most once per committed outcome, in that order, and is lost only to a
\* fault: without one, every committed outcome has been charged and
\* published or a handler is about to.
EffectsAccounted ==
    \A d \in DecisionIds :
       LET toCharge == Cardinality({h \in Handlers : Serving(h, d, {"release", "charge"})})
           toPublish == Cardinality({h \in Handlers : Serving(h, d, {"release", "charge", "publish"})})
       IN /\ published[d] <= charged[d]
          /\ charged[d] + toCharge <= Outcome(d)
          /\ published[d] + toPublish <= Outcome(d)
          /\ faults = 0 => /\ charged[d] + toCharge = Outcome(d)
                           /\ published[d] + toPublish = Outcome(d)

OneEnvironmentPerAgent ==
    \A p1, p2 \in Principals : p1.agent_id = p2.agent_id => p1.environment = p2.environment

\* The decisions whose concurrency slot nobody will release: not open, not
\* being created, and not those of a report that is about to release it.
Orphans ==
    {d \in DecisionIds :
        /\ \E q \in QuotaKeys : d \in slots[q]
        /\ Status(d) # "open"
        /\ ~ \E h \in Handlers : Serving(h, d, CreateSteps \cup {"release"})}

\* A fault orphans at most one concurrency slot, the one its handler was
\* adding, about to return or about to release; refusals, failed computations,
\* lost races, duplicates, and I/O errors inside the try block orphan none.
\* Needs agents that live in one environment, because record_outcome
\* releases under the environment of the reporting credential.
SlotsAccounted == OneEnvironmentPerAgent => Cardinality(Orphans) <= faults

\* The slot of an open decision goes away with the whole set, when its TTL
\* runs out, or by its own creator, which a fault told that the INSERT failed
\* although it was committed: no refused, failed, repeated or duplicate
\* request of another handler releases it, with faults or without.
OpenDecisionKeepsSlot ==
    [][\A q \in QuotaKeys : \A d \in slots[q] \ slots'[q] :
          Status(d)' = "open" =>
             \/ q \in expiring /\ UNCHANGED pc
             \/ faults > 0 /\ \E h \in Handlers : Serving(h, d, {"undo"}) /\ pc'[h] = "idle"]_vars

Ledger == INSTANCE DecisionLedger
    WITH status <- [d \in DecisionIds |-> Status(d)], charges <- charged, events <- published

\* When the reports of a decision do not overlap, create_decision and
\* record_outcome implement the abstract ledger: crashes, retries and failed
\* inserts skip its steps but never repeat or reorder them.
ImplementsLedger == Ledger!Spec

\* A decision is charged at most once.
ChargedAtMostOnce == \A d \in DecisionIds : charged[d] <= 1

\* The attempt rows of a completed decision are those of the report whose
\* outcome is stored, so attempts_recorded counts them.
AttemptsMatchOutcome ==
    \A d \in DecisionIds : attempts[d] = IF Outcome(d) = 0 THEN {} ELSE {Outcome(d)}

\* A stored decision stays, as inserted; its outcome is written once.
OutcomeWrittenOnce ==
    [][\A d \in DecisionIds :
          decisions[d] # None =>
             decisions'[d] = IF Outcome(d) = 0 /\ decisions'[d] # decisions[d]
                             THEN [decisions[d] EXCEPT !.outcome = 1]
                             ELSE decisions[d]]_vars

\* As long as no fault occurs, a slot does not stay with a decision that is
\* not open: a creation that was refused or failed, or lost the race for its
\* key, gives its reservation back, one that succeeded leaves it to an open
\* decision, and the slot of a reported decision is released.  The last
\* needs agents that live in one environment: record_outcome releases under
\* the environment of the reporting credential, and no other step does.
SlotFreed ==
    \A q \in QuotaKeys, d \in DecisionIds :
       (d \in slots[q] /\ (Status(d) = "absent" \/ (Status(d) = "completed" /\ OneEnvironmentPerAgent)))
       ~> (d \notin slots[q] \/ Status(d) = "open" \/ faults > 0)
=============================================================================
