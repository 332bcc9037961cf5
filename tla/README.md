# TLA+ verification of the LLM routing control plane

A routing control plane for AI agents: an agent asks for a *decision* (an ordered
list of models to try), executes it with its own keys, and reports the *outcome*.
The control plane keeps decisions in Postgres, quotas and signals in Redis, and
two workers feed it with probe signals. These modules model that system at the
level of its awaits: one action per Redis command, SQL statement or commit.

## 1. Inventory

| part | source | state | operations | hard because |
|---|---|---|---|---|
| decision and outcome handlers | `app/services/control_plane.py` 303-454 | none of their own | `create_decision`, `record_outcome` | every request is an asyncio task; each await interleaves with all others, tasks are cancelled and processes die between two steps |
| quota manager | `control_plane.py` 222-297 | Redis: concurrency set per (environment, agent), daily spend counter, RPM counter per minute | `reserve_concurrency`, `release_concurrency`, `current_daily_spend`, `record_spend`, `enforce_rpm` | several commands that are not atomic together, TTL of a whole set, counters checked now and charged later |
| decision store | `persistence.py` 148-280, `models/control_plane.py` | tables `routing_decisions`, `routing_attempts`, `probe_snapshots` | lookup by key, insert, record outcome, record snapshot | READ COMMITTED without row locks, a unique constraint as the only arbiter |
| event publisher | `control_plane.py` 189-219 | Redis streams | `publish_outcome`, `publish_probe` | runs after the commit it announces |
| probe worker, signal store | `workers/probe_worker.py`, `latency_tracker.py` | Redis signal per model with TTL | probe round: read, gather, store each, publish each | fails in the middle of a round; signals age and expire |
| event consumer | `workers/event_consumer.py` | stream offsets in memory | `xread` batch, record each | the offset moves before the work; a restart forgets it |
| pricing engine | `pricing_engine.py`, `token_estimator.py` | none | filter, price, score, rank | filter order, zero and threshold edges |
| catalog registry, metadata store | `control_plane.py` 52-130, `persistence.py` 105-145 | file cache by checksum, version rows | `get_snapshot`, `ensure_catalog_version`, `ensure_policies` | edits without a new version, a file read while it is written, one failed write skips the next |
| credential store | `persistence.py` 48-102, `control_plane.py` 317-328 | table `agent_credentials`, bootstrap flag | bootstrap on first use, authenticate | the first requests of every process insert the same rows and wait for each other |
| example client | `examples/agent_client.py` | the attempts of one decision | decide, call, fall back, report | a report that times out inside the fallback loop |
| endpoints and health | `app/api` | none | authenticate, call the handler, map its exception to a status | the order of checks decides what a request may change |
| metrics, settings, migrations | `app/main.py`, `app/core`, `alembic` | counters | | |

How they interact: the handlers call quota manager, decision store, pricing
engine and publisher in the order of the code; handlers and workers share Redis
(signals, streams) and Postgres and nothing else; the client talks to the
handlers over HTTP and may time out while its request is still being served.

What makes each part correct:

* handlers: one idempotency key, one stored decision; an outcome is recorded,
  charged and published once, and its slot given back; a slot is released for a
  reason, and only a fault leaves one behind;
* quota manager: never more slots granted than the limit;
* rate limiter: a minute admits no more than the limit and refuses only for its
  own requests;
* daily budget: a soft cap, exceeded by no more than what was let through and
  uncharged at the same time;
* pricing engine: every model is ranked or rejected with the reason that decides,
  looser limits lose nothing, bad news never helps, costs stay within the budget;
* client: what is stored and charged is true of what the client did, and providers
  bill twice only when an answer was lost;
* credentials: a configured key is always known, a blocked one stays blocked, the
  loser of the bootstrap can retry, nobody waits for ever;
* catalog: a request sees what the file held while it ran; the version a decision
  names is stored;
* signals: their age is bounded by the rounds that failed, smoothed numbers stay
  within what was measured, a recovery is believed at a known pace;
* pipeline: every probe event becomes a row, once; what is lost is bounded by
  what failed; an event never precedes its signal.

The hazards behind these are listed in `PROJECT.json`, each at its line.

## 2. Modules

| module | models |
|---|---|
| `ControlPlane` | `create_decision` and `record_outcome` over Redis quotas and the decision tables |
| `DecisionLedger` | the abstract specification: a decision is opened, completed, charged and announced, once each and in this order |
| `BudgetExposure` | `ControlPlane` with a history of what was let through and not charged |
| `ControlPlaneProofs` | what holds for any reports, overlapping ones too: type correctness, `AdmittedWithinLimit`, `IdempotentReplies`, `EffectsAccounted`, `SlotsAccounted`, `OpenDecisionKeepsSlot` |
| `ControlPlaneSerialProofs` | what holds for reports that do not overlap: `ChargedAtMostOnce`, `AttemptsMatchOutcome`, `OutcomeWrittenOnce`, the refinement of `DecisionLedger`, `OverspendIsBounded` |
| `CredentialStore` | the table `agent_credentials`, its bootstrap transaction, the check of a key |
| `CatalogRegistry` | the catalog file, the cache by checksum, version and policy rows |
| `RequestPath` | composes the two into requests: authentication, catalog, metadata, refusals, and the status an exception becomes |
| `SignalStore` | clock, age, TTL and smoothing of the routing signals, `has_fresh_signals` |
| `ProbePipeline` | probe worker, signals, probe stream, event consumer, `probe_snapshots` |
| `PricingEngine` | `calculate_routing_decision` and `estimate_tokens` |
| `RateLimiter` | `enforce_rpm` over minute keys, a clock and key expiry |
| `AgentClient` | `invoke_with_fallback` of the example client against the transaction, commit and charge of the outcome endpoint |
| `ProbePipelineProofs`, `RateLimiterProofs`, `AgentClientProofs`, `RequestPathProofs`, `SignalStoreProofs`, `PricingEngineProofs` | the invariants (of `RequestPath`, also the action property) of the module they extend |
| `MC...` | the instances for TLC |

### ControlPlane

`pc[h]` is the next step of handler `h` and `job[h]` its local variables.

| step | code | action |
|---|---|---|
| (idle) | `get_by_idempotency` finds a row: return it | `ReplayDecision` |
| (idle) | it finds none | `BeginCreate` |
| budget, reserve | RPM refusal; catalog or policy error | `RejectEarly` |
| budget | GET spend, compare | `CheckBudget` |
| reserve, expire, count, unreserve | SADD, EXPIRE, SCARD, SREM of `reserve_concurrency` | `ReserveAdd` ... `Unreserve` |
| compute | signals and `calculate_routing_decision`, which may raise | `Compute` |
| insert | INSERT and commit under the unique constraint | `Insert` |
| undo | the `except` branch: SREM, re-raise | `UndoReserve` |
| reply | the response | `ReplyDecision` |
| (idle) | `get_decision_context` and ownership checks | `BeginOutcome` |
| select, delete, commit | the transaction of `record_outcome` | `SelectOutcome`, `DeleteAttempts`, `CommitOutcome` |
| release, charge, publish | what follows a `recorded` answer | `ReleaseSlot`, `RecordSpend`, `PublishOutcome` |

Faults are `Drop` (crash, cancellation, or an error outside the `try`),
`RaiseInTry` (an error inside it, with or without the row committed). Time is
`ExpireSlots` and `NewDay`. A row's `outcome` is 0 for a NULL `outcome_payload`
and otherwise the number of the report whose payload is stored; `attempts[d]`
holds the numbers of the reports whose attempt rows are present. Requests that
the code refuses without touching shared state have no action. Metrics, log
lines, payload contents, the policy and the best-effort metadata writes are left
out. The in-memory managers of the tests do the same operations atomically and
are covered by the interleavings in which nobody intervenes.

What the slot properties say, and under which conditions:

* `SlotsAccounted`: the slots that nobody will free (`Orphans`) are no more than the
  faults so far; refused, failed, repeated and duplicate requests and errors inside
  the `try` leave none. A crash between the commit of an outcome and its SREM, or
  an error of `reserve_concurrency`, which runs outside the `try`, leaves one.
* `OpenDecisionKeepsSlot`: an open decision loses its slot by the expiry of its set,
  or when its own creator takes back the slot of an INSERT that committed although
  it seemed to fail; no other step takes it, with faults or without.
* `SlotFreed`: without faults a slot does not stay with a decision that was not made
  or is completed.

The first and, for completed decisions, the last hold for agents whose credentials
live in one environment, and say so: `record_outcome` releases under the
environment of the *reporting* credential while ownership compares only
`agent_id`, so a report from another environment leaves the slot of the first one
behind until its set expires.

`SerialSpec` is the same system with one restriction on the environment: two
reports of one decision are not served at the same time.

`DecisionLedger` is what an agent or an accountant sees of a decision. The
refinement mapping (`Ledger`) takes a decision's status from its row and its
charges and events from the history counters; `ImplementsLedger` is the abstract
specification under that mapping. INSERT opens, the commit of an outcome
completes, `RecordSpend` charges and `PublishOutcome` announces; everything else
stutters. Faults may skip the later steps and never repeat or reorder them.

`BudgetExposure` adds `peak`, the largest number of requests and decisions of a
quota key that had passed the budget check and were not charged at one time. The
cap is compared with a counter that is charged minutes later, so it can be
passed; `OverspendIsBounded` says by how much.

### CredentialStore, CatalogRegistry, RequestPath

Each of the first two has its variables and the steps of its code; `RequestPath`
says when a request takes them. Tasks live in processes; a process has its own
`bootstrapped` flag and catalog cache, the tables and the file are shared.

| step | code | action |
|---|---|---|
| (idle) | a request arrives at an endpoint | `Begin` |
| bootstrap | SELECT, flushed INSERT, commit or IntegrityError of the bootstrap | `BootstrapStep` over `SelectEntry`, `FlushEntry`, `CommitBootstrap`, `FlushFails` |
| mark | `_bootstrapped = True` | `MarkBootstrapped` |
| lookup | SELECT of the key, status and scopes | `Lookup` |
| catalog | `get_snapshot` and, for a decision, the policy | `ReadCatalog` |
| version, insert_version | `ensure_catalog_version` | `SelectVersion`, `StoreVersion` |
| policies, insert_policies, update_policies | `ensure_policies` | `SelectPolicies`, `StorePolicies` |
| route | the rest of the handler | `Route` |

An INSERT of a key waits while another open transaction has inserted it (a step
that is not enabled) and fails once that one has committed. `MetadataFails` is the
`except` around the metadata writes, `Restart` ends a process, `Edit` replaces the
file, removes it or leaves it half written, `Block` is an operator's UPDATE.
`DatabaseFails` is an error or a cancellation during the bootstrap or the lookup:
an open transaction rolls back, a committed one stays without its flag. A file is
identified with its text, a missing one is one more text, and a snapshot is
identified with the file it came from; `ParseErrors` are the exceptions that reading and parsing
raise (no file, no JSON or a refused value, a missing member, another JSON type).
What `create_decision` and `record_outcome` do with quotas and rows is
`ControlPlane`; here they succeed or are refused (`Refuse`: agent, rate, spend,
concurrency, ownership). `Status` has the statuses of `service_error_to_http` and
`_authenticate` and FastAPI's 500 for the rest. Left out: a decision that
is replayed for its idempotency key without reading the catalog, failures inside
the quota and decision steps (`ControlPlane` has both), and the 422 of field
validation.

### SignalStore

The worker's round with a clock: it reads the signals, waits for all probes,
smooths and stores each in target order, and sleeps. Time passes only while it
sleeps or waits; signals carry the age of `last_probe_at` and the TTL that is
left. A probe lasts at most `MaxProbe`; the timeouts of the code bound each wait for
a chunk and not the whole probe, so the bound is an assumption about the
providers, and `SignalsStayFresh` is stated in terms of it. `int()` of a float product may be one less than the exact value and
`round()` of a half goes either way: both outcomes are choices. A first chunk later
than 9999 ms is a measurement that exceeds the mark of a probe without one, and
its p95 is cut to that mark; the instance has such a probe.

### ProbePipeline

One worker and one consumer, as in `docker-compose.yml`. A round probes all
targets (each result is success or degraded, a probe never raises), stores each
signal, then publishes each result; `WorkerFails` drops the rest of a round. The
consumer's `offset` moves in `TakeEntry`, before `RecordSnapshot` or
`RecordFails`, an insert that failed or that committed without an answer;
`ConsumerRestart` sets it back to the beginning. Left out: the
numbers in a signal and their smoothing (`SignalStore`), and entries of the outcome stream, which
the consumer only logs.

### PricingEngine

Filters, prices and scores are operators with the code's names; `Verdict` is the
first filter a model fails. The loop is a state machine: `RejectModel` and
`KeepModel` deal with the next model, `RankCandidates` sorts, cuts and numbers,
`ReturnDecision` or `RaiseNoCandidates` ends. Request, policy and signals are
chosen in `Init` and do not change. Numbers are fixed point (micro-dollars per
thousand tokens, pico-dollars, tenths, 1/10000 for scores), the age of a signal is
given instead of two clock readings, and halves round up where Python's `round`
goes to even. The overage of the burst premium is cut to
tenths where the code multiplies by the exact float: a cost differs in its last
digits, and the properties do not depend on them. `Sorted` gives the k-th place to the candidate that k - 1 others sort
before; a candidate's place before the sort breaks ties, which is what a stable
sort does. `ControlPlane` needs of all this only that the computation may
succeed or raise (its action `Compute`).

The capacity filter and the burst premium are off for a probed throughput of
zero, which is what a failed first probe leaves. The instance contains such
signals and the properties hold with them, but none of them says that such a
model is refused: the code has it compete with its penalties.

### RateLimiter

`ReadClock`, `Incr`, `Expire` are the three steps of `enforce_rpm`; the final
comparison, which touches nothing shared, happens with the last of them. `Stop`
ends a request before or after its next command has run, `Tick` moves the clock and drops the keys whose time has come. `admitted`
holds, per minute, the limits of the requests that were let through and whose
INCR ran in the minute they had read: a straggler of a
past minute may find its key expired and start from one, so no bound smaller than
twice the limit holds for it, and none is claimed. Nor does the code promise a
sliding window: two adjacent minutes may use their limits back to back.

### AgentClient

`pc` is the client's place in `invoke_with_fallback`. A report leaves in
`CallSucceeds` or, after the last candidate, in `FallBack`, and is served in three
steps of `record_outcome`: the SELECT of its transaction (`SelectOutcome`), its
commit (`CommitOutcome`) and its charge (`RecordSpend`). Several reports may be
served at a time, and `LoseReport` ends one anywhere: in the network, or with its
handler between two steps. `ReportFails` may come before, during or after the
service of the report. A call that fails for the client may have been served and
billed (`CallIsLost`). `CallEscapes` and `ReportEscapes` are exceptions outside the
`except` clause; the decision then stays open, which `DecisionCloses` names as an
exception. Three history variables count the calls that providers billed, those of
them whose answer did not arrive, and the reports that failed.

## 3. Runs

| run | instance | shows |
|---|---|---|
| `handlers_safety` | 2 handlers, 2 decisions, 2 credentials on one quota key, keys k1, "" and none, 1 fault | `TypeOK`, `IdempotentReplies`, `EffectsAccounted`, `SlotsAccounted`, `OpenDecisionKeepsSlot` |
| `handlers_serial` | `SerialSpec`, 2 handlers, 1 decision, 2 environments, 2 request ids, 2 faults | `ChargedAtMostOnce`, `AttemptsMatchOutcome`, `OutcomeWrittenOnce`, `ImplementsLedger` |
| `handlers_fair` | `FairSpec`, 2 handlers, 2 decisions, 2 credentials on one quota key, no fault | `SlotFreed` |
| `overlapping_reports_charge` | 2 handlers, 1 decision, no fault | violation of `ChargedAtMostOnce` |
| `budget` | `BudgetSpec`, 2 handlers, 3 decisions, cap 2, room for 2 open decisions, amounts of 1, 1 fault, TTL expiry, midnight | `OverspendIsBounded`, `AdmittedWithinLimit` |
| `request_path` | `FairSpec`, 2 tasks in 1 or 2 processes, 3 requests, a bootstrap list with a repeated key, a credential with a policy of its own, an edit without a new version, a torn file, 1 fault, 1 change | `TypeOK`, `KnownKeyNever401`, `LoserFindsRows`, `CatalogIsCurrent`, `DecidedVersionIsStored`, `BlockedStaysBlocked`, `PoliciesGetStored`, `RequestsAnswered` |
| `signals` | 2 models, 4 rounds of 2 ticks with probes of up to 1, TTL 8, freshness 4, 2 failed rounds | `SignalsStayFresh`, `SmoothedWithinSeen`, `RecoveryIsGeometric` |
| `pipeline` | `FairSpec`, 2 models, 2 rounds, batches of 2, 2 faults, 1 restart | `RowsPerEvent`, `LossIsBounded`, `EventsFollowSignals`, `EventsRecorded` |
| `pricing_decisions` | 4 models (tiers, cold start, discount, premium, free, twins), 216 requests, 20 signal maps, 2 policies | `NoModelVanishes`, `BestAreKept`, `LooserLimitsKeepModels`, `ReasonIsDecisive`, `BadNewsNeverHelps`, `ReportedCostWithinBudget` |
| `rate_limit` | 2 handlers, 5 requests, limits 0 and 2, 3 minutes of 2 ticks, 1 request that stops before or after a command | `AdmittedPerMinute`, `RefusedForItsOwnMinute` |
| `client` | `FairSpec`, 3 candidates | `StoredReportIsTrue`, `BilledAgainOnlyAfterLostAnswer`, `ChargedOncePerAnswer`, `ChargeMatchesOutcome`, `DecisionCloses` |
| `client_late_report` | the same | violation of `StoredOutcomeIsTheResult` |

Bounds. Two handlers reach every race the code has between two requests (two
reservations, two inserts of one key, two reports); a third decision lets one
request pass the budget check while two others are uncharged, and is one more than
the limit of two open decisions, hence `budget`. One
fault anywhere already separates "lost to a fault" from "lost"; `handlers_serial`
has two, for a crash of the retry as well, and one decision only: the
refinement treats decisions apart, and the proof covers any number. Two rounds of two models fill two
batches, so a failure in the middle of a batch has entries after it and a restart
has entries to repeat. Handlers and decision ids are symmetric and the safety
runs use that. In `pricing_decisions` the token counts, budgets and throughputs sit
on both sides of each threshold (a tier limit is met exactly, a premium pushes a
cost over its budget, the twins tie), `max_candidates` is 1 and 2 so that the cut
bites; the signals are what the probe worker leaves after a success, a failed
first probe, a failure after successes, and with age. Five requests exceed a limit
of 2 in one minute and leave two for the next. Three candidates let a report fail
twice and still leave one to call. In `request_path` two tasks meet at every
statement of the bootstrap and of the metadata, in one process or in two, and the
third request finds what they left. One request is a decision, which passes every
step; the other carries an unknown key and ends at the lookup. The remaining kinds
(`outcome`, `catalog`, `ready`, `live`) take some of the same steps and are in the
theorems. The file changes once; that a torn or missing file followed by its
repair leaves no trace in the cache is the theorem `SnapshotsAreCurrent`, for any
number of changes. In
`signals` a round takes up to three ticks, so the freshness limit of four is met
after a good round and missed after a failed one, two failed rounds outlast the
TTL, and four rounds show a failure and a recovery. `pricing_decisions`, `rate_limit`,
`request_path`, `signals` and the client runs end by design (a function returns,
the clock stops, no more requests come), so they do
not check deadlock.

Fairness. `FairSpec` asks that a handler which can take a step eventually does
(`WF` of its own steps): the event loop schedules every ready task and Redis and
Postgres calls return or raise. Requests, faults and clocks get none. In
`ProbePipeline` only the consumer's loop is fair; nothing is asked of the worker.
In `RequestPath` every task's
own step is fair, in the same sense as a handler's; operators, faults and new
requests are not, and an INSERT that waits is not enabled, so `RequestsAnswered`
is about waiting in a circle. In `AgentClient` the client is fair because each of its calls has a timeout, and
the server goes on with a report that reached it, unless its handler stops.

Definitions named `Wrong...` are faulty forms of the action after them; they
belong to no specification and show which property notices the fault.

### What the runs say of the code

* The daily cap is soft. With reports that do not overlap, the spend stays below
  the cap plus one largest amount for each request or open decision that was let
  through and uncharged at the same time.
* A signal may be `PROBE_INTERVAL_SECONDS` plus twice the longest probe old
  between two good rounds. With the defaults (60 s interval, 90 s freshness) a
  provider that keeps a probe waiting for more than 15 s makes the signals of
  *all* models stale for a while, because `gather` waits for it. The timeouts
  (5 s, 30 s for a read) bound each wait for a chunk and not the whole probe.
* The smoothed p95 is the larger of 0.6 of the old and 0.4 of the new value: the
  first stored p95 is 0.69 of the first sample, below its p50.
* Of two first requests that race for the bootstrap, one is answered 500. When it
  is, the rows are there, and the same request succeeds.
* A catalog edited without a new `catalog_version` is used at once, while the row
  of that version keeps the older text; `DecidedVersionIsStored` excludes that
  case by name.
* A request that stops between INCR and EXPIRE leaves a counter without expiry.
  Its minute never returns, so no later request meets it.

### Findings

`record_outcome` reads `outcome_payload` without a lock (`persistence.py` 213).
Two overlapping reports of one decision, such as a retry after a client timeout
while the first report is still in its transaction, both find it NULL and both
are `recorded`: the budget is charged and the event published twice, and the
attempt rows of both stay. README.md 38 and README_zh.md 40 promise that retries
neither duplicate records nor charge twice. `handlers_serial` and
`ControlPlaneSerialProofs` show that overlap is the only way this happens.

The example client reports inside the `try` of its fallback loop
(`examples/agent_client.py` 161). A report that times out after a successful call
counts as a failure of the model: the next candidate is called and paid for, its
answer is returned, and the first report, served late, is the stored outcome.
README.md 19 promises that agents "report what actually happened".
What does hold: the stored report is true of the calls made (`StoredReportIsTrue`),
a call billed beyond the first stands for a lost answer (`BilledAgainOnlyAfterLostAnswer`),
no model is charged that did not answer, nor twice (`ChargedOncePerAnswer`), and the
charge is that of the stored outcome as long as no two reports overlapped
(`ChargeMatchesOutcome`). With an overlap two models of one decision can be charged.

## 4. Proofs

Every theorem holds for all values of the constants that satisfy the ASSUMEs of
its module, which TLC evaluates in the runs:

* `ControlPlane`: limits and budgets are naturals, None is no id, key or record,
  there are finitely many handlers, decision ids and credentials;
* `RateLimiter`: finitely many handlers, a minute of at least one tick, None is no
  number (it stands for "no expiry" among times);
* `ProbePipeline`: the worker's targets are distinct models, at least one (they
  are the keys of the catalog), batches are not empty;
* `AgentClient`: the candidates are distinct, at least one, None is no candidate;
* `RequestPath`: None and the absent snapshot are no values of the model, every
  process has one registry, every text parses or raises in one way;
* `BudgetExposure`: there is a largest amount;
* `SignalStore`: interval and TTL are positive, a probe finds one of finitely many
  results, with a natural number of milliseconds; None is no signal;
* `PricingEngine`: the bounds that `schemas/routing.py` puts on catalog models,
  requests, policies and weights, a positive baseline and freshness limit (the code
  replaces a baseline of zero or less), signals with naturals and a success rate
  between 0 and 1; None is no number and no signal.

The bounds on rounds, requests, changes and faults are constants too, so the
theorems hold for each of their values.

### Handlers

* `TypeCorrect`: `Spec => []TypeOK`. `TypeOK` is inductive because it also says
  that a stored decision's id has been generated, and that a handler past its
  reservation has such an id.
* `Admission`: `Spec => []AdmittedWithinLimit`. The invariant is not inductive
  alone: granting an id could push *another* set over its limit if the id were in
  it too. `SlotInv` adds that an id under creation is in no set but its own, and
  that granted and present ids were generated, so a fresh id is not granted yet.
  Then SADD does not change the granted part of a set, and SCARD grants only when
  the whole set, a superset of the granted part, is within the limit; all other
  steps are `Quiet`.
* `Idempotency`: `Spec => []IdempotentReplies`. `KeyInv` is the unique constraint
  plus: two creations never share an id, an id under creation has no row before
  its own INSERT, and a handler about to reply has its row stored.
* `EffectsFollowCommits`: `Spec => []EffectsAccounted`, with overlapping reports
  and any faults. `EffectsInv` is a balance of two accounts: charges plus the
  handlers between commit and charge against committed outcomes, events plus the
  handlers about to publish against charges. A commit, a charge and an event each
  move one handler from one side to the other (`BalancedStep`), `Drop` can only
  take one away and uses up a fault, and all other steps are quiet. The property
  follows because the two sets of handlers are disjoint. It needs finitely many
  handlers, which is why `ControlPlane` assumes them.
* `SlotsLostToFaults`: `Spec => []SlotsAccounted`. `OwnerInv` says that the set an
  id is in and the report that serves it belong to the agent of its row, `Undone`
  that without faults a failed creation left no row. `Lost` is the set of slots without
  a use; when agents live in one environment, the report releases the same set the
  creation reserved in, so every step but a fault leaves `Lost` as it is or smaller,
  and a fault adds the id of its own handler at most (`LostStep`). `LostInv` counts.
* `OpenSlotStays`: `Spec => OpenDecisionKeepsSlot`, an action property, from
  `OwnerInv` and the invariant of the reservations: the SREM of a refused, a failed
  or a duplicate request is of an id without a row, or of one whose outcome is
  committed, and after a fault the one of `UndoReserve` is of the handler's own id.
* `SerialCharge`, `SerialAttempts`, `SerialOutcome` about `SerialSpec`:
  `SerialInv` says that between its SELECT and its commit a report is still right
  that there is no outcome, and that one with a charge to make is the only one.
* `LedgerRefinement`: `SerialSpec => ImplementsLedger`. `LedgerInv` adds to the
  serial invariant that a handler about to publish has charged its decision once,
  has not published it, and that events never outnumber charges. From it each of
  `Insert` (and the INSERT that commits while its acknowledgement is lost),
  `CommitOutcome`, `RecordSpend` and `PublishOutcome` is one step of the ledger
  (`OpensOne`, `CompletesOne`, `ChargeStep`, `AnnounceStep`), and all other steps
  leave rows, charges and events alone (`LedgerQuietSteps`).

### Rate limiter

* `LimitHoldsEveryMinute`: `Spec => []AdmittedPerMinute`. What was admitted does not
  bound itself: the request that counted 1 is let through only after its EXPIRE.
  `AdmittedInv` therefore adds the requests on their way to that step, and says
  that while a minute lasts they all have a place of their own in its count. The
  count itself must not start over inside the minute: `KeyInv` says that a key
  expires in a later minute than its own. When the minute is over the count may go,
  and nothing is admitted on time any more.
* `RefusalHasItsCause`: `Spec => []RefusedForItsOwnMinute`. `StartedInv` says that
  the requests that started in a minute cover its count and those of them that
  have yet to add to it; a count over the limit then means as many requests.

### Probe pipeline

* `PipelineTypes`: `Spec => []TypeInv`: the worker has one result per target while it
  stores and publishes, the stream has room for the rest of the round, and the
  consumer's offset stays within the stream.
* `RowsOncePerRestart`, `LossBounded`: `RowsPerEvent` and `LossIsBounded` are
  inductive given the types, because `RowsPerEvent` counts the entries up to the
  offset and those after it apart, and an entry leaves the first set only by a
  restart.
* `SignalsBeforeEvents`: `Spec => []EventsFollowSignals`. `RoundInv` says how far the
  round is: the signals before `next` while it stores, all of them while it
  publishes, and no event of this round but those of the targets before `next`.
  The targets must be distinct for that, and a failed round leaves a gap and
  never an older signal.

### Example client

* `StoredReportsAreTrue`, `BillsNeedLostAnswers`, `ChargesAreForAnswers`,
  `ChargeIsOfTheOutcome`. The server may store any report that was sent, so `ReportsInv`
  says of all of them what the first property says of the stored one; a report of
  failure is the last, hence complete, and two reports of successes name different
  models, because the client goes on to a candidate of another rank after each.
  `BilledInv` has a lost answer for each billed call before the one at hand.
  `ChargesInv` makes a charge of each recorded report, hence one at most for a
  model. `SerialInv` says that without an overlap one report at a time is past its
  SELECT and that the one committed is the outcome, and `OneReport` that until a
  report fails only one is sent.

### Request path

Two invariants carry the six theorems, each preserved by the steps of its own
tables and left alone by the others.

* `PathTypes`: `TypeOK`.
* `ConfiguredKeysAreKnown` (`KnownKeyNever401`), `RaceLeavesTheList`
  (`LoserFindsRows`): `CredInv`. Every entry a transaction has been over has a row or
  will get one with its commit (`Progress`); what it has inserted nobody else
  makes a row of, because their INSERT waits; and an INSERT that meets a row meets
  one that was committed after its SELECT, with the whole list. So a set flag, a
  transaction that has committed, and a task that looks up its key all imply a
  seeded table, across restarts.
* `SnapshotsAreCurrent` (`CatalogIsCurrent`): `CacheInv`, a cached snapshot is the
  parse of the text whose checksum it is kept under, also after an edit that
  failed to parse.
* `DecisionsHaveTheirVersion` (`DecidedVersionIsStored`): `HasVersion` and `VersionsInv`,
  without faults a task past the version step finds its version stored, by itself
  or by the task that won the insertion.
* `BlockedRowsStay`: `Spec => BlockedStaysBlocked`, an action property: a commit writes
  only keys that have no row.

### Daily budget

* `SoftCap`: `BudgetSpec => []OverspendIsBounded`. The spend is bounded at the moment
  of a check and rises later, so the invariant keeps an account: spend, plus one
  largest amount for everything let through and uncharged now, never passes the
  cap's share plus `peak` largest amounts. A check that succeeds adds one to the
  exposure and found the spend below the cap; a charge moves one amount from the
  exposure to the spend; expiry, midnight and crashes only take away. `SerialInv`
  says that a report that will be charged is the only one of its decision.

### Signals

* `StayFresh`: `Spec => []SignalsStayFresh`. `AgeInv` measures the time since a model was
  stored by the TTL that is gone: at most the failed rounds and what the model has
  waited in the present one (`Elapsed`). A signal is older than that by at most the
  probe that made it, and it vanishes only when all of its TTL is gone.
* `WithinSeen`, `Recovery`: `ValuesInv` says of the stored values that they lie within
  the results in `seen`, and how much of a failure is left after the present streak.
  A store is a weighted mean with the value the round *read*, whatever has become
  of the key since, so the invariant says the same of what was read until its
  model is stored. `Truncated` and `Rounded` are choices; each
  costs at most one unit and the bounds allow for it.

### Pricing engine

`LoopInvariant` carries the six theorems. `Inv` says that while the loop runs the
candidates are the models seen so far with the verdict "candidate", in catalog
order, each as `Candidate` computes it, the rejections the others, each with its
verdict, and the counters the number of each reason; and that later the
candidates are the `Ranked` form of such a list.

* `CostWithinBudget`, `LooserLimitsSafe`, `ReasonsTrue` follow from it with `VerdictIs` (the
  least index of a filter that fails, as nested conditions) and with what the costs,
  times and filters of a request do *not* depend on (`LimitsChangeNothing`,
  `OneQuery`).
* `BadNewsSafe`: every step from a signal to a score is monotone: division that rounds
  (`DivGrows`, `RoundDivGrows`), the benefit of an accuracy, the weighted mean, the
  clamp (`ScoreGrows`).
* `NoneVanishes`: no model occurs twice, so the sets have as many members as the lists
  places (`AsManyModels`); a model in neither list was cut (`CutIs`).
* `BestKept`: `SortsBefore` is a strict total order on candidates of different ranks;
  the number of candidates that sort before one is therefore a bijection to the
  places of the list (`SortedIs`), which makes the CHOOSE of `Sorted` a definition. The
  cut takes a prefix (`RankedIs`), and places before the sort are in catalog order
  (`SameModelSameCandidate`). The fallback safety is a mean of scores:
  `SumBetween` bounds `SumFunction` of the community modules.

The library's induction theorems cannot be instantiated by the installed provers.
Where induction is needed the proofs take the least counterexample instead
(`LeastNatural`, from the well-foundedness of the naturals): for the existence of the
recursive sum (`SumExists`) and for its bounds.

### Only model-checked

The liveness properties (`SlotFreed`, `EventsRecorded`,
`DecisionCloses`, `PoliciesGetStored`, `RequestsAnswered`): they rest on fairness, that
is on ENABLED, which the prover does not reach.

## 5. Plan

1. The numbers of a signal include its throughput, smoothed with equal weights
   (`latency_tracker.py` 159): a fourth member of `Values`, with the bounds of the p50.
2. A joint specification of `PricingEngine` and `SignalStore`, so that the signals of a
   decision are those a round has left and not any the schema allows.

### Not modelled

* Metrics: counters under a lock that no other part reads.
* Field validation, application wiring, settings and the session factory: they
  keep no state. Required scopes, the order of the checks and the statuses are in
  `RequestPath`; the bounds validation puts on numbers are in the assumptions and
  instances.
* `db_ready` and the pings of the readiness endpoint: reads of other services.
* Migrations, their environment, and the scripts that render documentation. The
  unique constraints the migrations create are modelled where they decide a race.
* The HTTP exchange of a probe and of the example client: each is its result.
