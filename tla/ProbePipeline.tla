--------------------------- MODULE ProbePipeline ---------------------------
(***************************************************************************)
(* From a probe to its row: the probe worker (run_probe_worker and         *)
(* probe_loop_once) stores the signals of a round in Redis and then adds   *)
(* one event per model to the probe stream; the event consumer             *)
(* (run_event_consumer) reads the stream in batches and inserts a row of   *)
(* probe_snapshots per event.  Worker, consumer, Redis and Postgres fail   *)
(* independently, and the consumer keeps its stream position in memory.    *)
(*                                                                         *)
(* The outcome stream is read by the same loop, which only logs its        *)
(* entries: it has no state here.  Payloads are reduced to the model, the  *)
(* round and the status; the smoothing of the numbers is left out.         *)
(***************************************************************************)
EXTENDS Naturals, Sequences, FiniteSets

CONSTANTS
    Models,       \* model_id of the probe targets
    Targets,      \* build_probe_targets: the models in catalog order
    None,         \* no signal stored
    BatchSize,    \* count of xread
    MaxRounds,    \* bound on probe rounds
    MaxFaults,    \* bound on failed or lost calls
    MaxRestarts   \* bound on consumer restarts

\* model_id is "<provider>/<model>", made from the keys of two JSON objects, so
\* the catalog names a model once.
ASSUME TargetsAssumption ==
    /\ Targets \in Seq(Models) /\ Len(Targets) > 0
    /\ \A i, j \in 1..Len(Targets) : Targets[i] = Targets[j] => i = j
ASSUME BoundsAssumption ==
    BatchSize \in Nat \ {0} /\ MaxRounds \in Nat /\ MaxFaults \in Nat /\ MaxRestarts \in Nat

Statuses == {"success", "degraded"}

VARIABLES
    wpc,        \* the probe worker's next step
    round,      \* history: number of rounds begun
    results,    \* the results of this round, in target order
    next,       \* index of the next result to store or publish
    signals,    \* Redis routing-signal:<model_id>, None when absent
    stored,     \* history: the last round whose signal was stored, per model
    stream,     \* the probe stream
    cpc,        \* the consumer's next step
    offset,     \* offsets[PROBE_STREAM_NAME], as an index of stream; 0 for "0-0"
    upto,       \* the last entry of the batch that xread returned
    snapshots,  \* snapshots[e]: number of rows of probe_snapshots made from entry e
    lost,       \* history: number of inserts that failed for the consumer
    faults, restarts

workerVars == <<wpc, round, results, next, signals, stored, stream>>
consumerVars == <<cpc, offset, upto, snapshots, lost, restarts>>
vars == <<workerVars, consumerVars, faults>>

MaxEvents == MaxRounds * Len(Targets)
Events == 1..MaxEvents

Init ==
    /\ wpc = "sleep" /\ round = 0 /\ results = <<>> /\ next = 1
    /\ signals = [m \in Models |-> None]
    /\ stored = [m \in Models |-> 0]
    /\ stream = <<>>
    /\ cpc = "read" /\ offset = 0 /\ upto = 0
    /\ snapshots = [e \in Events |-> 0]
    /\ lost = 0 /\ faults = 0 /\ restarts = 0

-----------------------------------------------------------------------------
(* The probe worker.  A definition that starts with "Wrong" is a faulty form *)
(* of the one after it, used only to show which property notices it.        *)

\* probe_model never raises: a failed probe is a result with status degraded.
\* gather returns the results in target order.
ProbeAll ==
    /\ wpc = "sleep"
    /\ round < MaxRounds
    /\ round' = round + 1
    /\ \E status \in [1..Len(Targets) -> Statuses] :
          results' = [i \in 1..Len(Targets) |->
                        [model_id |-> Targets[i], round |-> round + 1, status |-> status[i]]]
    /\ next' = 1
    /\ wpc' = "store"
    /\ UNCHANGED <<signals, stored, stream, consumerVars, faults>>

\* Sleeping ends the round: what is left of it is dropped.
Sleep == wpc' = "sleep" /\ results' = <<>> /\ next' = 1

WrongStoredAll == TRUE

StoredAll == next = Len(results)

\* smooth_and_store_signal for one result: SET with a TTL.
StoreSignal ==
    /\ wpc = "store"
    /\ LET r == results[next] IN
          /\ signals' = [signals EXCEPT ![r.model_id] = r]
          /\ stored' = [stored EXCEPT ![r.model_id] = r.round]
    /\ IF StoredAll
       THEN next' = 1 /\ wpc' = "publish"
       ELSE next' = next + 1 /\ UNCHANGED wpc
    /\ UNCHANGED <<round, results, stream, consumerVars, faults>>

\* publish_probe for one result: XADD.
PublishProbe ==
    /\ wpc = "publish"
    /\ stream' = Append(stream, results[next])
    /\ IF next < Len(results)
       THEN next' = next + 1 /\ UNCHANGED <<wpc, results>>
       ELSE Sleep
    /\ UNCHANGED <<round, signals, stored, consumerVars, faults>>

\* A Redis error or a crash of the worker: the rest of the round is dropped.
WorkerFails ==
    /\ wpc # "sleep"
    /\ faults < MaxFaults /\ faults' = faults + 1
    /\ Sleep
    /\ UNCHANGED <<round, signals, stored, stream, consumerVars>>

\* The TTL of a signal runs out.
ExpireSignal(m) ==
    /\ signals[m] # None
    /\ signals' = [signals EXCEPT ![m] = None]
    /\ UNCHANGED <<wpc, round, results, next, stored, stream, consumerVars, faults>>

-----------------------------------------------------------------------------
(* The event consumer *)

Smaller(m, n) == IF m < n THEN m ELSE n

\* xread returns up to BatchSize entries after the offset; none when it
\* blocked for its full second, and the loop polls again.
ReadBatch ==
    /\ cpc = "read"
    /\ upto' = Smaller(offset + BatchSize, Len(stream))
    /\ cpc' = IF offset < Len(stream) THEN "entry" ELSE "read"
    /\ UNCHANGED <<workerVars, offset, snapshots, lost, restarts, faults>>

WrongTakenBatch(o, u) == u
WrongTakenStays(o, u) == IF o = 0 THEN 1 ELSE o

Taken(o, u) == o + 1

\* The offset moves past an entry before the entry is recorded.
TakeEntry ==
    /\ cpc = "entry"
    /\ offset' = Taken(offset, upto)
    /\ cpc' = "insert"
    /\ UNCHANGED <<workerVars, upto, snapshots, lost, restarts, faults>>

AddRow == snapshots' = [snapshots EXCEPT ![offset] = @ + 1]

\* record_probe_snapshot: one insert in a transaction of its own.
RecordSnapshot ==
    /\ cpc = "insert"
    /\ AddRow
    /\ cpc' = IF offset < upto THEN "entry" ELSE "read"
    /\ UNCHANGED <<workerVars, offset, upto, lost, restarts, faults>>

\* The insert fails, or commits without an answer to the consumer: the loop
\* starts over at the current offset, so the entry is not read again, the
\* entries after it are.
RecordFails ==
    /\ cpc = "insert"
    /\ faults < MaxFaults /\ faults' = faults + 1
    /\ lost' = lost + 1
    /\ AddRow \/ UNCHANGED snapshots
    /\ cpc' = "read"
    /\ UNCHANGED <<workerVars, offset, upto, restarts>>

WrongStartOffset == Len(stream)

StartOffset == 0

\* The container restarts (restart: always) with the offsets at "0-0".
ConsumerRestart ==
    /\ restarts < MaxRestarts /\ restarts' = restarts + 1
    /\ cpc' = "read" /\ offset' = StartOffset /\ upto' = StartOffset
    /\ UNCHANGED <<workerVars, snapshots, lost, faults>>

-----------------------------------------------------------------------------

WorkerStep == ProbeAll \/ StoreSignal \/ PublishProbe
ConsumerStep == ReadBatch \/ TakeEntry \/ RecordSnapshot

Next ==
    \/ WorkerStep \/ WorkerFails
    \/ \E m \in Models : ExpireSignal(m)
    \/ ConsumerStep \/ RecordFails \/ ConsumerRestart

Spec == Init /\ [][Next]_vars

\* The consumer's loop never ends by itself; nothing is assumed of the worker.
FairSpec == Spec /\ WF_vars(ConsumerStep)

-----------------------------------------------------------------------------
(* Properties *)

\* The entries the consumer has dealt with since it started.
Passed == IF cpc = "insert" THEN offset - 1 ELSE offset

\* An event becomes at most one row, and one more per restart of the consumer,
\* which reads the stream from its beginning; never a row before its event.
RowsPerEvent ==
    \A e \in Events :
       /\ snapshots[e] <= restarts + 1
       /\ snapshots[e] > 0 => e <= Len(stream)
       /\ e > Passed => snapshots[e] <= restarts

\* The events the consumer has passed without a row are no more than the
\* inserts that failed for it: a failure in the middle of a batch loses that entry
\* and not the rest of the batch.
LossIsBounded ==
    Cardinality({e \in 1..Passed : snapshots[e] = 0}) <= lost

\* An event is published only after the signal of its round was stored, and
\* for one model the events carry increasing rounds: a decision made after an
\* event never reads a signal older than the event.
EventsFollowSignals ==
    \A i \in 1..Len(stream) :
       /\ stream[i].round <= stored[stream[i].model_id]
       /\ \A j \in 1..(i - 1) :
             stream[j].model_id = stream[i].model_id => stream[j].round < stream[i].round

\* Every published event becomes a row, unless an insert fails.
EventsRecorded ==
    \A e \in Events : e <= Len(stream) ~> (snapshots[e] > 0 \/ lost > 0)
=============================================================================
