------------------------ MODULE ProbePipelineProofs ------------------------
(***************************************************************************)
(* Theorems about ProbePipeline, for any catalog, batch size and number of *)
(* rounds, failures and restarts: what the consumer makes of the stream,   *)
(* and in which order signals and events of a model appear.                *)
(***************************************************************************)
EXTENDS ProbePipeline, FiniteSetTheorems, TLAPS

Results == [model_id : Models, round : Nat, status : Statuses]

\* The worker holds a result per target exactly while it is in a round.
WorkerType ==
    /\ wpc \in {"sleep", "store", "publish"}
    /\ round \in 0..MaxRounds
    /\ next \in 1..Len(Targets)
    /\ wpc # "sleep" =>
          /\ results \in [1..Len(Targets) -> Results] /\ Len(results) = Len(Targets)
          /\ \A i \in 1..Len(Targets) : results[i].model_id = Targets[i] /\ results[i].round = round
    /\ signals \in [Models -> Results \cup {None}]
    /\ stored \in [Models -> Nat]
    /\ stream \in Seq(Results)

\* The entries of the rounds that are over, and what this round may have
\* added: the stream never outgrows the rounds begun.
StreamBound ==
    /\ wpc = "sleep" => Len(stream) <= round * Len(Targets)
    /\ wpc = "store" => Len(stream) + Len(Targets) <= round * Len(Targets)
    /\ wpc = "publish" => Len(stream) + Len(Targets) <= round * Len(Targets) + next - 1

\* The consumer's position lies within the stream, and within its batch
\* while it works on one.
ConsumerType ==
    /\ cpc \in {"read", "entry", "insert"}
    /\ offset \in 0..Len(stream) /\ upto \in 0..Len(stream)
    /\ cpc = "entry" => offset < upto
    /\ cpc = "insert" => offset > 0
    /\ snapshots \in [Events -> Nat]
    /\ lost \in Nat /\ restarts \in Nat

TypeInv == WorkerType /\ StreamBound /\ ConsumerType

\* What the worker has done in this round: the signals before next while it
\* stores, all of them while it publishes, and no event of this round but
\* those of the targets before next.
RoundInv ==
    /\ \A m \in Models : stored[m] <= round
    /\ wpc = "store" => \A i \in 1..(next - 1) : stored[Targets[i]] = round
    /\ wpc = "publish" => \A i \in 1..Len(Targets) : stored[Targets[i]] = round
    /\ \A i \in 1..Len(stream) :
          /\ stream[i].round <= round
          /\ wpc = "store" => stream[i].round < round
          /\ wpc = "publish" /\ stream[i].round = round =>
                \E k \in 1..(next - 1) : stream[i].model_id = Targets[k]

-----------------------------------------------------------------------------
(* The worker *)

\* The catalog has a length, and names models.
LEMMA TargetCount ==
    /\ Len(Targets) \in Nat \ {0}
    /\ \A i \in 1..Len(Targets) : Targets[i] \in Models
BY TargetsAssumption

\* The room that the events of r rounds need.
LEMMA RoundRoom ==
    /\ \A r \in Nat : r * Len(Targets) \in Nat /\ (r + 1) * Len(Targets) = r * Len(Targets) + Len(Targets)
    /\ \A r \in 0..MaxRounds : r * Len(Targets) <= MaxEvents
<1> DEFINE L == Len(Targets)
<1>1. L \in Nat
    BY TargetCount
<1> HIDE DEF L
<1>2. \A r \in Nat : r * L \in Nat /\ (r + 1) * L = r * L + L
    BY <1>1
<1>3. \A r \in 0..MaxRounds : r * L <= MaxRounds * L
    BY <1>1, BoundsAssumption
<1> QED
    BY <1>2, <1>3 DEF L, MaxEvents

\* A result per target is a sequence as long as the catalog.
LEMMA ResultSequence ==
    ASSUME NEW f \in [1..Len(Targets) -> Results]
    PROVE  f \in Seq(Results) /\ Len(f) = Len(Targets)
BY TargetCount

\* Init is well typed.
LEMMA TypeInit == Init => TypeInv
<1> SUFFICES ASSUME Init PROVE TypeInv
    OBVIOUS
<1>1. WorkerType /\ Len(stream) = 0
    BY TargetCount, BoundsAssumption DEF Init, WorkerType
<1>2. StreamBound
    BY <1>1, TargetCount, RoundRoom DEF Init, StreamBound
<1>3. ConsumerType
    BY <1>1 DEF Init, ConsumerType
<1> QED
    BY <1>1, <1>2, <1>3 DEF TypeInv

\* What the consumer and its restarts leave to the worker.
LEMMA ConsumerLeavesWorker ==
    ASSUME ConsumerStep \/ RecordFails \/ ConsumerRestart
    PROVE  UNCHANGED workerVars
BY DEF ConsumerStep, ReadBatch, TakeEntry, RecordSnapshot, RecordFails, ConsumerRestart

\* Every step keeps the worker's types and the bound on the stream.
LEMMA WorkerNext ==
    ASSUME WorkerType, StreamBound, [Next]_vars
    PROVE  WorkerType' /\ StreamBound' /\ Len(stream)' >= Len(stream)
<1> USE TargetCount, BoundsAssumption
<1> DEFINE Goal == WorkerType' /\ StreamBound' /\ Len(stream)' >= Len(stream)
<1>s. Len(stream) \in Nat /\ stream \in Seq(Results) /\ round \in Nat
    BY DEF WorkerType
<1>1. CASE ProbeAll
  <2>1. PICK status \in [1..Len(Targets) -> Statuses] :
            results' = [i \in 1..Len(Targets) |->
                          [model_id |-> Targets[i], round |-> round + 1, status |-> status[i]]]
    BY <1>1 DEF ProbeAll
  <2>2. /\ wpc = "sleep" /\ round < MaxRounds /\ round' = round + 1 /\ next' = 1 /\ wpc' = "store"
        /\ UNCHANGED <<signals, stored, stream>>
    BY <1>1 DEF ProbeAll
  <2>3. /\ results' \in [1..Len(Targets) -> Results]
        /\ \A i \in 1..Len(Targets) : results'[i].model_id = Targets[i] /\ results'[i].round = round + 1
    BY <2>1, <1>s DEF Results
  <2>4. Len(results') = Len(Targets)
    BY <2>3, ResultSequence
  <2>5. WorkerType'
    BY <2>2, <2>3, <2>4 DEF WorkerType
  <2>6. StreamBound'
    BY <2>2, <1>s, RoundRoom DEF StreamBound
  <2> QED
    BY <2>2, <2>5, <2>6, <1>s
<1>2. CASE StoreSignal
  <2>1. wpc = "store" /\ UNCHANGED <<round, results, stream>>
    BY <1>2 DEF StoreSignal
  <2>2. results[next] \in Results /\ Len(results) = Len(Targets)
    BY <2>1 DEF WorkerType
  <2>3. signals' \in [Models -> Results \cup {None}] /\ stored' \in [Models -> Nat]
    BY <1>2, <2>2 DEF StoreSignal, WorkerType, Results
  <2>4. \/ next' = 1 /\ wpc' = "publish"
        \/ next < Len(Targets) /\ next' = next + 1 /\ wpc' = "store"
    <3>1. next \in 1..Len(Targets)
      BY DEF WorkerType
    <3> QED
      BY <1>2, <2>1, <2>2, <3>1 DEF StoreSignal, StoredAll
  <2>5. WorkerType'
    BY <2>1, <2>3, <2>4 DEF WorkerType
  <2>6. StreamBound'
    BY <2>1, <2>4, <1>s, RoundRoom DEF StreamBound, WorkerType
  <2> QED
    BY <2>1, <2>5, <2>6, <1>s
<1>3. CASE PublishProbe
  <2>1. wpc = "publish" /\ UNCHANGED <<round, signals, stored>> /\ stream' = Append(stream, results[next])
    BY <1>3 DEF PublishProbe
  <2>2. results[next] \in Results /\ Len(results) = Len(Targets)
    BY <2>1 DEF WorkerType
  <2>3. stream' \in Seq(Results) /\ Len(stream') = Len(stream) + 1
    BY <2>1, <2>2, <1>s
  <2>4. \/ next < Len(Targets) /\ next' = next + 1 /\ wpc' = "publish" /\ results' = results
        \/ next >= Len(Targets) /\ next' = 1 /\ wpc' = "sleep"
    BY <1>3, <2>1, <2>2 DEF PublishProbe, Sleep, WorkerType
  <2>5. WorkerType'
    BY <2>1, <2>3, <2>4 DEF WorkerType
  <2>6. StreamBound'
    BY <2>1, <2>3, <2>4, <1>s, RoundRoom DEF StreamBound, WorkerType
  <2> QED
    BY <2>3, <2>5, <2>6, <1>s
<1>4. CASE WorkerFails
    BY <1>4, <1>s, RoundRoom DEF WorkerFails, Sleep, WorkerType, StreamBound
<1>5. ASSUME NEW m \in Models, ExpireSignal(m) PROVE Goal
    BY <1>5, <1>s DEF ExpireSignal, WorkerType, StreamBound
<1>6. CASE UNCHANGED workerVars
    BY <1>6, <1>s DEF workerVars, WorkerType, StreamBound
<1> QED
    BY <1>1, <1>2, <1>3, <1>4, <1>5, <1>6, ConsumerLeavesWorker DEF Next, WorkerStep, vars

-----------------------------------------------------------------------------
(* The consumer *)

\* Every entry of the stream has a row counter.
LEMMA StreamInEvents ==
    ASSUME WorkerType, StreamBound
    PROVE  Len(stream) \in Nat /\ Len(stream) <= MaxEvents /\ MaxEvents \in Nat
<1>1. Len(stream) \in Nat /\ round * Len(Targets) <= MaxEvents /\ round * Len(Targets) \in Nat
    BY RoundRoom DEF WorkerType
<1>2. MaxEvents \in Nat
    BY RoundRoom, BoundsAssumption DEF MaxEvents
<1> QED
    BY <1>1, <1>2, TargetCount DEF WorkerType, StreamBound

\* What the worker and the TTL leave to the consumer.
LEMMA WorkerLeavesConsumer ==
    ASSUME WorkerStep \/ WorkerFails \/ \E m \in Models : ExpireSignal(m)
    PROVE  UNCHANGED consumerVars
BY DEF WorkerStep, ProbeAll, StoreSignal, PublishProbe, WorkerFails, ExpireSignal

\* The consumer stays within the stream.
LEMMA ConsumerNext ==
    ASSUME TypeInv, [Next]_vars
    PROVE  ConsumerType'
<1> USE BoundsAssumption DEF ConsumerType
<1>s. /\ WorkerType /\ StreamBound /\ ConsumerType /\ Len(stream) \in Nat
      /\ Len(stream)' \in Nat /\ Len(stream)' >= Len(stream)
    BY WorkerNext, StreamInEvents DEF TypeInv, WorkerType
<1>1. CASE ReadBatch
    BY <1>1, <1>s DEF ReadBatch, workerVars, Smaller
<1>2. CASE TakeEntry
    BY <1>2, <1>s DEF TakeEntry, workerVars, Taken
<1>3. CASE RecordSnapshot
  <2>1. offset \in Events
    BY <1>3, <1>s, StreamInEvents DEF RecordSnapshot, Events
  <2>2. snapshots' \in [Events -> Nat]
    BY <1>3, <1>s, <2>1 DEF RecordSnapshot, AddRow
  <2> QED
    BY <1>3, <1>s, <2>2 DEF RecordSnapshot, workerVars
<1>4. CASE RecordFails
  <2>1. offset \in Events
    BY <1>4, <1>s, StreamInEvents DEF RecordFails, Events
  <2>2. snapshots' \in [Events -> Nat]
    BY <1>4, <1>s, <2>1 DEF RecordFails, AddRow
  <2> QED
    BY <1>4, <1>s, <2>2 DEF RecordFails, workerVars
<1>5. CASE ConsumerRestart
    BY <1>5, <1>s DEF ConsumerRestart, StartOffset, workerVars
<1>6. CASE UNCHANGED consumerVars
    BY <1>6, <1>s DEF consumerVars
<1> QED
    BY <1>1, <1>2, <1>3, <1>4, <1>5, <1>6, WorkerLeavesConsumer DEF Next, ConsumerStep, vars

\* The types are kept.
LEMMA TypeNext == TypeInv /\ [Next]_vars => TypeInv'
BY WorkerNext, ConsumerNext DEF TypeInv

\* Worker and consumer keep their types: in particular the worker publishes
\* one result per target and round, and the consumer never runs past the
\* stream or outside its batch.
THEOREM PipelineTypes == Spec => []TypeInv
<1>1. Init => TypeInv
    BY TypeInit
<1>2. TypeInv /\ [Next]_vars => TypeInv'
    BY TypeNext
<1> QED
    BY <1>1, <1>2, PTL DEF Spec

\* Rows are counted right from the start and by every step.
LEMMA RowsNext == TypeInv /\ RowsPerEvent /\ [Next]_vars => RowsPerEvent'
<1> SUFFICES ASSUME TypeInv, RowsPerEvent, [Next]_vars PROVE RowsPerEvent'
    OBVIOUS
<1>s. /\ ConsumerType /\ Len(stream) \in Nat /\ Len(stream)' \in Nat /\ Len(stream)' >= Len(stream)
      /\ MaxEvents \in Nat /\ Len(stream) <= MaxEvents
    BY WorkerNext, StreamInEvents DEF TypeInv, WorkerType
<1> USE DEF ConsumerType, RowsPerEvent, Passed, Events
<1>1. CASE ReadBatch
    BY <1>1, <1>s DEF ReadBatch, workerVars
<1>2. CASE TakeEntry
    BY <1>2, <1>s DEF TakeEntry, workerVars, Taken
<1>3. CASE RecordSnapshot
  <2>1. /\ cpc = "insert" /\ offset \in Events /\ offset <= Len(stream)
        /\ UNCHANGED <<stream, offset, restarts>> /\ cpc' # "insert"
        /\ snapshots' = [snapshots EXCEPT ![offset] = @ + 1]
    BY <1>3, <1>s DEF RecordSnapshot, AddRow, workerVars
  <2>2. snapshots[offset] <= restarts /\ snapshots'[offset] = snapshots[offset] + 1
    BY <2>1, <1>s
  <2> QED
    BY <2>1, <2>2, <1>s
<1>4. CASE RecordFails
  <2>1. /\ cpc = "insert" /\ offset \in Events /\ offset <= Len(stream)
        /\ UNCHANGED <<stream, offset, restarts>> /\ cpc' # "insert"
        /\ snapshots' = [snapshots EXCEPT ![offset] = @ + 1] \/ UNCHANGED snapshots
    BY <1>4, <1>s DEF RecordFails, AddRow, workerVars
  <2>2. snapshots[offset] <= restarts /\ snapshots'[offset] <= snapshots[offset] + 1
    BY <2>1, <1>s
  <2> QED
    BY <2>1, <2>2, <1>s
<1>5. CASE ConsumerRestart
    BY <1>5, <1>s DEF ConsumerRestart, StartOffset, workerVars
<1>6. CASE UNCHANGED consumerVars
    BY <1>6, <1>s DEF consumerVars
<1> QED
    BY <1>1, <1>2, <1>3, <1>4, <1>5, <1>6, WorkerLeavesConsumer DEF Next, ConsumerStep, vars

\* record_probe_snapshot makes at most one row of an event per life of the
\* consumer, whatever the batches, failures and restarts.
THEOREM RowsOncePerRestart == Spec => []RowsPerEvent
<1>1. Init => TypeInv /\ RowsPerEvent
    BY TypeInit DEF Init, RowsPerEvent, Passed
<1>2. TypeInv /\ RowsPerEvent /\ [Next]_vars => (TypeInv /\ RowsPerEvent)'
    BY TypeNext, RowsNext
<1> QED
    BY <1>1, <1>2, PTL DEF Spec

Unrecorded == {e \in 1..Passed : snapshots[e] = 0}

\* The entries passed without a row are finitely many; fewer of them are counted by less.
LEMMA Losses ==
    ASSUME ConsumerType, Len(stream) \in Nat
    PROVE  /\ Passed \in Nat /\ IsFiniteSet(Unrecorded) /\ Cardinality(Unrecorded) \in Nat
           /\ \A T \in SUBSET Unrecorded : Cardinality(T) <= Cardinality(Unrecorded)
           /\ \A e : /\ IsFiniteSet(Unrecorded \cup {e})
                     /\ Cardinality(Unrecorded \cup {e}) <= Cardinality(Unrecorded) + 1
<1>1. Passed \in Nat
    BY DEF Passed, ConsumerType
<1>2. IsFiniteSet(1..Passed) /\ Unrecorded \in SUBSET (1..Passed)
    BY <1>1, FS_Interval DEF Unrecorded
<1>3. IsFiniteSet(Unrecorded)
    BY <1>2, FS_Subset
<1>4. Cardinality(Unrecorded) \in Nat
    BY <1>3, FS_CardinalityType
<1>5. \A e : /\ IsFiniteSet(Unrecorded \cup {e})
             /\ Cardinality(Unrecorded \cup {e}) =
                   IF e \in Unrecorded THEN Cardinality(Unrecorded) ELSE Cardinality(Unrecorded) + 1
    BY <1>3, FS_AddElement
<1>6. \A T \in SUBSET Unrecorded : Cardinality(T) <= Cardinality(Unrecorded)
    BY <1>3, FS_Subset
<1>7. \A e : Cardinality(Unrecorded \cup {e}) <= Cardinality(Unrecorded) + 1
    BY <1>4, <1>5
<1> QED
    BY <1>1, <1>3, <1>4, <1>5, <1>6, <1>7

\* Only a failed insert passes an entry without a row, and it passes one.
LEMMA LossNext == TypeInv /\ LossIsBounded /\ [Next]_vars => LossIsBounded'
<1> SUFFICES ASSUME TypeInv, LossIsBounded, [Next]_vars PROVE LossIsBounded'
    OBVIOUS
<1>s. /\ ConsumerType /\ Len(stream) \in Nat /\ Len(stream)' \in Nat
      /\ MaxEvents \in Nat /\ Len(stream) <= MaxEvents
    BY WorkerNext, StreamInEvents DEF TypeInv, WorkerType
<1>t. ConsumerType'
    BY ConsumerNext
<1>l. Cardinality(Unrecorded) <= lost /\ lost \in Nat
    BY <1>s DEF LossIsBounded, Unrecorded, ConsumerType
<1>c. /\ Passed \in Nat /\ IsFiniteSet(Unrecorded) /\ Cardinality(Unrecorded) \in Nat
      /\ \A T \in SUBSET Unrecorded : Cardinality(T) <= Cardinality(Unrecorded)
      /\ \A e : /\ IsFiniteSet(Unrecorded \cup {e})
                /\ Cardinality(Unrecorded \cup {e}) <= Cardinality(Unrecorded) + 1
    BY <1>s, Losses
<1>d. Passed' \in Nat /\ IsFiniteSet(Unrecorded') /\ Cardinality(Unrecorded') \in Nat
  <2>a. offset' \in 0..Len(stream)' /\ (cpc' = "insert" => offset' > 0)
    BY <1>t DEF ConsumerType
  <2>0. offset' \in Nat /\ (cpc' = "insert" => offset' > 0)
    BY <1>s, <2>a
  <2>p. PICK o \in Nat : o = offset' /\ (cpc' = "insert" => o > 0)
    BY <2>0
  <2>q. o \in Nat /\ (cpc' = "insert" => o > 0)
    BY <2>p
  <2>r. Passed' = IF cpc' = "insert" THEN o - 1 ELSE o
    BY <2>p, Zenon DEF Passed
  <2>1. Passed' \in Nat
    BY <2>q, <2>r
  <2>2. IsFiniteSet(1..Passed') /\ Unrecorded' \in SUBSET (1..Passed')
    BY <2>1, FS_Interval DEF Unrecorded
  <2>3. IsFiniteSet(Unrecorded')
    BY <2>2, FS_Subset
  <2> QED
    BY <2>1, <2>3, FS_CardinalityType
<1> SUFFICES Cardinality(Unrecorded') <= lost'
    BY DEF LossIsBounded, Unrecorded
<1>q. ASSUME Unrecorded' \subseteq Unrecorded, lost' = lost PROVE Cardinality(Unrecorded') <= lost'
    BY <1>q, <1>c, <1>d, <1>l
<1> USE DEF ConsumerType, Passed
<1>1. CASE ReadBatch
    BY <1>1, <1>s, <1>q DEF ReadBatch, Unrecorded
<1>2. CASE TakeEntry
    BY <1>2, <1>s, <1>q DEF TakeEntry, Taken, Unrecorded
<1>3. CASE RecordSnapshot
  <2>1. /\ cpc = "insert" /\ offset \in Events /\ UNCHANGED <<offset, lost>> /\ cpc' # "insert"
        /\ snapshots' = [snapshots EXCEPT ![offset] = @ + 1]
    BY <1>3, <1>s DEF RecordSnapshot, AddRow, Events
  <2>2. snapshots'[offset] # 0 /\ Passed' = offset /\ Passed = offset - 1
    BY <2>1, <1>s
  <2>3. \A e \in 1..(offset - 1) : snapshots'[e] = snapshots[e]
    BY <2>1, <1>s DEF Events
  <2> QED
    BY <2>1, <2>2, <2>3, <1>s, <1>q DEF Unrecorded
<1>4. CASE RecordFails
  <2>1. /\ cpc = "insert" /\ UNCHANGED offset /\ cpc' = "read" /\ lost' = lost + 1
        /\ snapshots' = [snapshots EXCEPT ![offset] = @ + 1] \/ UNCHANGED snapshots
    BY <1>4 DEF RecordFails, AddRow
  <2>a. \A e \in 1..(offset - 1) : snapshots'[e] = snapshots[e]
    BY <2>1, <1>s DEF Events
  <2>2. Unrecorded' \subseteq Unrecorded \cup {offset}
    BY <2>1, <2>a, <1>s DEF Unrecorded
  <2>3. Cardinality(Unrecorded') <= Cardinality(Unrecorded \cup {offset})
    BY <2>2, <1>c, FS_Subset
  <2>4. /\ Cardinality(Unrecorded \cup {offset}) <= Cardinality(Unrecorded) + 1
        /\ Cardinality(Unrecorded \cup {offset}) \in Nat
    BY <1>c, FS_CardinalityType
  <2> QED
    BY <2>1, <2>3, <2>4, <1>c, <1>d, <1>l
<1>5. CASE ConsumerRestart
  <2>1. Unrecorded' = {}
    BY <1>5 DEF ConsumerRestart, StartOffset, Unrecorded
  <2> QED
    BY <1>5, <2>1, <1>l, <1>q DEF ConsumerRestart
<1>6. CASE UNCHANGED consumerVars
    BY <1>6, <1>q DEF consumerVars, Unrecorded
<1> QED
    BY <1>1, <1>2, <1>3, <1>4, <1>5, <1>6, WorkerLeavesConsumer DEF Next, ConsumerStep, vars

\* However batches, failures and restarts fall, the consumer passes no more
\* events without a row than inserts have failed for it.
THEOREM LossBounded == Spec => []LossIsBounded
<1>1. Init => TypeInv /\ LossIsBounded
  <2> SUFFICES ASSUME Init PROVE LossIsBounded
    BY TypeInit
  <2>1. {e \in 1..Passed : snapshots[e] = 0} = {} /\ lost = 0
    BY DEF Init, Passed
  <2> QED
    BY <2>1, FS_EmptySet DEF LossIsBounded
<1>2. TypeInv /\ LossIsBounded /\ [Next]_vars => (TypeInv /\ LossIsBounded)'
    BY TypeNext, LossNext
<1> QED
    BY <1>1, <1>2, PTL DEF Spec

-----------------------------------------------------------------------------
(* The order of signals and events.  RoundInv says how far the round has    *)
(* come; OrderInv adds EventsFollowSignals, which is then inductive.        *)

OrderInv == RoundInv /\ EventsFollowSignals

\* Nothing is stored or published at the start.
LEMMA OrderInit == Init => OrderInv
<1> SUFFICES ASSUME Init PROVE OrderInv
    OBVIOUS
<1>1. Len(stream) = 0 /\ wpc = "sleep" /\ round = 0 /\ \A m \in Models : stored[m] = 0
    BY DEF Init
<1> QED
    BY <1>1 DEF OrderInv, RoundInv, EventsFollowSignals

\* A round stores every signal before it publishes any event, one per target.
LEMMA OrderNext == TypeInv /\ OrderInv /\ [Next]_vars => OrderInv'
<1> SUFFICES ASSUME TypeInv, OrderInv, [Next]_vars PROVE OrderInv'
    OBVIOUS
<1> USE TargetCount
<1>s. /\ WorkerType /\ RoundInv /\ EventsFollowSignals
      /\ Len(stream) \in Nat /\ stream \in Seq(Results) /\ round \in Nat
      /\ \A i \in 1..Len(stream) : stream[i] \in Results
    BY DEF TypeInv, WorkerType, OrderInv
<1>r. \A i \in 1..Len(stream) : stream[i].round \in Nat /\ stream[i].model_id \in Models
    BY <1>s DEF Results
<1>1. CASE ProbeAll
  <2>1. /\ wpc = "sleep" /\ round' = round + 1 /\ next' = 1 /\ wpc' = "store"
        /\ UNCHANGED <<stored, stream>>
    BY <1>1 DEF ProbeAll
  <2>2. RoundInv'
    BY <2>1, <1>s, <1>r DEF RoundInv, WorkerType
  <2>3. EventsFollowSignals'
    BY <2>1, <1>s DEF EventsFollowSignals
  <2> QED
    BY <2>2, <2>3 DEF OrderInv
<1>2. CASE StoreSignal
  <2>1. wpc = "store" /\ UNCHANGED <<round, results, stream>>
    BY <1>2 DEF StoreSignal
  <2>2. /\ next \in 1..Len(Targets) /\ Targets[next] \in Models /\ Len(results) = Len(Targets)
        /\ results[next].model_id = Targets[next] /\ results[next].round = round
    BY <2>1, <1>s DEF WorkerType
  <2>3. stored' = [stored EXCEPT ![Targets[next]] = round]
    BY <1>2, <2>2 DEF StoreSignal
  <2>4. \/ next = Len(Targets) /\ next' = 1 /\ wpc' = "publish"
        \/ next < Len(Targets) /\ next' = next + 1 /\ wpc' = "store"
    BY <1>2, <2>1, <2>2 DEF StoreSignal, StoredAll
  <2>5. \A m \in Models : stored[m] \in Nat /\ stored'[m] = IF m = Targets[next] THEN round ELSE stored[m]
    BY <2>2, <2>3, <1>s DEF WorkerType
  <2>6. \A m \in Models : stored[m] <= stored'[m] /\ stored'[m] <= round
    BY <2>5, <1>s DEF RoundInv
  <2>7. \A i \in 1..next : stored'[Targets[i]] = round
    BY <2>1, <2>2, <2>5, <1>s DEF RoundInv
  <2>8. RoundInv'
    BY <2>1, <2>2, <2>4, <2>6, <2>7, <1>s, <1>r DEF RoundInv
  <2>9. EventsFollowSignals'
    BY <2>1, <2>5, <2>6, <1>s, <1>r DEF EventsFollowSignals
  <2> QED
    BY <2>8, <2>9 DEF OrderInv
<1>3. CASE PublishProbe
  <2>1. wpc = "publish" /\ UNCHANGED <<round, stored>> /\ stream' = Append(stream, results[next])
    BY <1>3 DEF PublishProbe
  <2>2. /\ next \in 1..Len(Targets) /\ Targets[next] \in Models /\ Len(results) = Len(Targets)
        /\ results[next].model_id = Targets[next] /\ results[next].round = round
        /\ results[next] \in Results
    BY <2>1, <1>s DEF WorkerType
  <2>3. /\ Len(stream') = Len(stream) + 1 /\ stream'[Len(stream) + 1] = results[next]
        /\ \A i \in 1..Len(stream) : stream'[i] = stream[i]
    BY <2>1, <2>2, <1>s
  <2>4. \/ next' = next + 1 /\ wpc' = "publish"
        \/ wpc' = "sleep"
    BY <1>3, <2>1 DEF PublishProbe, Sleep
  <2>5. RoundInv'
    <3>1. \A m \in Models : stored'[m] <= round'
      BY <2>1, <1>s DEF RoundInv
    <3>2. wpc' # "store" /\ \A i \in 1..Len(Targets) : stored'[Targets[i]] = round'
      BY <2>1, <2>4, <1>s DEF RoundInv
    <3>3. ASSUME NEW i \in 1..Len(stream)'
          PROVE  /\ stream'[i].round <= round'
                 /\ wpc' = "publish" /\ stream'[i].round = round' =>
                       \E k \in 1..(next' - 1) : stream'[i].model_id = Targets[k]
      <4>n. wpc' = "publish" => \A k \in 1..next : k \in 1..(next' - 1)
        BY <2>2, <2>4
      <4>1. CASE i = Len(stream) + 1
        BY <4>1, <4>n, <2>1, <2>2, <2>3, <1>s
      <4>2. CASE i # Len(stream) + 1
        <5>1. i \in 1..Len(stream) /\ stream'[i] = stream[i]
          BY <4>2, <3>3, <2>3, <1>s
        <5>2. stream[i].round = round => \E k \in 1..next : stream[i].model_id = Targets[k]
          BY <5>1, <2>1, <2>2, <1>s DEF RoundInv
        <5> QED
          BY <5>1, <5>2, <4>n, <2>1, <1>s DEF RoundInv
      <4> QED
        BY <4>1, <4>2
    <3> QED
      BY <3>1, <3>2, <3>3 DEF RoundInv
  <2>6. EventsFollowSignals'
    <3>1. ASSUME NEW i \in 1..Len(stream)
          PROVE  /\ stream[i].round <= stored[stream[i].model_id]
                 /\ stream[i].model_id = Targets[next] => stream[i].round < round
      <4>1. stream[i].round <= round
        BY <1>s DEF RoundInv
      <4>2. stream[i].round = round => stream[i].model_id # Targets[next]
        BY <2>1, <2>2, <1>s, TargetsAssumption DEF RoundInv
      <4> QED
        BY <4>1, <4>2, <1>r, <1>s DEF EventsFollowSignals
    <3>2. stored[Targets[next]] = round
      BY <2>1, <2>2, <1>s DEF RoundInv
    <3>3. ASSUME NEW i \in 1..Len(stream)'
          PROVE  /\ stream'[i].round <= stored'[stream'[i].model_id]
                 /\ \A j \in 1..(i - 1) :
                       stream'[j].model_id = stream'[i].model_id => stream'[j].round < stream'[i].round
      <4>1. CASE i = Len(stream) + 1
        BY <4>1, <3>1, <3>2, <2>1, <2>2, <2>3, <1>s
      <4>2. CASE i # Len(stream) + 1
        BY <4>2, <3>1, <2>1, <2>3, <1>s DEF EventsFollowSignals
      <4> QED
        BY <4>1, <4>2
    <3> QED
      BY <3>3 DEF EventsFollowSignals
  <2> QED
    BY <2>5, <2>6 DEF OrderInv
<1>4. CASE WorkerFails
  <2>1. wpc' = "sleep" /\ UNCHANGED <<round, stored, stream>>
    BY <1>4 DEF WorkerFails, Sleep
  <2> QED
    BY <2>1, <1>s DEF OrderInv, RoundInv, EventsFollowSignals
<1>5. CASE UNCHANGED <<wpc, round, next, stored, stream>>
    BY <1>5, <1>s DEF OrderInv, RoundInv, EventsFollowSignals
<1> QED
    BY <1>1, <1>2, <1>3, <1>4, <1>5, ConsumerLeavesWorker DEF Next, WorkerStep, ExpireSignal, workerVars, vars

\* probe_loop_once stores before run_probe_worker publishes: whoever reads an
\* event finds a signal at least as recent unless it has expired, and the
\* events of a model never go back to an earlier round.
THEOREM SignalsBeforeEvents == Spec => []EventsFollowSignals
<1>1. Init => TypeInv /\ OrderInv
    BY TypeInit, OrderInit
<1>2. TypeInv /\ OrderInv /\ [Next]_vars => (TypeInv /\ OrderInv)'
    BY TypeNext, OrderNext
<1>3. OrderInv => EventsFollowSignals
    BY DEF OrderInv
<1> QED
    BY <1>1, <1>2, <1>3, PTL DEF Spec
=============================================================================
