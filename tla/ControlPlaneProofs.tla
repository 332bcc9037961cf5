------------------------- MODULE ControlPlaneProofs -------------------------
(***************************************************************************)
(* Theorems about ControlPlane under Spec, for any handlers, credentials,  *)
(* keys, overlapping reports and any number of faults: admission and       *)
(* idempotency of create_decision, and what follows a commit and becomes   *)
(* of a concurrency slot.  DecisionIds is finite, as FiniteAssumption      *)
(* says, because cardinalities of concurrency sets are compared.           *)
(***************************************************************************)
EXTENDS ControlPlane, FiniteSetTheorems, TLAPS

-----------------------------------------------------------------------------
(* Type correctness *)

\* The initial state is well typed.
LEMMA TypeInit == Init => TypeOK
BY PrincipalsAssumption, ValuesAssumption DEF Init, TypeOK, OutcomeSteps

\* Every step of a handler, every fault and every clock step keeps the types.
LEMMA TypeNext == TypeOK /\ [Next]_vars => TypeOK'
<1> SUFFICES ASSUME TypeOK, [Next]_vars PROVE TypeOK'
    OBVIOUS
<1> USE ValuesAssumption, NoneAssumption DEF TypeOK, Jobs, Rows, CreateSteps, OutcomeSteps, Did, At,
        redisVars, dbVars, history, IdempotencyKeys, AgentIds
<1>r. ASSUME NEW h \in Handlers, Request(h) PROVE TypeOK'
  <2>1. ASSUME NEW p \in Principals, NEW key \in IdempotencyKeys, ReplayDecision(h, p, key)
        PROVE TypeOK'
    BY <2>1 DEF ReplayDecision, Reply, Matches
  <2>2. ASSUME NEW p \in Principals, NEW key \in IdempotencyKeys, NEW r \in RequestIds,
               NEW usd \in Amounts, BeginCreate(h, p, key, r, usd)
        PROVE TypeOK'
    BY <2>2 DEF BeginCreate
  <2>3. ASSUME NEW p \in Principals, NEW d \in DecisionIds, NEW r \in RequestIds,
               NEW usd \in Amounts, BeginOutcome(h, p, d, r, usd)
        PROVE TypeOK'
    BY <2>3 DEF BeginOutcome, Owns
  <2> QED
    BY <1>r, <2>1, <2>2, <2>3 DEF Request
<1>1. ASSUME NEW h \in Handlers, RejectEarly(h) PROVE TypeOK'
    BY <1>1 DEF RejectEarly, Finish
<1>2. ASSUME NEW h \in Handlers, CheckBudget(h) PROVE TypeOK'
    BY <1>2 DEF CheckBudget, Finish, GoTo, Quota
<1>3. ASSUME NEW h \in Handlers, ReserveAdd(h) PROVE TypeOK'
  <2>1. PICK d \in DecisionIds \ used :
              /\ used' = used \cup {d}
              /\ job' = [job EXCEPT ![h].did = d]
              /\ slots' = [slots EXCEPT ![Quota(h)] = @ \cup {d}]
    BY <1>3 DEF ReserveAdd
  <2>2. /\ pc[h] = "reserve" /\ pc' = [pc EXCEPT ![h] = "expire"]
        /\ UNCHANGED <<expiring, spend, dbVars, history, faults>>
    BY <1>3 DEF ReserveAdd
  <2>3. /\ d \in DecisionIds /\ d \notin used
        /\ used' = used \cup {d}
        /\ slots' = [slots EXCEPT ![Quota(h)] = @ \cup {d}]
    BY <2>1, Zenon
  <2>4. job[h] \in Jobs /\ Quota(h) \in QuotaKeys
    BY <2>2 DEF Quota, QuotaKeys
  <2> DEFINE j == [job[h] EXCEPT !.did = d]
  <2>5. j \in Jobs /\ j.did = d
    BY <2>3, <2>4
  <2>6. job' = [job EXCEPT ![h] = j]
    BY <2>1, Zenon
  <2> HIDE DEF j
  <2> QED
    BY <2>2, <2>3, <2>4, <2>5, <2>6
<1>4. ASSUME NEW h \in Handlers, ReserveExpire(h) PROVE TypeOK'
    BY <1>4 DEF ReserveExpire, GoTo, Quota, QuotaKey, QuotaKeys
<1>5. ASSUME NEW h \in Handlers, ReserveCount(h) PROVE TypeOK'
    BY <1>5 DEF ReserveCount, GoTo, Quota
<1>6. ASSUME NEW h \in Handlers, Unreserve(h) PROVE TypeOK'
    BY <1>6 DEF Unreserve, SRem, Finish, Quota
<1>7. ASSUME NEW h \in Handlers, Compute(h) PROVE TypeOK'
    BY <1>7 DEF Compute, GoTo
<1>8. ASSUME NEW h \in Handlers, Insert(h) PROVE TypeOK'
    BY <1>8 DEF Insert, GoTo, NewRow
<1>9. ASSUME NEW h \in Handlers, UndoReserve(h) PROVE TypeOK'
    BY <1>9 DEF UndoReserve, SRem, Finish, Quota
<1>10. ASSUME NEW h \in Handlers, ReplyDecision(h) PROVE TypeOK'
    BY <1>10 DEF ReplyDecision, Reply, Finish
<1>11. ASSUME NEW h \in Handlers, SelectOutcome(h) PROVE TypeOK'
    BY <1>11 DEF SelectOutcome, Finish, GoTo
<1>12. ASSUME NEW h \in Handlers, DeleteAttempts(h) PROVE TypeOK'
    BY <1>12 DEF DeleteAttempts
<1>13. ASSUME NEW h \in Handlers, CommitOutcome(h) PROVE TypeOK'
    BY <1>13 DEF CommitOutcome, AttemptsAfter, GoTo
<1>14. ASSUME NEW h \in Handlers, ReleaseSlot(h) PROVE TypeOK'
    BY <1>14 DEF ReleaseSlot, SRem, GoTo, Quota
<1>15. ASSUME NEW h \in Handlers, RecordSpend(h) PROVE TypeOK'
  <2>1. job[h] \in Jobs /\ Quota(h) \in QuotaKeys /\ job[h].usd \in Nat /\ Did(h) \in DecisionIds
    BY <1>15 DEF RecordSpend, Quota, QuotaKeys
  <2>2. spend' \in [QuotaKeys -> Nat] /\ charged' \in [DecisionIds -> Nat]
    BY <1>15, <2>1 DEF RecordSpend
  <2> QED
    BY <1>15, <2>1, <2>2 DEF RecordSpend, GoTo
<1>16. ASSUME NEW h \in Handlers, PublishOutcome(h) PROVE TypeOK'
    BY <1>16 DEF PublishOutcome, Finish
<1>17. ASSUME NEW h \in Handlers, Drop(h) PROVE TypeOK'
    BY <1>17 DEF Drop, Fault, Finish
<1>18. ASSUME NEW h \in Handlers, RaiseInTry(h) PROVE TypeOK'
    BY <1>18 DEF RaiseInTry, Fault, GoTo, NewRow
<1>19. ASSUME NEW q \in QuotaKeys, ExpireSlots(q) PROVE TypeOK'
    BY <1>19 DEF ExpireSlots
<1>20. CASE NewDay
    BY <1>20 DEF NewDay
<1>21. CASE UNCHANGED vars
    BY <1>21 DEF vars
<1> QED
    BY <1>r, <1>1, <1>2, <1>3, <1>4, <1>5, <1>6, <1>7, <1>8, <1>9, <1>10, <1>11, <1>12, <1>13, <1>14, <1>15, <1>16, <1>17, <1>18, <1>19, <1>20, <1>21 DEF Next, HandlerStep, CreateStep, OutcomeStep

\* TypeOK is an invariant: in particular create_decision never inserts, undoes
\* or answers without an id, and record_outcome only works on a stored row.
THEOREM TypeCorrect == Spec => []TypeOK
<1>1. Init => TypeOK
    BY TypeInit
<1>2. TypeOK /\ [Next]_vars => TypeOK'
    BY TypeNext
<1> QED
    BY <1>1, <1>2, PTL DEF Spec
-----------------------------------------------------------------------------
(* AdmittedWithinLimit.  Only ReserveAdd puts an id into a concurrency set and *)
(* only ReserveCount grants one; every other step is quiet: it leaves what is   *)
(* granted alone, adds nothing to a set and starts no creation.                 *)

Creating == {"expire", "count", "unreserve", "compute", "insert", "undo", "reply"}

Quiet ==
    /\ UNCHANGED <<used, admitted>>
    /\ \A q \in QuotaKeys : slots'[q] \subseteq slots[q]
    /\ \A h \in Handlers : pc'[h] \in Creating => pc[h] \in Creating /\ job'[h] = job[h]

\* Every step but ReserveAdd and ReserveCount is quiet.
LEMMA QuietSteps ==
    ASSUME TypeOK, [Next]_vars,
           \A h \in Handlers : ~ReserveAdd(h) /\ ~ReserveCount(h)
    PROVE  Quiet
<1> USE DEF TypeOK, Quiet, Creating, At, redisVars, dbVars, history
<1>r. ASSUME NEW h \in Handlers, Request(h) PROVE Quiet
    BY <1>r DEF Request, ReplayDecision, BeginCreate, BeginOutcome
<1>1. ASSUME NEW h \in Handlers, RejectEarly(h) PROVE Quiet
    BY <1>1 DEF RejectEarly, Finish
<1>2. ASSUME NEW h \in Handlers, CheckBudget(h) PROVE Quiet
    BY <1>2 DEF CheckBudget, Finish, GoTo
<1>3. ASSUME NEW h \in Handlers, ReserveExpire(h) PROVE Quiet
    BY <1>3 DEF ReserveExpire, GoTo
<1>4. ASSUME NEW h \in Handlers, Unreserve(h) PROVE Quiet
    BY <1>4 DEF Unreserve, SRem, Finish
<1>5. ASSUME NEW h \in Handlers, Compute(h) PROVE Quiet
    BY <1>5 DEF Compute, GoTo
<1>6. ASSUME NEW h \in Handlers, Insert(h) PROVE Quiet
    BY <1>6 DEF Insert, GoTo
<1>7. ASSUME NEW h \in Handlers, UndoReserve(h) PROVE Quiet
    BY <1>7 DEF UndoReserve, SRem, Finish
<1>8. ASSUME NEW h \in Handlers, ReplyDecision(h) PROVE Quiet
    BY <1>8 DEF ReplyDecision, Finish
<1>9. ASSUME NEW h \in Handlers, SelectOutcome(h) PROVE Quiet
    BY <1>9 DEF SelectOutcome, Finish, GoTo
<1>10. ASSUME NEW h \in Handlers, DeleteAttempts(h) PROVE Quiet
    BY <1>10 DEF DeleteAttempts
<1>11. ASSUME NEW h \in Handlers, CommitOutcome(h) PROVE Quiet
    BY <1>11 DEF CommitOutcome, GoTo
<1>12. ASSUME NEW h \in Handlers, ReleaseSlot(h) PROVE Quiet
    BY <1>12 DEF ReleaseSlot, SRem, GoTo
<1>13. ASSUME NEW h \in Handlers, RecordSpend(h) PROVE Quiet
    BY <1>13 DEF RecordSpend, GoTo
<1>14. ASSUME NEW h \in Handlers, PublishOutcome(h) PROVE Quiet
    BY <1>14 DEF PublishOutcome, Finish
<1>15. ASSUME NEW h \in Handlers, Drop(h) PROVE Quiet
    BY <1>15 DEF Drop, Finish
<1>16. ASSUME NEW h \in Handlers, RaiseInTry(h) PROVE Quiet
    BY <1>16 DEF RaiseInTry, GoTo
<1>17. ASSUME NEW q \in QuotaKeys, ExpireSlots(q) PROVE Quiet
    BY <1>17 DEF ExpireSlots
<1>18. CASE NewDay
    BY <1>18 DEF NewDay
<1>19. CASE UNCHANGED vars
    BY <1>19 DEF vars
<1> QED
    BY <1>r, <1>1, <1>2, <1>3, <1>4, <1>5, <1>6, <1>7, <1>8, <1>9, <1>10, <1>11, <1>12, <1>13, <1>14, <1>15, <1>16, <1>17, <1>18, <1>19 DEF Next, HandlerStep, CreateStep, OutcomeStep

\* An id is granted or in a set only after uuid4() returned it, and the id of
\* a decision under creation is in no set but the one of its own quota key.
SlotInv ==
    /\ admitted \subseteq used
    /\ \A q \in QuotaKeys : slots[q] \subseteq used
    /\ \A h \in Handlers : pc[h] \in Creating =>
          \A q \in QuotaKeys : Did(h) \in slots[q] => q = Quota(h)

AdmissionInv == TypeOK /\ SlotInv /\ AdmittedWithinLimit

\* Granted reservations that only leave a set stay within the limit.
LEMMA FewerAdmitted ==
    ASSUME TypeOK, AdmittedWithinLimit, NEW q \in QuotaKeys,
           slots'[q] \cap admitted' \subseteq slots[q] \cap admitted
    PROVE  \/ slots'[q] \cap admitted' = {}
           \/ \E p \in Principals :
                 /\ QuotaKey(p) = q
                 /\ Cardinality(slots'[q] \cap admitted') <= p.concurrent_limit
<1> DEFINE S == slots[q] \cap admitted
           T == slots'[q] \cap admitted'
<1>1. CASE S = {}
    BY <1>1
<1>2. CASE S # {}
  <2>1. PICK p \in Principals : QuotaKey(p) = q /\ Cardinality(S) <= p.concurrent_limit
    BY <1>2 DEF AdmittedWithinLimit
  <2>2. IsFiniteSet(S)
    BY FiniteAssumption, FS_Subset DEF TypeOK
  <2>3. IsFiniteSet(T) /\ Cardinality(T) <= Cardinality(S)
    BY <2>2, FS_Subset
  <2>4. Cardinality(T) \in Nat /\ Cardinality(S) \in Nat /\ p.concurrent_limit \in Nat
    BY <2>2, <2>3, FS_CardinalityType, PrincipalsAssumption
  <2> QED
    BY <2>1, <2>3, <2>4
<1> QED
    BY <1>1, <1>2

\* The sets start empty.
LEMMA AdmissionInit == Init => AdmissionInv
BY TypeInit DEF Init, AdmissionInv, SlotInv, AdmittedWithinLimit, Creating

\* SADD adds an id that is not granted yet; SCARD grants an id only when the
\* whole set, of which the granted ids are a part, is within the limit.
LEMMA AdmissionNext == AdmissionInv /\ [Next]_vars => AdmissionInv'
<1> SUFFICES ASSUME AdmissionInv, [Next]_vars PROVE AdmissionInv'
    OBVIOUS
<1>t. TypeOK /\ TypeOK' /\ SlotInv /\ AdmittedWithinLimit
    BY TypeNext DEF AdmissionInv
<1>1. CASE \A h \in Handlers : ~ReserveAdd(h) /\ ~ReserveCount(h)
  <2>1. Quiet
    BY <1>1, <1>t, QuietSteps
  <2>2. SlotInv'
    BY <1>t, <2>1 DEF SlotInv, Quiet, Did, Quota
  <2>3. \A q \in QuotaKeys : slots'[q] \cap admitted' \subseteq slots[q] \cap admitted
    BY <2>1 DEF Quiet
  <2>4. AdmittedWithinLimit'
    BY <1>t, <2>3, FewerAdmitted DEF AdmittedWithinLimit
  <2> QED
    BY <1>t, <2>2, <2>4 DEF AdmissionInv
<1>2. ASSUME NEW h \in Handlers, ReserveAdd(h) PROVE AdmissionInv'
  <2>1. PICK d \in DecisionIds \ used :
              /\ used' = used \cup {d}
              /\ job' = [job EXCEPT ![h].did = d]
              /\ slots' = [slots EXCEPT ![Quota(h)] = @ \cup {d}]
    BY <1>2 DEF ReserveAdd
  <2>2. /\ pc[h] = "reserve" /\ pc' = [pc EXCEPT ![h] = "expire"]
        /\ UNCHANGED admitted
    BY <1>2 DEF ReserveAdd, At, history
  <2>3. /\ d \in DecisionIds /\ d \notin used
        /\ used' = used \cup {d}
        /\ slots' = [slots EXCEPT ![Quota(h)] = @ \cup {d}]
    BY <2>1, Zenon
  <2>4. job[h] \in Jobs /\ Quota(h) \in QuotaKeys
    BY <1>t, <2>2 DEF TypeOK, Jobs, Quota, QuotaKeys
  <2> DEFINE j == [job[h] EXCEPT !.did = d]
  <2>5. j.did = d /\ j.principal = job[h].principal
    BY <2>3, <2>4 DEF Jobs
  <2>6. job' = [job EXCEPT ![h] = j]
    BY <2>1, Zenon
  <2> HIDE DEF j
  <2>7. Did(h)' = d /\ Quota(h)' = Quota(h)
    BY <1>t, <2>5, <2>6 DEF TypeOK, Did, Quota
  <2>8. \A g \in Handlers \ {h} : pc'[g] = pc[g] /\ job'[g] = job[g]
    BY <1>t, <2>2, <2>6 DEF TypeOK
  <2>9. \A g \in Handlers : pc[g] \in Creating => Did(g) # d
    BY <1>t, <2>3 DEF TypeOK, Creating
  <2>10. SlotInv'
    <3>1. admitted' \subseteq used' /\ \A q \in QuotaKeys : slots'[q] \subseteq used'
      BY <1>t, <2>2, <2>3, <2>4 DEF SlotInv, TypeOK
    <3>2. ASSUME NEW g \in Handlers, pc'[g] \in Creating, NEW q \in QuotaKeys, Did(g)' \in slots'[q]
          PROVE  q = Quota(g)'
      <4>1. CASE g = h
        BY <1>t, <4>1, <3>2, <2>3, <2>4, <2>7 DEF SlotInv, TypeOK
      <4>2. CASE g # h
        <5>1. Did(g)' = Did(g) /\ Quota(g)' = Quota(g) /\ pc[g] \in Creating
          BY <4>2, <3>2, <2>8 DEF Did, Quota
        <5>2. Did(g) \in slots[q]
          BY <5>1, <3>2, <2>3, <2>4, <2>9, <1>t DEF TypeOK
        <5> QED
          BY <5>1, <5>2, <1>t DEF SlotInv
      <4> QED
        BY <4>1, <4>2
    <3> QED
      BY <3>1, <3>2 DEF SlotInv
  <2>11. \A q \in QuotaKeys : slots'[q] \cap admitted' \subseteq slots[q] \cap admitted
    BY <1>t, <2>2, <2>3, <2>4 DEF TypeOK, SlotInv
  <2>12. AdmittedWithinLimit'
    BY <1>t, <2>11, FewerAdmitted DEF AdmittedWithinLimit
  <2> QED
    BY <1>t, <2>10, <2>12 DEF AdmissionInv
<1>3. ASSUME NEW h \in Handlers, ReserveCount(h) PROVE AdmissionInv'
  <2>1. /\ pc[h] = "count" /\ UNCHANGED <<job, used, slots>>
        /\ pc' = [pc EXCEPT ![h] = "unreserve"] \/ pc' = [pc EXCEPT ![h] = "compute"]
    BY <1>3 DEF ReserveCount, At, GoTo, redisVars
  <2>2. Did(h) \in used /\ Quota(h) \in QuotaKeys /\ job[h] \in Jobs
    BY <1>t, <2>1 DEF TypeOK, Quota, QuotaKeys, Jobs
  <2>3. admitted' \subseteq admitted \cup {Did(h)}
    BY <1>3 DEF ReserveCount
  <2>4. SlotInv'
    BY <1>t, <2>1, <2>2, <2>3 DEF SlotInv, Creating, Did, Quota, TypeOK
  <2>5. ASSUME NEW q \in QuotaKeys
        PROVE  \/ slots'[q] \cap admitted' = {}
               \/ \E p \in Principals :
                     /\ QuotaKey(p) = q
                     /\ Cardinality(slots'[q] \cap admitted') <= p.concurrent_limit
    <3>1. CASE slots'[q] \cap admitted' \subseteq slots[q] \cap admitted
      BY <1>t, <3>1, FewerAdmitted
    <3>2. CASE ~(slots'[q] \cap admitted' \subseteq slots[q] \cap admitted)
      <4>1. Did(h) \in slots[q] /\ admitted' # admitted
        BY <2>1, <2>3, <3>2
      <4>2. q = Quota(h)
        BY <1>t, <4>1, <2>1 DEF SlotInv, Creating
      <4>3. ~(Cardinality(slots[q]) > job[h].principal.concurrent_limit)
        BY <1>3, <4>1, <4>2 DEF ReserveCount, OverLimit
      <4>4. IsFiniteSet(slots[q])
        BY <1>t, FiniteAssumption, FS_Subset DEF TypeOK
      <4>5. /\ IsFiniteSet(slots'[q] \cap admitted')
            /\ Cardinality(slots'[q] \cap admitted') <= Cardinality(slots[q])
        BY <2>1, <4>4, FS_Subset
      <4>6. job[h].principal \in Principals /\ QuotaKey(job[h].principal) = q
        BY <2>2, <4>2 DEF Jobs, Quota
      <4>7. /\ Cardinality(slots[q]) \in Nat /\ Cardinality(slots'[q] \cap admitted') \in Nat
            /\ job[h].principal.concurrent_limit \in Nat
        BY <4>4, <4>5, <4>6, FS_CardinalityType, PrincipalsAssumption
      <4> QED
        BY <4>3, <4>5, <4>6, <4>7
    <3> QED
      BY <3>1, <3>2
  <2>6. AdmittedWithinLimit'
    BY <2>5 DEF AdmittedWithinLimit
  <2> QED
    BY <1>t, <2>4, <2>6 DEF AdmissionInv
<1> QED
    BY <1>1, <1>2, <1>3

\* reserve_concurrency never grants more slots of a set than the limit of a
\* credential that uses it, although its Redis commands interleave.
THEOREM Admission == Spec => []AdmittedWithinLimit
<1>1. Init => AdmissionInv
    BY AdmissionInit
<1>2. AdmissionInv /\ [Next]_vars => AdmissionInv'
    BY AdmissionNext
<1>3. AdmissionInv => AdmittedWithinLimit
    BY DEF AdmissionInv
<1> QED
    BY <1>1, <1>2, <1>3, PTL DEF Spec
-----------------------------------------------------------------------------
(* IdempotentReplies.  The unique constraint alone does not give it: a reply   *)
(* must name a stored row, so no handler may write over a row that another     *)
(* one has answered with.  KeyInv adds that two creations never share an id    *)
(* and that an id under creation has no row until its own INSERT.              *)

NotStored == {"expire", "count", "unreserve", "compute", "insert"}

KeyInv ==
    /\ \A d, e \in DecisionIds :
          /\ decisions[d] # None /\ decisions[e] # None
          /\ decisions[d].agent_id = decisions[e].agent_id
          /\ decisions[d].idempotency_key = decisions[e].idempotency_key
          /\ decisions[d].idempotency_key # None
          => d = e
    /\ \A g, h \in Handlers :
          pc[g] \in Creating /\ pc[h] \in Creating /\ Did(g) = Did(h) => g = h
    /\ \A h \in Handlers : pc[h] \in NotStored => decisions[Did(h)] = None
    /\ \A h \in Handlers : pc[h] = "reply" =>
          /\ decisions[Did(h)] # None
          /\ decisions[Did(h)].agent_id = job[h].principal.agent_id
          /\ decisions[Did(h)].idempotency_key = job[h].key
    /\ \A x \in replies :
          /\ decisions[x.did] # None
          /\ decisions[x.did].agent_id = x.agent_id
          /\ decisions[x.did].idempotency_key = x.key

\* The steps that neither insert a row, nor reply, nor pick an id.
KeyQuiet ==
    /\ replies' = replies
    /\ \A d \in DecisionIds :
          /\ decisions'[d] = None <=> decisions[d] = None
          /\ decisions[d] # None =>
                /\ decisions'[d].agent_id = decisions[d].agent_id
                /\ decisions'[d].idempotency_key = decisions[d].idempotency_key
    /\ \A h \in Handlers :
          /\ pc'[h] \in Creating => pc[h] \in Creating /\ job'[h] = job[h]
          /\ pc'[h] \in NotStored => pc[h] \in NotStored
          /\ pc'[h] = "reply" => pc[h] = "reply"

\* Every other step is KeyQuiet.
LEMMA KeyQuietSteps ==
    ASSUME TypeOK, [Next]_vars,
           \A h \in Handlers : ~ReserveAdd(h) /\ ~Insert(h) /\ ~RaiseInTry(h) /\ ~ReplyDecision(h),
           \A h \in Handlers, p \in Principals, key \in IdempotencyKeys : ~ReplayDecision(h, p, key)
    PROVE  KeyQuiet
<1> USE DEF TypeOK, KeyQuiet, Creating, NotStored, At, redisVars, dbVars, history
<1>r. ASSUME NEW h \in Handlers, Request(h) PROVE KeyQuiet
    BY <1>r DEF Request, BeginCreate, BeginOutcome
<1>1. ASSUME NEW h \in Handlers, RejectEarly(h) PROVE KeyQuiet
    BY <1>1 DEF RejectEarly, Finish
<1>2. ASSUME NEW h \in Handlers, CheckBudget(h) PROVE KeyQuiet
    BY <1>2 DEF CheckBudget, Finish, GoTo
<1>3. ASSUME NEW h \in Handlers, ReserveExpire(h) PROVE KeyQuiet
    BY <1>3 DEF ReserveExpire, GoTo
<1>4. ASSUME NEW h \in Handlers, ReserveCount(h) PROVE KeyQuiet
    BY <1>4 DEF ReserveCount, GoTo
<1>5. ASSUME NEW h \in Handlers, Unreserve(h) PROVE KeyQuiet
    BY <1>5 DEF Unreserve, SRem, Finish
<1>6. ASSUME NEW h \in Handlers, Compute(h) PROVE KeyQuiet
    BY <1>6 DEF Compute, GoTo
<1>7. ASSUME NEW h \in Handlers, UndoReserve(h) PROVE KeyQuiet
    BY <1>7 DEF UndoReserve, SRem, Finish
<1>8. ASSUME NEW h \in Handlers, SelectOutcome(h) PROVE KeyQuiet
    BY <1>8 DEF SelectOutcome, Finish, GoTo
<1>9. ASSUME NEW h \in Handlers, DeleteAttempts(h) PROVE KeyQuiet
    BY <1>9 DEF DeleteAttempts
<1>10. ASSUME NEW h \in Handlers, ReleaseSlot(h) PROVE KeyQuiet
    BY <1>10 DEF ReleaseSlot, SRem, GoTo
<1>11. ASSUME NEW h \in Handlers, RecordSpend(h) PROVE KeyQuiet
    BY <1>11 DEF RecordSpend, GoTo
<1>12. ASSUME NEW h \in Handlers, PublishOutcome(h) PROVE KeyQuiet
    BY <1>12 DEF PublishOutcome, Finish
<1>13. ASSUME NEW h \in Handlers, Drop(h) PROVE KeyQuiet
    BY <1>13 DEF Drop, Finish
<1>14. ASSUME NEW h \in Handlers, CommitOutcome(h) PROVE KeyQuiet
  <2>1. /\ pc[h] = "commit" /\ pc' = [pc EXCEPT ![h] = "release"] /\ UNCHANGED <<job, replies>>
        /\ decisions' = [decisions EXCEPT ![Did(h)].outcome = decisions[Did(h)].outcome + 1]
    BY <1>14, Zenon DEF CommitOutcome, GoTo
  <2>2. Did(h) \in DecisionIds /\ decisions[Did(h)] # None /\ decisions[Did(h)] \in Rows
    BY <2>1 DEF OutcomeSteps
  <2> DEFINE row == [decisions[Did(h)] EXCEPT !.outcome = decisions[Did(h)].outcome + 1]
  <2>3. /\ row \in Rows
        /\ row.agent_id = decisions[Did(h)].agent_id
        /\ row.idempotency_key = decisions[Did(h)].idempotency_key
    BY <2>2 DEF Rows
  <2>4. decisions' = [decisions EXCEPT ![Did(h)] = row]
    BY <2>1, Zenon
  <2>5. row # None
    BY <2>3, NoneAssumption
  <2>6. pc[h] = "commit" /\ pc' = [pc EXCEPT ![h] = "release"] /\ UNCHANGED <<job, replies>>
    BY <2>1, Zenon
  <2> HIDE DEF row
  <2> QED
    BY <2>2, <2>3, <2>4, <2>5, <2>6
<1>15. ASSUME NEW q \in QuotaKeys, ExpireSlots(q) PROVE KeyQuiet
    BY <1>15 DEF ExpireSlots
<1>16. CASE NewDay
    BY <1>16 DEF NewDay
<1>17. CASE UNCHANGED vars
    BY <1>17 DEF vars
<1> QED
    BY <1>r, <1>1, <1>2, <1>3, <1>4, <1>5, <1>6, <1>7, <1>8, <1>9, <1>10, <1>11, <1>12, <1>13, <1>14, <1>15, <1>16, <1>17 DEF Next, HandlerStep, CreateStep, OutcomeStep

\* No rows and no replies at the start.
LEMMA KeyInit == Init => KeyInv
BY DEF Init, KeyInv, Creating, NotStored

\* The INSERT of a row that does not conflict, acknowledged or not.
LEMMA InsertKeepsKeys ==
    ASSUME TypeOK, KeyInv, NEW h \in Handlers, pc[h] = "insert", NEW step \in {"reply", "undo"},
           ~Conflicts(NewRow(h)), decisions' = [decisions EXCEPT ![Did(h)] = NewRow(h)],
           pc' = [pc EXCEPT ![h] = step], UNCHANGED <<job, replies>>
    PROVE  KeyInv'
<1> USE DEF TypeOK, Creating, NotStored, Did
<1> DEFINE row == NewRow(h)
<1>1. Did(h) \in DecisionIds /\ job[h] \in Jobs /\ decisions[Did(h)] = None
    BY DEF KeyInv, Jobs
<1>2. /\ row.agent_id = job[h].principal.agent_id /\ row.idempotency_key = job[h].key
      /\ row \in Rows
    BY <1>1 DEF NewRow, Rows, Jobs, AgentIds
<1>3. row # None
    BY <1>2, NoneAssumption
<1>4. decisions' = [decisions EXCEPT ![Did(h)] = row]
    OBVIOUS
<1> HIDE DEF row
<1>5. \A d \in DecisionIds : decisions[d] # None => decisions'[d] = decisions[d]
    BY <1>1, <1>4
<1>6. \A d, e \in DecisionIds :
          /\ decisions'[d] # None /\ decisions'[e] # None
          /\ decisions'[d].agent_id = decisions'[e].agent_id
          /\ decisions'[d].idempotency_key = decisions'[e].idempotency_key
          /\ decisions'[d].idempotency_key # None
          => d = e
  <2>1. \A d \in DecisionIds : d # Did(h) => decisions'[d] = decisions[d]
    BY <1>1, <1>4
  <2>2. decisions'[Did(h)] = row
    BY <1>1, <1>4
  <2>3. ~Conflicts(row)
    BY DEF row
  <2> QED
    BY <2>1, <2>2, <2>3, <1>1 DEF KeyInv, Conflicts
<1>7. \A g \in Handlers : pc'[g] \in NotStored => g # h /\ pc[g] \in NotStored /\ Did(g) # Did(h)
    BY DEF KeyInv
<1>8. \A g \in Handlers : pc'[g] \in NotStored => decisions'[job[g].did] = None
    BY <1>1, <1>4, <1>7 DEF KeyInv
<1>9. \A g \in Handlers : pc'[g] = "reply" =>
          /\ decisions'[job[g].did] # None
          /\ decisions'[job[g].did].agent_id = job[g].principal.agent_id
          /\ decisions'[job[g].did].idempotency_key = job[g].key
    BY <1>1, <1>2, <1>3, <1>4, <1>5 DEF KeyInv
<1>10. \A x \in replies : x.did \in DecisionIds
    OBVIOUS
<1>11. \A x \in replies :
          /\ decisions'[x.did] # None
          /\ decisions'[x.did].agent_id = x.agent_id
          /\ decisions'[x.did].idempotency_key = x.key
    BY <1>5, <1>10 DEF KeyInv
<1>12. \A g, k \in Handlers :
          pc'[g] \in Creating /\ pc'[k] \in Creating /\ job[g].did = job[k].did => g = k
    BY DEF KeyInv
<1> QED
    BY <1>6, <1>8, <1>9, <1>11, <1>12 DEF KeyInv
\* KeyInv is inductive relative to TypeOK.
LEMMA KeyNext == TypeOK /\ KeyInv /\ [Next]_vars => KeyInv'
<1> SUFFICES ASSUME TypeOK, KeyInv, [Next]_vars PROVE KeyInv'
    OBVIOUS
<1>t. TypeOK'
    BY TypeNext
<1>1. CASE /\ \A h \in Handlers : ~ReserveAdd(h) /\ ~Insert(h) /\ ~RaiseInTry(h) /\ ~ReplyDecision(h)
           /\ \A h \in Handlers, p \in Principals, key \in IdempotencyKeys : ~ReplayDecision(h, p, key)
  <2>1. KeyQuiet
    BY <1>1, KeyQuietSteps
  <2>2. \A h \in Handlers : pc[h] \in Creating => Did(h) \in DecisionIds
    BY DEF TypeOK, Creating
  <2>3. \A h \in Handlers : pc'[h] \in Creating => Did(h)' = Did(h) /\ Did(h) \in DecisionIds
    BY <2>1, <2>2 DEF KeyQuiet, Did
  <2>4. \A x \in replies : x.did \in DecisionIds
    BY DEF TypeOK
  <2>5. NotStored \subseteq Creating /\ "reply" \in Creating
    BY DEF NotStored, Creating
  <2> QED
    BY <2>1, <2>3, <2>4, <2>5 DEF KeyInv, KeyQuiet
<1>2. ASSUME NEW h \in Handlers, ReserveAdd(h) PROVE KeyInv'
  <2>1. PICK d \in DecisionIds \ used :
              /\ used' = used \cup {d}
              /\ job' = [job EXCEPT ![h].did = d]
              /\ slots' = [slots EXCEPT ![Quota(h)] = @ \cup {d}]
    BY <1>2 DEF ReserveAdd
  <2>2. /\ pc[h] = "reserve" /\ pc' = [pc EXCEPT ![h] = "expire"]
        /\ UNCHANGED <<decisions, replies>>
    BY <1>2 DEF ReserveAdd, At, history, dbVars
  <2>3. d \in DecisionIds /\ d \notin used
    BY <2>1, Zenon
  <2>4. job[h] \in Jobs
    BY <2>2 DEF TypeOK
  <2> DEFINE j == [job[h] EXCEPT !.did = d]
  <2>5. j.did = d
    BY <2>4 DEF Jobs
  <2>6. job' = [job EXCEPT ![h] = j]
    BY <2>1, Zenon
  <2> HIDE DEF j
  <2>7. Did(h)' = d /\ decisions[d] = None
    BY <2>3, <2>5, <2>6 DEF TypeOK, Did
  <2>8. \A g \in Handlers \ {h} : pc'[g] = pc[g] /\ job'[g] = job[g]
    BY <2>2, <2>6 DEF TypeOK
  <2>9. \A g \in Handlers : pc[g] \in Creating => Did(g) # d
    BY <2>3 DEF TypeOK, Creating
  <2>10. pc'[h] = "expire"
    BY <2>2 DEF TypeOK
  <2> QED
    BY <2>2, <2>7, <2>8, <2>9, <2>10 DEF KeyInv, NotStored, Creating, Did
<1>3. ASSUME NEW h \in Handlers, Insert(h) PROVE KeyInv'
  <2>1. CASE Conflicts(NewRow(h))
    BY <1>3, <2>1 DEF Insert, At, GoTo, KeyInv, TypeOK, Creating, NotStored, Did, history
  <2>2. CASE ~Conflicts(NewRow(h))
    BY <1>3, <2>2, InsertKeepsKeys DEF Insert, At, GoTo, history
  <2> QED
    BY <2>1, <2>2
<1>4. ASSUME NEW h \in Handlers, RaiseInTry(h) PROVE KeyInv'
  <2>1. CASE UNCHANGED decisions
    BY <1>4, <2>1 DEF RaiseInTry, GoTo, KeyInv, TypeOK, Creating, NotStored, Did, history
  <2>2. CASE /\ At(h, "insert")
             /\ ~Conflicts(NewRow(h))
             /\ decisions' = [decisions EXCEPT ![Did(h)] = NewRow(h)]
    BY <1>4, <2>2, InsertKeepsKeys DEF RaiseInTry, At, GoTo, history
  <2> QED
    BY <1>4, <2>1, <2>2 DEF RaiseInTry
<1>5. ASSUME NEW h \in Handlers, ReplyDecision(h) PROVE KeyInv'
  <2>1. /\ pc[h] = "reply" /\ pc' = [pc EXCEPT ![h] = "idle"]
        /\ job' = [job EXCEPT ![h] = None] /\ UNCHANGED decisions
        /\ replies' = replies \cup {[agent_id |-> job[h].principal.agent_id,
                                      key |-> job[h].key, did |-> Did(h)]}
    BY <1>5 DEF ReplyDecision, Reply, Finish, At, dbVars
  <2>2. \A g \in Handlers : pc'[g] # "idle" => pc'[g] = pc[g] /\ job'[g] = job[g]
    BY <2>1 DEF TypeOK
  <2> QED
    BY <2>1, <2>2 DEF KeyInv, Creating, NotStored, Did
<1>6. ASSUME NEW h \in Handlers, NEW p \in Principals, NEW key \in IdempotencyKeys,
             ReplayDecision(h, p, key)
      PROVE  KeyInv'
  <2>1. PICK d \in Matches(p.agent_id, key) : Reply(p.agent_id, key, d)
    BY <1>6 DEF ReplayDecision
  <2>2. UNCHANGED <<pc, job, decisions>>
    BY <1>6 DEF ReplayDecision, dbVars
  <2> QED
    BY <2>1, <2>2 DEF KeyInv, Matches, Reply, Did
<1> QED
    BY <1>1, <1>2, <1>3, <1>4, <1>5, <1>6

\* get_by_idempotency, the unique constraint and the insert-before-reply order
\* of create_decision together answer one key with one stored decision.
THEOREM Idempotency == Spec => []IdempotentReplies
<1>1. Init => TypeOK /\ KeyInv
    BY TypeInit, KeyInit
<1>2. TypeOK /\ KeyInv /\ [Next]_vars => (TypeOK /\ KeyInv)'
    BY TypeNext, KeyNext
<1>3. TypeOK /\ KeyInv => IdempotentReplies
    BY ValuesAssumption DEF TypeOK, KeyInv, IdempotentReplies
<1> QED
    BY <1>1, <1>2, <1>3, PTL DEF Spec
-----------------------------------------------------------------------------
(* Outcomes: a report before its commit, a committed one before its charge,  *)
(* and the steps that leave rows, outcomes and charges alone.                 *)

Before == {"delete", "commit"}
After == {"release", "charge"}

\* The steps other than SelectOutcome, CommitOutcome and RecordSpend.
OutcomeQuiet ==
    /\ UNCHANGED <<charged, attempts>>
    /\ \A d \in DecisionIds :
          /\ Outcome(d)' = Outcome(d)
          /\ decisions[d] # None => decisions'[d] = decisions[d]
    /\ \A h \in Handlers :
          /\ pc'[h] \in Before => pc[h] \in Before /\ Did(h)' = Did(h)
          /\ pc'[h] \in After => pc[h] \in After /\ Did(h)' = Did(h)

\* Storing a fresh row leaves every stored row and every outcome as it is.
LEMMA FreshRow ==
    ASSUME TypeOK, KeyInv, NEW h \in Handlers, pc[h] = "insert",
           decisions' = [decisions EXCEPT ![Did(h)] = NewRow(h)]
    PROVE  \A d \in DecisionIds :
              /\ Outcome(d)' = Outcome(d)
              /\ decisions[d] # None => decisions'[d] = decisions[d]
<1>1. Did(h) \in DecisionIds /\ decisions[Did(h)] = None
    BY DEF TypeOK, KeyInv, NotStored
<1>2. NewRow(h).outcome = 0
    BY DEF NewRow
<1>3. decisions'[Did(h)] = NewRow(h)
    BY <1>1 DEF TypeOK
<1>4. \A d \in DecisionIds : d # Did(h) => decisions'[d] = decisions[d]
    BY <1>1 DEF TypeOK
<1> QED
    BY <1>1, <1>2, <1>3, <1>4 DEF Outcome

\* Every other step is OutcomeQuiet.
LEMMA OutcomeQuietSteps ==
    ASSUME TypeOK, KeyInv, [Next]_vars,
           \A h \in Handlers : ~SelectOutcome(h) /\ ~CommitOutcome(h) /\ ~RecordSpend(h)
    PROVE  OutcomeQuiet
<1> USE DEF TypeOK, OutcomeQuiet, Outcome, Did, Before, After, At, redisVars, dbVars, history
<1>r. ASSUME NEW h \in Handlers, Request(h) PROVE OutcomeQuiet
    BY <1>r DEF Request, ReplayDecision, BeginCreate, BeginOutcome
<1>1. ASSUME NEW h \in Handlers, RejectEarly(h) PROVE OutcomeQuiet
    BY <1>1 DEF RejectEarly, Finish
<1>2. ASSUME NEW h \in Handlers, CheckBudget(h) PROVE OutcomeQuiet
    BY <1>2 DEF CheckBudget, Finish, GoTo
<1>3. ASSUME NEW h \in Handlers, ReserveExpire(h) PROVE OutcomeQuiet
    BY <1>3 DEF ReserveExpire, GoTo
<1>4. ASSUME NEW h \in Handlers, ReserveCount(h) PROVE OutcomeQuiet
    BY <1>4 DEF ReserveCount, GoTo
<1>5. ASSUME NEW h \in Handlers, Unreserve(h) PROVE OutcomeQuiet
    BY <1>5 DEF Unreserve, Finish
<1>6. ASSUME NEW h \in Handlers, Compute(h) PROVE OutcomeQuiet
    BY <1>6 DEF Compute, GoTo
<1>7. ASSUME NEW h \in Handlers, UndoReserve(h) PROVE OutcomeQuiet
    BY <1>7 DEF UndoReserve, Finish
<1>8. ASSUME NEW h \in Handlers, ReplyDecision(h) PROVE OutcomeQuiet
    BY <1>8 DEF ReplyDecision, Finish
<1>9. ASSUME NEW h \in Handlers, PublishOutcome(h) PROVE OutcomeQuiet
    BY <1>9 DEF PublishOutcome, Finish
<1>10. ASSUME NEW h \in Handlers, ReleaseSlot(h) PROVE OutcomeQuiet
    BY <1>10 DEF ReleaseSlot, GoTo
<1>11. ASSUME NEW h \in Handlers, Drop(h) PROVE OutcomeQuiet
    BY <1>11 DEF Drop, Finish
<1>12. ASSUME NEW h \in Handlers, ReserveAdd(h) PROVE OutcomeQuiet
  <2>1. /\ pc[h] = "reserve" /\ pc' = [pc EXCEPT ![h] = "expire"]
        /\ UNCHANGED <<decisions, attempts, charged>>
    BY <1>12 DEF ReserveAdd
  <2>2. PICK d \in DecisionIds \ used : job' = [job EXCEPT ![h].did = d]
    BY <1>12 DEF ReserveAdd
  <2>3. job' = [job EXCEPT ![h] = [job[h] EXCEPT !.did = d]]
    BY <2>2, Zenon
  <2> DEFINE j == [job[h] EXCEPT !.did = d]
  <2>4. job' = [job EXCEPT ![h] = j]
    BY <2>3, Zenon
  <2> HIDE DEF j
  <2> QED
    BY <2>1, <2>4
<1>13. ASSUME NEW h \in Handlers, DeleteAttempts(h) PROVE OutcomeQuiet
  <2>1. /\ pc[h] = "delete" /\ pc' = [pc EXCEPT ![h] = "commit"]
        /\ UNCHANGED <<decisions, attempts, charged>>
    BY <1>13 DEF DeleteAttempts
  <2>2. job' = [job EXCEPT ![h].seen = attempts[Did(h)]]
    BY <1>13, Zenon DEF DeleteAttempts
  <2> DEFINE j == [job[h] EXCEPT !.seen = attempts[Did(h)]]
  <2>3. job' = [job EXCEPT ![h] = j]
    BY <2>2, Zenon
  <2>4. job[h] \in Jobs
    BY <2>1
  <2>5. j.did = job[h].did
    BY <2>4 DEF Jobs
  <2> HIDE DEF j
  <2> QED
    BY <2>1, <2>3, <2>5
<1>14. ASSUME NEW h \in Handlers, Insert(h) PROVE OutcomeQuiet
  <2>1. CASE Conflicts(NewRow(h))
    BY <1>14, <2>1 DEF Insert, GoTo
  <2>2. CASE ~Conflicts(NewRow(h))
    <3>1. \A d \in DecisionIds :
             /\ Outcome(d)' = Outcome(d)
             /\ decisions[d] # None => decisions'[d] = decisions[d]
      BY <1>14, <2>2, FreshRow DEF Insert
    <3>2. /\ pc[h] = "insert" /\ pc' = [pc EXCEPT ![h] = "reply"]
          /\ UNCHANGED <<job, attempts, charged>>
      BY <1>14, <2>2 DEF Insert, GoTo
    <3> QED
      BY <3>1, <3>2
  <2> QED
    BY <2>1, <2>2
<1>15. ASSUME NEW h \in Handlers, RaiseInTry(h) PROVE OutcomeQuiet
  <2>1. CASE UNCHANGED decisions
    BY <1>15, <2>1 DEF RaiseInTry, GoTo
  <2>2. CASE At(h, "insert") /\ decisions' = [decisions EXCEPT ![Did(h)] = NewRow(h)]
    <3>1. \A d \in DecisionIds :
             /\ Outcome(d)' = Outcome(d)
             /\ decisions[d] # None => decisions'[d] = decisions[d]
      BY <2>2, FreshRow
    <3>2. /\ pc[h] = "insert" /\ pc' = [pc EXCEPT ![h] = "undo"]
          /\ UNCHANGED <<job, attempts, charged>>
      BY <1>15, <2>2 DEF RaiseInTry, GoTo
    <3> QED
      BY <3>1, <3>2
  <2> QED
    BY <1>15, <2>1, <2>2 DEF RaiseInTry
<1>16. ASSUME NEW q \in QuotaKeys, ExpireSlots(q) PROVE OutcomeQuiet
    BY <1>16 DEF ExpireSlots
<1>17. CASE NewDay
    BY <1>17 DEF NewDay
<1>18. CASE UNCHANGED vars
    BY <1>18 DEF vars
<1> QED
    BY <1>r, <1>1, <1>2, <1>3, <1>4, <1>5, <1>6, <1>7, <1>8, <1>9, <1>10, <1>11, <1>12, <1>13, <1>14, <1>15, <1>16, <1>17, <1>18 DEF Next, HandlerStep, CreateStep, OutcomeStep

\* The commit of an outcome, seen from the rows.
LEMMA CommitRow ==
    ASSUME TypeOK, NEW h \in Handlers, CommitOutcome(h)
    PROVE  LET d == Did(h)
           IN /\ d \in DecisionIds /\ decisions[d] # None /\ decisions[d] \in Rows
              /\ decisions' = [decisions EXCEPT ![d] = [decisions[d] EXCEPT !.outcome = Outcome(d) + 1]]
              /\ decisions'[d] # None
              /\ Outcome(d)' = Outcome(d) + 1
              /\ \A e \in DecisionIds \ {d} : decisions'[e] = decisions[e]
              /\ attempts' = [attempts EXCEPT ![d] = (@ \ job[h].seen) \cup {Outcome(d) + 1}]
<1> DEFINE d == Did(h)
           row == [decisions[d] EXCEPT !.outcome = Outcome(d) + 1]
<1>1. /\ pc[h] = "commit"
      /\ decisions' = [decisions EXCEPT ![d].outcome = decisions[d].outcome + 1]
      /\ attempts' = [attempts EXCEPT ![d] = (@ \ job[h].seen) \cup {decisions[d].outcome + 1}]
    BY Zenon DEF CommitOutcome, AttemptsAfter, At
<1>2. pc[h] = "commit"
    BY <1>1, Zenon
<1>3. d \in DecisionIds /\ decisions[d] # None /\ decisions[d] \in Rows
    BY <1>2 DEF TypeOK, OutcomeSteps
<1>4. Outcome(d) = decisions[d].outcome
    BY <1>3 DEF Outcome
<1>5. decisions' = [decisions EXCEPT ![d] = row]
    BY <1>1, <1>4, Zenon
<1>6. row \in Rows /\ row.outcome = Outcome(d) + 1
    BY <1>3, <1>4 DEF Rows
<1>7. row # None
    BY <1>6, NoneAssumption
<1>8. attempts' = [attempts EXCEPT ![d] = (@ \ job[h].seen) \cup {Outcome(d) + 1}]
    BY <1>1, <1>4, Zenon
<1>9. decisions' = [decisions EXCEPT ![d] = [decisions[d] EXCEPT !.outcome = Outcome(d) + 1]]
    BY <1>5, Zenon
<1> HIDE DEF row
<1>10. decisions'[d] = row /\ \A e \in DecisionIds \ {d} : decisions'[e] = decisions[e]
    BY <1>3, <1>5 DEF TypeOK
<1>11. Did(h)' = Did(h)
    BY DEF CommitOutcome, GoTo, Did
<1>12. Outcome(d)' = Outcome(d) + 1
    BY <1>6, <1>7, <1>10, <1>11 DEF Outcome
<1> QED
    BY <1>3, <1>7, <1>8, <1>9, <1>10, <1>12, Zenon

-----------------------------------------------------------------------------
(* EffectsAccounted *)

\* The handlers that have committed an outcome of d and not charged it yet,
\* and those that have charged it and not published it yet.
Charging(d) == {h \in Handlers : Serving(h, d, {"release", "charge"})}
Publishing(d) == {h \in Handlers : Serving(h, d, {"publish"})}

\* Every charge is paid for by a commit, every event by a charge; the
\* handlers on the way are counted with the effect they have yet to have.
EffectsInv ==
    \A d \in DecisionIds :
       /\ charged[d] + Cardinality(Charging(d)) <= Outcome(d)
       /\ published[d] + Cardinality(Publishing(d)) <= charged[d]
       /\ faults = 0 => /\ charged[d] + Cardinality(Charging(d)) = Outcome(d)
                        /\ published[d] + Cardinality(Publishing(d)) = charged[d]

\* The steps that neither commit nor have an effect nor lose one.
EffectsQuiet ==
    /\ UNCHANGED <<charged, published>>
    /\ faults' = 0 => faults = 0
    /\ \A d \in DecisionIds : Outcome(d)' = Outcome(d)
    /\ \A h \in Handlers :
          /\ pc'[h] \in {"release", "charge"} <=> pc[h] \in {"release", "charge"}
          /\ pc'[h] = "publish" <=> pc[h] = "publish"
          /\ pc[h] \in {"release", "charge", "publish"} => Did(h)' = Did(h)

\* All steps but those four.
LEMMA EffectsQuietSteps ==
    ASSUME TypeOK, KeyInv, [Next]_vars,
           \A h \in Handlers : ~CommitOutcome(h) /\ ~RecordSpend(h) /\ ~PublishOutcome(h) /\ ~Drop(h)
    PROVE  EffectsQuiet
<1>o. UNCHANGED charged /\ \A d \in DecisionIds : Outcome(d)' = Outcome(d)
  <2>1. CASE \E h \in Handlers : SelectOutcome(h)
    BY <2>1 DEF SelectOutcome, Outcome, history, dbVars
  <2>2. CASE \A h \in Handlers : ~SelectOutcome(h)
    BY <2>2, OutcomeQuietSteps DEF OutcomeQuiet
  <2> QED
    BY <2>1, <2>2
<1> DEFINE Rest ==
      /\ UNCHANGED published
      /\ faults' = 0 => faults = 0
      /\ \A h \in Handlers :
            /\ pc'[h] \in {"release", "charge"} <=> pc[h] \in {"release", "charge"}
            /\ pc'[h] = "publish" <=> pc[h] = "publish"
            /\ pc[h] \in {"release", "charge", "publish"} => job'[h] = job[h]
<1>e. Rest
  <2> USE DEF TypeOK, At, history, redisVars, dbVars
  <2>r. ASSUME NEW h \in Handlers, Request(h) PROVE Rest
    BY <2>r DEF Request, ReplayDecision, BeginCreate, BeginOutcome
  <2>1. ASSUME NEW h \in Handlers, RejectEarly(h) PROVE Rest
    BY <2>1 DEF RejectEarly, Finish
  <2>2. ASSUME NEW h \in Handlers, CheckBudget(h) PROVE Rest
    BY <2>2 DEF CheckBudget, Finish, GoTo
  <2>3. ASSUME NEW h \in Handlers, ReserveAdd(h) PROVE Rest
    <3>1. PICK d \in DecisionIds \ used : job' = [job EXCEPT ![h].did = d]
      BY <2>3 DEF ReserveAdd
    <3>2. \A g \in Handlers \ {h} : job'[g] = job[g]
      BY <3>1, Zenon DEF TypeOK
    <3>3. pc[h] = "reserve" /\ pc' = [pc EXCEPT ![h] = "expire"] /\ UNCHANGED <<published, faults>>
      BY <2>3 DEF ReserveAdd
    <3> QED
      BY <3>2, <3>3
  <2>4. ASSUME NEW h \in Handlers, ReserveExpire(h) PROVE Rest
    BY <2>4 DEF ReserveExpire, GoTo
  <2>5. ASSUME NEW h \in Handlers, ReserveCount(h) PROVE Rest
    BY <2>5 DEF ReserveCount, GoTo
  <2>6. ASSUME NEW h \in Handlers, Unreserve(h) PROVE Rest
    BY <2>6 DEF Unreserve, Finish
  <2>7. ASSUME NEW h \in Handlers, Compute(h) PROVE Rest
    BY <2>7 DEF Compute, GoTo
  <2>8. ASSUME NEW h \in Handlers, Insert(h) PROVE Rest
    BY <2>8 DEF Insert, GoTo
  <2>9. ASSUME NEW h \in Handlers, UndoReserve(h) PROVE Rest
    BY <2>9 DEF UndoReserve, Finish
  <2>10. ASSUME NEW h \in Handlers, ReplyDecision(h) PROVE Rest
    BY <2>10 DEF ReplyDecision, Finish
  <2>11. ASSUME NEW h \in Handlers, SelectOutcome(h) PROVE Rest
    BY <2>11 DEF SelectOutcome, Finish, GoTo
  <2>12. ASSUME NEW h \in Handlers, DeleteAttempts(h) PROVE Rest
    BY <2>12 DEF DeleteAttempts
  <2>13. ASSUME NEW h \in Handlers, ReleaseSlot(h) PROVE Rest
    BY <2>13 DEF ReleaseSlot, GoTo
  <2>14. ASSUME NEW h \in Handlers, RaiseInTry(h) PROVE Rest
    BY <2>14 DEF RaiseInTry, Fault, GoTo
  <2>15. ASSUME NEW q \in QuotaKeys, ExpireSlots(q) PROVE Rest
    BY <2>15 DEF ExpireSlots
  <2>16. CASE NewDay
    BY <2>16 DEF NewDay
  <2>17. CASE UNCHANGED vars
    BY <2>17 DEF vars
  <2> HIDE DEF Rest
  <2> QED
    BY <2>r, <2>1, <2>2, <2>3, <2>4, <2>5, <2>6, <2>7, <2>8, <2>9, <2>10, <2>11, <2>12, <2>13, <2>14, <2>15, <2>16, <2>17 DEF Next, HandlerStep, CreateStep, OutcomeStep
<1> QED
    BY <1>o, <1>e DEF EffectsQuiet, Did

\* There are finitely many handlers to count.
LEMMA CountedHandlers ==
    ASSUME NEW d
    PROVE  /\ IsFiniteSet(Charging(d)) /\ Cardinality(Charging(d)) \in Nat
           /\ IsFiniteSet(Publishing(d)) /\ Cardinality(Publishing(d)) \in Nat
<1>1. Charging(d) \in SUBSET Handlers /\ Publishing(d) \in SUBSET Handlers
    BY DEF Charging, Publishing
<1>2. IsFiniteSet(Charging(d)) /\ IsFiniteSet(Publishing(d))
    BY <1>1, FiniteAssumption, FS_Subset
<1> QED
    BY <1>2, FS_CardinalityType

\* Nothing to count at the start.
LEMMA EffectsInit == Init => EffectsInv
<1> SUFFICES ASSUME Init PROVE EffectsInv
    OBVIOUS
<1>1. \A d \in DecisionIds : Charging(d) = {} /\ Publishing(d) = {}
    BY DEF Init, Charging, Publishing, Serving
<1>2. \A d \in DecisionIds : Outcome(d) = 0 /\ charged[d] = 0 /\ published[d] = 0
    BY DEF Init, Outcome
<1> QED
    BY <1>1, <1>2, FS_EmptySet DEF EffectsInv

\* A step that touches one decision e and keeps its two balances.
LEMMA BalancedStep ==
    ASSUME TypeOK, TypeOK', EffectsInv, NEW e \in DecisionIds, faults' = faults,
           \A d \in DecisionIds \ {e} :
              /\ Outcome(d)' = Outcome(d) /\ charged'[d] = charged[d] /\ published'[d] = published[d]
              /\ Charging(d)' = Charging(d) /\ Publishing(d)' = Publishing(d),
           NEW i \in Int, NEW j \in Int,
           Outcome(e)' = Outcome(e) + i, charged'[e] = charged[e] + j,
           Cardinality(Charging(e))' = Cardinality(Charging(e)) + (i - j),
           NEW k \in Int, published'[e] = published[e] + k,
           Cardinality(Publishing(e))' = Cardinality(Publishing(e)) + (j - k)
    PROVE  EffectsInv'
<1>1. \A d \in DecisionIds : charged[d] \in Nat /\ published[d] \in Nat /\ Outcome(d) \in Nat
    BY DEF TypeOK, Outcome, Rows
<1>2. \A d : Cardinality(Charging(d)) \in Nat /\ Cardinality(Publishing(d)) \in Nat
    BY CountedHandlers
<1>3. ASSUME NEW d \in DecisionIds
      PROVE  /\ charged'[d] + Cardinality(Charging(d))' <= Outcome(d)'
             /\ published'[d] + Cardinality(Publishing(d))' <= charged'[d]
             /\ faults' = 0 => /\ charged'[d] + Cardinality(Charging(d))' = Outcome(d)'
                               /\ published'[d] + Cardinality(Publishing(d))' = charged'[d]
  <2>1. CASE d = e
    BY <1>1, <1>2, <2>1 DEF EffectsInv
  <2>2. CASE d # e
    BY <2>2 DEF EffectsInv
  <2> QED
    BY <2>1, <2>2
<1> QED
    BY <1>3 DEF EffectsInv

\* A commit, a charge, an event and a lost handler each move one handler
\* between the counted sets, and no other step moves any.
LEMMA EffectsNext == TypeOK /\ KeyInv /\ EffectsInv /\ [Next]_vars => EffectsInv'
<1> SUFFICES ASSUME TypeOK, KeyInv, EffectsInv, [Next]_vars PROVE EffectsInv'
    OBVIOUS
<1>t. TypeOK'
    BY TypeNext
<1>n. \A d \in DecisionIds : charged[d] \in Nat /\ published[d] \in Nat /\ Outcome(d) \in Nat
    BY DEF TypeOK, Outcome, Rows
<1>f. \A d : /\ IsFiniteSet(Charging(d)) /\ Cardinality(Charging(d)) \in Nat
             /\ IsFiniteSet(Publishing(d)) /\ Cardinality(Publishing(d)) \in Nat
    BY CountedHandlers
<1>a. \A d, h : h \notin Charging(d) =>
          Cardinality(Charging(d) \cup {h}) = Cardinality(Charging(d)) + 1
    BY <1>f, FS_AddElement
<1>b. \A d, h : h \in Charging(d) =>
          Cardinality(Charging(d) \ {h}) = Cardinality(Charging(d)) - 1
    BY <1>f, FS_RemoveElement
<1>c. \A d, h : h \notin Publishing(d) =>
          Cardinality(Publishing(d) \cup {h}) = Cardinality(Publishing(d)) + 1
    BY <1>f, FS_AddElement
<1>d. \A d, h : h \in Publishing(d) =>
          Cardinality(Publishing(d) \ {h}) = Cardinality(Publishing(d)) - 1
    BY <1>f, FS_RemoveElement
<1>1. CASE \A h \in Handlers :
              ~CommitOutcome(h) /\ ~RecordSpend(h) /\ ~PublishOutcome(h) /\ ~Drop(h)
  <2>1. EffectsQuiet
    BY <1>1, EffectsQuietSteps
  <2>2. \A d \in DecisionIds : Charging(d)' = Charging(d) /\ Publishing(d)' = Publishing(d)
    BY <2>1 DEF EffectsQuiet, Charging, Publishing, Serving
  <2> QED
    BY <2>1, <2>2 DEF EffectsQuiet, EffectsInv
<1>2. ASSUME NEW h \in Handlers, CommitOutcome(h) PROVE EffectsInv'
  <2>1. /\ pc[h] = "commit" /\ pc' = [pc EXCEPT ![h] = "release"]
        /\ UNCHANGED <<job, charged, published, faults>>
    BY <1>2 DEF CommitOutcome, GoTo, At, history
  <2>e. PICK e \in DecisionIds : e = Did(h)
    BY <2>1 DEF TypeOK
  <2>2. Outcome(e)' = Outcome(e) + 1 /\ \A d \in DecisionIds \ {e} : Outcome(d)' = Outcome(d)
    BY <1>2, <2>1, <2>e, CommitRow DEF Outcome, Did
  <2>3. Charging(e)' = Charging(e) \cup {h} /\ h \notin Charging(e)
    BY <2>1, <2>e DEF Charging, Serving, Did, TypeOK
  <2>4. /\ \A d \in DecisionIds \ {e} : Charging(d)' = Charging(d)
        /\ \A d \in DecisionIds : Publishing(d)' = Publishing(d)
    BY <2>1, <2>e DEF Charging, Publishing, Serving, Did, TypeOK
  <2>5. Cardinality(Charging(e))' = Cardinality(Charging(e)) + (1 - 0)
    BY <2>3, <1>a
  <2>6. Cardinality(Publishing(e))' = Cardinality(Publishing(e)) + (0 - 0)
    BY <2>4, <1>f
  <2>7. charged'[e] = charged[e] + 0 /\ published'[e] = published[e] + 0 /\ faults' = faults
    BY <2>1, <1>n
  <2>8. \A d \in DecisionIds \ {e} : charged'[d] = charged[d] /\ published'[d] = published[d]
    BY <2>1
  <2> QED
    BY <1>t, <2>2, <2>4, <2>5, <2>6, <2>7, <2>8, BalancedStep
<1>3. ASSUME NEW h \in Handlers, RecordSpend(h) PROVE EffectsInv'
  <2>1. /\ pc[h] = "charge" /\ pc' = [pc EXCEPT ![h] = "publish"]
        /\ UNCHANGED <<job, decisions, published, faults>>
        /\ charged' = [charged EXCEPT ![Did(h)] = @ + 1]
    BY <1>3 DEF RecordSpend, GoTo, At, dbVars
  <2>e. PICK e \in DecisionIds : e = Did(h)
    BY <2>1 DEF TypeOK
  <2>2. \A d \in DecisionIds : Outcome(d)' = Outcome(d)
    BY <2>1 DEF Outcome
  <2>3. /\ Charging(e)' = Charging(e) \ {h} /\ h \in Charging(e)
        /\ Publishing(e)' = Publishing(e) \cup {h} /\ h \notin Publishing(e)
    BY <2>1, <2>e DEF Charging, Publishing, Serving, Did, TypeOK
  <2>4. \A d \in DecisionIds \ {e} : Charging(d)' = Charging(d) /\ Publishing(d)' = Publishing(d)
    BY <2>1, <2>e DEF Charging, Publishing, Serving, Did, TypeOK
  <2>5. Cardinality(Charging(e))' = Cardinality(Charging(e)) + (0 - 1)
    BY <2>3, <1>b, <1>f
  <2>6. Cardinality(Publishing(e))' = Cardinality(Publishing(e)) + (1 - 0)
    BY <2>3, <1>c
  <2>7. /\ Outcome(e)' = Outcome(e) + 0 /\ charged'[e] = charged[e] + 1
        /\ published'[e] = published[e] + 0 /\ faults' = faults
    BY <2>1, <2>2, <2>e, <1>n DEF TypeOK
  <2>8. \A d \in DecisionIds \ {e} : charged'[d] = charged[d] /\ published'[d] = published[d]
    BY <2>1, <2>e DEF TypeOK
  <2> QED
    BY <1>t, <2>2, <2>4, <2>5, <2>6, <2>7, <2>8, BalancedStep
<1>4. ASSUME NEW h \in Handlers, PublishOutcome(h) PROVE EffectsInv'
  <2>1. /\ pc[h] = "publish" /\ pc' = [pc EXCEPT ![h] = "idle"] /\ job' = [job EXCEPT ![h] = None]
        /\ UNCHANGED <<decisions, charged, faults>>
        /\ published' = [published EXCEPT ![Did(h)] = @ + 1]
    BY <1>4 DEF PublishOutcome, Finish, At, dbVars
  <2>e. PICK e \in DecisionIds : e = Did(h)
    BY <2>1 DEF TypeOK
  <2>2. \A d \in DecisionIds : Outcome(d)' = Outcome(d)
    BY <2>1 DEF Outcome
  <2>3. Publishing(e)' = Publishing(e) \ {h} /\ h \in Publishing(e)
    BY <2>1, <2>e DEF Publishing, Serving, Did, TypeOK
  <2>4. /\ \A d \in DecisionIds \ {e} : Publishing(d)' = Publishing(d)
        /\ \A d \in DecisionIds : Charging(d)' = Charging(d)
    BY <2>1, <2>e DEF Charging, Publishing, Serving, Did, TypeOK
  <2>5. Cardinality(Charging(e))' = Cardinality(Charging(e)) + (0 - 0)
    BY <2>4, <1>f
  <2>6. Cardinality(Publishing(e))' = Cardinality(Publishing(e)) + (0 - 1)
    BY <2>3, <1>d, <1>f
  <2>7. /\ Outcome(e)' = Outcome(e) + 0 /\ charged'[e] = charged[e] + 0
        /\ published'[e] = published[e] + 1 /\ faults' = faults
    BY <2>1, <2>2, <2>e, <1>n DEF TypeOK
  <2>8. \A d \in DecisionIds \ {e} : charged'[d] = charged[d] /\ published'[d] = published[d]
    BY <2>1, <2>e DEF TypeOK
  <2> QED
    BY <1>t, <2>2, <2>4, <2>5, <2>6, <2>7, <2>8, BalancedStep
<1>5. ASSUME NEW h \in Handlers, Drop(h) PROVE EffectsInv'
  <2>1. /\ pc' = [pc EXCEPT ![h] = "idle"] /\ job' = [job EXCEPT ![h] = None]
        /\ UNCHANGED <<decisions, charged, published>> /\ faults' = faults + 1
    BY <1>5 DEF Drop, Fault, Finish, dbVars, history
  <2>2. \A d \in DecisionIds : Charging(d)' = Charging(d) \ {h} /\ Publishing(d)' = Publishing(d) \ {h}
    BY <2>1 DEF Charging, Publishing, Serving, Did, TypeOK
  <2>3. \A d \in DecisionIds : /\ Cardinality(Charging(d)') \in Nat
                               /\ Cardinality(Charging(d)') <= Cardinality(Charging(d))
                               /\ Cardinality(Publishing(d)') \in Nat
                               /\ Cardinality(Publishing(d)') <= Cardinality(Publishing(d))
    <3> TAKE d \in DecisionIds
    <3>1. IsFiniteSet(Charging(d)) /\ IsFiniteSet(Publishing(d))
      BY <1>f
    <3>2. Charging(d)' \in SUBSET Charging(d) /\ Publishing(d)' \in SUBSET Publishing(d)
      BY <2>2
    <3>3. /\ IsFiniteSet(Charging(d)') /\ Cardinality(Charging(d)') <= Cardinality(Charging(d))
          /\ IsFiniteSet(Publishing(d)') /\ Cardinality(Publishing(d)') <= Cardinality(Publishing(d))
      BY <3>1, <3>2, FS_Subset
    <3> QED
      BY <3>3, FS_CardinalityType
  <2>4. \A d \in DecisionIds : Outcome(d)' = Outcome(d)
    BY <2>1 DEF Outcome
  <2>5. faults' # 0
    BY <2>1 DEF TypeOK
  <2>6. charged' = charged /\ published' = published
    BY <2>1
  <2> QED
    BY <2>3, <2>4, <2>5, <2>6, <1>f, <1>n DEF EffectsInv
<1> QED
    BY <1>1, <1>2, <1>3, <1>4, <1>5

\* However reports overlap and whatever fails, a decision is charged and
\* announced at most once per committed outcome, in that order, and only a
\* fault makes it less often.
THEOREM EffectsFollowCommits == Spec => []EffectsAccounted
<1>1. Init => TypeOK /\ KeyInv /\ EffectsInv
    BY TypeInit, KeyInit, EffectsInit
<1>2. TypeOK /\ KeyInv /\ EffectsInv /\ [Next]_vars => (TypeOK /\ KeyInv /\ EffectsInv)'
    BY TypeNext, KeyNext, EffectsNext
<1>3. TypeOK /\ EffectsInv => EffectsAccounted
  <2> SUFFICES ASSUME TypeOK, EffectsInv, NEW d \in DecisionIds
               PROVE  LET both == Cardinality({h \in Handlers : Serving(h, d, {"release", "charge", "publish"})})
                      IN  /\ published[d] <= charged[d]
                          /\ charged[d] + Cardinality(Charging(d)) <= Outcome(d)
                          /\ published[d] + both <= Outcome(d)
                          /\ faults = 0 => /\ charged[d] + Cardinality(Charging(d)) = Outcome(d)
                                           /\ published[d] + both = Outcome(d)
    BY DEF EffectsAccounted, Charging
  <2> DEFINE U == {h \in Handlers : Serving(h, d, {"release", "charge", "publish"})}
  <2>1. U = Charging(d) \cup Publishing(d) /\ Charging(d) \cap Publishing(d) = {}
    BY DEF Charging, Publishing, Serving
  <2> HIDE DEF U
  <2>2. /\ IsFiniteSet(Charging(d)) /\ Cardinality(Charging(d)) \in Nat
        /\ IsFiniteSet(Publishing(d)) /\ Cardinality(Publishing(d)) \in Nat
    BY CountedHandlers
  <2>3. Cardinality(U) = Cardinality(Charging(d)) + Cardinality(Publishing(d))
    <3>1. Cardinality(Charging(d) \cup Publishing(d)) =
             Cardinality(Charging(d)) + Cardinality(Publishing(d)) - Cardinality(Charging(d) \cap Publishing(d))
      BY <2>2, FS_Union
    <3>2. Cardinality(Charging(d) \cap Publishing(d)) = 0
      BY <2>1, FS_EmptySet
    <3> QED
      BY <2>1, <2>2, <3>1, <3>2
  <2>4. charged[d] \in Nat /\ published[d] \in Nat /\ Outcome(d) \in Nat
    BY DEF TypeOK, Outcome, Rows
  <2>5. /\ published[d] <= charged[d]
        /\ charged[d] + Cardinality(Charging(d)) <= Outcome(d)
        /\ published[d] + Cardinality(U) <= Outcome(d)
        /\ faults = 0 => /\ charged[d] + Cardinality(Charging(d)) = Outcome(d)
                         /\ published[d] + Cardinality(U) = Outcome(d)
    BY <2>2, <2>3, <2>4 DEF EffectsInv
  <2> QED
    BY <2>5 DEF U
<1> QED
    BY <1>1, <1>2, <1>3, PTL DEF Spec
-----------------------------------------------------------------------------
(* SlotsAccounted and OpenDecisionKeepsSlot *)

Unmade == NotStored \cup {"undo"}

\* A report is served for the agent that owns the decision, and its commit is
\* the first thing that gives the decision an outcome; a slot of a stored
\* decision lies in a set of that decision's agent.
OwnerInv ==
    /\ \A h \in Handlers : pc[h] \in OutcomeSteps =>
          job[h].principal.agent_id = decisions[Did(h)].agent_id
    /\ \A h \in Handlers : pc[h] \in {"release", "charge", "publish"} => Outcome(Did(h)) > 0
    /\ \A q \in QuotaKeys : \A d \in slots[q] : decisions[d] # None =>
          \E p \in Principals : QuotaKey(p) = q /\ p.agent_id = decisions[d].agent_id

\* A slot is in use while its decision is not stored yet, or open, or a
\* report is about to release it; otherwise it is lost.
SlotUse(d) ==
    \/ decisions[d] = None /\ \E h \in Handlers : Serving(h, d, Unmade)
    \/ decisions[d] # None /\ Outcome(d) = 0
    \/ \E h \in Handlers : Serving(h, d, {"release"})

IsLost(d) == (\E q \in QuotaKeys : d \in slots[q]) /\ ~SlotUse(d)

Lost == {d \in DecisionIds : IsLost(d)}

\* Without faults a failing creation has stored nothing.
Undone == faults = 0 => \A h \in Handlers : pc[h] = "undo" => decisions[Did(h)] = None

\* Every fault loses at most one slot.
LostInv == OneEnvironmentPerAgent => Cardinality(Lost) <= faults

SlotContext == TypeOK /\ KeyInv /\ SlotInv

\* The steps that store no row, commit no outcome, move no slot by name and
\* are no fault.
AccountQuiet ==
    /\ UNCHANGED <<decisions, faults>>
    /\ \A q \in QuotaKeys : slots'[q] \subseteq slots[q]
    /\ \A h \in Handlers :
          /\ pc'[h] \in OutcomeSteps =>
                \/ /\ pc[h] \in OutcomeSteps
                   /\ job'[h].principal = job[h].principal /\ job'[h].did = job[h].did
                \/ job'[h].principal.agent_id = decisions[job'[h].did].agent_id
          /\ pc'[h] \in {"release", "charge", "publish"} =>
                pc[h] \in {"release", "charge", "publish"} /\ job'[h] = job[h]
          /\ pc'[h] = "undo" => pc[h] \in Unmade /\ job'[h] = job[h]
          /\ pc[h] \in Unmade => pc'[h] \in Unmade /\ job'[h] = job[h]
          /\ pc[h] = "release" => pc'[h] = "release" /\ job'[h] = job[h]

\* All other steps are AccountQuiet.
LEMMA AccountQuietSteps ==
    ASSUME TypeOK, [Next]_vars,
           \A h \in Handlers :
              /\ ~ReserveAdd(h) /\ ~Unreserve(h) /\ ~Insert(h) /\ ~UndoReserve(h)
              /\ ~CommitOutcome(h) /\ ~ReleaseSlot(h) /\ ~Drop(h) /\ ~RaiseInTry(h)
    PROVE  AccountQuiet
<1> USE DEF TypeOK, AccountQuiet, Unmade, NotStored, OutcomeSteps, At, history, redisVars, dbVars
<1>r. ASSUME NEW h \in Handlers, Request(h) PROVE AccountQuiet
    BY <1>r DEF Request, ReplayDecision, BeginCreate, BeginOutcome, Owns
<1>1. ASSUME NEW h \in Handlers, RejectEarly(h) PROVE AccountQuiet
    BY <1>1 DEF RejectEarly, Finish
<1>2. ASSUME NEW h \in Handlers, CheckBudget(h) PROVE AccountQuiet
    BY <1>2 DEF CheckBudget, Finish, GoTo
<1>3. ASSUME NEW h \in Handlers, ReserveExpire(h) PROVE AccountQuiet
    BY <1>3 DEF ReserveExpire, GoTo
<1>4. ASSUME NEW h \in Handlers, ReserveCount(h) PROVE AccountQuiet
    BY <1>4 DEF ReserveCount, GoTo
<1>5. ASSUME NEW h \in Handlers, Compute(h) PROVE AccountQuiet
    BY <1>5 DEF Compute, GoTo
<1>6. ASSUME NEW h \in Handlers, ReplyDecision(h) PROVE AccountQuiet
    BY <1>6 DEF ReplyDecision, Finish
<1>7. ASSUME NEW h \in Handlers, SelectOutcome(h) PROVE AccountQuiet
    BY <1>7 DEF SelectOutcome, Finish, GoTo
<1>8. ASSUME NEW h \in Handlers, DeleteAttempts(h) PROVE AccountQuiet
  <2>1. /\ pc[h] = "delete" /\ pc' = [pc EXCEPT ![h] = "commit"]
        /\ UNCHANGED <<decisions, slots, faults>>
    BY <1>8 DEF DeleteAttempts
  <2> DEFINE j == [job[h] EXCEPT !.seen = attempts[Did(h)]]
  <2>2. job' = [job EXCEPT ![h] = j]
    BY <1>8, Zenon DEF DeleteAttempts
  <2>3. job[h] \in Jobs
    BY <2>1
  <2>4. j.did = job[h].did /\ j.principal = job[h].principal
    BY <2>3 DEF Jobs
  <2> HIDE DEF j
  <2> QED
    BY <2>1, <2>2, <2>4
<1>9. ASSUME NEW h \in Handlers, RecordSpend(h) PROVE AccountQuiet
    BY <1>9 DEF RecordSpend, GoTo
<1>10. ASSUME NEW h \in Handlers, PublishOutcome(h) PROVE AccountQuiet
    BY <1>10 DEF PublishOutcome, Finish
<1>11. ASSUME NEW q \in QuotaKeys, ExpireSlots(q) PROVE AccountQuiet
    BY <1>11 DEF ExpireSlots
<1>12. CASE NewDay
    BY <1>12 DEF NewDay
<1>13. CASE UNCHANGED vars
    BY <1>13 DEF vars
<1> QED
    BY <1>r, <1>1, <1>2, <1>3, <1>4, <1>5, <1>6, <1>7, <1>8, <1>9, <1>10, <1>11, <1>12, <1>13 DEF Next, HandlerStep, CreateStep, OutcomeStep

\* Nothing to own at the start.
LEMMA AccountInit == Init => OwnerInv /\ Undone /\ LostInv
<1> SUFFICES ASSUME Init PROVE OwnerInv /\ Undone /\ LostInv
    OBVIOUS
<1>1. OwnerInv /\ Undone
    BY DEF Init, OwnerInv, Undone, OutcomeSteps
<1>2. Lost = {} /\ faults = 0
    BY DEF Init, Lost, IsLost
<1> QED
    BY <1>1, <1>2, FS_EmptySet DEF LostInv

\* Storing a row gives its id an owner: the agent in whose set its slot is.
LEMMA StoreKeepsOwners ==
    ASSUME SlotContext, OwnerInv, NEW h \in Handlers, pc[h] = "insert",
           NEW step \in {"reply", "undo"},
           pc' = [pc EXCEPT ![h] = step], UNCHANGED <<job, slots>>,
           decisions' = [decisions EXCEPT ![Did(h)] = NewRow(h)]
    PROVE  OwnerInv'
<1> USE DEF SlotContext
<1> DEFINE row == NewRow(h)
<1>1. Did(h) \in DecisionIds /\ decisions[Did(h)] = None /\ job[h] \in Jobs
    BY DEF TypeOK, KeyInv, NotStored
<1>2. row.agent_id = job[h].principal.agent_id
    BY DEF NewRow
<1>3. decisions'[Did(h)] = row /\ \A d \in DecisionIds \ {Did(h)} : decisions'[d] = decisions[d]
    BY <1>1 DEF TypeOK
<1> HIDE DEF row
<1>4. \A d \in DecisionIds : Outcome(d)' = Outcome(d)
    BY FreshRow
<1>5. ASSUME NEW g \in Handlers, pc'[g] \in OutcomeSteps
      PROVE  /\ pc[g] = pc'[g] /\ Did(g) \in DecisionIds /\ Did(g) # Did(h)
             /\ job'[g] = job[g] /\ Did(g)' = Did(g)
    BY <1>1, <1>5 DEF TypeOK, OutcomeSteps, Did
<1>6. \A g \in Handlers : pc'[g] \in OutcomeSteps =>
          job'[g].principal.agent_id = decisions'[Did(g)'].agent_id
    BY <1>3, <1>5 DEF OwnerInv
<1>7. \A g \in Handlers : pc'[g] \in {"release", "charge", "publish"} => Outcome(Did(g))' > 0
    BY <1>4, <1>5 DEF OwnerInv, OutcomeSteps
<1>8. ASSUME NEW q \in QuotaKeys, NEW d \in slots'[q], decisions'[d] # None
      PROVE  \E p \in Principals : QuotaKey(p) = q /\ p.agent_id = decisions'[d].agent_id
  <2>1. d \in DecisionIds /\ d \in slots[q]
    BY <1>8 DEF TypeOK
  <2>2. CASE d = Did(h)
    <3>1. q = QuotaKey(job[h].principal) /\ job[h].principal \in Principals
      BY <1>1, <2>1, <2>2 DEF SlotInv, Creating, Quota, Jobs
    <3> QED
      BY <3>1, <2>2, <1>2, <1>3
  <2>3. CASE d # Did(h)
    BY <1>3, <1>8, <2>1, <2>3 DEF OwnerInv
  <2> QED
    BY <2>2, <2>3
<1> QED
    BY <1>6, <1>7, <1>8 DEF OwnerInv

\* Every step keeps the owners: reports and slots stay with the agent of the row.
LEMMA OwnerNext == SlotContext /\ OwnerInv /\ [Next]_vars => OwnerInv'
<1> SUFFICES ASSUME SlotContext, OwnerInv, [Next]_vars PROVE OwnerInv'
    OBVIOUS
<1>t. TypeOK /\ KeyInv /\ SlotInv
    BY DEF SlotContext
<1>d. \A h \in Handlers : pc[h] \in OutcomeSteps => Did(h) \in DecisionIds
    BY <1>t DEF TypeOK, OutcomeSteps
<1>1. CASE \A h \in Handlers :
              /\ ~ReserveAdd(h) /\ ~Unreserve(h) /\ ~Insert(h) /\ ~UndoReserve(h)
              /\ ~CommitOutcome(h) /\ ~ReleaseSlot(h) /\ ~Drop(h) /\ ~RaiseInTry(h)
  <2>1. AccountQuiet
    BY <1>1, <1>t, AccountQuietSteps
  <2> QED
    BY <2>1 DEF AccountQuiet, OwnerInv, Outcome, Did
<1>2. ASSUME NEW h \in Handlers, ReserveAdd(h) PROVE OwnerInv'
  <2>1. PICK d \in DecisionIds \ used :
              /\ job' = [job EXCEPT ![h].did = d]
              /\ slots' = [slots EXCEPT ![Quota(h)] = @ \cup {d}]
    BY <1>2 DEF ReserveAdd
  <2>2. pc[h] = "reserve" /\ pc' = [pc EXCEPT ![h] = "expire"] /\ UNCHANGED decisions
    BY <1>2 DEF ReserveAdd, At, dbVars
  <2>3. \A g \in Handlers \ {h} : job'[g] = job[g] /\ pc'[g] = pc[g]
    BY <1>t, <2>1, <2>2, Zenon DEF TypeOK
  <2>4. d \in DecisionIds \ used /\ slots' = [slots EXCEPT ![Quota(h)] = @ \cup {d}]
    BY <2>1, Zenon
  <2>5. decisions[d] = None /\ \A q \in QuotaKeys : slots'[q] \subseteq slots[q] \cup {d}
    BY <1>t, <2>4 DEF TypeOK
  <2>6. pc'[h] = "expire"
    BY <1>t, <2>2 DEF TypeOK
  <2> QED
    BY <2>2, <2>3, <2>5, <2>6 DEF OwnerInv, OutcomeSteps, Outcome, Did
<1>3. ASSUME NEW h \in Handlers, Unreserve(h) \/ UndoReserve(h) \/ ReleaseSlot(h) \/ Drop(h)
      PROVE  OwnerInv'
  <2>1. UNCHANGED decisions /\ \A q \in QuotaKeys : slots'[q] \subseteq slots[q]
    BY <1>t, <1>3 DEF TypeOK, Unreserve, UndoReserve, ReleaseSlot, Drop, SRem, dbVars, redisVars
  <2>2. \A g \in Handlers : pc'[g] \in OutcomeSteps =>
           /\ pc[g] \in OutcomeSteps /\ job'[g] = job[g]
           /\ pc'[g] \in {"release", "charge", "publish"} =>
                 pc[g] \in {"release", "charge", "publish"}
    BY <1>t, <1>3 DEF TypeOK, Unreserve, UndoReserve, ReleaseSlot, Drop, Finish, GoTo, At, OutcomeSteps
  <2> QED
    BY <2>1, <2>2 DEF OwnerInv, OutcomeSteps, Outcome, Did
<1>4. ASSUME NEW h \in Handlers, Insert(h) PROVE OwnerInv'
  <2>1. CASE Conflicts(NewRow(h))
    BY <1>t, <1>4, <2>1 DEF Insert, At, GoTo, redisVars, TypeOK, OwnerInv, OutcomeSteps, Outcome, Did
  <2>2. CASE ~Conflicts(NewRow(h))
    BY <1>4, <2>2, StoreKeepsOwners DEF Insert, At, GoTo, redisVars
  <2> QED
    BY <2>1, <2>2
<1>5. ASSUME NEW h \in Handlers, RaiseInTry(h) PROVE OwnerInv'
  <2>1. CASE UNCHANGED decisions
    BY <1>t, <1>5, <2>1 DEF RaiseInTry, GoTo, redisVars, TypeOK, OwnerInv, OutcomeSteps, Outcome, Did
  <2>2. CASE At(h, "insert") /\ decisions' = [decisions EXCEPT ![Did(h)] = NewRow(h)]
    BY <1>5, <2>2, StoreKeepsOwners DEF RaiseInTry, At, GoTo, redisVars
  <2> QED
    BY <1>5, <2>1, <2>2 DEF RaiseInTry
<1>6. ASSUME NEW h \in Handlers, CommitOutcome(h) PROVE OwnerInv'
  <2>1. pc[h] = "commit" /\ pc' = [pc EXCEPT ![h] = "release"] /\ UNCHANGED <<job, slots>>
    BY <1>6 DEF CommitOutcome, GoTo, At, redisVars
  <2>e. PICK e \in DecisionIds : e = Did(h)
    BY <1>d, <2>1 DEF OutcomeSteps
  <2>2. /\ decisions[e] # None /\ decisions[e] \in Rows /\ Outcome(e)' = Outcome(e) + 1
        /\ \A d \in DecisionIds \ {e} : decisions'[d] = decisions[d]
        /\ decisions' = [decisions EXCEPT ![e] = [decisions[e] EXCEPT !.outcome = Outcome(e) + 1]]
    BY <1>t, <1>6, <2>1, <2>e, CommitRow, Zenon DEF Did
  <2>3. decisions'[e].agent_id = decisions[e].agent_id
    <3> DEFINE row == [decisions[e] EXCEPT !.outcome = Outcome(e) + 1]
    <3>1. row.agent_id = decisions[e].agent_id
      BY <2>2 DEF Rows
    <3>2. decisions' = [decisions EXCEPT ![e] = row]
      BY <2>2, Zenon
    <3> HIDE DEF row
    <3> QED
      BY <1>t, <3>1, <3>2 DEF TypeOK
  <2>4. \A d \in DecisionIds : /\ decisions[d] = None => decisions'[d] = None
                               /\ decisions'[d].agent_id = decisions[d].agent_id
    BY <2>2, <2>3, Zenon
  <2>5. /\ \A d \in DecisionIds : Outcome(d) > 0 => Outcome(d)' > 0
        /\ Outcome(e)' > 0
    <3>1. \A d \in DecisionIds : Outcome(d) \in Nat
      BY <1>t DEF TypeOK, Outcome, Rows
    <3>2. Outcome(e)' = Outcome(e) + 1 /\ \A d \in DecisionIds \ {e} : decisions'[d] = decisions[d]
      BY <2>2, Zenon
    <3>3. \A d \in DecisionIds \ {e} : Outcome(d)' = Outcome(d)
      BY <3>2 DEF Outcome
    <3> QED
      BY <3>1, <3>2, <3>3
  <2>6. \A g \in Handlers : /\ pc'[g] \in OutcomeSteps => pc[g] \in OutcomeSteps
                            /\ pc'[g] \in {"release", "charge", "publish"} =>
                                  g = h \/ pc[g] \in {"release", "charge", "publish"}
    BY <1>t, <2>1 DEF TypeOK, OutcomeSteps
  <2>7. \A q \in QuotaKeys : slots[q] \subseteq DecisionIds
    BY <1>t DEF TypeOK
  <2>8. \A g \in Handlers : pc'[g] \in OutcomeSteps =>
           job'[g].principal.agent_id = decisions'[Did(g)'].agent_id
    BY <1>d, <2>1, <2>4, <2>6 DEF OwnerInv, Did
  <2>9. \A g \in Handlers : pc'[g] \in {"release", "charge", "publish"} => Outcome(Did(g))' > 0
    <3> SUFFICES ASSUME NEW g \in Handlers, pc'[g] \in {"release", "charge", "publish"}
                 PROVE  Outcome(Did(g))' > 0
      OBVIOUS
    <3>1. PICK d \in DecisionIds : d = Did(g) /\ (d = e \/ Outcome(d) > 0)
      BY <1>d, <2>e, <2>6 DEF OwnerInv, OutcomeSteps
    <3>2. Did(g)' = d
      BY <2>1, <3>1 DEF Did
    <3> QED
      BY <2>5, <3>1, <3>2
  <2>10. \A q \in QuotaKeys : \A d \in slots'[q] : decisions'[d] # None =>
            \E p \in Principals : QuotaKey(p) = q /\ p.agent_id = decisions'[d].agent_id
    BY <2>1, <2>4, <2>7 DEF OwnerInv
  <2> QED
    BY <2>8, <2>9, <2>10 DEF OwnerInv
<1> QED
    BY <1>1, <1>2, <1>3, <1>4, <1>5, <1>6

\* A handler that gives up its reservation takes the slot out of the only
\* set it is in.
LEMMA SlotGone ==
    ASSUME SlotContext, NEW h \in Handlers, Unreserve(h) \/ UndoReserve(h)
    PROVE  /\ UNCHANGED <<decisions, faults>>
           /\ pc[h] \in {"unreserve", "undo"} /\ Did(h) \in DecisionIds
           /\ pc' = [pc EXCEPT ![h] = "idle"]
           /\ \A g \in Handlers \ {h} : pc'[g] = pc[g] /\ job'[g] = job[g]
           /\ \A q \in QuotaKeys : slots'[q] \subseteq slots[q] \ {Did(h)}
<1>1. pc[h] \in {"unreserve", "undo"} /\ SRem(Quota(h), Did(h)) /\ Finish(h) /\ UNCHANGED <<decisions, faults>>
    BY DEF Unreserve, UndoReserve, At, dbVars
<1>2. slots' = [slots EXCEPT ![Quota(h)] = @ \ {Did(h)}]
    BY <1>1 DEF SRem
<1>3. \A q \in QuotaKeys : slots'[q] \subseteq slots[q] \ {Did(h)}
    BY <1>1, <1>2 DEF SlotContext, SlotInv, TypeOK, Creating
<1> QED
    BY <1>1, <1>3 DEF Finish, SlotContext, TypeOK

\* What a reservation leaves alone.
LEMMA ReserveAddFrame ==
    ASSUME TypeOK, NEW h \in Handlers, ReserveAdd(h)
    PROVE  /\ pc[h] = "reserve" /\ UNCHANGED <<decisions, faults>> /\ pc'[h] = "expire"
           /\ \A g \in Handlers \ {h} : job'[g] = job[g] /\ pc'[g] = pc[g]
<1>1. PICK d \in DecisionIds \ used : job' = [job EXCEPT ![h].did = d]
    BY DEF ReserveAdd
<1>2. pc[h] = "reserve" /\ pc' = [pc EXCEPT ![h] = "expire"] /\ UNCHANGED <<decisions, faults>>
    BY DEF ReserveAdd, At, dbVars
<1>3. \A g \in Handlers \ {h} : job'[g] = job[g] /\ pc'[g] = pc[g]
    BY <1>1, <1>2, Zenon DEF TypeOK
<1> QED
    BY <1>2, <1>3 DEF TypeOK

\* Storing the row of a reservation keeps every slot in use: its own decision
\* is open from now on.
LEMMA StoreKeepsUse ==
    ASSUME SlotContext, NEW h \in Handlers, pc[h] = "insert",
           NEW step \in {"reply", "undo"},
           pc' = [pc EXCEPT ![h] = step], UNCHANGED job,
           decisions' = [decisions EXCEPT ![Did(h)] = NewRow(h)]
    PROVE  \A d \in DecisionIds : SlotUse(d) => SlotUse(d)'
<1>t. TypeOK
    BY DEF SlotContext
<1>1. Did(h) \in DecisionIds /\ \A g \in Handlers \ {h} : pc'[g] = pc[g]
    BY <1>t DEF TypeOK
<1>2. decisions'[Did(h)] = NewRow(h) /\ \A d \in DecisionIds \ {Did(h)} : decisions'[d] = decisions[d]
    BY <1>t, <1>1 DEF TypeOK
<1>3. NewRow(h) # None /\ NewRow(h).outcome = 0
  <2>1. NewRow(h) \in Rows
    BY <1>t DEF NewRow, Rows, TypeOK, Jobs, AgentIds
  <2> QED
    BY <2>1, NoneAssumption DEF NewRow
<1>e. PICK e \in DecisionIds : e = Did(h)
    BY <1>1
<1>4. SlotUse(e)'
    BY <1>2, <1>3, <1>e DEF SlotUse, Outcome
<1>5. \A d \in DecisionIds \ {e} : SlotUse(d) => SlotUse(d)'
    BY <1>1, <1>2, <1>e DEF SlotUse, Serving, Outcome, Did
<1> QED
    BY <1>4, <1>5

\* Every step keeps that: only a committed INSERT whose acknowledgement was
\* lost lets a handler undo a decision that exists, and that is a fault.
LEMMA UndoneNext == SlotContext /\ Undone /\ [Next]_vars => Undone'
<1> SUFFICES ASSUME SlotContext, Undone, [Next]_vars, faults' = 0
             PROVE  \A h \in Handlers : pc'[h] = "undo" => decisions'[Did(h)'] = None
    BY DEF Undone
<1> DEFINE Goal == \A h \in Handlers : pc'[h] = "undo" => decisions'[Did(h)'] = None
<1>t. TypeOK /\ KeyInv /\ SlotInv
    BY DEF SlotContext
<1>u. faults = 0 => \A h \in Handlers : pc[h] = "undo" => decisions[Did(h)] = None
    BY DEF Undone
<1>1. CASE \A h \in Handlers :
              /\ ~ReserveAdd(h) /\ ~Unreserve(h) /\ ~Insert(h) /\ ~UndoReserve(h)
              /\ ~CommitOutcome(h) /\ ~ReleaseSlot(h) /\ ~Drop(h) /\ ~RaiseInTry(h)
  <2>1. AccountQuiet
    BY <1>1, <1>t, AccountQuietSteps
  <2> QED
    BY <1>t, <1>u, <2>1 DEF AccountQuiet, KeyInv, Did, Unmade
<1>2. ASSUME NEW h \in Handlers, ReserveAdd(h) PROVE Goal
  <2>1. /\ UNCHANGED <<decisions, faults>> /\ pc'[h] = "expire"
        /\ \A g \in Handlers \ {h} : job'[g] = job[g] /\ pc'[g] = pc[g]
    BY <1>t, <1>2, ReserveAddFrame
  <2> QED
    BY <1>u, <2>1 DEF Did
<1>3. ASSUME NEW h \in Handlers, Unreserve(h) \/ UndoReserve(h) PROVE Goal
  <2>1. /\ UNCHANGED <<decisions, faults>> /\ pc' = [pc EXCEPT ![h] = "idle"]
        /\ \A g \in Handlers \ {h} : pc'[g] = pc[g] /\ job'[g] = job[g]
    BY <1>3, SlotGone
  <2>2. pc'[h] = "idle"
    BY <1>t, <2>1 DEF TypeOK
  <2> QED
    BY <1>u, <2>1, <2>2 DEF Did
<1>4. ASSUME NEW h \in Handlers, Insert(h) PROVE Goal
  <2>1. CASE Conflicts(NewRow(h))
    <3>1. /\ pc[h] = "insert" /\ pc' = [pc EXCEPT ![h] = "undo"]
          /\ UNCHANGED <<decisions, faults, job>>
      BY <1>4, <2>1 DEF Insert, At, GoTo
    <3>2. decisions[Did(h)] = None /\ pc'[h] = "undo" /\ \A g \in Handlers \ {h} : pc'[g] = pc[g]
      BY <1>t, <3>1 DEF KeyInv, NotStored, TypeOK
    <3> QED
      BY <1>u, <3>1, <3>2 DEF Did
  <2>2. CASE ~Conflicts(NewRow(h))
    <3>1. /\ pc[h] = "insert" /\ pc' = [pc EXCEPT ![h] = "reply"]
          /\ UNCHANGED <<faults, job>>
          /\ decisions' = [decisions EXCEPT ![Did(h)] = NewRow(h)]
      BY <1>4, <2>2 DEF Insert, At, GoTo
    <3>2. Did(h) \in DecisionIds /\ pc'[h] = "reply" /\ \A g \in Handlers \ {h} : pc'[g] = pc[g]
      BY <1>t, <3>1 DEF TypeOK
    <3>3. \A d \in DecisionIds \ {Did(h)} : decisions'[d] = decisions[d]
      BY <1>t, <3>1, <3>2 DEF TypeOK
    <3>4. \A g \in Handlers : pc'[g] = "undo" =>
             /\ g # h /\ pc[g] = "undo" /\ Did(g)' = Did(g)
             /\ Did(g) \in DecisionIds \ {Did(h)}
      BY <1>t, <3>1, <3>2 DEF KeyInv, Creating, TypeOK, Did
    <3> QED
      BY <1>u, <3>1, <3>3, <3>4
  <2> QED
    BY <2>1, <2>2
<1>5. ASSUME NEW h \in Handlers, CommitOutcome(h) PROVE Goal
  <2>1. pc[h] = "commit" /\ pc' = [pc EXCEPT ![h] = "release"] /\ UNCHANGED <<job, faults>>
    BY <1>5 DEF CommitOutcome, GoTo, At, redisVars
  <2>e. PICK e \in DecisionIds : e = Did(h)
    BY <1>t, <2>1 DEF TypeOK
  <2>2. decisions[e] # None /\ \A d \in DecisionIds \ {e} : decisions'[d] = decisions[d]
    BY <1>t, <1>5, <2>1, <2>e, CommitRow, Zenon DEF Did
  <2>3. \A g \in Handlers : pc'[g] = "undo" => pc[g] = "undo" /\ Did(g)' = Did(g) /\ Did(g) \in DecisionIds
    BY <1>t, <2>1 DEF TypeOK, Did
  <2> QED
    BY <1>u, <2>1, <2>2, <2>3
<1>6. ASSUME NEW h \in Handlers, ReleaseSlot(h) PROVE Goal
  <2>1. pc' = [pc EXCEPT ![h] = "charge"] /\ UNCHANGED <<job, decisions, faults>>
    BY <1>6 DEF ReleaseSlot, GoTo, dbVars
  <2> QED
    BY <1>t, <1>u, <2>1 DEF TypeOK, Did
<1>7. ASSUME NEW h \in Handlers, Drop(h) \/ RaiseInTry(h) PROVE Goal
    BY <1>t, <1>7 DEF Drop, RaiseInTry, Fault, TypeOK
<1> QED
    BY <1>1, <1>2, <1>3, <1>4, <1>5, <1>6, <1>7

\* A step that is no fault loses no slot, a fault at most the one of its
\* handler.  Releasing a slot relies on OwnerInv: the set named by the
\* reporting credential is the one the slot is in, because the agent lives
\* in one environment.
LEMMA LostStep ==
    ASSUME SlotContext, OwnerInv, OneEnvironmentPerAgent, [Next]_vars
    PROVE  \/ faults' = faults /\ \A d \in DecisionIds : IsLost(d)' => IsLost(d)
           \/ /\ faults' = faults + 1
              /\ \E e : \A d \in DecisionIds : IsLost(d)' => IsLost(d) \/ d = e
<1> DEFINE Kept == \A d \in DecisionIds : IsLost(d)' => IsLost(d)
           NoneLost == faults' = faults /\ Kept
           OneLost == /\ faults' = faults + 1
                      /\ \E e : \A d \in DecisionIds : IsLost(d)' => IsLost(d) \/ d = e
           Goal == NoneLost \/ OneLost
<1>t. TypeOK /\ KeyInv /\ SlotInv
    BY DEF SlotContext
<1>s. \A q \in QuotaKeys : slots[q] \subseteq DecisionIds
    BY <1>t DEF TypeOK
<1>1. CASE \A h \in Handlers :
              /\ ~ReserveAdd(h) /\ ~Unreserve(h) /\ ~Insert(h) /\ ~UndoReserve(h)
              /\ ~CommitOutcome(h) /\ ~ReleaseSlot(h) /\ ~Drop(h) /\ ~RaiseInTry(h)
  <2>1. AccountQuiet
    BY <1>1, <1>t, AccountQuietSteps
  <2>2. \A d \in DecisionIds : SlotUse(d) => SlotUse(d)'
    BY <2>1 DEF AccountQuiet, SlotUse, Serving, Outcome, Did, Unmade
  <2>3. NoneLost
    BY <2>1, <2>2 DEF AccountQuiet, IsLost
  <2> QED
    BY <2>3
<1>2. ASSUME NEW h \in Handlers, ReserveAdd(h) PROVE Goal
  <2>1. PICK d \in DecisionIds \ used :
              /\ job' = [job EXCEPT ![h].did = d]
              /\ slots' = [slots EXCEPT ![Quota(h)] = @ \cup {d}]
    BY <1>2 DEF ReserveAdd
  <2>2. /\ pc[h] = "reserve" /\ UNCHANGED <<decisions, faults>> /\ pc'[h] = "expire"
        /\ \A g \in Handlers \ {h} : job'[g] = job[g] /\ pc'[g] = pc[g]
    BY <1>t, <1>2, ReserveAddFrame
  <2>3. d \in DecisionIds \ used /\ slots' = [slots EXCEPT ![Quota(h)] = @ \cup {d}]
    BY <2>1, Zenon
  <2>4. decisions[d] = None /\ \A q \in QuotaKeys : slots'[q] \subseteq slots[q] \cup {d}
    BY <1>t, <2>3 DEF TypeOK
  <2>5. Did(h)' = d
    <3> DEFINE j == [job[h] EXCEPT !.did = d]
    <3>1. job[h] \in Jobs
      BY <1>t, <2>2 DEF TypeOK
    <3>2. j.did = d
      BY <3>1 DEF Jobs
    <3>3. job' = [job EXCEPT ![h] = j]
      BY <2>1, Zenon
    <3> HIDE DEF j
    <3> QED
      BY <1>t, <3>2, <3>3 DEF TypeOK, Did
  <2>6. SlotUse(d)'
    BY <2>2, <2>4, <2>5 DEF SlotUse, Serving, Unmade, NotStored
  <2>7. \A e : SlotUse(e) => SlotUse(e)'
    BY <2>2 DEF SlotUse, Serving, Unmade, NotStored, Outcome, Did
  <2>8. NoneLost
    BY <2>2, <2>4, <2>6, <2>7 DEF IsLost
  <2> QED
    BY <2>8
<1>3. ASSUME NEW h \in Handlers, Unreserve(h) \/ UndoReserve(h) PROVE Goal
  <2>1. /\ UNCHANGED <<decisions, faults>>
        /\ pc[h] \in {"unreserve", "undo"} /\ Did(h) \in DecisionIds
        /\ \A g \in Handlers \ {h} : pc'[g] = pc[g] /\ job'[g] = job[g]
        /\ \A q \in QuotaKeys : slots'[q] \subseteq slots[q] \ {Did(h)}
    BY <1>3, SlotGone
  <2>2. \A d : d # Did(h) /\ SlotUse(d) => SlotUse(d)'
    BY <2>1 DEF SlotUse, Serving, Outcome, Did
  <2>3. NoneLost
    BY <2>1, <2>2 DEF IsLost
  <2> QED
    BY <2>3
<1>4. ASSUME NEW h \in Handlers, Insert(h) PROVE Goal
  <2>1. CASE Conflicts(NewRow(h))
    <3>1. /\ pc[h] = "insert" /\ pc' = [pc EXCEPT ![h] = "undo"]
          /\ UNCHANGED <<decisions, faults, slots, job>>
      BY <1>4, <2>1 DEF Insert, At, GoTo, redisVars
    <3>2. pc'[h] = "undo" /\ \A g \in Handlers \ {h} : pc'[g] = pc[g]
      BY <1>t, <3>1 DEF TypeOK
    <3>3. \A d : SlotUse(d) => SlotUse(d)'
      BY <3>1, <3>2 DEF SlotUse, Serving, Outcome, Did, Unmade, NotStored
    <3>4. NoneLost
      BY <3>1, <3>3 DEF IsLost
    <3> QED
      BY <3>4
  <2>2. CASE ~Conflicts(NewRow(h))
    <3>1. /\ UNCHANGED <<faults, slots>>
          /\ \A d \in DecisionIds : SlotUse(d) => SlotUse(d)'
      BY <1>4, <2>2, StoreKeepsUse DEF Insert, At, GoTo, redisVars
    <3>2. NoneLost
      BY <3>1 DEF IsLost
    <3> QED
      BY <3>2
  <2> QED
    BY <2>1, <2>2
<1>5. ASSUME NEW h \in Handlers, CommitOutcome(h) PROVE Goal
  <2>1. pc[h] = "commit" /\ pc' = [pc EXCEPT ![h] = "release"] /\ UNCHANGED <<job, slots, faults>>
    BY <1>5 DEF CommitOutcome, GoTo, At, redisVars
  <2>e. PICK e \in DecisionIds : e = Did(h)
    BY <1>t, <2>1 DEF TypeOK
  <2>2. decisions[e] # None /\ \A d \in DecisionIds \ {e} : decisions'[d] = decisions[d]
    BY <1>t, <1>5, <2>1, <2>e, CommitRow, Zenon DEF Did
  <2>3. pc'[h] = "release" /\ Did(h)' = e /\ \A g \in Handlers \ {h} : pc'[g] = pc[g]
    BY <1>t, <2>1, <2>e DEF TypeOK, Did
  <2>4. SlotUse(e)'
    BY <2>3 DEF SlotUse, Serving
  <2>5. \A d \in DecisionIds \ {e} : SlotUse(d) => SlotUse(d)'
    BY <2>1, <2>2, <2>3 DEF SlotUse, Serving, Outcome, Did, Unmade, NotStored
  <2>6. NoneLost
    BY <2>1, <2>4, <2>5 DEF IsLost
  <2> QED
    BY <2>6
<1>6. ASSUME NEW h \in Handlers, ReleaseSlot(h) PROVE Goal
  <2>1. /\ pc[h] = "release" /\ pc' = [pc EXCEPT ![h] = "charge"] /\ UNCHANGED <<job, decisions, faults>>
        /\ slots' = [slots EXCEPT ![Quota(h)] = @ \ {Did(h)}]
    BY <1>6 DEF ReleaseSlot, SRem, GoTo, At, dbVars
  <2>2. /\ \A q \in QuotaKeys : slots'[q] \subseteq slots[q]
        /\ Quota(h) \in QuotaKeys /\ slots'[Quota(h)] = slots[Quota(h)] \ {Did(h)}
        /\ pc'[h] = "charge" /\ \A g \in Handlers \ {h} : pc'[g] = pc[g]
        /\ decisions[Did(h)] # None /\ job[h].principal \in Principals
    BY <1>t, <2>1 DEF TypeOK, Quota, QuotaKeys, Jobs, OutcomeSteps
  <2>3. \A d : d # Did(h) /\ SlotUse(d) => SlotUse(d)'
    BY <2>1, <2>2 DEF SlotUse, Serving, Outcome, Did, Unmade, NotStored
  <2>4. ASSUME NEW q \in QuotaKeys, NEW d \in slots'[q] PROVE d # Did(h)
    <3>1. SUFFICES ASSUME d = Did(h) PROVE FALSE
      OBVIOUS
    <3>2. PICK p \in Principals : QuotaKey(p) = q /\ p.agent_id = decisions[d].agent_id
      BY <2>2, <2>4, <3>1 DEF OwnerInv
    <3>3. p.agent_id = job[h].principal.agent_id
      BY <2>1, <3>1, <3>2 DEF OwnerInv, OutcomeSteps
    <3>4. q = Quota(h)
      BY <2>2, <3>2, <3>3 DEF OneEnvironmentPerAgent, QuotaKey, Quota
    <3> QED
      BY <2>2, <2>4, <3>1, <3>4
  <2>5. NoneLost
    BY <2>1, <2>2, <2>3, <2>4 DEF IsLost
  <2> QED
    BY <2>5
<1>7. ASSUME NEW h \in Handlers, Drop(h) PROVE Goal
  <2>1. /\ pc' = [pc EXCEPT ![h] = "idle"] /\ job' = [job EXCEPT ![h] = None]
        /\ UNCHANGED <<decisions, slots>> /\ faults' = faults + 1
    BY <1>7 DEF Drop, Finish, Fault, dbVars, redisVars
  <2>2. \A g \in Handlers \ {h} : pc'[g] = pc[g] /\ job'[g] = job[g]
    BY <1>t, <2>1 DEF TypeOK
  <2>3. \A d : d # Did(h) /\ SlotUse(d) => SlotUse(d)'
    BY <2>1, <2>2 DEF SlotUse, Serving, Outcome, Did
  <2>4. \A d \in DecisionIds : IsLost(d)' => IsLost(d) \/ d = Did(h)
    BY <2>1, <2>3 DEF IsLost
  <2> QED
    BY <2>1, <2>4
<1>8. ASSUME NEW h \in Handlers, RaiseInTry(h) PROVE Goal
  <2>1. /\ pc[h] \in {"compute", "insert"} /\ pc' = [pc EXCEPT ![h] = "undo"]
        /\ UNCHANGED <<job, slots>> /\ faults' = faults + 1
    BY <1>8 DEF RaiseInTry, GoTo, Fault, redisVars
  <2>2. \A d \in DecisionIds : SlotUse(d) => SlotUse(d)'
    <3>1. CASE UNCHANGED decisions
      <4>1. pc'[h] = "undo" /\ \A g \in Handlers \ {h} : pc'[g] = pc[g]
        BY <1>t, <2>1 DEF TypeOK
      <4> QED
        BY <2>1, <3>1, <4>1 DEF SlotUse, Serving, Outcome, Did, Unmade, NotStored
    <3>2. CASE At(h, "insert") /\ decisions' = [decisions EXCEPT ![Did(h)] = NewRow(h)]
      BY <2>1, <3>2, StoreKeepsUse DEF At
    <3> QED
      BY <1>8, <3>1, <3>2 DEF RaiseInTry
  <2>3. Kept
    BY <2>1, <2>2 DEF IsLost
  <2> QED
    BY <2>1, <2>3
<1> QED
    BY <1>1, <1>2, <1>3, <1>4, <1>5, <1>6, <1>7, <1>8

\* Counting them: a fault adds at most one.
LEMMA LostNext == SlotContext /\ OwnerInv /\ LostInv /\ [Next]_vars => LostInv'
<1> SUFFICES ASSUME SlotContext, OwnerInv, LostInv, [Next]_vars, OneEnvironmentPerAgent
             PROVE  Cardinality(Lost') <= faults'
    BY DEF LostInv, OneEnvironmentPerAgent
<1>1. /\ IsFiniteSet(Lost) /\ Cardinality(Lost) \in Nat /\ Cardinality(Lost) <= faults
      /\ faults \in Nat
  <2>1. IsFiniteSet(Lost)
    BY FiniteAssumption, FS_Subset DEF Lost
  <2> QED
    BY <2>1, FS_CardinalityType, ValuesAssumption DEF LostInv, SlotContext, TypeOK
<1>2. CASE faults' = faults /\ \A d \in DecisionIds : IsLost(d)' => IsLost(d)
  <2>1. Lost' \subseteq Lost
    BY <1>2 DEF Lost
  <2>2. Cardinality(Lost') \in Nat /\ Cardinality(Lost') <= Cardinality(Lost)
    BY <1>1, <2>1, FS_Subset, FS_CardinalityType
  <2> QED
    BY <1>1, <1>2, <2>2
<1>3. CASE /\ faults' = faults + 1
           /\ \E e : \A d \in DecisionIds : IsLost(d)' => IsLost(d) \/ d = e
  <2>1. PICK e : Lost' \subseteq Lost \cup {e}
    BY <1>3 DEF Lost
  <2>2. /\ IsFiniteSet(Lost \cup {e}) /\ Cardinality(Lost \cup {e}) \in Nat
        /\ Cardinality(Lost \cup {e}) <= Cardinality(Lost) + 1
    BY <1>1, FS_AddElement, FS_CardinalityType
  <2>3. Cardinality(Lost') \in Nat /\ Cardinality(Lost') <= Cardinality(Lost \cup {e})
    BY <2>1, <2>2, FS_Subset, FS_CardinalityType
  <2> QED
    BY <1>1, <1>3, <2>2, <2>3
<1> QED
    BY <1>2, <1>3, LostStep

AccountInv == SlotContext /\ OwnerInv /\ Undone /\ LostInv

\* The accounting invariant holds throughout.
LEMMA AccountHolds == Spec => []AccountInv
<1>1. Init => AccountInv /\ AdmissionInv
    BY TypeInit, KeyInit, AdmissionInit, AccountInit DEF AccountInv, SlotContext, AdmissionInv
<1>2. AccountInv /\ AdmissionInv /\ [Next]_vars => (AccountInv /\ AdmissionInv)'
    BY TypeNext, KeyNext, AdmissionNext, OwnerNext, UndoneNext, LostNext DEF AccountInv, SlotContext, AdmissionInv
<1> QED
    BY <1>1, <1>2, PTL DEF Spec

\* Every fault orphans at most one slot of an agent that lives in one
\* environment, and nothing else orphans any.
THEOREM SlotsLostToFaults == Spec => []SlotsAccounted
<1>1. ASSUME AccountInv, OneEnvironmentPerAgent PROVE Cardinality(Orphans) <= faults
  <2>1. Orphans \subseteq Lost
    BY DEF Orphans, Lost, IsLost, SlotUse, Status, Serving, Unmade, NotStored, CreateSteps
  <2>2. IsFiniteSet(Lost)
    BY FiniteAssumption, FS_Subset DEF Lost
  <2>3. /\ Cardinality(Orphans) \in Nat /\ Cardinality(Lost) \in Nat
        /\ Cardinality(Orphans) <= Cardinality(Lost)
    BY <2>1, <2>2, FS_Subset, FS_CardinalityType
  <2>4. Cardinality(Lost) <= faults /\ faults \in Nat
    BY <1>1, ValuesAssumption DEF AccountInv, LostInv, SlotContext, TypeOK
  <2> QED
    BY <2>3, <2>4
<1>2. AccountInv => SlotsAccounted
    BY <1>1 DEF SlotsAccounted
<1> QED
    BY <1>2, AccountHolds, PTL

\* No request, whatever becomes of it, takes the slot of an open decision
\* that is not its own: releases come after the commit of an outcome, and what
\* create_decision undoes was not stored, unless a fault hid that it was.
THEOREM OpenSlotStays == Spec => OpenDecisionKeepsSlot
<1> DEFINE Keeps ==
      \A q \in QuotaKeys : \A d \in slots[q] \ slots'[q] :
         Status(d)' = "open" =>
            \/ q \in expiring /\ UNCHANGED pc
            \/ faults > 0 /\ \E h \in Handlers : Serving(h, d, {"undo"}) /\ pc'[h] = "idle"
<1>1. ASSUME AccountInv, [Next]_vars PROVE Keeps
  <2> SUFFICES ASSUME NEW q \in QuotaKeys, NEW d \in slots[q] \ slots'[q], Status(d)' = "open"
               PROVE  \/ q \in expiring /\ UNCHANGED pc
                      \/ faults > 0 /\ \E h \in Handlers : Serving(h, d, {"undo"}) /\ pc'[h] = "idle"
    OBVIOUS
  <2>t. TypeOK /\ KeyInv /\ SlotInv /\ SlotContext /\ OwnerInv /\ Undone
    BY <1>1 DEF AccountInv, SlotContext
  <2>o. decisions'[d] # None /\ Outcome(d)' = 0
    BY DEF Status
  <2>1. CASE \E p \in QuotaKeys : ExpireSlots(p)
    BY <2>t, <2>1 DEF ExpireSlots, TypeOK
  <2>2. ASSUME NEW h \in Handlers, Unreserve(h) \/ UndoReserve(h)
        PROVE  faults > 0 /\ Serving(h, d, {"undo"}) /\ pc'[h] = "idle"
    <3>1. /\ d = Did(h) /\ UNCHANGED <<decisions, faults>> /\ pc[h] \in {"unreserve", "undo"}
          /\ pc'[h] = "idle"
      <4>1. slots' = [slots EXCEPT ![Quota(h)] = @ \ {Did(h)}]
        BY <2>2 DEF Unreserve, UndoReserve, SRem
      <4> QED
        BY <2>t, <2>2, <4>1, SlotGone DEF TypeOK
    <3>2. pc[h] = "undo"
      BY <2>t, <2>o, <3>1 DEF KeyInv, NotStored
    <3>3. faults # 0
      BY <2>t, <2>o, <3>1, <3>2 DEF Undone
    <3>4. faults > 0
      BY <2>t, <3>3, ValuesAssumption DEF TypeOK
    <3> QED
      BY <3>1, <3>2, <3>4 DEF Serving
  <2>3. ASSUME NEW h \in Handlers, ReleaseSlot(h) PROVE FALSE
    <3>1. /\ pc[h] = "release" /\ UNCHANGED decisions
          /\ slots' = [slots EXCEPT ![Quota(h)] = @ \ {Did(h)}]
      BY <2>3 DEF ReleaseSlot, SRem, At, dbVars
    <3>2. d = Did(h)
      BY <2>t, <3>1 DEF TypeOK
    <3>3. Outcome(d) > 0 /\ Outcome(d)' = Outcome(d)
      BY <2>t, <3>1, <3>2 DEF OwnerInv, Outcome
    <3> QED
      BY <2>o, <3>3
  <2>4. ASSUME NEW h \in Handlers, ReserveAdd(h) PROVE FALSE
    <3>1. PICK e \in DecisionIds \ used : slots' = [slots EXCEPT ![Quota(h)] = @ \cup {e}]
      BY <2>4 DEF ReserveAdd
    <3> QED
      BY <2>t, <3>1 DEF TypeOK
  <2>5. CASE UNCHANGED slots
    BY <2>5
  <2> QED
    BY <1>1, <2>1, <2>2, <2>3, <2>4, <2>5
       DEF Next, Request, ReplayDecision, BeginCreate, BeginOutcome, HandlerStep, CreateStep, OutcomeStep,
           RejectEarly, CheckBudget, ReserveExpire, ReserveCount, Compute, Insert, ReplyDecision,
           SelectOutcome, DeleteAttempts, CommitOutcome, RecordSpend, PublishOutcome, Drop, RaiseInTry,
           NewDay, vars, redisVars
<1>2. AccountInv /\ [Next]_vars => [Keeps]_vars
    BY <1>1
<1>3. Spec => [][Keeps]_vars
    BY <1>2, AccountHolds, PTL DEF Spec
<1> QED
    BY <1>3 DEF OpenDecisionKeepsSlot
=============================================================================
