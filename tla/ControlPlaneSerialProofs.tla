---------------------- MODULE ControlPlaneSerialProofs ----------------------
(***************************************************************************)
(* What record_outcome guarantees when the reports of one decision do not  *)
(* overlap (SerialSpec): with any number of crashes, retries, handlers and *)
(* environments a decision is charged at most once, its outcome is written *)
(* once and its attempt rows are those of that outcome.  Without the       *)
(* restriction all three fail.  From the same invariant: the refinement of *)
(* DecisionLedger and the bound on how far the daily cap is overspent.     *)
(***************************************************************************)
EXTENDS ControlPlaneProofs, BudgetExposure

\* A handler that has seen no outcome is still right about it, and one that
\* has yet to charge is the only one that can.
SerialInv ==
    /\ SerialReports
    /\ \A h \in Handlers : pc[h] \in Before => Outcome(Did(h)) = 0
    /\ \A h \in Handlers : pc[h] \in After => Outcome(Did(h)) = 1 /\ charged[Did(h)] = 0
    /\ \A d \in DecisionIds : Outcome(d) \in {0, 1} /\ charged[d] <= Outcome(d)
    /\ AttemptsMatchOutcome

Inv == TypeOK /\ KeyInv /\ SerialInv

\* Nothing is stored, charged or under way at the start.
LEMMA SerialInit == Init => SerialInv
BY DEF Init, SerialInv, SerialReports, Reporting, OutcomeSteps, Before, After, Outcome,
       AttemptsMatchOutcome

\* SerialInv is inductive relative to TypeOK and KeyInv.
LEMMA SerialNext == Inv /\ [Next /\ SerialReports']_vars => SerialInv'
<1> SUFFICES ASSUME Inv, [Next /\ SerialReports']_vars PROVE SerialInv'
    OBVIOUS
<1>t. TypeOK /\ KeyInv /\ SerialInv /\ [Next]_vars
    BY DEF Inv
<1>s. SerialReports'
  <2>1. CASE UNCHANGED vars
    BY <1>t, <2>1 DEF vars, SerialInv, SerialReports, Reporting, Did
  <2> QED
    BY <2>1
<1>d. \A h \in Handlers : pc[h] \in OutcomeSteps => Did(h) \in DecisionIds
    BY <1>t DEF TypeOK, OutcomeSteps
<1>1. CASE \A h \in Handlers : ~SelectOutcome(h) /\ ~CommitOutcome(h) /\ ~RecordSpend(h)
  <2>1. OutcomeQuiet
    BY <1>1, <1>t, OutcomeQuietSteps
  <2>2. \A h \in Handlers : pc[h] \in Before \cup After => Did(h) \in DecisionIds
    BY <1>d DEF Before, After, OutcomeSteps
  <2>3. \A h \in Handlers : pc'[h] \in Before => Outcome(Did(h))' = 0
    BY <1>t, <2>1, <2>2 DEF OutcomeQuiet, SerialInv, Outcome
  <2>4. \A h \in Handlers : pc'[h] \in After => Outcome(Did(h))' = 1 /\ charged'[Did(h)'] = 0
    BY <1>t, <2>1, <2>2 DEF OutcomeQuiet, SerialInv, Outcome
  <2>5. \A d \in DecisionIds : Outcome(d)' \in {0, 1} /\ charged'[d] <= Outcome(d)'
    BY <1>t, <2>1 DEF OutcomeQuiet, SerialInv
  <2>6. AttemptsMatchOutcome'
    BY <1>t, <2>1 DEF OutcomeQuiet, SerialInv, AttemptsMatchOutcome
  <2> QED
    BY <1>s, <2>3, <2>4, <2>5, <2>6 DEF SerialInv
<1>2. ASSUME NEW h \in Handlers, SelectOutcome(h) PROVE SerialInv'
  <2>1. /\ pc[h] = "select" /\ UNCHANGED <<decisions, attempts, charged>>
        /\ \/ /\ pc' = [pc EXCEPT ![h] = "idle"]
              /\ job' = [job EXCEPT ![h] = None]
           \/ /\ ~(decisions[Did(h)].outcome > 0)
              /\ pc' = [pc EXCEPT ![h] = "delete"] /\ job' = job
    BY <1>2 DEF SelectOutcome, AlreadyReported, At, Finish, GoTo, dbVars, history
  <2>2. Did(h) \in DecisionIds /\ decisions[Did(h)] # None /\ decisions[Did(h)] \in Rows
    BY <1>t, <2>1 DEF TypeOK, OutcomeSteps
  <2>3. pc'[h] \in Before => Outcome(Did(h)) = 0 /\ Did(h)' = Did(h)
    BY <1>t, <2>1, <2>2 DEF TypeOK, Before, Outcome, Rows, Did
  <2>4. pc'[h] \notin After
    BY <1>t, <2>1 DEF TypeOK, After
  <2>5. \A g \in Handlers \ {h} : pc'[g] = pc[g] /\ Did(g)' = Did(g)
    BY <1>t, <2>1 DEF TypeOK, Did
  <2>6. \A d : Outcome(d)' = Outcome(d)
    BY <2>1 DEF Outcome
  <2>7. \A g \in Handlers : pc'[g] \in Before => Outcome(Did(g))' = 0
    BY <1>t, <2>1, <2>3, <2>5 DEF SerialInv, Outcome
  <2>8. \A g \in Handlers : pc'[g] \in After => Outcome(Did(g))' = 1 /\ charged'[Did(g)'] = 0
    BY <1>t, <2>1, <2>4, <2>5 DEF SerialInv, Outcome
  <2>9. AttemptsMatchOutcome'
    BY <1>t, <2>1 DEF SerialInv, AttemptsMatchOutcome, Outcome
  <2>10. \A d \in DecisionIds : Outcome(d)' \in {0, 1} /\ charged'[d] <= Outcome(d)'
    BY <1>t, <2>1 DEF SerialInv, Outcome
  <2> QED
    BY <1>s, <2>7, <2>8, <2>9, <2>10 DEF SerialInv
<1>3. ASSUME NEW h \in Handlers, CommitOutcome(h) PROVE SerialInv'
  <2> DEFINE d == Did(h)
  <2>1. /\ pc[h] = "commit" /\ pc' = [pc EXCEPT ![h] = "release"]
        /\ UNCHANGED <<job, charged>>
    BY <1>3, Zenon DEF CommitOutcome, At, GoTo, history
  <2>2. /\ d \in DecisionIds /\ decisions'[d] # None
        /\ Outcome(d)' = Outcome(d) + 1
        /\ \A e \in DecisionIds \ {d} : decisions'[e] = decisions[e]
        /\ attempts' = [attempts EXCEPT ![d] = (@ \ job[h].seen) \cup {Outcome(d) + 1}]
    BY <1>t, <1>3, CommitRow, Zenon
  <2>3. Outcome(d) = 0 /\ charged[d] = 0
    BY <1>t, <2>1, <2>2 DEF SerialInv, Before, TypeOK
  <2>4. \A e \in DecisionIds \ {d} : Outcome(e)' = Outcome(e)
    BY <2>2 DEF Outcome
  <2>5. \A g \in Handlers \ {h} : pc[g] \in Before \cup After => Did(g) \in DecisionIds \ {d}
    BY <1>t, <1>d, <2>1, <2>2 DEF SerialInv, SerialReports, Reporting, OutcomeSteps, Before, After
  <2>6. \A g \in Handlers : Did(g)' = Did(g)
    BY <2>1 DEF Did
  <2>7. pc'[h] = "release" /\ \A g \in Handlers \ {h} : pc'[g] = pc[g]
    BY <1>t, <2>1 DEF TypeOK
  <2>8. Outcome(d)' = 1
    BY <2>2, <2>3
  <2>9. \A g \in Handlers : pc'[g] \in Before => Outcome(Did(g))' = 0
    BY <1>t, <2>4, <2>5, <2>6, <2>7 DEF SerialInv, Before
  <2>10. \A g \in Handlers : pc'[g] \in After => Outcome(Did(g))' = 1 /\ charged'[Did(g)'] = 0
    BY <1>t, <2>1, <2>3, <2>4, <2>5, <2>6, <2>7, <2>8 DEF SerialInv, After
  <2>e. \A e \in DecisionIds : e = d => Outcome(e)' = 1
    BY <2>6, <2>8
  <2>11. \A e \in DecisionIds : Outcome(e)' \in {0, 1} /\ charged'[e] <= Outcome(e)'
    BY <1>t, <2>1, <2>3, <2>4, <2>e DEF SerialInv
  <2>12. AttemptsMatchOutcome'
    <3>1. attempts[d] = {}
      BY <1>t, <2>2, <2>3 DEF SerialInv, AttemptsMatchOutcome
    <3>2. attempts'[d] = {1}
      BY <1>t, <2>2, <2>3, <3>1 DEF TypeOK
    <3>3. \A e \in DecisionIds \ {d} : attempts'[e] = attempts[e]
      BY <1>t, <2>2 DEF TypeOK
    <3> QED
      BY <1>t, <2>4, <2>e, <3>2, <3>3 DEF SerialInv, AttemptsMatchOutcome
  <2> QED
    BY <1>s, <2>9, <2>10, <2>11, <2>12 DEF SerialInv
<1>4. ASSUME NEW h \in Handlers, RecordSpend(h) PROVE SerialInv'
  <2> DEFINE d == Did(h)
  <2>1. /\ pc[h] = "charge" /\ pc' = [pc EXCEPT ![h] = "publish"]
        /\ UNCHANGED <<job, decisions, attempts>>
        /\ charged' = [charged EXCEPT ![d] = @ + 1]
    BY <1>4 DEF RecordSpend, At, GoTo, dbVars
  <2>2. d \in DecisionIds /\ Outcome(d) = 1 /\ charged[d] = 0
    BY <1>t, <1>d, <2>1 DEF SerialInv, After, OutcomeSteps
  <2>3. charged'[d] = 1 /\ \A e \in DecisionIds \ {d} : charged'[e] = charged[e]
    BY <1>t, <2>1, <2>2 DEF TypeOK
  <2>4. \A g \in Handlers \ {h} : pc[g] \in Before \cup After => Did(g) \in DecisionIds \ {d}
    BY <1>t, <1>d, <2>1, <2>2 DEF SerialInv, SerialReports, Reporting, OutcomeSteps, Before, After
  <2>5. \A g \in Handlers : pc'[g] \in Before \cup After => g # h /\ pc'[g] = pc[g]
    BY <1>t, <2>1 DEF TypeOK, Before, After
  <2>6. \A g \in Handlers : pc'[g] \in Before => Outcome(Did(g))' = 0
    BY <1>t, <2>1, <2>5 DEF SerialInv, Outcome, Did
  <2>7. \A g \in Handlers : pc'[g] \in After => Outcome(Did(g))' = 1 /\ charged'[Did(g)'] = 0
    BY <1>t, <2>1, <2>3, <2>4, <2>5 DEF SerialInv, Outcome, Did
  <2>8. \A e \in DecisionIds : Outcome(e)' \in {0, 1} /\ charged'[e] <= Outcome(e)'
    <3>1. \A e \in DecisionIds : Outcome(e)' = Outcome(e)
      BY <2>1 DEF Outcome
    <3> QED
      BY <1>t, <2>2, <2>3, <3>1 DEF SerialInv
  <2>9. AttemptsMatchOutcome'
    BY <1>t, <2>1 DEF SerialInv, AttemptsMatchOutcome, Outcome
  <2> QED
    BY <1>s, <2>6, <2>7, <2>8, <2>9 DEF SerialInv
<1> QED
    BY <1>1, <1>2, <1>3, <1>4

\* The three parts of Inv hold together.
LEMMA SerialInvariant == SerialSpec => []Inv
<1>1. Init => Inv
    BY TypeInit, KeyInit, SerialInit DEF Inv
<1>2. Inv /\ [Next /\ SerialReports']_vars => Inv'
  <2> SUFFICES ASSUME Inv, [Next /\ SerialReports']_vars PROVE Inv'
    OBVIOUS
  <2>1. SerialInv'
    BY SerialNext
  <2>2. TypeOK /\ KeyInv /\ [Next]_vars
    BY DEF Inv
  <2> QED
    BY <2>1, <2>2, TypeNext, KeyNext DEF Inv
<1> QED
    BY <1>1, <1>2, PTL DEF SerialSpec

\* An agent whose reports do not overlap is charged at most once for a
\* decision, whatever crashes between the commit and record_spend.
THEOREM SerialCharge == SerialSpec => []ChargedAtMostOnce
<1>1. Inv => ChargedAtMostOnce
    BY DEF Inv, TypeOK, SerialInv, ChargedAtMostOnce
<1> QED
    BY <1>1, SerialInvariant, PTL

\* The attempt rows of such a decision are those of its stored outcome.
THEOREM SerialAttempts == SerialSpec => []AttemptsMatchOutcome
<1>1. Inv => AttemptsMatchOutcome
    BY DEF Inv, SerialInv
<1> QED
    BY <1>1, SerialInvariant, PTL

\* create_decision and record_outcome never change a stored decision but by
\* writing its outcome, once.
THEOREM SerialOutcome == SerialSpec => OutcomeWrittenOnce
<1> DEFINE Written == \A d \in DecisionIds :
              decisions[d] # None =>
                 decisions'[d] = IF Outcome(d) = 0 /\ decisions'[d] # decisions[d]
                                 THEN [decisions[d] EXCEPT !.outcome = 1]
                                 ELSE decisions[d]
<1>1. Inv /\ [Next /\ SerialReports']_vars => [Written]_vars
  <2> SUFFICES ASSUME Inv, Next PROVE Written
    OBVIOUS
  <2>1. CASE \E h \in Handlers : CommitOutcome(h)
    <3>1. PICK h \in Handlers : CommitOutcome(h)
      BY <2>1
    <3>2. /\ Did(h) \in DecisionIds
          /\ decisions' = [decisions EXCEPT ![Did(h)] = [decisions[Did(h)] EXCEPT !.outcome = Outcome(Did(h)) + 1]]
          /\ \A e \in DecisionIds \ {Did(h)} : decisions'[e] = decisions[e]
      BY <3>1, CommitRow, Zenon DEF Inv
    <3>3. Outcome(Did(h)) = 0
      <4>1. pc[h] = "commit"
        BY <3>1, Zenon DEF CommitOutcome, At
      <4> QED
        BY <4>1 DEF Inv, SerialInv, Before
    <3>4. DOMAIN decisions = DecisionIds
      BY DEF Inv, TypeOK
    <3>5. decisions'[Did(h)] = [decisions[Did(h)] EXCEPT !.outcome = Outcome(Did(h)) + 1]
      BY <3>2, <3>4, Zenon
    <3>6. Outcome(Did(h)) + 1 = 1
      BY <3>3
    <3>7. decisions'[Did(h)] = [decisions[Did(h)] EXCEPT !.outcome = 1]
      BY <3>5, <3>6, Zenon
    <3>8. ASSUME NEW d \in DecisionIds
          PROVE  decisions'[d] = IF Outcome(d) = 0 /\ decisions'[d] # decisions[d]
                                 THEN [decisions[d] EXCEPT !.outcome = 1]
                                 ELSE decisions[d]
      <4>1. CASE d = Did(h)
        BY <4>1, <3>3, <3>7, Zenon
      <4>2. CASE d # Did(h)
        BY <4>2, <3>2, Zenon
      <4> QED
        BY <4>1, <4>2
    <3> QED
      BY <3>8
  <2>2. CASE \A h \in Handlers : ~CommitOutcome(h)
    <3>1. CASE \E h \in Handlers : SelectOutcome(h) \/ RecordSpend(h)
      BY <3>1, Zenon DEF SelectOutcome, RecordSpend, dbVars
    <3>2. CASE \A h \in Handlers : ~SelectOutcome(h) /\ ~RecordSpend(h)
      <4>1. OutcomeQuiet
        BY <2>2, <3>2, OutcomeQuietSteps DEF Inv
      <4> QED
        BY <4>1, Zenon DEF OutcomeQuiet
    <3> QED
      BY <3>1, <3>2
  <2> QED
    BY <2>1, <2>2
<1> QED
    BY <1>1, SerialInvariant, PTL DEF SerialSpec, OutcomeWrittenOnce
-----------------------------------------------------------------------------
(* ControlPlane implements DecisionLedger.  A decision's status, charges and *)
(* events are the refinement mapping; five steps move it, every other step   *)
(* stutters.                                                                 *)

\* A handler about to publish has charged and is alone with its decision.
PublishInv ==
    /\ \A d \in DecisionIds : published[d] <= charged[d]
    /\ \A h \in Handlers : pc[h] = "publish" => charged[Did(h)] = 1 /\ published[Did(h)] = 0

LedgerInv == Inv /\ PublishInv

LedgerQuiet ==
    /\ UNCHANGED <<decisions, charged, published>>
    /\ \A h \in Handlers : pc'[h] = "publish" => pc[h] = "publish" /\ Did(h)' = Did(h)

\* The steps that touch neither rows of decisions nor charges nor events.
LEMMA LedgerQuietSteps ==
    ASSUME TypeOK, [Next]_vars,
           \A h \in Handlers : /\ ~Insert(h) /\ ~RaiseInTry(h) /\ ~CommitOutcome(h)
                               /\ ~RecordSpend(h) /\ ~PublishOutcome(h)
    PROVE  LedgerQuiet
<1> USE DEF TypeOK, LedgerQuiet, Did, At, dbVars, history
<1>r. ASSUME NEW h \in Handlers, Request(h) PROVE LedgerQuiet
    BY <1>r DEF Request, ReplayDecision, BeginCreate, BeginOutcome
<1>1. ASSUME NEW h \in Handlers, RejectEarly(h) PROVE LedgerQuiet
    BY <1>1 DEF RejectEarly, Finish
<1>2. ASSUME NEW h \in Handlers, CheckBudget(h) PROVE LedgerQuiet
    BY <1>2 DEF CheckBudget, Finish, GoTo
<1>3. ASSUME NEW h \in Handlers, ReserveExpire(h) PROVE LedgerQuiet
    BY <1>3 DEF ReserveExpire, GoTo
<1>4. ASSUME NEW h \in Handlers, ReserveCount(h) PROVE LedgerQuiet
    BY <1>4 DEF ReserveCount, GoTo
<1>5. ASSUME NEW h \in Handlers, Unreserve(h) PROVE LedgerQuiet
    BY <1>5 DEF Unreserve, Finish
<1>6. ASSUME NEW h \in Handlers, Compute(h) PROVE LedgerQuiet
    BY <1>6 DEF Compute, GoTo
<1>7. ASSUME NEW h \in Handlers, UndoReserve(h) PROVE LedgerQuiet
    BY <1>7 DEF UndoReserve, Finish
<1>8. ASSUME NEW h \in Handlers, ReplyDecision(h) PROVE LedgerQuiet
    BY <1>8 DEF ReplyDecision, Finish
<1>9. ASSUME NEW h \in Handlers, SelectOutcome(h) PROVE LedgerQuiet
    BY <1>9 DEF SelectOutcome, Finish, GoTo
<1>10. ASSUME NEW h \in Handlers, ReleaseSlot(h) PROVE LedgerQuiet
    BY <1>10 DEF ReleaseSlot, GoTo
<1>11. ASSUME NEW h \in Handlers, Drop(h) PROVE LedgerQuiet
    BY <1>11 DEF Drop, Finish
<1>12. ASSUME NEW h \in Handlers, ReserveAdd(h) \/ DeleteAttempts(h) PROVE LedgerQuiet
  <2>1. /\ pc' \in {[pc EXCEPT ![h] = "expire"], [pc EXCEPT ![h] = "commit"]}
        /\ UNCHANGED <<decisions, charged, published>>
    BY <1>12, Zenon DEF ReserveAdd, DeleteAttempts
  <2>2. \E j : job' = [job EXCEPT ![h] = j]
    BY <1>12, Zenon DEF ReserveAdd, DeleteAttempts
  <2> QED
    BY <2>1, <2>2
<1>13. ASSUME NEW q \in QuotaKeys, ExpireSlots(q) PROVE LedgerQuiet
    BY <1>13 DEF ExpireSlots
<1>14. CASE NewDay
    BY <1>14 DEF NewDay
<1>15. CASE UNCHANGED vars
    BY <1>15 DEF vars
<1> QED
    BY <1>r, <1>1, <1>2, <1>3, <1>4, <1>5, <1>6, <1>7, <1>8, <1>9, <1>10, <1>11, <1>12, <1>13, <1>14, <1>15 DEF Next, HandlerStep, CreateStep, OutcomeStep

\* The charge of an outcome: the decision is completed, not charged yet, and
\* no other handler is about to publish it.
LEMMA ChargeStep ==
    ASSUME LedgerInv, NEW h \in Handlers, RecordSpend(h)
    PROVE  LET d == Did(h)
           IN /\ d \in DecisionIds /\ Outcome(d) = 1 /\ decisions[d] # None
              /\ charged[d] = 0 /\ published[d] = 0
              /\ charged' = [charged EXCEPT ![d] = 1]
              /\ pc' = [pc EXCEPT ![h] = "publish"]
              /\ UNCHANGED <<job, decisions, published>>
              /\ \A g \in Handlers \ {h} : pc[g] = "publish" => Did(g) # d
<1>1. /\ pc[h] = "charge" /\ pc' = [pc EXCEPT ![h] = "publish"]
      /\ UNCHANGED <<job, decisions, published>>
      /\ charged' = [charged EXCEPT ![Did(h)] = @ + 1]
    BY DEF RecordSpend, At, GoTo, dbVars
<1>2. TypeOK /\ SerialInv /\ PublishInv
    BY DEF LedgerInv, Inv
<1>3. Did(h) \in DecisionIds /\ Outcome(Did(h)) = 1 /\ charged[Did(h)] = 0
    BY <1>1, <1>2 DEF SerialInv, After, TypeOK, OutcomeSteps
<1>4. decisions[Did(h)] # None
    BY <1>3 DEF Outcome
<1>5. published[Did(h)] = 0
    BY <1>2, <1>3 DEF PublishInv, TypeOK
<1>6. \A g \in Handlers \ {h} : pc[g] = "publish" => Did(g) # Did(h)
    BY <1>1, <1>2, <1>3 DEF SerialInv, SerialReports, Reporting, OutcomeSteps
<1> QED
    BY <1>1, <1>3, <1>4, <1>5, <1>6

\* The event of an outcome: the decision is charged and not announced yet.
LEMMA AnnounceStep ==
    ASSUME LedgerInv, NEW h \in Handlers, PublishOutcome(h)
    PROVE  LET d == Did(h)
           IN /\ d \in DecisionIds /\ charged[d] = 1 /\ published[d] = 0
              /\ published' = [published EXCEPT ![d] = 1]
              /\ pc' = [pc EXCEPT ![h] = "idle"] /\ job' = [job EXCEPT ![h] = None]
              /\ UNCHANGED <<decisions, charged>>
              /\ \A g \in Handlers \ {h} : pc[g] = "publish" => Did(g) # d
<1>1. /\ pc[h] = "publish" /\ pc' = [pc EXCEPT ![h] = "idle"] /\ job' = [job EXCEPT ![h] = None]
      /\ UNCHANGED <<decisions, charged>>
      /\ published' = [published EXCEPT ![Did(h)] = @ + 1]
    BY DEF PublishOutcome, At, Finish, dbVars
<1>2. TypeOK /\ SerialInv /\ PublishInv
    BY DEF LedgerInv, Inv
<1>3. Did(h) \in DecisionIds
    BY <1>1, <1>2 DEF TypeOK, OutcomeSteps
<1>4. charged[Did(h)] = 1 /\ published[Did(h)] = 0
    BY <1>1, <1>2 DEF PublishInv
<1>5. \A g \in Handlers \ {h} : pc[g] = "publish" => Did(g) # Did(h)
    BY <1>1, <1>2, <1>3 DEF SerialInv, SerialReports, Reporting, OutcomeSteps
<1> QED
    BY <1>1, <1>3, <1>4, <1>5

\* The insertion of a decision, acknowledged or not: its row is new.
LEMMA OpenStep ==
    ASSUME TypeOK, KeyInv, NEW h \in Handlers, Insert(h) \/ RaiseInTry(h)
    PROVE  /\ UNCHANGED <<charged, published, job>>
           /\ pc' \in {[pc EXCEPT ![h] = "undo"], [pc EXCEPT ![h] = "reply"]}
           /\ \/ UNCHANGED decisions
              \/ /\ Did(h) \in DecisionIds /\ decisions[Did(h)] = None
                 /\ decisions' = [decisions EXCEPT ![Did(h)] = NewRow(h)]
<1>1. /\ UNCHANGED <<charged, published, job>>
      /\ pc' \in {[pc EXCEPT ![h] = "undo"], [pc EXCEPT ![h] = "reply"]}
      /\ \/ UNCHANGED decisions
         \/ pc[h] = "insert" /\ decisions' = [decisions EXCEPT ![Did(h)] = NewRow(h)]
    BY Zenon DEF Insert, RaiseInTry, GoTo, At, history
<1>2. pc[h] = "insert" => Did(h) \in DecisionIds /\ decisions[Did(h)] = None
    BY DEF TypeOK, KeyInv, NotStored
<1> QED
    BY <1>1, <1>2

\* PublishInv is inductive relative to Inv.
LEMMA PublishNext == LedgerInv /\ [Next]_vars => PublishInv'
<1> SUFFICES ASSUME LedgerInv, [Next]_vars PROVE PublishInv'
    OBVIOUS
<1>t. TypeOK /\ KeyInv /\ PublishInv
    BY DEF LedgerInv, Inv
<1>d. \A h \in Handlers : pc[h] = "publish" => Did(h) \in DecisionIds
    BY <1>t DEF TypeOK, OutcomeSteps
<1>1. CASE \A h \in Handlers : /\ ~Insert(h) /\ ~RaiseInTry(h) /\ ~CommitOutcome(h)
                               /\ ~RecordSpend(h) /\ ~PublishOutcome(h)
    BY <1>1, <1>t, LedgerQuietSteps DEF LedgerQuiet, PublishInv
<1>2. ASSUME NEW h \in Handlers, Insert(h) \/ RaiseInTry(h) PROVE PublishInv'
  <2>1. /\ UNCHANGED <<charged, published, job>>
        /\ pc' \in {[pc EXCEPT ![h] = "undo"], [pc EXCEPT ![h] = "reply"]}
    BY <1>2, <1>t, OpenStep
  <2> QED
    BY <1>t, <2>1 DEF PublishInv, TypeOK, Did
<1>3. ASSUME NEW h \in Handlers, CommitOutcome(h) PROVE PublishInv'
  <2>1. pc' = [pc EXCEPT ![h] = "release"] /\ UNCHANGED <<job, charged, published>>
    BY <1>3, Zenon DEF CommitOutcome, GoTo, history
  <2> QED
    BY <1>t, <2>1 DEF PublishInv, TypeOK, Did
<1>4. ASSUME NEW h \in Handlers, RecordSpend(h) PROVE PublishInv'
    BY <1>4, <1>t, <1>d, ChargeStep DEF PublishInv, TypeOK, Did
<1>5. ASSUME NEW h \in Handlers, PublishOutcome(h) PROVE PublishInv'
    BY <1>5, <1>t, <1>d, AnnounceStep DEF PublishInv, TypeOK, Did
<1> QED
    BY <1>1, <1>2, <1>3, <1>4, <1>5

LEMMA LedgerInvariant == SerialSpec => []LedgerInv
<1>1. Init => PublishInv
    BY DEF Init, PublishInv
<1>2. LedgerInv /\ [Next /\ SerialReports']_vars => PublishInv'
    BY PublishNext
<1> QED
    BY <1>1, <1>2, SerialInvariant, PTL DEF SerialSpec, LedgerInv

-----------------------------------------------------------------------------

\* The status of every decision, as the refinement mapping gives it.
Statuses == [d \in DecisionIds |-> Status(d)]

\* Storing the row of a new decision opens it.
LEMMA OpensOne ==
    ASSUME TypeOK, NEW h \in Handlers, job[h] # None, Did(h) \in DecisionIds,
           decisions[Did(h)] = None, decisions' = [decisions EXCEPT ![Did(h)] = NewRow(h)]
    PROVE  Statuses[Did(h)] = "absent" /\ Statuses' = [Statuses EXCEPT ![Did(h)] = "open"]
<1> DEFINE d == Did(h)
           row == NewRow(h)
<1>1. job[h] \in Jobs
    BY DEF TypeOK
<1>2. row \in Rows /\ row.outcome = 0
    BY <1>1 DEF NewRow, Rows, Jobs, AgentIds
<1>3. row # None
    BY <1>2, NoneAssumption
<1>4. decisions' = [decisions EXCEPT ![d] = row]
    OBVIOUS
<1> HIDE DEF row, d
<1>5. d \in DecisionIds /\ decisions[d] = None
    BY DEF d
<1>6. decisions'[d] = row /\ \A e \in DecisionIds \ {d} : decisions'[e] = decisions[e]
    BY <1>4, <1>5 DEF TypeOK
<1>7. \A f \in DecisionIds : f = d => Status(f)' = "open"
    BY <1>2, <1>3, <1>6 DEF Status, Outcome
<1>8. \A e \in DecisionIds \ {d} : Status(e)' = Status(e)
    BY <1>6 DEF Status, Outcome
<1>9. Status(d) = "absent"
    BY <1>5 DEF Status
<1> QED
    BY <1>5, <1>7, <1>8, <1>9 DEF Statuses, d

\* The commit of a report completes its decision.
LEMMA CompletesOne ==
    ASSUME Inv, NEW h \in Handlers, CommitOutcome(h)
    PROVE  /\ Did(h) \in DecisionIds /\ Statuses[Did(h)] = "open"
           /\ Statuses' = [Statuses EXCEPT ![Did(h)] = "completed"]
<1> DEFINE d == Did(h)
<1>1. TypeOK /\ SerialInv
    BY DEF Inv
<1>2. pc[h] = "commit" /\ UNCHANGED job
    BY Zenon DEF CommitOutcome, At, GoTo
<1>3. /\ d \in DecisionIds /\ decisions[d] # None /\ decisions'[d] # None
      /\ Outcome(d)' = Outcome(d) + 1
      /\ \A e \in DecisionIds \ {d} : decisions'[e] = decisions[e]
    BY <1>1, CommitRow, Zenon
<1>4. Outcome(d) = 0
    BY <1>1, <1>2 DEF SerialInv, Before
<1>5. d' = d
    BY <1>2 DEF Did
<1> HIDE DEF d
<1>6. Status(d) = "open"
    BY <1>3, <1>4 DEF Status
<1>7. \A f \in DecisionIds : f = d => Status(f)' = "completed"
    BY <1>3, <1>4, <1>5 DEF Status
<1>8. \A e \in DecisionIds \ {d} : Status(e)' = Status(e)
    BY <1>3 DEF Status, Outcome
<1> QED
    BY <1>3, <1>6, <1>7, <1>8 DEF Statuses, d

\* Every step of the control plane is a step of the ledger or leaves it alone.
LEMMA LedgerStep == LedgerInv /\ [Next]_vars => [Ledger!Next]_(Ledger!ledger)
<1> DEFINE Moves == Ledger!Next \/ UNCHANGED Ledger!ledger
<1> SUFFICES ASSUME LedgerInv, [Next]_vars PROVE Moves
    OBVIOUS
<1>t. Inv /\ TypeOK /\ KeyInv /\ SerialInv
    BY DEF LedgerInv, Inv
<1>u. ASSUME UNCHANGED <<decisions, charged, published>> PROVE Moves
    BY <1>u DEF Ledger!ledger, Status, Outcome
<1>1. CASE \A h \in Handlers : /\ ~Insert(h) /\ ~RaiseInTry(h) /\ ~CommitOutcome(h)
                               /\ ~RecordSpend(h) /\ ~PublishOutcome(h)
    BY <1>1, <1>t, <1>u, LedgerQuietSteps DEF LedgerQuiet
<1>2. ASSUME NEW h \in Handlers, Insert(h) \/ RaiseInTry(h) PROVE Moves
  <2>1. UNCHANGED <<charged, published>> /\ job[h] # None
    <3>1. pc[h] \in {"compute", "insert"}
      BY <1>2, Zenon DEF Insert, RaiseInTry, At
    <3> QED
      BY <1>2, <1>t, <3>1, OpenStep DEF TypeOK
  <2>2. CASE UNCHANGED decisions
    BY <1>u, <2>1, <2>2
  <2>3. CASE /\ Did(h) \in DecisionIds /\ decisions[Did(h)] = None
             /\ decisions' = [decisions EXCEPT ![Did(h)] = NewRow(h)]
    <3>1. Ledger!Open(Did(h))
      BY <1>t, <2>1, <2>3, OpensOne DEF Ledger!Open, Statuses
    <3> QED
      BY <2>3, <3>1 DEF Ledger!Next
  <2> QED
    BY <1>2, <1>t, <2>2, <2>3, OpenStep
<1>3. ASSUME NEW h \in Handlers, CommitOutcome(h) PROVE Moves
  <2>1. UNCHANGED <<charged, published>>
    BY <1>3, Zenon DEF CommitOutcome, history
  <2>2. Ledger!Complete(Did(h)) /\ Did(h) \in DecisionIds
    BY <1>3, <1>t, <2>1, CompletesOne DEF Ledger!Complete, Statuses
  <2> QED
    BY <2>2 DEF Ledger!Next
<1>4. ASSUME NEW h \in Handlers, RecordSpend(h) PROVE Moves
  <2>1. /\ Did(h) \in DecisionIds /\ Status(Did(h)) = "completed" /\ charged[Did(h)] = 0
        /\ charged' = [charged EXCEPT ![Did(h)] = 1] /\ UNCHANGED <<decisions, published>>
    BY <1>4, ChargeStep DEF Status
  <2>2. Ledger!Charge(Did(h))
    BY <2>1 DEF Ledger!Charge, Status, Outcome
  <2> QED
    BY <2>1, <2>2 DEF Ledger!Next
<1>5. ASSUME NEW h \in Handlers, PublishOutcome(h) PROVE Moves
  <2>1. /\ Did(h) \in DecisionIds /\ charged[Did(h)] = 1 /\ published[Did(h)] = 0
        /\ published' = [published EXCEPT ![Did(h)] = 1] /\ UNCHANGED <<decisions, charged>>
    BY <1>5, AnnounceStep
  <2>2. Ledger!Announce(Did(h))
    BY <2>1 DEF Ledger!Announce, Status, Outcome
  <2> QED
    BY <2>1, <2>2 DEF Ledger!Next
<1> QED
    BY <1>1, <1>2, <1>3, <1>4, <1>5

\* When the reports of one decision do not overlap, the handlers implement
\* the ledger, for every number of handlers, decisions, credentials and
\* faults: opened, completed, charged, announced, each at most once and in
\* this order.
THEOREM LedgerRefinement == SerialSpec => ImplementsLedger
<1>1. Init => Ledger!Init
    BY DEF Init, Ledger!Init, Status
<1>2. LedgerInv /\ [Next /\ SerialReports']_vars => [Ledger!Next]_(Ledger!ledger)
    BY LedgerStep
<1> QED
    BY <1>1, <1>2, LedgerInvariant, PTL DEF SerialSpec, ImplementsLedger, Ledger!Spec
-----------------------------------------------------------------------------
(* OverspendIsBounded.  Every request that passed the check keeps its place   *)
(* in Exposed until it is charged or lost, so what the counter of a quota key *)
(* and its uncharged requests come to never grows but when a request passes   *)
(* the check, and then the counter is below the cap.                          *)

\* A set of numbers that is not empty has a least member.
LEMMA LeastNatural ==
    ASSUME NEW T \in SUBSET Nat, T # {}
    PROVE  \E x \in T : \A y \in T : x <= y
<1> DEFINE R == {ss \in Nat \X Nat : ss[1] < ss[2]}
<1>0. OpToRel(<, Nat) = R
    BY Zenon DEF OpToRel
<1>1. IsWellFoundedOn(R, Nat)
    BY <1>0, NatLessThanWellFounded, Zenon
<1>2. \A x, y \in Nat : <<x, y>> \in R <=> x < y
    OBVIOUS
<1> HIDE DEF R
<1>3. PICK x \in T : \A y \in T : ~(<<y, x>> \in R)
    BY <1>1, WFMin, Zenon
<1>4. \A y \in T : y \in Nat /\ ~(y < x)
    BY <1>2, <1>3
<1> QED
    BY <1>4

\* A finite set of numbers that is not empty has a greatest member: the
\* smallest subset without one would still lack it without any one member.
LEMMA GreatestNatural ==
    ASSUME NEW S \in SUBSET Nat, IsFiniteSet(S), S # {}
    PROVE  \E x \in S : \A y \in S : y <= x
<1> DEFINE Topless(U) == U # {} /\ ~\E x \in U : \A y \in U : y <= x
           Sizes == {n \in Nat : \E U \in SUBSET S : Topless(U) /\ Cardinality(U) = n}
<1> SUFFICES ASSUME Topless(S) PROVE FALSE
    OBVIOUS
<1>1. \A U \in SUBSET S : IsFiniteSet(U) /\ Cardinality(U) \in Nat
    BY FS_Subset, FS_CardinalityType
<1>2. Cardinality(S) \in Sizes
    BY <1>1
<1>3. PICK n \in Sizes : \A k \in Sizes : n <= k
    BY <1>2, LeastNatural
<1>4. PICK U \in SUBSET S : Topless(U) /\ Cardinality(U) = n
    BY <1>3
<1>5. PICK a \in U : TRUE
    BY <1>4
<1> DEFINE V == U \ {a}
<1>6. Cardinality(V) = n - 1 /\ Cardinality(V) \in Nat /\ V \in SUBSET S
    BY <1>1, <1>4, <1>5, FS_RemoveElement
<1>7. ~Topless(V)
  <2>1. Topless(V) => Cardinality(V) \in Sizes
    BY <1>6
  <2>2. Cardinality(V) \in Sizes => n <= Cardinality(V)
    BY <1>3, Zenon
  <2>3. ~(n <= Cardinality(V)) /\ n \in Nat
    BY <1>6
  <2> QED
    BY <2>1, <2>2, <2>3, Zenon
<1>8. CASE V = {}
    BY <1>4, <1>5, <1>8
<1>9. CASE V # {}
  <2>1. PICK x \in V : \A y \in V : y <= x
    BY <1>7, <1>9
  <2>2. x \in Nat /\ a \in Nat /\ x \in U
    BY <2>1, <1>5
  <2>3. (\A y \in U : y <= x) \/ (\A y \in U : y <= a)
    BY <2>1, <2>2
  <2> QED
    BY <1>4, <1>5, <2>2, <2>3
<1> QED
    BY <1>8, <1>9

\* Max and Min are what they say where there is a greatest or least member.
LEMMA MaxIs ==
    ASSUME NEW S \in SUBSET Int, NEW x \in S, \A y \in S : y <= x
    PROVE  Max(S) \in S /\ \A y \in S : y <= Max(S)
BY DEF Max

LEMMA MaxOfTwo ==
    ASSUME NEW a \in Int, NEW b \in Int
    PROVE  Max({a, b}) \in {a, b} /\ a <= Max({a, b}) /\ b <= Max({a, b})
<1>1. CASE a <= b
    BY <1>1, MaxIs
<1>2. CASE b <= a
    BY <1>2, MaxIs
<1> QED
    BY <1>1, <1>2

LEMMA AmountBounds ==
    /\ Max(Amounts) \in Nat /\ Min(Amounts) \in Nat
    /\ \A a \in Amounts : a \in Nat /\ Min(Amounts) <= a /\ a <= Max(Amounts)
<1>1. Amounts \in SUBSET Nat /\ Amounts # {}
    BY ValuesAssumption, AmountsAssumption
<1>2. Max(Amounts) \in Amounts /\ \A a \in Amounts : a <= Max(Amounts)
  <2>1. PICK m \in Amounts : \A b \in Amounts : b <= m
    BY AmountsAssumption
  <2> QED
    BY <1>1, <2>1, MaxIs
<1>3. Min(Amounts) \in Amounts /\ \A a \in Amounts : Min(Amounts) <= a
    BY <1>1, LeastNatural DEF Min
<1> QED
    BY <1>1, <1>2, <1>3

\* The cap of a quota key is the largest cap of its credentials.
LEMMA CapBounds ==
    ASSUME NEW q \in QuotaKeys
    PROVE  CapOf(q) \in Nat /\ \A p \in Principals : QuotaKey(p) = q => p.daily_budget_usd <= CapOf(q)
<1> DEFINE P == {x \in Principals : QuotaKey(x) = q}
           C == {p.daily_budget_usd : p \in P}
           f == [p \in P |-> p.daily_budget_usd]
<1>1. IsFiniteSet(P) /\ P # {}
    BY FiniteAssumption, FS_Subset DEF QuotaKeys
<1>2. f \in Surjection(P, C)
    BY DEF Surjection
<1>3. IsFiniteSet(C)
    BY <1>1, <1>2, FS_Surjection, Zenon
<1>4. C \in SUBSET Nat /\ C # {}
    BY <1>1, PrincipalsAssumption
<1>5. CapOf(q) = Max(C)
    BY DEF CapOf
<1>6. Max(C) \in C /\ \A y \in C : y <= Max(C)
  <2> HIDE DEF C
  <2>1. PICK x \in C : \A y \in C : y <= x
    BY <1>3, <1>4, GreatestNatural
  <2> QED
    BY <1>4, <2>1, MaxIs
<1> QED
    BY <1>4, <1>5, <1>6

Passing == {"reserve", "expire", "count", "unreserve", "compute", "insert"}
Speaking == {"delete", "commit", "release", "charge"}

\* Every row names a quota key of some credential.
RowInv ==
    \A d \in DecisionIds : decisions[d] # None =>
       \E p \in Principals : /\ p.agent_id = decisions[d].agent_id
                             /\ p.environment = decisions[d].environment

\* What a quota key may come to, before the exposure is added.
Allowance(q) == Max({CapOf(q), Min(Amounts)}) - Min(Amounts)

\* The counter and the uncharged requests of a quota key, each at the largest
\* amount, stay within the allowance and the largest exposure so far.
Headroom ==
    OneEnvironmentPerAgent =>
       \A q \in QuotaKeys :
          /\ peak[q] \in Nat
          /\ Exposed(q) <= peak[q]
          /\ spend[q] + Exposed(q) * Max(Amounts) <= Allowance(q) + peak[q] * Max(Amounts)

BudgetContext == AdmissionInv /\ KeyInv /\ OwnerInv /\ SerialInv /\ RowInv

\* The steps that let nothing through, charge nothing and lose nothing, seen
\* from the counters, the handlers and the rows.
BudgetQuiet ==
    /\ \A q \in QuotaKeys : spend'[q] <= spend[q]
    /\ \A h \in Handlers :
          /\ pc'[h] \in Passing => pc[h] \in Passing /\ Quota(h)' = Quota(h)
          /\ pc'[h] \in Speaking <=> pc[h] \in Speaking
          /\ pc[h] \in Speaking => Quota(h)' = Quota(h) /\ Did(h)' = Did(h)

\* All steps but those five.
LEMMA BudgetQuietSteps ==
    ASSUME TypeOK, [Next]_vars,
           \A h \in Handlers : /\ ~CheckBudget(h) /\ ~Insert(h) /\ ~RaiseInTry(h)
                               /\ ~SelectOutcome(h) /\ ~RecordSpend(h) /\ ~Drop(h)
    PROVE  BudgetQuiet
<1> USE DEF TypeOK, BudgetQuiet, Passing, Speaking, Quota, Did, At, redisVars, dbVars, history
<1>r. ASSUME NEW h \in Handlers, Request(h) PROVE BudgetQuiet
    BY <1>r DEF Request, ReplayDecision, BeginCreate, BeginOutcome
<1>1. ASSUME NEW h \in Handlers, RejectEarly(h) PROVE BudgetQuiet
    BY <1>1 DEF RejectEarly, Finish
<1>2. ASSUME NEW h \in Handlers, ReserveAdd(h) PROVE BudgetQuiet
  <2>1. /\ pc[h] = "reserve" /\ pc' = [pc EXCEPT ![h] = "expire"]
        /\ UNCHANGED spend
    BY <1>2 DEF ReserveAdd
  <2>2. PICK d \in DecisionIds \ used : job' = [job EXCEPT ![h].did = d]
    BY <1>2 DEF ReserveAdd
  <2> DEFINE j == [job[h] EXCEPT !.did = d]
  <2>3. job' = [job EXCEPT ![h] = j]
    BY <2>2, Zenon
  <2>4. j.principal = job[h].principal
    BY <2>1 DEF Jobs
  <2> HIDE DEF j
  <2> QED
    BY <2>1, <2>3, <2>4
<1>3. ASSUME NEW h \in Handlers, ReserveExpire(h) PROVE BudgetQuiet
    BY <1>3 DEF ReserveExpire, GoTo
<1>4. ASSUME NEW h \in Handlers, ReserveCount(h) PROVE BudgetQuiet
    BY <1>4 DEF ReserveCount, GoTo
<1>5. ASSUME NEW h \in Handlers, Unreserve(h) PROVE BudgetQuiet
    BY <1>5 DEF Unreserve, Finish
<1>6. ASSUME NEW h \in Handlers, Compute(h) PROVE BudgetQuiet
    BY <1>6 DEF Compute, GoTo
<1>7. ASSUME NEW h \in Handlers, UndoReserve(h) PROVE BudgetQuiet
    BY <1>7 DEF UndoReserve, Finish
<1>8. ASSUME NEW h \in Handlers, ReplyDecision(h) PROVE BudgetQuiet
    BY <1>8 DEF ReplyDecision, Finish
<1>9. ASSUME NEW h \in Handlers, DeleteAttempts(h) PROVE BudgetQuiet
  <2>1. /\ pc[h] = "delete" /\ pc' = [pc EXCEPT ![h] = "commit"]
        /\ UNCHANGED spend
    BY <1>9 DEF DeleteAttempts
  <2> DEFINE j == [job[h] EXCEPT !.seen = attempts[Did(h)]]
  <2>2. job' = [job EXCEPT ![h] = j]
    BY <1>9, Zenon DEF DeleteAttempts
  <2>3. j.principal = job[h].principal /\ j.did = job[h].did
    BY <2>1 DEF Jobs
  <2> HIDE DEF j
  <2> QED
    BY <2>1, <2>2, <2>3
<1>10. ASSUME NEW h \in Handlers, CommitOutcome(h) PROVE BudgetQuiet
  <2>1. /\ pc[h] = "commit" /\ pc' = [pc EXCEPT ![h] = "release"]
        /\ UNCHANGED <<job, spend>>
    BY <1>10, Zenon DEF CommitOutcome, GoTo
  <2> QED
    BY <2>1
<1>11. ASSUME NEW h \in Handlers, ReleaseSlot(h) PROVE BudgetQuiet
    BY <1>11 DEF ReleaseSlot, GoTo
<1>12. ASSUME NEW h \in Handlers, PublishOutcome(h) PROVE BudgetQuiet
    BY <1>12 DEF PublishOutcome, Finish
<1>13. ASSUME NEW q \in QuotaKeys, ExpireSlots(q) PROVE BudgetQuiet
    BY <1>13 DEF ExpireSlots
<1>14. CASE NewDay
    BY <1>14 DEF NewDay
<1>15. CASE UNCHANGED vars
    BY <1>15 DEF vars
<1> QED
    BY <1>r, <1>1, <1>2, <1>3, <1>4, <1>5, <1>6, <1>7, <1>8, <1>9, <1>10, <1>11, <1>12, <1>13, <1>14, <1>15 DEF Next, HandlerStep, CreateStep, OutcomeStep

\* An unreported decision of q stays so in its row unless it is new.
LEMMA OpenBefore ==
    ASSUME TypeOK, KeyInv, [Next]_vars, \A h \in Handlers : ~Insert(h) /\ ~RaiseInTry(h),
           NEW d \in DecisionIds, Status(d)' = "open"
    PROVE  Status(d) = "open" /\ decisions'[d] = decisions[d]
<1>1. CASE \E h \in Handlers : CommitOutcome(h)
  <2>1. PICK h \in Handlers : CommitOutcome(h)
    BY <1>1
  <2>2. /\ Did(h) \in DecisionIds /\ decisions[Did(h)] \in Rows /\ decisions[Did(h)] # None
        /\ decisions'[Did(h)] # None
        /\ Outcome(Did(h))' = Outcome(Did(h)) + 1
        /\ \A e \in DecisionIds \ {Did(h)} : decisions'[e] = decisions[e]
    BY <2>1, CommitRow, Zenon
  <2>3. Outcome(Did(h)) \in Nat /\ Did(h)' = Did(h)
    BY <2>1, <2>2 DEF Outcome, Rows, CommitOutcome, GoTo, Did
  <2>4. CASE d = Did(h)
    <3>1. Outcome(d)' = Outcome(d) + 1 /\ Outcome(d) \in Nat /\ decisions'[d] # None
      BY <2>2, <2>3, <2>4
    <3> QED
      BY <3>1 DEF Status
  <2>5. CASE d # Did(h)
    BY <2>2, <2>5 DEF Status, Outcome
  <2> QED
    BY <2>4, <2>5
<1>2. CASE \A h \in Handlers : ~CommitOutcome(h)
  <2>1. CASE \E h \in Handlers : RecordSpend(h) \/ PublishOutcome(h)
    BY <2>1 DEF RecordSpend, PublishOutcome, dbVars, Status, Outcome
  <2>2. CASE \A h \in Handlers : ~RecordSpend(h) /\ ~PublishOutcome(h)
    BY <1>2, <2>2, LedgerQuietSteps DEF LedgerQuiet, Status, Outcome
  <2> QED
    BY <2>1, <2>2
<1> QED
    BY <1>1, <1>2

\* Rows are written with the credential that is being served.
LEMMA RowNext == TypeOK /\ KeyInv /\ RowInv /\ [Next]_vars => RowInv'
<1> SUFFICES ASSUME TypeOK, KeyInv, RowInv, [Next]_vars PROVE RowInv'
    OBVIOUS
<1>u. ASSUME UNCHANGED decisions PROVE RowInv'
    BY <1>u DEF RowInv
<1>1. CASE \A h \in Handlers : /\ ~Insert(h) /\ ~RaiseInTry(h) /\ ~CommitOutcome(h)
                               /\ ~RecordSpend(h) /\ ~PublishOutcome(h)
    BY <1>1, <1>u, LedgerQuietSteps DEF LedgerQuiet
<1>2. ASSUME NEW h \in Handlers, Insert(h) \/ RaiseInTry(h) PROVE RowInv'
  <2>1. job[h] \in Jobs
    <3>1. pc[h] \in {"compute", "insert"}
      BY <1>2, Zenon DEF Insert, RaiseInTry, At
    <3> QED
      BY <3>1 DEF TypeOK
  <2>2. CASE UNCHANGED decisions
    BY <2>2, <1>u
  <2>3. CASE /\ Did(h) \in DecisionIds /\ decisions[Did(h)] = None
             /\ decisions' = [decisions EXCEPT ![Did(h)] = NewRow(h)]
    <3>1. /\ NewRow(h).agent_id = job[h].principal.agent_id
          /\ NewRow(h).environment = job[h].principal.environment
          /\ job[h].principal \in Principals
      BY <2>1 DEF NewRow, Jobs
    <3> DEFINE row == NewRow(h)
    <3>2. decisions' = [decisions EXCEPT ![Did(h)] = row]
      BY <2>3
    <3>3. /\ row.agent_id = job[h].principal.agent_id
          /\ row.environment = job[h].principal.environment
      BY <3>1
    <3> HIDE DEF row
    <3> QED
      BY <2>3, <3>1, <3>2, <3>3 DEF RowInv, TypeOK
  <2> QED
    BY <1>2, <2>2, <2>3, OpenStep
<1>3. ASSUME NEW h \in Handlers, CommitOutcome(h) PROVE RowInv'
  <2>1. /\ Did(h) \in DecisionIds /\ decisions[Did(h)] # None /\ decisions[Did(h)] \in Rows
        /\ decisions' = [decisions EXCEPT ![Did(h)] =
                            [decisions[Did(h)] EXCEPT !.outcome = Outcome(Did(h)) + 1]]
    BY <1>3, CommitRow, Zenon
  <2> DEFINE row == [decisions[Did(h)] EXCEPT !.outcome = Outcome(Did(h)) + 1]
  <2>2. row.agent_id = decisions[Did(h)].agent_id /\ row.environment = decisions[Did(h)].environment
    BY <2>1 DEF Rows
  <2>3. decisions' = [decisions EXCEPT ![Did(h)] = row]
    BY <2>1, Zenon
  <2> HIDE DEF row
  <2> QED
    BY <2>1, <2>2, <2>3 DEF RowInv, TypeOK
<1>4. ASSUME NEW h \in Handlers, RecordSpend(h) \/ PublishOutcome(h) PROVE RowInv'
    BY <1>4, <1>u DEF RecordSpend, PublishOutcome, dbVars
<1> QED
    BY <1>1, <1>2, <1>3, <1>4

\* How sets that lose or gain a member compare.
LEMMA Fewer ==
    ASSUME NEW S, IsFiniteSet(S), NEW T, T \subseteq S
    PROVE  Cardinality(S) \in Nat /\ Cardinality(T) \in Nat /\ Cardinality(T) <= Cardinality(S)
BY FS_Subset, FS_CardinalityType

LEMMA OneFewer ==
    ASSUME NEW S, IsFiniteSet(S), NEW x \in S, NEW T, T \subseteq S \ {x}
    PROVE  Cardinality(T) + 1 <= Cardinality(S)
<1>1. IsFiniteSet(S \ {x}) /\ Cardinality(S \ {x}) = Cardinality(S) - 1
    BY FS_RemoveElement
<1>2. Cardinality(T) \in Nat /\ Cardinality(T) <= Cardinality(S \ {x})
    BY <1>1, Fewer
<1> QED
    BY <1>1, <1>2, FS_CardinalityType

LEMMA OneMore ==
    ASSUME NEW S, IsFiniteSet(S), NEW x, NEW T, T \subseteq S \cup {x}
    PROVE  Cardinality(T) <= Cardinality(S) + 1
<1>1. /\ IsFiniteSet(S \cup {x}) /\ Cardinality(S \cup {x}) \in Nat
      /\ Cardinality(S \cup {x}) <= Cardinality(S) + 1
    BY FS_AddElement, FS_CardinalityType
<1>2. Cardinality(T) \in Nat /\ Cardinality(T) <= Cardinality(S \cup {x})
    BY <1>1, Fewer
<1> QED
    BY <1>1, <1>2, FS_CardinalityType

LEMMA TimesGrows ==
    ASSUME NEW m \in Nat, NEW a \in Nat, NEW b \in Nat, a <= b
    PROVE  a * m \in Nat /\ b * m \in Nat /\ a * m <= b * m /\ (a + 1) * m = a * m + m
OBVIOUS

\* The three parts of an exposure are finite, now and in the next state.
LEMMA ExposedParts ==
    ASSUME NEW q \in QuotaKeys
    PROVE  /\ IsFiniteSet(LetThrough(q)) /\ IsFiniteSet(ToCharge(q)) /\ IsFiniteSet(Unreported(q))
           /\ IsFiniteSet(LetThrough(q)') /\ IsFiniteSet(ToCharge(q)') /\ IsFiniteSet(Unreported(q)')
           /\ Exposed(q) \in Nat /\ Exposed(q)' \in Nat
<1>1. /\ LetThrough(q) \subseteq Handlers /\ ToCharge(q) \subseteq Handlers
      /\ Unreported(q) \subseteq DecisionIds
      /\ LetThrough(q)' \subseteq Handlers /\ ToCharge(q)' \subseteq Handlers
      /\ Unreported(q)' \subseteq DecisionIds
    BY DEF LetThrough, ToCharge, Unreported
<1>2. /\ IsFiniteSet(LetThrough(q)) /\ IsFiniteSet(ToCharge(q)) /\ IsFiniteSet(Unreported(q))
      /\ IsFiniteSet(LetThrough(q)') /\ IsFiniteSet(ToCharge(q)') /\ IsFiniteSet(Unreported(q)')
    BY <1>1, FiniteAssumption, FS_Subset
<1>3. Exposed(q)' = Cardinality(LetThrough(q)') + Cardinality(ToCharge(q)') + Cardinality(Unreported(q)')
    BY DEF Exposed
<1> QED
    BY <1>2, <1>3, FS_CardinalityType DEF Exposed

\* A step after which q is no more exposed, or by one less when it charges.
LEMMA ExposureFalls ==
    ASSUME NEW q \in QuotaKeys, TypeOK,
           LetThrough(q)' \subseteq LetThrough(q), ToCharge(q)' \subseteq ToCharge(q),
           Unreported(q)' \subseteq Unreported(q)
    PROVE  /\ Exposed(q)' <= Exposed(q)
           /\ \A h \in ToCharge(q) \ ToCharge(q)' : Exposed(q)' + 1 <= Exposed(q)
<1>1. /\ Cardinality(LetThrough(q)) \in Nat /\ Cardinality(LetThrough(q)') \in Nat
      /\ Cardinality(LetThrough(q)') <= Cardinality(LetThrough(q))
      /\ Cardinality(ToCharge(q)) \in Nat /\ Cardinality(ToCharge(q)') \in Nat
      /\ Cardinality(ToCharge(q)') <= Cardinality(ToCharge(q))
      /\ Cardinality(Unreported(q)) \in Nat /\ Cardinality(Unreported(q)') \in Nat
      /\ Cardinality(Unreported(q)') <= Cardinality(Unreported(q))
    BY ExposedParts, Fewer
<1>2. Exposed(q)' = Cardinality(LetThrough(q)') + Cardinality(ToCharge(q)') + Cardinality(Unreported(q)')
    BY DEF Exposed
<1>3. \A h \in ToCharge(q) \ ToCharge(q)' : Cardinality(ToCharge(q)') + 1 <= Cardinality(ToCharge(q))
    BY ExposedParts, OneFewer
<1> QED
    BY <1>1, <1>2, <1>3 DEF Exposed

\* Moves of one request or decision between the parts: it is let through and
\* stored, reported, or given back to the unreported ones.
LEMMA ExposureMoves ==
    ASSUME NEW q \in QuotaKeys, TypeOK, NEW h, NEW d,
           \/ /\ h \in LetThrough(q) /\ LetThrough(q)' \subseteq LetThrough(q) \ {h}
              /\ ToCharge(q)' \subseteq ToCharge(q) /\ Unreported(q)' \subseteq Unreported(q) \cup {d}
           \/ /\ d \in Unreported(q) /\ LetThrough(q)' \subseteq LetThrough(q)
              /\ ToCharge(q)' \subseteq ToCharge(q) \cup {h} /\ Unreported(q)' \subseteq Unreported(q) \ {d}
           \/ /\ h \in ToCharge(q) /\ LetThrough(q)' \subseteq LetThrough(q)
              /\ ToCharge(q)' \subseteq ToCharge(q) \ {h} /\ Unreported(q)' \subseteq Unreported(q) \cup {d}
    PROVE  Exposed(q)' <= Exposed(q)
<1> DEFINE L == LetThrough(q)
           T == ToCharge(q)
           U == Unreported(q)
           L1 == LetThrough(q)'
           T1 == ToCharge(q)'
           U1 == Unreported(q)'
<1>1. /\ IsFiniteSet(L) /\ IsFiniteSet(T) /\ IsFiniteSet(U)
      /\ IsFiniteSet(L1) /\ IsFiniteSet(T1) /\ IsFiniteSet(U1)
    BY ExposedParts
<1>2. /\ Cardinality(L) \in Nat /\ Cardinality(T) \in Nat /\ Cardinality(U) \in Nat
      /\ Cardinality(L1) \in Nat /\ Cardinality(T1) \in Nat /\ Cardinality(U1) \in Nat
    BY <1>1, FS_CardinalityType
<1>3. /\ Exposed(q) = Cardinality(L) + Cardinality(T) + Cardinality(U)
      /\ Exposed(q)' = Cardinality(L1) + Cardinality(T1) + Cardinality(U1)
    BY DEF Exposed
<1>4. \/ h \in L /\ L1 \subseteq L \ {h} /\ T1 \subseteq T /\ U1 \subseteq U \cup {d}
      \/ d \in U /\ L1 \subseteq L /\ T1 \subseteq T \cup {h} /\ U1 \subseteq U \ {d}
      \/ h \in T /\ L1 \subseteq L /\ T1 \subseteq T \ {h} /\ U1 \subseteq U \cup {d}
    OBVIOUS
<1> HIDE DEF L, T, U, L1, T1, U1
<1>5. CASE h \in L /\ L1 \subseteq L \ {h} /\ T1 \subseteq T /\ U1 \subseteq U \cup {d}
  <2>1. Cardinality(L1) + 1 <= Cardinality(L)
    BY <1>1, <1>5, OneFewer
  <2>2. Cardinality(T1) <= Cardinality(T)
    BY <1>1, <1>5, Fewer
  <2>3. Cardinality(U1) <= Cardinality(U) + 1
    BY <1>1, <1>5, OneMore
  <2> QED
    BY <1>2, <1>3, <2>1, <2>2, <2>3
<1>6. CASE d \in U /\ L1 \subseteq L /\ T1 \subseteq T \cup {h} /\ U1 \subseteq U \ {d}
  <2>1. Cardinality(U1) + 1 <= Cardinality(U)
    BY <1>1, <1>6, OneFewer
  <2>2. Cardinality(L1) <= Cardinality(L)
    BY <1>1, <1>6, Fewer
  <2>3. Cardinality(T1) <= Cardinality(T) + 1
    BY <1>1, <1>6, OneMore
  <2> QED
    BY <1>2, <1>3, <2>1, <2>2, <2>3
<1>7. CASE h \in T /\ L1 \subseteq L /\ T1 \subseteq T \ {h} /\ U1 \subseteq U \cup {d}
  <2>1. Cardinality(T1) + 1 <= Cardinality(T)
    BY <1>1, <1>7, OneFewer
  <2>2. Cardinality(L1) <= Cardinality(L)
    BY <1>1, <1>7, Fewer
  <2>3. Cardinality(U1) <= Cardinality(U) + 1
    BY <1>1, <1>7, OneMore
  <2> QED
    BY <1>2, <1>3, <2>1, <2>2, <2>3
<1> QED
    BY <1>4, <1>5, <1>6, <1>7

\* What a step may do to the counter and the exposure of one quota key: let
\* both be, charge one exposed request, or pass a request under the cap.
Kept(q) == spend'[q] <= spend[q] /\ Exposed(q)' <= Exposed(q)
Charged(q) == spend'[q] <= spend[q] + Max(Amounts) /\ Exposed(q)' + 1 <= Exposed(q)
Passed(q) == spend'[q] = spend[q] /\ spend[q] + Min(Amounts) <= CapOf(q)

\* One of them keeps the headroom of q.
LEMMA HeadroomKept ==
    ASSUME NEW q \in QuotaKeys, TypeOK, TypeOK', peak[q] \in Nat, peak'[q] \in Nat,
           Exposed(q) <= peak[q], peak[q] <= peak'[q], Exposed(q)' <= peak'[q],
           spend[q] + Exposed(q) * Max(Amounts) <= Allowance(q) + peak[q] * Max(Amounts),
           Kept(q) \/ Charged(q) \/ Passed(q)
    PROVE  spend'[q] + Exposed(q)' * Max(Amounts) <= Allowance(q) + peak'[q] * Max(Amounts)
<1> DEFINE m == Max(Amounts)
           a == Allowance(q)
           e == Exposed(q)
           f == Exposed(q)'
           s == spend[q]
           t == spend'[q]
           p == peak[q]
           r == peak'[q]
<1>1. m \in Nat /\ Min(Amounts) \in Nat /\ CapOf(q) \in Nat
    BY AmountBounds, CapBounds
<1>2. a \in Nat /\ CapOf(q) - Min(Amounts) <= a
  <2> DEFINE top == Max({CapOf(q), Min(Amounts)})
  <2>1. top \in {CapOf(q), Min(Amounts)} /\ CapOf(q) <= top /\ Min(Amounts) <= top
    <3>1. CapOf(q) \in Int /\ Min(Amounts) \in Int
      BY <1>1
    <3> QED
      BY <3>1, MaxOfTwo, Zenon
  <2> HIDE DEF top
  <2>2. top \in Nat /\ top - Min(Amounts) \in Nat /\ CapOf(q) - Min(Amounts) <= top - Min(Amounts)
    BY <1>1, <2>1
  <2> QED
    BY <2>2 DEF Allowance, top
<1>3. e \in Nat /\ f \in Nat
    BY ExposedParts
<1>4. s \in Nat /\ t \in Nat /\ p \in Nat /\ r \in Nat
    BY DEF TypeOK
<1>5. p <= r /\ f <= r /\ s + e * m <= a + p * m
    OBVIOUS
<1>6. \/ t <= s /\ f <= e
      \/ t <= s + m /\ f + 1 <= e
      \/ t = s /\ s + Min(Amounts) <= CapOf(q)
    BY DEF Kept, Charged, Passed
<1>7. p * m \in Nat /\ r * m \in Nat /\ p * m <= r * m /\ f * m \in Nat /\ f * m <= r * m /\ e * m \in Nat
    BY <1>1, <1>3, <1>4, <1>5, TimesGrows
<1>8. CASE t <= s /\ f <= e
  <2>1. f * m <= e * m
    BY <1>1, <1>3, <1>8, TimesGrows
  <2> HIDE DEF m, a, e, f, s, t, p, r
  <2> QED
    BY <1>2, <1>4, <1>5, <1>7, <1>8, <2>1 DEF m, f, t, r, a
<1>9. CASE t <= s + m /\ f + 1 <= e
  <2>1. f + 1 \in Nat /\ f + 1 <= e
    BY <1>3, <1>9
  <2>2. (f + 1) * m <= e * m
    BY <1>1, <1>3, <2>1, TimesGrows
  <2>3. (f + 1) * m = f * m + m
    BY <1>1, <1>3, <1>4, <1>5, TimesGrows
  <2> HIDE DEF m, a, e, f, s, t, p, r
  <2> QED
    BY <1>1, <1>2, <1>4, <1>5, <1>7, <1>9, <2>2, <2>3 DEF m, f, t, r, a
<1>10. CASE t = s /\ s + Min(Amounts) <= CapOf(q)
  <2> HIDE DEF m, a, e, f, s, t, p, r
  <2> QED
    BY <1>1, <1>2, <1>4, <1>7, <1>10 DEF m, f, t, r, a
<1> QED
    BY <1>6, <1>8, <1>9, <1>10

\* When agents live in one environment, every step lets a quota key be,
\* charges one of its exposed requests, or passes one under its cap.
LEMMA ExposureSteps ==
    ASSUME BudgetContext, OneEnvironmentPerAgent, [Next]_vars, NEW q \in QuotaKeys
    PROVE  Kept(q) \/ Charged(q) \/ Passed(q)
<1>t. TypeOK /\ KeyInv /\ OwnerInv /\ SerialInv /\ RowInv
    BY DEF BudgetContext, AdmissionInv
<1>s. ASSUME spend'[q] <= spend[q],
             LetThrough(q)' \subseteq LetThrough(q), ToCharge(q)' \subseteq ToCharge(q),
             Unreported(q)' \subseteq Unreported(q)
      PROVE  Kept(q)
    BY <1>t, <1>s, ExposureFalls DEF Kept
<1>1. CASE \A h \in Handlers : /\ ~CheckBudget(h) /\ ~Insert(h) /\ ~RaiseInTry(h)
                               /\ ~SelectOutcome(h) /\ ~RecordSpend(h) /\ ~Drop(h)
  <2>1. BudgetQuiet
    BY <1>1, <1>t, BudgetQuietSteps
  <2>2. LetThrough(q)' \subseteq LetThrough(q)
    BY <2>1 DEF BudgetQuiet, LetThrough, Passing
  <2>3. ToCharge(q)' = ToCharge(q) /\ \A h \in ToCharge(q) : Did(h)' = Did(h)
    BY <2>1 DEF BudgetQuiet, ToCharge, Speaking
  <2>4. \A d \in DecisionIds : Status(d)' = "open" => Status(d) = "open" /\ decisions'[d] = decisions[d]
    BY <1>1, <1>t, OpenBefore
  <2>5. Unreported(q)' \subseteq Unreported(q)
    BY <2>3, <2>4 DEF Unreported
  <2> QED
    BY <1>s, <2>1, <2>2, <2>3, <2>5 DEF BudgetQuiet
<1>2. ASSUME NEW h \in Handlers, CheckBudget(h) PROVE Kept(q) \/ Passed(q)
  <2>1. /\ pc[h] = "budget" /\ UNCHANGED <<spend, decisions>>
        /\ \/ pc' = [pc EXCEPT ![h] = "idle"] /\ job' = [job EXCEPT ![h] = None]
           \/ /\ pc' = [pc EXCEPT ![h] = "reserve"] /\ UNCHANGED job
              /\ ~(spend[Quota(h)] + job[h].usd > job[h].principal.daily_budget_usd)
    BY <1>2 DEF CheckBudget, OverBudget, At, Finish, GoTo, redisVars, dbVars
  <2>2. job[h] \in Jobs
    BY <1>t, <2>1 DEF TypeOK
  <2>3. ToCharge(q)' = ToCharge(q) /\ \A g \in ToCharge(q) : Did(g)' = Did(g)
    BY <1>t, <2>1 DEF TypeOK, ToCharge, Quota, Did
  <2>4. Unreported(q)' \subseteq Unreported(q)
    BY <2>1, <2>3 DEF Unreported, Status, Outcome
  <2>5. CASE pc'[h] = "reserve" /\ Quota(h) = q
    <3>1. ~(spend[q] + job[h].usd > job[h].principal.daily_budget_usd)
      BY <1>t, <2>1, <2>5 DEF TypeOK
    <3>2. job[h].usd \in Amounts /\ job[h].principal \in Principals /\ QuotaKey(job[h].principal) = q
      BY <2>2, <2>5 DEF Jobs, Quota
    <3>3. /\ job[h].usd \in Nat /\ Min(Amounts) <= job[h].usd /\ Min(Amounts) \in Nat
          /\ job[h].principal.daily_budget_usd <= CapOf(q) /\ CapOf(q) \in Nat
          /\ job[h].principal.daily_budget_usd \in Nat
      BY <3>2, AmountBounds, CapBounds, PrincipalsAssumption
    <3>4. spend[q] \in Nat
      BY <1>t DEF TypeOK
    <3>5. spend[q] + Min(Amounts) <= CapOf(q)
      BY <3>1, <3>3, <3>4
    <3> QED
      BY <2>1, <3>5 DEF Passed
  <2>6. CASE ~(pc'[h] = "reserve" /\ Quota(h) = q)
    <3>1. LetThrough(q)' \subseteq LetThrough(q)
      BY <1>t, <2>1, <2>6 DEF TypeOK, LetThrough, Quota
    <3>2. spend'[q] <= spend[q]
      BY <1>t, <2>1 DEF TypeOK
    <3> QED
      BY <1>s, <2>3, <2>4, <3>1, <3>2
  <2> QED
    BY <2>5, <2>6
<1>3. ASSUME NEW h \in Handlers, Insert(h) \/ RaiseInTry(h) PROVE Kept(q)
  <2>1. UNCHANGED <<job, spend>> /\ pc[h] \in {"compute", "insert"}
    BY <1>3, Zenon DEF Insert, RaiseInTry, At, GoTo, redisVars
  <2>2. pc' \in {[pc EXCEPT ![h] = "undo"], [pc EXCEPT ![h] = "reply"]}
    BY <1>3, <1>t, OpenStep
  <2>3. LetThrough(q)' \subseteq LetThrough(q) \ {h}
    BY <1>t, <2>1, <2>2 DEF TypeOK, LetThrough, Quota
  <2>4. ToCharge(q)' = ToCharge(q) /\ \A g \in ToCharge(q) : Did(g)' = Did(g)
    BY <1>t, <2>1, <2>2 DEF TypeOK, ToCharge, Quota, Did
  <2>5. spend'[q] <= spend[q]
    BY <1>t, <2>1 DEF TypeOK
  <2>6. CASE UNCHANGED decisions
    <3>1. Unreported(q)' \subseteq Unreported(q)
      BY <2>4, <2>6 DEF Unreported, Status, Outcome
    <3> QED
      BY <1>s, <2>3, <2>4, <2>5, <3>1
  <2>7. CASE /\ Did(h) \in DecisionIds /\ decisions[Did(h)] = None
             /\ decisions' = [decisions EXCEPT ![Did(h)] = NewRow(h)]
    <3> DEFINE row == NewRow(h)
    <3>1. <<row.environment, row.agent_id>> = Quota(h)
      BY DEF NewRow, Quota, QuotaKey
    <3>2. decisions' = [decisions EXCEPT ![Did(h)] = row]
      BY <2>7
    <3> HIDE DEF row
    <3>3. /\ decisions'[Did(h)] = row
          /\ \A d \in DecisionIds \ {Did(h)} : decisions'[d] = decisions[d]
      BY <1>t, <2>7, <3>2 DEF TypeOK
    <3>4. \A d \in DecisionIds \ {Did(h)} : Status(d)' = Status(d)
      BY <3>3 DEF Status, Outcome
    <3>5. Unreported(q)' \subseteq Unreported(q) \cup {Did(h)}
      BY <2>4, <3>3, <3>4 DEF Unreported
    <3>6. CASE Quota(h) = q
      <4>1. h \in LetThrough(q)
        BY <2>1, <3>6 DEF LetThrough
      <4> QED
        BY <1>t, <2>3, <2>4, <2>5, <3>5, <4>1, ExposureMoves DEF Kept
    <3>7. CASE Quota(h) # q
      <4>1. Did(h) \notin Unreported(q)'
        BY <3>1, <3>3, <3>7, <2>1 DEF Unreported, Did
      <4> QED
        BY <1>s, <2>3, <2>4, <2>5, <3>5, <4>1
    <3> QED
      BY <3>6, <3>7
  <2> QED
    BY <1>3, <1>t, <2>6, <2>7, OpenStep
<1>4. ASSUME NEW h \in Handlers, SelectOutcome(h) PROVE Kept(q)
  <2>1. /\ pc[h] = "select" /\ UNCHANGED <<spend, decisions>>
        /\ \/ pc' = [pc EXCEPT ![h] = "idle"] /\ job' = [job EXCEPT ![h] = None]
           \/ /\ pc' = [pc EXCEPT ![h] = "delete"] /\ UNCHANGED job
              /\ ~(decisions[Did(h)].outcome > 0)
    BY <1>4 DEF SelectOutcome, AlreadyReported, At, Finish, GoTo, redisVars, dbVars
  <2>2. job[h] \in Jobs /\ Did(h) \in DecisionIds /\ decisions[Did(h)] # None /\ decisions[Did(h)] \in Rows
    BY <1>t, <2>1 DEF TypeOK, OutcomeSteps
  <2>3. spend'[q] <= spend[q]
    BY <1>t, <2>1 DEF TypeOK
  <2>4. LetThrough(q)' \subseteq LetThrough(q)
    BY <1>t, <2>1 DEF TypeOK, LetThrough, Quota
  <2>5. \A g \in ToCharge(q) : g \in ToCharge(q)' /\ Did(g)' = Did(g)
    BY <1>t, <2>1 DEF TypeOK, ToCharge, Quota, Did
  <2>6. Unreported(q)' \subseteq Unreported(q)
    BY <2>1, <2>5 DEF Unreported, Status, Outcome
  <2>7. ToCharge(q)' \subseteq ToCharge(q) \cup {h}
    BY <1>t, <2>1 DEF TypeOK, ToCharge, Quota
  <2>8. CASE h \notin ToCharge(q)'
    BY <1>s, <2>3, <2>4, <2>6, <2>7, <2>8
  <2>9. CASE h \in ToCharge(q)'
    <3>1. /\ pc'[h] = "delete" /\ UNCHANGED job /\ Quota(h) = q
          /\ ~(decisions[Did(h)].outcome > 0)
      BY <1>t, <2>1, <2>9 DEF TypeOK, ToCharge, Quota
    <3>2. Status(Did(h)) = "open"
      BY <2>2, <3>1 DEF Status, Outcome, Rows
    <3>3. <<decisions[Did(h)].environment, decisions[Did(h)].agent_id>> = q
      <4>1. PICK p \in Principals : /\ p.agent_id = decisions[Did(h)].agent_id
                                    /\ p.environment = decisions[Did(h)].environment
        BY <1>t, <2>2 DEF RowInv
      <4>2. job[h].principal \in Principals /\ job[h].principal.agent_id = p.agent_id
        BY <1>t, <2>1, <2>2, <4>1 DEF OwnerInv, OutcomeSteps, Jobs
      <4>3. job[h].principal.environment = p.environment
        BY <4>2 DEF OneEnvironmentPerAgent
      <4> QED
        BY <3>1, <4>1, <4>2, <4>3 DEF Quota, QuotaKey
    <3>4. \A g \in ToCharge(q) : Did(g) # Did(h)
      BY <1>t, <2>1, <2>2 DEF SerialInv, SerialReports, Reporting, OutcomeSteps, ToCharge
    <3>5. Did(h) \in Unreported(q)
      BY <2>2, <3>2, <3>3, <3>4 DEF Unreported
    <3>6. Did(h) \notin Unreported(q)'
      BY <2>9, <3>1 DEF Unreported, Did
    <3> QED
      BY <1>t, <2>3, <2>4, <2>6, <2>7, <3>5, <3>6, ExposureMoves DEF Kept
  <2> QED
    BY <2>8, <2>9
<1>5. ASSUME NEW h \in Handlers, RecordSpend(h) PROVE Kept(q) \/ Charged(q)
  <2>1. /\ pc[h] = "charge" /\ pc' = [pc EXCEPT ![h] = "publish"] /\ UNCHANGED <<job, decisions>>
        /\ spend' = [spend EXCEPT ![Quota(h)] = @ + job[h].usd]
    BY <1>5 DEF RecordSpend, At, GoTo, dbVars
  <2>2. job[h] \in Jobs /\ job[h].usd \in Nat /\ job[h].usd <= Max(Amounts) /\ Max(Amounts) \in Nat
    BY <1>t, <2>1, AmountBounds DEF TypeOK, Jobs
  <2>3. LetThrough(q)' \subseteq LetThrough(q)
    BY <1>t, <2>1 DEF TypeOK, LetThrough, Quota
  <2>4. ToCharge(q)' \subseteq ToCharge(q) /\ h \notin ToCharge(q)'
    BY <1>t, <2>1 DEF TypeOK, ToCharge, Quota
  <2>5. Unreported(q)' \subseteq Unreported(q)
    <3>1. Status(Did(h)) # "open"
      BY <1>t, <2>1 DEF SerialInv, After, Status
    <3>2. \A g \in ToCharge(q) \ {h} : g \in ToCharge(q)' /\ Did(g)' = Did(g)
      BY <1>t, <2>1 DEF TypeOK, ToCharge, Quota, Did
    <3>3. \A d \in DecisionIds : Status(d)' = Status(d)
      BY <2>1 DEF Status, Outcome
    <3> QED
      BY <2>1, <3>1, <3>2, <3>3 DEF Unreported
  <2>6. CASE Quota(h) = q
    <3>1. h \in ToCharge(q)
      BY <2>1, <2>6 DEF ToCharge
    <3>2. spend'[q] <= spend[q] + Max(Amounts)
      BY <1>t, <2>1, <2>2, <2>6 DEF TypeOK
    <3> QED
      BY <1>t, <2>3, <2>4, <2>5, <3>1, <3>2, ExposureFalls DEF Charged
  <2>7. CASE Quota(h) # q
    <3>1. spend'[q] <= spend[q]
      BY <1>t, <2>1, <2>7 DEF TypeOK
    <3> QED
      BY <1>s, <2>3, <2>4, <2>5, <3>1
  <2> QED
    BY <2>6, <2>7
<1>6. ASSUME NEW h \in Handlers, Drop(h) PROVE Kept(q)
  <2>1. /\ pc' = [pc EXCEPT ![h] = "idle"] /\ job' = [job EXCEPT ![h] = None]
        /\ UNCHANGED <<spend, decisions>>
    BY <1>6 DEF Drop, Finish, redisVars, dbVars
  <2>2. spend'[q] <= spend[q]
    BY <1>t, <2>1 DEF TypeOK
  <2>3. LetThrough(q)' \subseteq LetThrough(q)
    BY <1>t, <2>1 DEF TypeOK, LetThrough, Quota
  <2>4. /\ ToCharge(q)' \subseteq ToCharge(q) \ {h}
        /\ \A g \in ToCharge(q) \ {h} : g \in ToCharge(q)' /\ Did(g)' = Did(g)
    BY <1>t, <2>1 DEF TypeOK, ToCharge, Quota, Did
  <2>5. \A d \in DecisionIds : Status(d)' = Status(d)
    BY <2>1 DEF Status, Outcome
  <2>6. CASE h \in ToCharge(q)
    <3>1. Unreported(q)' \subseteq Unreported(q) \cup {Did(h)}
      BY <2>1, <2>4, <2>5 DEF Unreported
    <3> QED
      BY <1>t, <2>2, <2>3, <2>4, <2>6, <3>1, ExposureMoves DEF Kept
  <2>7. CASE h \notin ToCharge(q)
    <3>1. Unreported(q)' \subseteq Unreported(q)
      BY <2>1, <2>4, <2>5, <2>7 DEF Unreported
    <3> QED
      BY <1>s, <2>2, <2>3, <2>4, <3>1
  <2> QED
    BY <2>6, <2>7
<1> QED
    BY <1>1, <1>2, <1>3, <1>4, <1>5, <1>6

BudgetInv == BudgetContext /\ peak \in [QuotaKeys -> Nat] /\ Headroom

\* Nothing is spent or exposed at the start.
LEMMA BudgetInit == Init /\ peak = [q \in QuotaKeys |-> 0] => BudgetInv
<1> SUFFICES ASSUME Init, peak = [q \in QuotaKeys |-> 0] PROVE BudgetInv
    OBVIOUS
<1>1. BudgetContext
    BY AdmissionInit, KeyInit, AccountInit, SerialInit DEF BudgetContext, Init, RowInv
<1>2. ASSUME NEW q \in QuotaKeys
      PROVE  /\ peak[q] \in Nat /\ Exposed(q) <= peak[q]
             /\ spend[q] + Exposed(q) * Max(Amounts) <= Allowance(q) + peak[q] * Max(Amounts)
  <2>1. LetThrough(q) = {} /\ ToCharge(q) = {} /\ Unreported(q) = {}
    BY DEF Init, LetThrough, ToCharge, Unreported, Status
  <2>2. Exposed(q) = 0
    BY <2>1, FS_EmptySet DEF Exposed
  <2>3. spend[q] = 0 /\ peak[q] = 0
    BY DEF Init
  <2>4. Max(Amounts) \in Nat /\ Allowance(q) \in Nat
    <3>1. CapOf(q) \in Int /\ Min(Amounts) \in Nat /\ Min(Amounts) \in Int
      BY AmountBounds, CapBounds
    <3> DEFINE top == Max({CapOf(q), Min(Amounts)})
    <3>2. top \in {CapOf(q), Min(Amounts)} /\ Min(Amounts) <= top
      BY <3>1, MaxOfTwo, Zenon
    <3> HIDE DEF top
    <3>3. top - Min(Amounts) \in Nat
      BY <3>1, <3>2
    <3> QED
      BY <3>3, AmountBounds DEF Allowance, top
  <2> QED
    BY <2>2, <2>3, <2>4
<1> QED
    BY <1>1, <1>2 DEF BudgetInv, Headroom

\* BudgetContext and Headroom together are inductive.
LEMMA BudgetNext ==
    ASSUME BudgetInv,
           \/ /\ Next /\ SerialReports'
              /\ peak' = [q \in QuotaKeys |-> Max({peak[q], Exposed(q)'})]
           \/ UNCHANGED <<vars, peak>>
    PROVE  BudgetInv'
<1>t. /\ TypeOK /\ SlotInv /\ AdmittedWithinLimit /\ AdmissionInv /\ KeyInv /\ OwnerInv /\ SerialInv
      /\ RowInv /\ BudgetContext /\ peak \in [QuotaKeys -> Nat] /\ Headroom
    BY DEF BudgetInv, BudgetContext, AdmissionInv
<1>n. [Next]_vars /\ [Next /\ SerialReports']_vars
    OBVIOUS
<1>1. AdmissionInv' /\ TypeOK'
    BY <1>t, <1>n, AdmissionNext, TypeNext
<1>2. KeyInv'
    BY <1>t, <1>n, KeyNext
<1>3. OwnerInv'
    BY <1>t, <1>n, OwnerNext DEF SlotContext
<1>4. SerialInv'
    BY <1>t, <1>n, SerialNext DEF Inv
<1>5. RowInv'
    BY <1>t, <1>n, RowNext
<1>6. BudgetContext'
    BY <1>1, <1>2, <1>3, <1>4, <1>5 DEF BudgetContext
<1>7. ASSUME NEW q \in QuotaKeys
      PROVE  peak[q] \in Nat /\ peak'[q] \in Nat /\ peak[q] <= peak'[q]
             /\ (Exposed(q) <= peak[q] => Exposed(q)' <= peak'[q])
  <2>1. peak[q] \in Nat /\ Exposed(q) \in Nat /\ Exposed(q)' \in Nat
    BY <1>t, ExposedParts
  <2>2. CASE UNCHANGED <<vars, peak>>
    <3>1. Exposed(q)' = Exposed(q)
      <4>1. UNCHANGED <<pc, job, decisions>>
        BY <2>2 DEF vars, dbVars
      <4> QED
        BY <4>1 DEF Exposed, LetThrough, ToCharge, Unreported, Quota, Did, Status, Outcome
    <3> QED
      BY <2>1, <2>2, <3>1
  <2>3. CASE peak' = [p \in QuotaKeys |-> Max({peak[p], Exposed(p)'})]
    <3> DEFINE e == Exposed(q)'
    <3>1. peak'[q] = Max({peak[q], e})
      BY <2>3
    <3>2. peak[q] \in Int /\ e \in Int
      BY <2>1
    <3> HIDE DEF e
    <3>3. Max({peak[q], e}) \in {peak[q], e} /\ peak[q] <= Max({peak[q], e}) /\ e <= Max({peak[q], e})
      BY <3>2, MaxOfTwo, Zenon
    <3>4. e \in Nat
      BY <2>1 DEF e
    <3>5. peak'[q] \in Nat /\ peak[q] <= peak'[q] /\ e <= peak'[q]
      <4> DEFINE top == Max({peak[q], e})
      <4>1. top \in {peak[q], e} /\ peak[q] <= top /\ e <= top /\ peak'[q] = top
        BY <3>1, <3>3
      <4> HIDE DEF top
      <4> QED
        BY <2>1, <3>4, <4>1
    <3> QED
      BY <2>1, <3>5 DEF e
  <2> QED
    BY <2>2, <2>3
<1>8. peak' \in [QuotaKeys -> Nat]
  <2>1. CASE UNCHANGED <<vars, peak>>
    BY <1>t, <2>1
  <2>2. CASE peak' = [p \in QuotaKeys |-> Max({peak[p], Exposed(p)'})]
    BY <1>7, <2>2
  <2> QED
    BY <2>1, <2>2
<1>9. Headroom'
  <2> SUFFICES ASSUME OneEnvironmentPerAgent, NEW q \in QuotaKeys
               PROVE  /\ peak'[q] \in Nat /\ Exposed(q)' <= peak'[q]
                      /\ spend'[q] + Exposed(q)' * Max(Amounts) <= Allowance(q) + peak'[q] * Max(Amounts)
    BY DEF Headroom, Allowance, CapOf
  <2>1. /\ Exposed(q) <= peak[q]
        /\ spend[q] + Exposed(q) * Max(Amounts) <= Allowance(q) + peak[q] * Max(Amounts)
    BY <1>t DEF Headroom
  <2>2. Kept(q) \/ Charged(q) \/ Passed(q)
    BY <1>t, <1>n, ExposureSteps
  <2> QED
    BY <1>t, <1>1, <1>7, <2>1, <2>2, HeadroomKept
<1> QED
    BY <1>6, <1>8, <1>9 DEF BudgetInv

\* What the counter may come to leaves the bound of OverspendIsBounded.
LEMMA HeadroomBounds == BudgetInv => OverspendIsBounded
<1> SUFFICES ASSUME BudgetInv, OneEnvironmentPerAgent, NEW q \in QuotaKeys
             PROVE  spend[q] <= Allowance(q) + peak[q] * Max(Amounts)
    BY DEF OverspendIsBounded, Allowance
<1>1. /\ TypeOK /\ peak[q] \in Nat
      /\ spend[q] + Exposed(q) * Max(Amounts) <= Allowance(q) + peak[q] * Max(Amounts)
    BY DEF BudgetInv, BudgetContext, AdmissionInv, Headroom
<1>2. Exposed(q) * Max(Amounts) \in Nat /\ peak[q] * Max(Amounts) \in Nat
    BY <1>1, ExposedParts, AmountBounds, TimesGrows
<1>3. Allowance(q) \in Int
  <2>1. CapOf(q) \in Int /\ Min(Amounts) \in Int
    BY AmountBounds, CapBounds
  <2> DEFINE top == Max({CapOf(q), Min(Amounts)})
  <2>2. top \in {CapOf(q), Min(Amounts)}
    BY <2>1, MaxOfTwo, Zenon
  <2> HIDE DEF top
  <2>3. top - Min(Amounts) \in Int
    BY <2>1, <2>2
  <2> QED
    BY <2>3 DEF Allowance, top
<1>4. spend[q] \in Nat
    BY <1>1 DEF TypeOK
<1> QED
    BY <1>1, <1>2, <1>3, <1>4

\* The daily cap is soft by what was let through and uncharged at one time,
\* each at the largest amount, for any number of handlers, credentials and
\* faults, as long as an agent lives in one environment.
THEOREM SoftCap == BudgetSpec => []OverspendIsBounded
<1>1. /\ BudgetInv
      /\ [/\ Next /\ SerialReports'
          /\ peak' = [q \in QuotaKeys |-> Max({peak[q], Exposed(q)'})]]_<<vars, peak>>
      => BudgetInv'
    BY BudgetNext
<1> QED
    BY <1>1, BudgetInit, HeadroomBounds, PTL DEF BudgetSpec
=============================================================================
