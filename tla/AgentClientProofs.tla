------------------------- MODULE AgentClientProofs -------------------------
(***************************************************************************)
(* Theorems about AgentClient, for any ranked candidates, with calls and   *)
(* reports failing, delayed, overlapping or lost in any combination.       *)
(***************************************************************************)
EXTENDS AgentClient, TLAPS

Ranked == Range(Candidates)
Attempts == [model_id : Ranked, status : {"success", "upstream_error"}]
Reports == [final_status : {"success", "failed"}, final_model_id : Ranked \cup {None},
            attempts : Seq(Attempts)]
Steps == {"decide", "call", "report", "report_failed", "returned", "raised", "gave_up"}

\* The control plane only serves and stores reports that were sent.
TypeInv ==
    /\ pc \in Steps
    /\ at \in 1..Len(Candidates)
    /\ attempts \in Seq(Attempts)
    /\ result \in Ranked \cup {None}
    /\ open \in BOOLEAN
    /\ sent \in Seq(Reports)
    /\ service \in Seq(Stages) /\ Len(service) = Len(sent)
    /\ outcome \in 0..Len(sent)
    /\ charged \in [Ranked -> Nat]
    /\ overlap \in BOOLEAN
    /\ answers \subseteq Ranked
    /\ billed \in Nat /\ unheard \in Nat /\ failures \in Nat

\* The attempts list knows every model that answered, also when the report of
\* its success failed.
AttemptsInv ==
    /\ Succeeded(attempts) = answers
    /\ pc = "decide" => attempts = <<>>

\* Each call billed before the one at hand has cost a lost answer.
BilledInv ==
    /\ pc = "decide" => billed = 0
    /\ pc = "call" => billed <= failures + unheard
    /\ billed <= 1 + failures + unheard

\* Every report, stored or not, is true, and the report of failure is the last.
\* The reports of successes name candidates of different ranks, all before the
\* one at hand while the client calls it.
ReportsInv ==
    /\ \A n \in 1..Len(sent) :
          /\ Succeeded(sent[n].attempts) \subseteq answers
          /\ sent[n].final_status = "success" =>
                /\ sent[n].final_model_id \in Succeeded(sent[n].attempts)
                /\ \E k \in 1..at : sent[n].final_model_id = Candidates[k] /\ (pc = "call" => k < at)
          /\ sent[n].final_status = "failed" =>
                /\ sent[n].final_model_id = None /\ Succeeded(sent[n].attempts) = answers
                /\ pc \in {"report_failed", "raised"}
    /\ \A n, k \in 1..Len(sent) :
          sent[n].final_model_id = sent[k].final_model_id /\ sent[n].final_model_id # None => n = k

\* Until a report fails the client sends one report at most; it returns when
\* that one was answered.
OneReport ==
    /\ pc = "decide" => Len(sent) = 0
    /\ pc = "call" /\ failures = 0 => Len(sent) = 0
    /\ pc = "report" => Len(sent) > 0 /\ sent[Len(sent)].final_model_id = Model
    /\ pc = "report" /\ failures = 0 => Len(sent) = 1
    /\ result # None => pc = "returned"
    /\ result # None /\ failures = 0 =>
          Len(sent) = 1 /\ service[1] = "recorded" /\ sent[1].final_model_id = result

\* A model is charged once for the one report of its success that was recorded.
Recorded(m) == \E n \in 1..Len(sent) : service[n] = "recorded" /\ sent[n].final_model_id = m
ChargesInv == \A m \in Ranked : charged[m] = IF Recorded(m) THEN 1 ELSE 0

\* Without an overlap one report is in its transaction, before there is an
\* outcome, or one has been committed, and it is the outcome.  A single report
\* overlaps with nothing and is no duplicate.
SerialInv ==
    /\ outcome # 0 => service[outcome] \in {"charge", "recorded", "lost"}
    /\ ~overlap =>
          \A n \in 1..Len(sent) :
             /\ service[n] = "select" =>
                   outcome = 0 /\ \A k \in 1..Len(sent) : service[k] = "select" => k = n
             /\ service[n] \in {"charge", "recorded"} => outcome = n
    /\ Len(sent) <= 1 => ~overlap /\ \A n \in 1..Len(sent) : service[n] # "duplicate"

ClientInv ==
    TypeInv /\ AttemptsInv /\ BilledInv /\ ReportsInv /\ OneReport /\ ChargesInv /\ SerialInv

-----------------------------------------------------------------------------
(* Lists of attempts *)

\* The candidate at hand is one of the ranked ones, each ranked once.
LEMMA CandidateAt ==
    /\ Len(Candidates) \in Nat \ {0}
    /\ \A i \in 1..Len(Candidates) : Candidates[i] \in Ranked /\ Candidates[i] # None
    /\ \A i, j \in 1..Len(Candidates) : Candidates[i] = Candidates[j] => i = j
<1>1. DOMAIN Candidates = 1..Len(Candidates) /\ Len(Candidates) \in Nat \ {0}
    BY CandidatesAssumption
<1>2. \A i \in 1..Len(Candidates) : Candidates[i] \in Ranked /\ Candidates[i] # None
    BY <1>1, NoneAssumption DEF Ranked, Range
<1>3. \A i, j \in 1..Len(Candidates) : Candidates[i] = Candidates[j] => i = j
    BY <1>1, CandidatesAssumption DEF IsInjective
<1> QED
    BY <1>1, <1>2, <1>3

\* Noting an attempt adds its model to those that succeeded, or none.
LEMMA NotedAttempt ==
    ASSUME NEW list \in Seq(Attempts), NEW m \in Ranked, NEW status \in {"success", "upstream_error"}
    PROVE  LET l == Append(list, Attempt(m, status))
           IN  /\ l \in Seq(Attempts) /\ Len(l) = Len(list) + 1
               /\ \A i \in 1..Len(list) : l[i] = list[i]
               /\ l[Len(list) + 1].model_id = m /\ l[Len(list) + 1].status = status
               /\ Succeeded(l) = Succeeded(list) \cup (IF status = "success" THEN {m} ELSE {})
<1> DEFINE a == Attempt(m, status)
           l == Append(list, a)
<1>1. a \in Attempts /\ a.model_id = m /\ a.status = status
    BY DEF Attempt, Attempts
<1> HIDE DEF a
<1>2. /\ l \in Seq(Attempts) /\ Len(l) = Len(list) + 1 /\ Len(list) \in Nat
      /\ \A i \in 1..Len(list) : l[i] = list[i]
      /\ l[Len(list) + 1] = a /\ DOMAIN l = 1..(Len(list) + 1) /\ DOMAIN list = 1..Len(list)
    BY <1>1
<1> HIDE DEF l
<1>3. Succeeded(l) = Succeeded(list) \cup (IF status = "success" THEN {m} ELSE {})
  <2>1. \A x : x \in Succeeded(l) <=> \E i \in 1..(Len(list) + 1) : l[i].status = "success" /\ x = l[i].model_id
    BY <1>2 DEF Succeeded
  <2>2. \A x : x \in Succeeded(list) <=> \E i \in 1..Len(list) : list[i].status = "success" /\ x = list[i].model_id
    BY <1>2 DEF Succeeded
  <2>3. \A i : i \in 1..(Len(list) + 1) <=> i \in 1..Len(list) \/ i = Len(list) + 1
    BY <1>2
  <2>4. \A x : x \in Succeeded(l) <=> x \in Succeeded(list) \/ (status = "success" /\ x = m)
    BY <1>1, <1>2, <2>1, <2>2, <2>3
  <2> QED
    BY <2>4
<1> QED
    BY <1>1, <1>2, <1>3, Zenon DEF l, a

\* A report is one of a success or of a failure.
LEMMA SentStatus ==
    TypeInv => \A n \in 1..Len(sent) : sent[n].final_status \in {"success", "failed"}
<1>1. \A r \in Reports : r.final_status \in {"success", "failed"}
    BY DEF Reports
<1>2. TypeInv => \A n \in 1..Len(sent) : sent[n] \in Reports
    BY DEF TypeInv
<1> QED
    BY <1>1, <1>2

\* Nothing is attempted, sent, billed or charged at the start.
LEMMA ClientInit == Init => ClientInv
<1> SUFFICES ASSUME Init PROVE ClientInv
    OBVIOUS
<1> USE DEF Init
<1>1. Len(sent) = 0 /\ Len(service) = 0 /\ DOMAIN attempts = {}
    OBVIOUS
<1>2. \A n : n \notin 1..Len(sent)
    BY <1>1
<1>3. TypeInv
  <2>1. attempts \in Seq(Attempts) /\ sent \in Seq(Reports) /\ service \in Seq(Stages)
      OBVIOUS
  <2>2. charged \in [Ranked -> Nat]
      BY DEF Ranked
  <2>3. at \in 1..Len(Candidates) /\ outcome \in 0..Len(sent)
      BY <1>1, CandidateAt
  <2>4. pc \in Steps /\ billed \in Nat /\ unheard \in Nat /\ failures \in Nat
      BY DEF Steps
  <2> QED
      BY <1>1, <2>1, <2>2, <2>3, <2>4 DEF TypeInv
<1>4. AttemptsInv /\ BilledInv
    BY <1>1 DEF AttemptsInv, BilledInv, Succeeded
<1>5. ReportsInv /\ OneReport /\ SerialInv
    BY <1>1, <1>2 DEF ReportsInv, OneReport, SerialInv
<1>6. ChargesInv
    BY <1>2 DEF ChargesInv, Recorded, Ranked
<1> QED
    BY <1>3, <1>4, <1>5, <1>6 DEF ClientInv

-----------------------------------------------------------------------------
(* Sending a report *)

\* A report is added behind those already sent, and its service has not begun.
Appended(status, model, list) ==
    LET last == Len(sent) + 1 IN
    /\ sent' \in Seq(Reports) /\ Len(sent') = last
    /\ service' \in Seq(Stages) /\ Len(service') = last
    /\ \A n \in 1..Len(sent) : sent'[n] = sent[n] /\ service'[n] = service[n]
    /\ sent'[last].attempts = list /\ sent'[last].final_status = status
    /\ sent'[last].final_model_id = model /\ service'[last] = "under_way"

LEMMA ReportIsAppended ==
    ASSUME TypeInv, NEW status \in {"success", "failed"}, NEW model \in Ranked \cup {None},
           NEW list \in Seq(Attempts), Report(status, model, list)
    PROVE  Appended(status, model, list)
<1> DEFINE r == [final_status |-> status, final_model_id |-> model, attempts |-> list]
<1>1. sent \in Seq(Reports) /\ service \in Seq(Stages) /\ Len(service) = Len(sent)
    BY DEF TypeInv
<1>2. sent' = Append(sent, r) /\ service' = Append(service, "under_way")
    BY DEF Report
<1>3. r \in Reports /\ r.attempts = list /\ r.final_status = status /\ r.final_model_id = model
    BY DEF Reports
<1> HIDE DEF r
<1>4. /\ sent' \in Seq(Reports) /\ Len(sent') = Len(sent) + 1
      /\ \A n \in 1..Len(sent) : sent'[n] = sent[n]
      /\ sent'[Len(sent) + 1] = r
    BY <1>1, <1>2, <1>3
<1>5. "under_way" \in Stages
    BY DEF Stages
<1>6. /\ service' \in Seq(Stages) /\ Len(service') = Len(sent) + 1
      /\ \A n \in 1..Len(sent) : service'[n] = service[n]
      /\ service'[Len(sent) + 1] = "under_way"
    BY <1>1, <1>2, <1>5
<1> QED
    BY <1>3, <1>4, <1>6 DEF Appended

\* What the control plane has recorded and charged does not depend on a report
\* whose service has not begun.
LEMMA AppendKeepsServer ==
    ASSUME TypeInv, ChargesInv, SerialInv, NEW status, NEW model, NEW list,
           Appended(status, model, list), UNCHANGED <<outcome, charged, overlap>>
    PROVE  ChargesInv' /\ SerialInv' /\ outcome' \in 0..Len(sent')
<1>1. /\ Len(sent) \in Nat /\ Len(sent') = Len(sent) + 1 /\ outcome \in 0..Len(sent)
      /\ \A n \in 1..Len(sent) : sent'[n] = sent[n] /\ service'[n] = service[n]
      /\ service'[Len(sent) + 1] = "under_way"
    BY DEF TypeInv, Appended
<1>2. \A n : n \in 1..Len(sent') <=> n \in 1..Len(sent) \/ n = Len(sent) + 1
    BY <1>1
<1>3. \A m : Recorded(m)' <=> Recorded(m)
    BY <1>1, <1>2 DEF Recorded
<1>4. ChargesInv'
    BY <1>3 DEF ChargesInv
<1>5. outcome' # 0 => service'[outcome'] \in {"charge", "recorded", "lost"}
  <2>1. outcome # 0 => outcome \in 1..Len(sent)
      BY <1>1
  <2> QED
      BY <1>1, <2>1 DEF SerialInv
<1>6. ~overlap' =>
        \A n \in 1..Len(sent') :
           /\ service'[n] = "select" =>
                 outcome' = 0 /\ \A k \in 1..Len(sent') : service'[k] = "select" => k = n
           /\ service'[n] \in {"charge", "recorded"} => outcome' = n
    BY <1>1, <1>2 DEF SerialInv
<1>7. Len(sent') <= 1 => ~overlap' /\ \A n \in 1..Len(sent') : service'[n] # "duplicate"
  <2>1. Len(sent') <= 1 => Len(sent) = 0
      BY <1>1
  <2>2. Len(sent) = 0 => ~overlap
      BY <1>1 DEF SerialInv
  <2>3. Len(sent) = 0 => \A n \in 1..Len(sent') : service'[n] # "duplicate"
      BY <1>1
  <2> QED
      BY <2>1, <2>2, <2>3
<1>8. SerialInv'
    BY <1>5, <1>6, <1>7 DEF SerialInv
<1> QED
    BY <1>1, <1>4, <1>8

-----------------------------------------------------------------------------
(* Steps of the client *)

\* Falling back keeps everything, given what the caller counts: a failed report,
\* or a call that failed with or without a bill.
LEMMA FallBackStep ==
    ASSUME ClientInv, pc \in {"call", "report"}, FallBack,
           UNCHANGED <<result, answers, open, outcome, charged, overlap>>,
           billed' \in Nat, unheard' \in Nat, failures' \in Nat,
           billed' <= failures' + unheard',
           failures' = 0 => pc = "call" /\ failures = 0
    PROVE  ClientInv'
<1> USE DEF ClientInv
<1>1. /\ at \in 1..Len(Candidates) /\ attempts \in Seq(Attempts) /\ Len(sent) \in Nat
      /\ Succeeded(attempts) = answers /\ Model \in Ranked
    BY CandidateAt DEF TypeInv, AttemptsInv, Model
<1>2. attempts' \in Seq(Attempts) /\ Succeeded(attempts') = answers
    BY <1>1, NotedAttempt DEF FallBack
<1>3. result = None /\ \A n \in 1..Len(sent) : sent[n].final_status # "failed"
    BY DEF OneReport, ReportsInv
<1>4. AttemptsInv' /\ BilledInv'
  <2>1. pc' # "decide" /\ answers' = answers
      BY DEF FallBack
  <2>2. AttemptsInv'
      BY <1>2, <2>1 DEF AttemptsInv
  <2>3. billed' <= 1 + failures' + unheard'
    <3>1. \A b, f, u \in Nat : b <= f + u => b <= 1 + f + u
        OBVIOUS
    <3> QED
        BY <3>1, Zenon
  <2>4. BilledInv'
      BY <2>1, <2>3 DEF BilledInv
  <2> QED
      BY <2>2, <2>4
<1>5. CASE OneMore
  <2>1. /\ pc' = "call" /\ at' = at + 1 /\ at + 1 \in 1..Len(Candidates)
        /\ sent' = sent /\ service' = service
      BY <1>1, <1>5, CandidateAt DEF FallBack, OneMore, NextAt
  <2>2. TypeInv'
      BY <1>2, <2>1 DEF TypeInv, Steps
  <2>3. ReportsInv'
    <3>1. \A k \in 1..at : k \in 1..(at + 1) /\ k < at + 1
        BY <1>1
    <3>2. \A n \in 1..Len(sent) : sent[n].final_status = "success" =>
             \E k \in 1..(at + 1) : sent[n].final_model_id = Candidates[k] /\ k < at + 1
        BY <3>1 DEF ReportsInv
    <3> QED
        BY <1>3, <2>1, <3>2 DEF ReportsInv
  <2>4. OneReport' /\ ChargesInv' /\ SerialInv'
      BY <1>3, <2>1 DEF OneReport, ChargesInv, Recorded, SerialInv
  <2> QED
      BY <1>4, <2>2, <2>3, <2>4
<1>6. CASE ~OneMore
  <2>1. pc' = "report_failed" /\ at' = at /\ Report("failed", None, attempts')
      BY <1>6 DEF FallBack
  <2> DEFINE list == attempts'
  <2>2. Appended("failed", None, list)
    <3>1. list \in Seq(Attempts)
        BY <1>2
    <3> HIDE DEF list
    <3>2. Report("failed", None, list)
        BY <2>1 DEF list
    <3> QED
        BY <3>1, <3>2, ReportIsAppended
  <2>3. ChargesInv' /\ SerialInv' /\ outcome' \in 0..Len(sent')
    <3> HIDE DEF list
    <3> QED
        BY <2>2, AppendKeepsServer
  <2>4. /\ sent' \in Seq(Reports) /\ service' \in Seq(Stages)
        /\ Len(sent') = Len(sent) + 1 /\ Len(service') = Len(sent) + 1
        /\ \A n \in 1..Len(sent) : sent'[n] = sent[n]
        /\ sent'[Len(sent) + 1].attempts = attempts'
        /\ sent'[Len(sent) + 1].final_status = "failed"
        /\ sent'[Len(sent) + 1].final_model_id = None
      BY <2>2 DEF Appended
  <2>5. \A n \in 1..Len(sent') : n \in 1..Len(sent) \/ n = Len(sent) + 1
      BY <1>1, <2>4
  <2>6. TypeInv'
      BY <1>2, <2>1, <2>3, <2>4 DEF TypeInv, Steps
  <2>7. ReportsInv'
    <3>1. \A n \in 1..Len(sent') :
             /\ Succeeded(sent'[n].attempts) \subseteq answers
             /\ sent'[n].final_status = "success" =>
                   /\ sent'[n].final_model_id \in Succeeded(sent'[n].attempts)
                   /\ \E k \in 1..at : sent'[n].final_model_id = Candidates[k]
             /\ sent'[n].final_status = "failed" =>
                   sent'[n].final_model_id = None /\ Succeeded(sent'[n].attempts) = answers
        BY <1>2, <1>3, <2>4, <2>5 DEF ReportsInv
    <3>2. \A n, k \in 1..Len(sent') :
             sent'[n].final_model_id = sent'[k].final_model_id /\ sent'[n].final_model_id # None => n = k
        BY <2>4, <2>5 DEF ReportsInv
    <3> QED
        BY <2>1, <3>1, <3>2 DEF ReportsInv
  <2>8. OneReport'
      BY <1>3, <2>1 DEF OneReport
  <2> QED
      BY <1>4, <2>3, <2>6, <2>7, <2>8
<1> QED
    BY <1>5, <1>6

\* A success is noted, billed and reported at once.
LEMMA SuccessStep == ClientInv /\ CallSucceeds => ClientInv'
<1> SUFFICES ASSUME ClientInv, CallSucceeds PROVE ClientInv'
    OBVIOUS
<1> USE DEF ClientInv
<1> DEFINE list == WithSuccess
<1>1. /\ pc = "call" /\ pc' = "report" /\ attempts' = list /\ answers' = answers \cup {Model}
      /\ billed' = billed + 1 /\ Report("success", Model, list)
      /\ UNCHANGED <<at, result, unheard, failures, open, outcome, charged, overlap>>
    BY DEF CallSucceeds, serverVars
<1>2. /\ at \in 1..Len(Candidates) /\ attempts \in Seq(Attempts) /\ Len(sent) \in Nat
      /\ Succeeded(attempts) = answers /\ answers \subseteq Ranked
    BY DEF TypeInv, AttemptsInv
<1>3. Model \in Ranked /\ Model # None /\ Model = Candidates[at]
    BY <1>2, CandidateAt DEF Model
<1>4. list \in Seq(Attempts) /\ Succeeded(list) = answers \cup {Model}
    BY <1>2, <1>3, NotedAttempt DEF WithSuccess
<1> HIDE DEF list
<1>5. Appended("success", Model, list)
    BY <1>1, <1>3, <1>4, ReportIsAppended
<1>6. ChargesInv' /\ SerialInv' /\ outcome' \in 0..Len(sent')
    BY <1>1, <1>5, AppendKeepsServer
<1>7. /\ sent' \in Seq(Reports) /\ service' \in Seq(Stages)
      /\ Len(sent') = Len(sent) + 1 /\ Len(service') = Len(sent) + 1
      /\ \A n \in 1..Len(sent) : sent'[n] = sent[n]
      /\ sent'[Len(sent) + 1].attempts = list
      /\ sent'[Len(sent) + 1].final_status = "success"
      /\ sent'[Len(sent) + 1].final_model_id = Model
    BY <1>5 DEF Appended
<1>8. result = None /\ \A n \in 1..Len(sent) : sent[n].final_status = "success"
  <2>1. \A n \in 1..Len(sent) : sent[n].final_status \in {"success", "failed"}
      BY SentStatus
  <2> QED
      BY <1>1, <2>1 DEF OneReport, ReportsInv
<1>9. \A n \in 1..Len(sent') : n \in 1..Len(sent) \/ n = Len(sent) + 1
    BY <1>2, <1>7
<1>10. TypeInv'
  <2>1. answers' \subseteq Ranked /\ billed' \in Nat
      BY <1>1, <1>2, <1>3 DEF TypeInv
  <2> QED
      BY <1>1, <1>4, <1>6, <1>7, <2>1 DEF TypeInv, Steps
<1>11. AttemptsInv' /\ BilledInv'
    BY <1>1, <1>4 DEF AttemptsInv, BilledInv, TypeInv
<1>12. ReportsInv'
  <2>1. \A n \in 1..Len(sent) : \E k \in 1..at : sent[n].final_model_id = Candidates[k] /\ k < at
      BY <1>1, <1>8 DEF ReportsInv
  <2>2. \A n \in 1..Len(sent) : sent[n].final_model_id # Model
      BY <1>2, <1>3, <2>1, CandidateAt
  <2>3. \A n \in 1..Len(sent') :
           /\ Succeeded(sent'[n].attempts) \subseteq answers'
           /\ sent'[n].final_status = "success"
           /\ sent'[n].final_model_id \in Succeeded(sent'[n].attempts)
      BY <1>1, <1>4, <1>7, <1>8, <1>9 DEF ReportsInv
  <2>4. \A n \in 1..Len(sent') : \E k \in 1..at : sent'[n].final_model_id = Candidates[k]
      BY <1>2, <1>3, <1>7, <1>9, <2>1
  <2>5. \A n, k \in 1..Len(sent') :
           sent'[n].final_model_id = sent'[k].final_model_id /\ sent'[n].final_model_id # None => n = k
      BY <1>7, <1>9, <2>2 DEF ReportsInv
  <2> QED
      BY <1>1, <2>3, <2>4, <2>5 DEF ReportsInv
<1>13. OneReport'
  <2>1. Model' = Model /\ (failures = 0 => Len(sent) = 0)
      BY <1>1 DEF Model, OneReport
  <2> QED
      BY <1>1, <1>2, <1>7, <1>8, <2>1 DEF OneReport
<1> QED
    BY <1>6, <1>10, <1>11, <1>12, <1>13

\* A step of the client that neither attempts nor reports anything.
Passes ==
    /\ UNCHANGED <<at, attempts, answers, sent, service, outcome, charged, overlap>>
    /\ open' \in BOOLEAN /\ billed' \in Nat /\ unheard' \in Nat /\ failures' \in Nat
    /\ billed' <= 1 + failures' + unheard'

\* The client stops without a result.
LEMMA StopStep ==
    ASSUME ClientInv, Passes, pc' \in {"gave_up", "raised"}, pc # "returned", UNCHANGED result,
           pc' = "gave_up" => pc \notin {"report_failed", "raised"}
    PROVE  ClientInv'
<1> USE DEF ClientInv, Passes
<1>1. result = None
    BY DEF OneReport
<1>2. TypeInv'
    BY DEF TypeInv, Steps
<1>3. AttemptsInv' /\ BilledInv'
    BY DEF AttemptsInv, BilledInv
<1>4. ReportsInv'
  <2>1. pc \in {"report_failed", "raised"} => pc' = "raised"
      OBVIOUS
  <2> QED
      BY <2>1 DEF ReportsInv
<1>5. OneReport' /\ ChargesInv' /\ SerialInv'
    BY <1>1 DEF OneReport, ChargesInv, Recorded, SerialInv
<1> QED
    BY <1>2, <1>3, <1>4, <1>5

\* The answer to its only report makes the client return what was recorded.
LEMMA AnswerStep == ClientInv /\ ReportAnswered => ClientInv'
<1> SUFFICES ASSUME ClientInv, ReportAnswered PROVE ClientInv'
    OBVIOUS
<1> USE DEF ClientInv
<1>1. /\ pc = "report" /\ service[Len(sent)] \in {"recorded", "duplicate"}
      /\ result' = Model /\ pc' = "returned"
      /\ UNCHANGED <<at, attempts, answers, billed, unheard, failures, open, outcome, charged,
                     overlap, sent, service>>
    BY DEF ReportAnswered, Answered, serverVars
<1>2. Model \in Ranked
    BY CandidateAt DEF TypeInv, Model
<1>3. TypeInv'
    BY <1>1, <1>2 DEF TypeInv, Steps
<1>4. AttemptsInv' /\ BilledInv' /\ ReportsInv' /\ ChargesInv' /\ SerialInv'
    BY <1>1 DEF AttemptsInv, BilledInv, ReportsInv, ChargesInv, Recorded, SerialInv
<1>5. failures = 0 => Len(sent) = 1 /\ service[1] = "recorded" /\ sent[1].final_model_id = Model
  <2>1. ASSUME failures = 0 PROVE Len(sent) = 1 /\ sent[1].final_model_id = Model
      BY <1>1, <2>1 DEF OneReport
  <2>2. Len(sent) = 1 => service[1] # "duplicate"
      BY DEF SerialInv
  <2> QED
      BY <1>1, <2>1, <2>2
<1>6. OneReport'
    BY <1>1, <1>5 DEF OneReport
<1> QED
    BY <1>3, <1>4, <1>6

-----------------------------------------------------------------------------
(* Steps of the control plane *)

\* A report moves on, the others stay where they are.
LEMMA ReportMoves ==
    ASSUME TypeInv, NEW n \in 1..Len(sent), NEW stage \in Stages, Moves(n, stage)
    PROVE  /\ service' \in Seq(Stages) /\ Len(service') = Len(service) /\ service'[n] = stage
           /\ \A k \in 1..Len(sent) : k # n => service'[k] = service[k]
<1>1. service \in Seq(Stages) /\ Len(service) = Len(sent) /\ Len(sent) \in Nat
    BY DEF TypeInv
<1>2. service' = [service EXCEPT ![n] = stage]
    BY DEF Moves
<1> QED
    BY <1>1, <1>2

\* A report that is not answered yet moves: the client has seen nothing of it.
LEMMA MoveKeepsClient ==
    ASSUME ClientInv, NEW n \in 1..Len(sent), NEW stage \in Stages, Moves(n, stage),
           service[n] \in {"under_way", "select", "charge"},
           UNCHANGED <<clientVars, sent, open>>
    PROVE  AttemptsInv' /\ BilledInv' /\ ReportsInv' /\ OneReport'
<1> USE DEF ClientInv, clientVars
<1>1. AttemptsInv' /\ BilledInv' /\ ReportsInv'
    BY DEF AttemptsInv, BilledInv, ReportsInv
<1>2. \A k \in 1..Len(sent) : service[k] = "recorded" => service'[k] = "recorded"
    BY ReportMoves
<1>3. Len(sent) = 1 /\ service[1] = "recorded" => service'[1] = "recorded"
    BY <1>2
<1>4. OneReport'
    BY <1>3 DEF OneReport, Model
<1> QED
    BY <1>1, <1>4

\* The SELECT of a report that finds no outcome, the commit, the charge and the
\* loss of a report keep the accounts of the control plane.
LEMMA ServeStep ==
    ASSUME ClientInv, NEW n \in DOMAIN service, Serve(n) \/ LoseReport(n)
    PROVE  ClientInv'
<1> USE DEF ClientInv
<1>1. /\ n \in 1..Len(sent) /\ Len(sent) \in Nat /\ outcome \in 0..Len(sent)
      /\ DOMAIN service = 1..Len(sent) /\ charged \in [Ranked -> Nat] /\ overlap \in BOOLEAN
    BY DEF TypeInv
<1>2. outcome # 0 => outcome \in 1..Len(sent)
    BY <1>1
<1>3. ASSUME NEW stage \in Stages, stage # "recorded", Moves(n, stage),
             service[n] \in {"under_way", "select", "charge"},
             UNCHANGED <<clientVars, sent, open, charged>>,
             outcome' \in 0..Len(sent), overlap' \in BOOLEAN, SerialInv'
      PROVE  ClientInv'
  <2>1. AttemptsInv' /\ BilledInv' /\ ReportsInv' /\ OneReport'
      BY <1>1, <1>3, MoveKeepsClient
  <2>2. /\ service' \in Seq(Stages) /\ Len(service') = Len(service) /\ service'[n] = stage
        /\ \A k \in 1..Len(sent) : k # n => service'[k] = service[k]
      BY <1>1, <1>3, ReportMoves
  <2>3. TypeInv'
      BY <1>3, <2>2 DEF TypeInv, clientVars
  <2>4. \A m : Recorded(m)' <=> Recorded(m)
      BY <1>3, <2>2 DEF Recorded
  <2>5. ChargesInv'
      BY <1>3, <2>4 DEF ChargesInv
  <2> QED
      BY <1>3, <2>1, <2>3, <2>5
<1>4. ASSUME SelectOutcome(n), outcome = 0 PROVE ClientInv'
  <2>1. /\ service[n] = "under_way" /\ Moves(n, "select")
        /\ overlap' = (overlap \/ \E k \in DOMAIN service : service[k] = "select")
        /\ UNCHANGED <<clientVars, sent, open, outcome, charged>>
      BY <1>4 DEF SelectOutcome, IsFirst
  <2>2. /\ service'[n] = "select"
        /\ \A k \in 1..Len(sent) : k # n => service'[k] = service[k]
      BY <1>1, <2>1, ReportMoves DEF Stages
  <2>3. ~overlap' => ~overlap /\ \A k \in 1..Len(sent) : service[k] # "select"
      BY <1>1, <2>1
  <2>4. Len(sent) <= 1 => ~overlap' /\ \A k \in 1..Len(sent) : service'[k] # "duplicate"
    <3>1. Len(sent) <= 1 => ~overlap /\ \A k \in 1..Len(sent) : k = n
        BY <1>1 DEF SerialInv
    <3> QED
        BY <1>1, <2>1, <2>2, <3>1
  <2>5. SerialInv'
      BY <1>1, <1>4, <2>1, <2>2, <2>3, <2>4 DEF SerialInv
  <2>6. overlap' \in BOOLEAN /\ outcome' \in 0..Len(sent)
      BY <1>1, <2>1
  <2> QED
      BY <1>3, <2>1, <2>5, <2>6 DEF Stages
<1>5. ASSUME SelectOutcome(n), outcome # 0 PROVE ClientInv'
  <2>1. /\ service[n] = "under_way" /\ Moves(n, "duplicate")
        /\ UNCHANGED <<clientVars, sent, open, outcome, charged, overlap>>
      BY <1>5 DEF SelectOutcome, IsFirst
  <2>2. /\ service'[n] = "duplicate"
        /\ \A k \in 1..Len(sent) : k # n => service'[k] = service[k]
      BY <1>1, <2>1, ReportMoves DEF Stages
  <2>3. outcome # n
      BY <1>5, <2>1 DEF SerialInv
  <2>4. ~(Len(sent) <= 1)
      BY <1>1, <1>2, <1>5, <2>3
  <2>5. SerialInv'
      BY <1>1, <1>2, <2>1, <2>2, <2>3, <2>4 DEF SerialInv
  <2> QED
      BY <1>1, <1>3, <2>1, <2>5 DEF Stages
<1>6. ASSUME CommitOutcome(n) PROVE ClientInv'
  <2>1. /\ service[n] = "select" /\ Moves(n, "charge") /\ outcome' = n
        /\ UNCHANGED <<clientVars, sent, open, charged, overlap>>
      BY <1>6 DEF CommitOutcome
  <2>2. /\ service'[n] = "charge"
        /\ \A k \in 1..Len(sent) : k # n => service'[k] = service[k]
      BY <1>1, <2>1, ReportMoves DEF Stages
  <2>3. ~overlap => \A k \in 1..Len(sent) :
           k # n => service[k] \notin {"select", "charge", "recorded"}
    <3>1. ~overlap => outcome = 0
        BY <1>1, <2>1 DEF SerialInv
    <3> QED
        BY <1>1, <2>1, <3>1 DEF SerialInv
  <2>4. n # 0
      BY <1>1
  <2>5. SerialInv'
      BY <1>1, <2>1, <2>2, <2>3, <2>4 DEF SerialInv
  <2>6. outcome' \in 0..Len(sent)
      BY <1>1, <2>1
  <2> QED
      BY <1>1, <1>3, <2>1, <2>5, <2>6 DEF Stages
<1>7. ASSUME LoseReport(n) PROVE ClientInv'
  <2>1. /\ service[n] \in {"under_way", "select", "charge"} /\ Moves(n, "lost")
        /\ UNCHANGED <<clientVars, sent, open, outcome, charged, overlap>>
      BY <1>7 DEF LoseReport, serverVars
  <2>2. /\ service'[n] = "lost"
        /\ \A k \in 1..Len(sent) : k # n => service'[k] = service[k]
      BY <1>1, <2>1, ReportMoves DEF Stages
  <2>3. SerialInv'
      BY <1>1, <1>2, <2>1, <2>2 DEF SerialInv
  <2> QED
      BY <1>1, <1>3, <2>1, <2>3 DEF Stages
<1>8. ASSUME RecordSpend(n) PROVE ClientInv'
  <2>1. /\ service[n] = "charge" /\ Moves(n, "recorded")
        /\ charged' = [m \in Ranked |->
                          IF m = sent[n].final_model_id THEN charged[m] + 1 ELSE charged[m]]
        /\ UNCHANGED <<clientVars, sent, open, outcome, overlap>>
      BY <1>1, <1>8 DEF RecordSpend
  <2>2. /\ service' \in Seq(Stages) /\ Len(service') = Len(service) /\ service'[n] = "recorded"
        /\ \A k \in 1..Len(sent) : k # n => service'[k] = service[k]
      BY <1>1, <2>1, ReportMoves DEF Stages
  <2>3. AttemptsInv' /\ BilledInv' /\ ReportsInv' /\ OneReport'
      BY <1>1, <2>1, MoveKeepsClient DEF Stages
  <2>4. charged' \in [Ranked -> Nat]
      BY <1>1, <2>1
  <2>5. TypeInv'
      BY <2>1, <2>2, <2>4 DEF TypeInv, clientVars
  <2>6. SerialInv'
      BY <1>1, <1>2, <2>1, <2>2 DEF SerialInv
  <2>7. \A m \in Ranked : charged'[m] = IF Recorded(m)' THEN 1 ELSE 0
    <3> TAKE m \in Ranked
    <3>1. charged[m] = IF Recorded(m) THEN 1 ELSE 0
        BY DEF ChargesInv
    <3>2. Recorded(m)' <=> Recorded(m) \/ m = sent[n].final_model_id
        BY <1>1, <2>1, <2>2 DEF Recorded
    <3>3. m = sent[n].final_model_id => ~Recorded(m)
      <4>1. m # None
          BY NoneAssumption DEF Ranked
      <4> QED
          BY <1>1, <2>1, <4>1 DEF Recorded, ReportsInv
    <3> QED
        BY <2>1, <3>1, <3>2, <3>3
  <2>8. ChargesInv'
      BY <2>7 DEF ChargesInv
  <2> QED
      BY <2>3, <2>5, <2>6, <2>8
<1> QED
    BY <1>4, <1>5, <1>6, <1>7, <1>8 DEF Serve

-----------------------------------------------------------------------------
(* Theorems *)

\* Every step keeps the bookkeeping of client and control plane.
LEMMA ClientNext == ClientInv /\ [Next]_vars => ClientInv'
<1> SUFFICES ASSUME ClientInv, [Next]_vars PROVE ClientInv'
    OBVIOUS
<1> USE DEF ClientInv
<1>1. failures \in Nat /\ billed \in Nat /\ unheard \in Nat /\ open \in BOOLEAN
    BY DEF TypeInv
<1>2. ASSUME CreateDecision PROVE ClientInv'
  <2>1. /\ pc = "decide" /\ pc' = "call" /\ open' = TRUE
        /\ UNCHANGED <<at, attempts, result, answers, billed, unheard, failures,
                       sent, service, outcome, charged, overlap>>
      BY <1>2 DEF CreateDecision
  <2>2. Len(sent) = 0 /\ billed = 0
      BY <2>1 DEF OneReport, BilledInv
  <2>3. TypeInv'
      BY <2>1 DEF TypeInv, Steps
  <2>4. AttemptsInv' /\ BilledInv' /\ ReportsInv'
      BY <1>1, <2>1, <2>2 DEF AttemptsInv, BilledInv, ReportsInv
  <2>5. OneReport' /\ ChargesInv' /\ SerialInv'
      BY <2>1, <2>2 DEF OneReport, ChargesInv, Recorded, SerialInv
  <2> QED
      BY <2>3, <2>4, <2>5
<1>3. ASSUME CreateDecisionFails \/ CallEscapes \/ ReportEscapes \/ FailureReportEnds PROVE ClientInv'
  <2>1. /\ UNCHANGED <<at, attempts, result, answers, sent, service, outcome, charged, overlap>>
        /\ pc # "returned" /\ pc' \in {"gave_up", "raised"}
        /\ pc' = "gave_up" => pc \notin {"report_failed", "raised"}
      BY <1>3 DEF CreateDecisionFails, CallEscapes, ReportEscapes, FailureReportEnds, serverVars
  <2>2. open' \in BOOLEAN
      BY <1>1, <1>3 DEF CreateDecisionFails, CallEscapes, ReportEscapes, FailureReportEnds, serverVars
  <2>3. /\ failures' \in {failures, failures + 1}
        /\ \/ billed' = billed /\ unheard' = unheard
           \/ billed' = billed + 1 /\ unheard' = unheard + 1
      BY <1>3 DEF CreateDecisionFails, CallEscapes, ReportEscapes, FailureReportEnds, CallIsLost
  <2>4. billed <= 1 + failures + unheard
      BY DEF BilledInv
  <2>5. Passes
      BY <1>1, <2>1, <2>2, <2>3, <2>4 DEF Passes
  <2> QED
      BY <2>1, <2>5, StopStep
<1>4. ASSUME CallFails PROVE ClientInv'
  <2>1. /\ pc = "call" /\ FallBack /\ failures' = failures
        /\ \/ billed' = billed /\ unheard' = unheard
           \/ billed' = billed + 1 /\ unheard' = unheard + 1
        /\ UNCHANGED <<result, answers, open, outcome, charged, overlap>>
      BY <1>4 DEF CallFails, CallIsLost, serverVars
  <2>2. billed <= failures + unheard
      BY <2>1 DEF BilledInv
  <2> QED
      BY <1>1, <2>1, <2>2, FallBackStep
<1>5. ASSUME ReportFails PROVE ClientInv'
  <2>1. /\ pc = "report" /\ FallBack /\ failures' = failures + 1
        /\ UNCHANGED <<billed, unheard, result, answers, open, outcome, charged, overlap>>
      BY <1>5 DEF ReportFails, serverVars
  <2>2. billed <= 1 + failures + unheard
      BY DEF BilledInv
  <2> QED
      BY <1>1, <2>1, <2>2, FallBackStep
<1>6. ASSUME UNCHANGED vars PROVE ClientInv'
  <2> USE <1>6 DEF vars, clientVars, serverVars
  <2>1. TypeInv'
      BY DEF TypeInv
  <2>2. AttemptsInv' /\ BilledInv' /\ ReportsInv' /\ OneReport' /\ ChargesInv' /\ SerialInv'
      BY DEF AttemptsInv, BilledInv, ReportsInv, OneReport, Model, ChargesInv, Recorded, SerialInv
  <2> QED
      BY <2>1, <2>2
<1> QED
    BY <1>2, <1>3, <1>4, <1>5, <1>6, SuccessStep, AnswerStep, ServeStep DEF Next, ClientStep

\* The bookkeeping of client and control plane holds in every state of every
\* behaviour of invoke_with_fallback.
LEMMA ClientInvariant == Spec => []ClientInv
<1> QED
    BY ClientInit, ClientNext, PTL DEF Spec

\* record_outcome stores what was true when invoke_with_fallback sent it, also
\* after the except branch mistook a failed report for a failed model.
THEOREM StoredReportsAreTrue == Spec => []StoredReportIsTrue
<1>1. ClientInv => StoredReportIsTrue
  <2> SUFFICES ASSUME ClientInv, outcome # 0 PROVE
         /\ Succeeded(sent[outcome].attempts) \subseteq answers
         /\ sent[outcome].final_status = "success"
               => sent[outcome].final_model_id \in Succeeded(sent[outcome].attempts)
         /\ sent[outcome].final_status = "failed" => Succeeded(sent[outcome].attempts) = answers
      BY DEF StoredReportIsTrue
  <2>1. outcome \in 1..Len(sent)
      BY DEF ClientInv, TypeInv
  <2> QED
      BY <2>1 DEF ClientInv, ReportsInv
<1> QED
    BY <1>1, ClientInvariant, PTL

\* Providers bill one call of a run of invoke_with_fallback, and one more for
\* each call whose answer failed to arrive after it was served and for each
\* report that failed.
THEOREM BillsNeedLostAnswers == Spec => []BilledAgainOnlyAfterLostAnswer
<1>1. ClientInv => BilledAgainOnlyAfterLostAnswer
    BY DEF ClientInv, BilledInv, BilledAgainOnlyAfterLostAnswer
<1> QED
    BY <1>1, ClientInvariant, PTL

\* record_outcome charges a model once at most, and only one that answered the
\* client, also when reports overlap or their handlers stop half-way.
THEOREM ChargesAreForAnswers == Spec => []ChargedOncePerAnswer
<1>1. ClientInv => ChargedOncePerAnswer
  <2> SUFFICES ASSUME ClientInv, NEW m \in Range(Candidates)
               PROVE  charged[m] <= (IF m \in answers THEN 1 ELSE 0)
      BY DEF ChargedOncePerAnswer
  <2>1. m \in Ranked /\ m # None
      BY NoneAssumption DEF Ranked
  <2>2. charged[m] = IF Recorded(m) THEN 1 ELSE 0
      BY <2>1 DEF ClientInv, ChargesInv
  <2>3. ASSUME NEW n \in 1..Len(sent), sent[n].final_model_id = m PROVE m \in answers
    <3>1. sent[n].final_status \in {"success", "failed"}
        BY SentStatus DEF ClientInv
    <3> QED
        BY <2>1, <2>3, <3>1 DEF ClientInv, ReportsInv
  <2>4. Recorded(m) => m \in answers
      BY <2>3 DEF Recorded
  <2> QED
      BY <2>2, <2>4
<1> QED
    BY <1>1, ClientInvariant, PTL

\* Without two reports in their transactions at the same time the daily spend
\* holds the cost of the stored outcome at most; and without a failed report that
\* outcome is what invoke_with_fallback returned, charged.
THEOREM ChargeIsOfTheOutcome == Spec => []ChargeMatchesOutcome
<1>1. ClientInv => ChargeMatchesOutcome
  <2> SUFFICES ASSUME ClientInv PROVE ChargeMatchesOutcome
      OBVIOUS
  <2>1. \A m \in Ranked : charged[m] = IF Recorded(m) THEN 1 ELSE 0
      BY DEF ClientInv, ChargesInv
  <2>2. ASSUME ~overlap, NEW m \in Ranked
        PROVE  charged[m] <= (IF outcome # 0 /\ sent[outcome].final_model_id = m THEN 1 ELSE 0)
    <3>1. \A n \in 1..Len(sent) : service[n] = "recorded" => outcome = n /\ n # 0
        BY <2>2 DEF ClientInv, SerialInv
    <3>2. Recorded(m) => outcome # 0 /\ sent[outcome].final_model_id = m
        BY <3>1 DEF Recorded
    <3> QED
        BY <2>1, <3>2
  <2>3. ASSUME result # None, failures = 0
        PROVE  outcome # 0 /\ sent[outcome].final_model_id = result /\ charged[result] = 1
    <3>1. Len(sent) = 1 /\ service[1] = "recorded" /\ sent[1].final_model_id = result
        BY <2>3 DEF ClientInv, OneReport
    <3>2. outcome = 1
        BY <3>1 DEF ClientInv, SerialInv
    <3>3. result \in Ranked /\ Recorded(result)
        BY <2>3, <3>1 DEF ClientInv, TypeInv, Recorded
    <3> QED
        BY <2>1, <3>1, <3>2, <3>3
  <2> QED
      BY <2>2, <2>3 DEF ChargeMatchesOutcome, Ranked
<1> QED
    BY <1>1, ClientInvariant, PTL
=============================================================================
