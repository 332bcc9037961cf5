---------------------------- MODULE AgentClient ----------------------------
(***************************************************************************)
(* invoke_with_fallback of the example client against record_outcome of    *)
(* the control plane.  The client asks for a decision, calls the ranked    *)
(* candidates in turn and reports the outcome.  Every HTTP call may fail   *)
(* or time out, whether or not the other side has done or will do its part:*)
(* a provider may have billed a call whose answer never arrives, and a     *)
(* report that timed out may be served much later, at the same time as a   *)
(* newer one, in part or never.                                            *)
(*                                                                         *)
(* An attempt is reduced to its model and whether it succeeded, a report to*)
(* its attempts, final status and final model; final_cost_usd is the cost  *)
(* of the final model, so a charge is told by the model it is for.  A      *)
(* report is served in three steps (its transaction's SELECT, its commit,  *)
(* its charge); ControlPlane has the others.                               *)
(***************************************************************************)
EXTENDS Naturals, Sequences, Functions

CONSTANTS
    Candidates,   \* decision["candidates"]: the models in rank order
    None

ASSUME CandidatesAssumption ==
    Candidates \in Seq(Range(Candidates)) /\ IsInjective(Candidates) /\ Len(Candidates) > 0
ASSUME NoneAssumption == None \notin Range(Candidates)

VARIABLES
    pc,        \* the client's next step
    at,        \* index of the candidate at hand
    attempts,  \* the attempts list
    result,    \* the model whose answer is returned to the caller, or None
    open,      \* the control plane has stored the decision
    sent,      \* history: the reports sent, in order
    service,   \* service[n]: how far the n-th report sent has got
    outcome,   \* index of the report stored as the decision's outcome, 0 for none
    charged,   \* charged[m]: how often the cost of m was added to the daily spend
    overlap,   \* history: two reports were in their transactions at the same time
    answers,   \* history: models whose answer reached the client
    billed,    \* history: calls that a provider served and billed
    unheard,   \* history: those of them that failed for the client
    failures   \* history: reports that failed for the client

clientVars == <<pc, at, attempts, result, answers, billed, unheard, failures>>
serverVars == <<open, outcome, charged, overlap>>
vars == <<clientVars, serverVars, sent, service>>

\* A report is under way to the control plane, is in its transaction, is
\* committed and to be charged, is answered (recorded or duplicate), or is lost
\* with its handler.
Stages == {"under_way", "select", "charge", "recorded", "duplicate", "lost"}

Model == Candidates[at]
Attempt(model, status) == [model_id |-> model, status |-> status]
Succeeded(list) == {list[i].model_id : i \in {j \in DOMAIN list : list[j].status = "success"}}

Init ==
    /\ pc = "decide" /\ at = 1 /\ attempts = <<>> /\ result = None
    /\ open = FALSE /\ sent = <<>> /\ service = <<>>
    /\ outcome = 0 /\ charged = [m \in Range(Candidates) |-> 0] /\ overlap = FALSE
    /\ answers = {} /\ billed = 0 /\ unheard = 0 /\ failures = 0

-----------------------------------------------------------------------------
(* The client.  A definition that starts with "Wrong" is a faulty form of  *)
(* the one after it and part of no specification.                          *)

CreateDecision ==
    /\ pc = "decide"
    /\ open' = TRUE /\ pc' = "call"
    /\ UNCHANGED <<at, attempts, result, answers, billed, unheard, failures>>
    /\ UNCHANGED <<sent, service, outcome, charged, overlap>>

\* A timeout or an error status; the decision may have been stored.
CreateDecisionFails ==
    /\ pc = "decide"
    /\ open' \in BOOLEAN /\ pc' = "gave_up"
    /\ UNCHANGED <<at, attempts, result, answers, billed, unheard, failures>>
    /\ UNCHANGED <<sent, service, outcome, charged, overlap>>

\* report_outcome: the request leaves, and the client waits for the answer.
Report(status, model, list) ==
    /\ sent' = Append(sent, [final_status |-> status, final_model_id |-> model, attempts |-> list])
    /\ service' = Append(service, "under_way")

WrongWithSuccess == attempts

WithSuccess == Append(attempts, Attempt(Model, "success"))

\* The model answers: note the success and report it.
CallSucceeds ==
    /\ pc = "call"
    /\ answers' = answers \cup {Model}
    /\ billed' = billed + 1
    /\ attempts' = WithSuccess
    /\ Report("success", Model, WithSuccess)
    /\ pc' = "report"
    /\ UNCHANGED <<at, result, unheard, failures, serverVars>>

OneMore == at < Len(Candidates)

WrongNextAt == at

NextAt == at + 1

WrongFallBackSilent ==
    /\ attempts' = Append(attempts, Attempt(Model, "upstream_error"))
    /\ IF OneMore THEN at' = NextAt /\ pc' = "call"
                  ELSE at' = at /\ pc' = "raised"
    /\ UNCHANGED <<sent, service>>

\* The except branch: note the error against this candidate and go on to the
\* next; after the last, report the failure.
FallBack ==
    /\ attempts' = Append(attempts, Attempt(Model, "upstream_error"))
    /\ IF OneMore
       THEN at' = NextAt /\ pc' = "call" /\ UNCHANGED <<sent, service>>
       ELSE at' = at /\ pc' = "report_failed" /\ Report("failed", None, attempts')

\* The call fails for the client: refused or never served, or served and billed
\* while the answer is late, cut off or unreadable.
CallIsLost ==
    \/ UNCHANGED <<billed, unheard>>
    \/ billed' = billed + 1 /\ unheard' = unheard + 1

CallFails ==
    /\ pc = "call"
    /\ CallIsLost
    /\ FallBack
    /\ UNCHANGED <<result, answers, failures, serverVars>>

\* An exception the except clause does not name (an unknown provider, a
\* protocol error, a malformed body) leaves the function without a report.
CallEscapes ==
    /\ pc = "call"
    /\ CallIsLost
    /\ pc' = "gave_up"
    /\ UNCHANGED <<at, attempts, result, answers, failures, serverVars, sent, service>>

Answered == service[Len(sent)] \in {"recorded", "duplicate"}

WrongReportAnswered ==
    /\ pc = "report" /\ Answered
    /\ result' = Model
    /\ IF OneMore THEN at' = NextAt /\ pc' = "call" ELSE at' = at /\ pc' = "returned"
    /\ UNCHANGED <<attempts, answers, billed, unheard, failures, serverVars, sent, service>>

\* Any answer, recorded or duplicate, will do.
ReportAnswered ==
    /\ pc = "report" /\ Answered
    /\ result' = Model /\ pc' = "returned"
    /\ UNCHANGED <<at, attempts, answers, billed, unheard, failures, serverVars, sent, service>>

\* The report of a success fails inside the try block: the except branch takes
\* it for a failure of the model.
ReportFails ==
    /\ pc = "report"
    /\ failures' = failures + 1
    /\ FallBack
    /\ UNCHANGED <<result, answers, billed, unheard, serverVars>>

\* The report of the overall failure is outside the try block; answered or not,
\* the function raises.
FailureReportEnds ==
    /\ pc = "report_failed"
    /\ \/ Answered /\ UNCHANGED failures
       \/ failures' = failures + 1
    /\ pc' = "raised"
    /\ UNCHANGED <<at, attempts, result, answers, billed, unheard, serverVars, sent, service>>

ReportEscapes ==
    /\ pc = "report"
    /\ failures' = failures + 1
    /\ pc' = "gave_up"
    /\ UNCHANGED <<at, attempts, result, answers, billed, unheard, serverVars, sent, service>>

-----------------------------------------------------------------------------
(* The control plane and the network *)

Moves(n, stage) == service' = [service EXCEPT ![n] = stage]

WrongIsFirst == TRUE

IsFirst == outcome = 0

\* The transaction's SELECT: a stored outcome is answered as a duplicate.  No
\* row lock is taken, so several reports may find none.
SelectOutcome(n) ==
    /\ service[n] = "under_way"
    /\ IF IsFirst
       THEN /\ Moves(n, "select")
            /\ overlap' = (overlap \/ \E k \in DOMAIN service : service[k] = "select")
       ELSE Moves(n, "duplicate") /\ UNCHANGED overlap
    /\ UNCHANGED <<clientVars, sent, open, outcome, charged>>

\* The commit: this report is now the stored outcome.
CommitOutcome(n) ==
    /\ service[n] = "select"
    /\ outcome' = n
    /\ Moves(n, "charge")
    /\ UNCHANGED <<clientVars, sent, open, charged, overlap>>

\* record_spend of the report's final cost, which is nothing without a final
\* model; then the answer.
RecordSpend(n) ==
    /\ service[n] = "charge"
    /\ charged' = [m \in DOMAIN charged |->
                      IF m = sent[n].final_model_id THEN charged[m] + 1 ELSE charged[m]]
    /\ Moves(n, "recorded")
    /\ UNCHANGED <<clientVars, sent, open, outcome, overlap>>

\* The request is lost or refused, or its handler stops before its next step.
LoseReport(n) ==
    /\ service[n] \in {"under_way", "select", "charge"}
    /\ Moves(n, "lost")
    /\ UNCHANGED <<clientVars, serverVars, sent>>

-----------------------------------------------------------------------------

ClientStep ==
    \/ CreateDecision \/ CreateDecisionFails
    \/ CallSucceeds \/ CallFails \/ CallEscapes
    \/ ReportAnswered \/ ReportFails \/ FailureReportEnds \/ ReportEscapes

Serve(n) == SelectOutcome(n) \/ CommitOutcome(n) \/ RecordSpend(n)

Next ==
    \/ ClientStep
    \/ \E n \in DOMAIN service : Serve(n) \/ LoseReport(n)

Spec == Init /\ [][Next]_vars

\* Every call of the client has a timeout, and the server goes on with what has
\* reached it.
FairSpec ==
    /\ Spec
    /\ WF_vars(ClientStep)
    /\ WF_vars(\E n \in DOMAIN service : Serve(n))

-----------------------------------------------------------------------------
(* Properties *)

\* Whatever is stored was true when it was sent: a success names a model that
\* answered and whose success is among the attempts, and even a report of
\* failure lists every model that answered, because the success is noted before
\* its report is tried.
StoredReportIsTrue ==
    outcome # 0 =>
       LET r == sent[outcome]
       IN  /\ Succeeded(r.attempts) \subseteq answers
           /\ r.final_status = "success" => r.final_model_id \in Succeeded(r.attempts)
           /\ r.final_status = "failed" => Succeeded(r.attempts) = answers

\* A run of the client makes providers bill more than one call only when
\* something was served and its answer did not count: each call billed beyond
\* the first stands for a call whose answer failed to arrive, or for a report
\* that failed after its model had answered.
BilledAgainOnlyAfterLostAnswer == billed <= 1 + failures + unheard

\* However many reports arrive, in whatever order, at the same time or cut off
\* between commit and charge: the daily spend is charged at most once for each
\* model that answered, and never for any other.
ChargedOncePerAnswer ==
    \A m \in Range(Candidates) : charged[m] <= (IF m \in answers THEN 1 ELSE 0)

\* As long as no two reports were in their transactions at the same time, only
\* the stored outcome is charged, and once at most (not at all when its handler
\* stopped after the commit).  When no report failed, that outcome names what
\* the caller got, and is charged by the time the caller has it.
ChargeMatchesOutcome ==
    /\ ~overlap => \A m \in Range(Candidates) :
          charged[m] <= (IF outcome # 0 /\ sent[outcome].final_model_id = m THEN 1 ELSE 0)
    /\ result # None /\ failures = 0 =>
          outcome # 0 /\ sent[outcome].final_model_id = result /\ charged[result] = 1

\* A stored decision gets its outcome, unless the client left it with an
\* unexpected exception or a report failed.
DecisionCloses ==
    open ~> (outcome # 0 \/ pc = "gave_up" \/ failures > 0)

\* README: "Agents can retry and fall back deterministically, then report what
\* actually happened": the stored outcome names the model whose answer the
\* caller got.
StoredOutcomeIsTheResult ==
    result # None /\ outcome # 0 => sent[outcome].final_model_id = result
=============================================================================
