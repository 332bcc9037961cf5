--------------------------- MODULE DecisionLedger ---------------------------
(***************************************************************************)
(* What the control plane promises of a decision, as an agent and an       *)
(* accountant see it: it is opened once and completed once, it is charged  *)
(* once and only after it was completed, and its outcome is announced once *)
(* and only after it was charged.  How tasks, tables, counters and crashes *)
(* bring that about is ControlPlane.                                       *)
(***************************************************************************)
EXTENDS Naturals

CONSTANT DecisionIds

VARIABLES
    status,   \* status[d]: "absent", "open" or "completed"
    charges,  \* charges[d]: how often d was added to a daily budget
    events    \* events[d]: how often the outcome of d was published

ledger == <<status, charges, events>>

Init ==
    /\ status = [d \in DecisionIds |-> "absent"]
    /\ charges = [d \in DecisionIds |-> 0]
    /\ events = [d \in DecisionIds |-> 0]

Open(d) ==
    /\ status[d] = "absent"
    /\ status' = [status EXCEPT ![d] = "open"]
    /\ UNCHANGED <<charges, events>>

Complete(d) ==
    /\ status[d] = "open"
    /\ status' = [status EXCEPT ![d] = "completed"]
    /\ UNCHANGED <<charges, events>>

Charge(d) ==
    /\ status[d] = "completed" /\ charges[d] = 0
    /\ charges' = [charges EXCEPT ![d] = 1]
    /\ UNCHANGED <<status, events>>

Announce(d) ==
    /\ charges[d] = 1 /\ events[d] = 0
    /\ events' = [events EXCEPT ![d] = 1]
    /\ UNCHANGED <<status, charges>>

Next == \E d \in DecisionIds : Open(d) \/ Complete(d) \/ Charge(d) \/ Announce(d)

Spec == Init /\ [][Next]_ledger
=============================================================================
