--------------------------- MODULE BudgetExposure ---------------------------
(***************************************************************************)
(* How far today's spend can exceed a credential's daily cap.  create_     *)
(* decision compares the spend it read with the cap, and the charge comes  *)
(* much later, with the report: in between other requests read the same    *)
(* counter.  peak is a history variable over the steps of ControlPlane:    *)
(* the largest number of requests and decisions of a quota key that were   *)
(* let through and not charged yet.                                        *)
(***************************************************************************)
EXTENDS ControlPlane, FiniteSetsExt

VARIABLE peak

\* Some amounts occur and one of them is the largest: they are floats.
ASSUME AmountsAssumption == \E a \in Amounts : \A b \in Amounts : b <= a

CapOf(q) == Max({p.daily_budget_usd : p \in {x \in Principals : QuotaKey(x) = q}})

\* Requests of q that passed the check and have no row yet.
LetThrough(q) ==
    {h \in Handlers : pc[h] \in {"reserve", "expire", "count", "unreserve", "compute", "insert"}
                      /\ Quota(h) = q}

\* Reports under q that will still be charged.
ToCharge(q) ==
    {h \in Handlers : pc[h] \in {"delete", "commit", "release", "charge"} /\ Quota(h) = q}

\* Open decisions of q that no such report speaks for.
Unreported(q) ==
    {d \in DecisionIds : /\ Status(d) = "open"
                         /\ <<decisions[d].environment, decisions[d].agent_id>> = q
                         /\ \A h \in ToCharge(q) : Did(h) # d}

Exposed(q) == Cardinality(LetThrough(q)) + Cardinality(ToCharge(q)) + Cardinality(Unreported(q))

BudgetSpec ==
    /\ Init /\ peak = [q \in QuotaKeys |-> 0]
    /\ [][/\ Next /\ SerialReports'
          /\ peak' = [q \in QuotaKeys |-> Max({peak[q], Exposed(q)'})]]_<<vars, peak>>

\* The daily cap is soft, and this is by how much: the counter of a quota key
\* never passes what the last admitted request may have seen plus one largest
\* amount for everything that was let through and uncharged at the same time,
\* across crashes, expired slots and midnight.  Reports of one decision that
\* overlap are charged again and again and obey no such bound.
OverspendIsBounded ==
    OneEnvironmentPerAgent =>
       \A q \in QuotaKeys :
          spend[q] <= Max({CapOf(q), Min(Amounts)}) - Min(Amounts) + peak[q] * Max(Amounts)
=============================================================================
