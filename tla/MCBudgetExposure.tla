-------------------------- MODULE MCBudgetExposure --------------------------
(* An instance of BudgetExposure for TLC. *)
EXTENDS BudgetExposure, TLC

CONSTANTS h1, h2, d1, d2, d3

\* One credential with room for two open decisions and a cap of two.
OneCredential ==
    {[agent_id |-> "agent", environment |-> "prod", concurrent_limit |-> 2, daily_budget_usd |-> 2]}

Symmetry == Permutations({h1, h2}) \cup Permutations({d1, d2, d3})
=============================================================================
