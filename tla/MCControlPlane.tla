--------------------------- MODULE MCControlPlane ---------------------------
(* Instances of ControlPlane for TLC. *)
EXTENDS ControlPlane, TLC

CONSTANTS h1, h2, d1, d2

Principal(agent, env, limit, budget) ==
    [agent_id |-> agent, environment |-> env, concurrent_limit |-> limit, daily_budget_usd |-> budget]

\* One agent, one credential, room for one open decision.
OneCredential == {Principal("agent", "prod", 1, 2)}

\* Two credentials of one agent in one environment, with different limits.
SharedQuota == {Principal("agent", "prod", 1, 1), Principal("agent", "prod", 2, 2)}

\* One agent with a credential in each of two environments.
TwoEnvironments == {Principal("agent", "prod", 1, 1), Principal("agent", "staging", 1, 1)}

Symmetry == Permutations({h1, h2}) \cup Permutations({d1, d2})
=============================================================================
