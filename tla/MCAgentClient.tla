--------------------------- MODULE MCAgentClient ---------------------------
(* Three candidates, so up to four reports of one decision. *)
EXTENDS AgentClient

MCCandidates == <<"m1", "m2", "m3">>
=============================================================================
