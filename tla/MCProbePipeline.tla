--------------------------- MODULE MCProbePipeline ---------------------------
(* Instances of ProbePipeline for TLC. *)
EXTENDS ProbePipeline

CONSTANTS m1, m2

TwoTargets == <<m1, m2>>
=============================================================================
