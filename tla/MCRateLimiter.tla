--------------------------- MODULE MCRateLimiter ---------------------------
(* Requests that are served at the same time are interchangeable. *)
EXTENDS RateLimiter, TLC

Symmetry == Permutations(Handlers)
=============================================================================
