--------------------------- MODULE MCRateLimiter ----------------------------
(* RateLimiter for TLC: requests are interchangeable. *)
EXTENDS RateLimiter, TLC

CONSTANTS q1, q2, q3, q4, q5

MCRequest == {q1, q2, q3, q4, q5}
Symmetry == Permutations(MCRequest)
=============================================================================
