--------------------------- MODULE MCRateLimiter ---------------------------
(* The rate limiter for a few clients.                                     *)
EXTENDS RateLimiter, TLC

Symmetry == Permutations(IPs) \cup Permutations(Requests) \cup Permutations(Salts)
=============================================================================
