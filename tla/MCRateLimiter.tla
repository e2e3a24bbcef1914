--------------------------- MODULE MCRateLimiter ---------------------------
(* The rate limiter on small instances; clients and workers are             *)
(* interchangeable.                                                         *)
EXTENDS RateLimiter, TLC

Symmetry == Permutations(Threads) \cup Permutations(Ips)
=============================================================================
