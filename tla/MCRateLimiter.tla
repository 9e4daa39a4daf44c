---------------------------- MODULE MCRateLimiter ---------------------------
(* Instances of RateLimiter for TLC.                                       *)
EXTENDS RateLimiter, TLC

\* Clients and requests are interchangeable.
Symmetry == Permutations(Clients) \cup Permutations(Arrivals)
=============================================================================
