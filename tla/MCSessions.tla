----------------------------- MODULE MCSessions -----------------------------
(* Instances of Sessions for TLC.                                          *)
EXTENDS Sessions, TLC

\* Sessions, replicas and requests are interchangeable.
Symmetry == Permutations(Sessions) \cup Permutations(Replicas) \cup Permutations(Requests)
=============================================================================
