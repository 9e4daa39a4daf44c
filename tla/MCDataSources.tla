--------------------------- MODULE MCDataSources ---------------------------
(* Instances of DataSources for TLC.                                       *)
EXTENDS DataSources, TLC

\* All names have the same file.
OneFile == [n \in Names |-> CHOOSE f \in Files : TRUE]

Symmetry == Permutations(Servers) \cup Permutations(Contents) \cup Permutations(Requests)
              \cup Permutations(Replicas)
=============================================================================
