----------------------------- MODULE MCWfsLocks -----------------------------
(* Instances of WfsLocks for TLC.                                          *)
EXTENDS WfsLocks, TLC

CONSTANTS la, lb, fa, fb, r1, r2, r3

TwoLayers == {<<la, lb>>}
OneAndNever == {1, Never}
JustOne == {1}

\* Requests are interchangeable, and so are features; layers are not, since
\* TypeNames orders them.
Symmetry == Permutations(Requests) \cup Permutations(Fids)
=============================================================================
