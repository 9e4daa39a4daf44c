----------------------------- MODULE MCAccounts -----------------------------
(* Instances of Accounts for TLC.                                          *)
EXTENDS Accounts, TLC

CONSTANTS p1, p2, s1, s2

DefaultRow == [pw |-> p1, settings |-> s1]
Symmetry == Permutations(Requests)
=============================================================================
