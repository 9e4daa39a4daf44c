----------------------------- MODULE MCCatalog ------------------------------
(* Instances of Catalog for TLC.                                           *)
EXTENDS Catalog, TLC

CONSTANTS ra, rb, c1, c2

Alone == c1 :> ra
Apart == c1 :> ra @@ c2 :> rb
=============================================================================
