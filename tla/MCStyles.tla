------------------------------ MODULE MCStyles ------------------------------
(* Instances of Styles for TLC.                                            *)
EXTENDS Styles, TLC

CONSTANTS css, sld

\* One style in SLD and one in CSS; the built-in one is in SLD.
TwoFormats == (sld :> "SLD") @@ (css :> "CSS") @@ (BuiltInContent :> "SLD")
=============================================================================
