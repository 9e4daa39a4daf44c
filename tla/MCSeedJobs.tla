----------------------------- MODULE MCSeedJobs -----------------------------
(* Instances of SeedJobs for TLC.                                          *)
EXTENDS SeedJobs, TLC

CONSTANTS j1, j2, world, g4326, g3857

TwoGridsets == g4326 :> 3 @@ g3857 :> 1
=============================================================================
