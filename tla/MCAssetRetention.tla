-------------------------- MODULE MCAssetRetention --------------------------
(* An instance of AssetRetention for TLC: two images in batches of one, one *)
(* character and one job.                                                   *)
EXTENDS AssetRetention

CONSTANTS c1, j1
=============================================================================
