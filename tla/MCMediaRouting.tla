--------------------------- MODULE MCMediaRouting ---------------------------
(* Two connectors with an account each, jobs, and one image that a generated *)
(* image has the bytes of.                                                   *)
EXTENDS MediaRouting, TLC

CONSTANTS c1, c2, a1, a2, j1, j2, i1

Accounts == c1 :> a1 @@ c2 :> a2
TheBytes == i1 :> i1 @@ j1 :> i1 @@ j2 :> i1
JobSymmetry == Permutations(Job)
=============================================================================
