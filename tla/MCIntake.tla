------------------------------ MODULE MCIntake ------------------------------
(* Instances of Intake for TLC: three requests, one key, and two bodies,    *)
(* one of which leaves its model to the character.                          *)
EXTENDS Intake, TLC

CONSTANTS r1, r2, r3, k1

Requests == {r1, r2, r3}
RequestSymmetry == Permutations(Requests)
=============================================================================
