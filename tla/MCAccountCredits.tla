-------------------------- MODULE MCAccountCredits --------------------------
(* An instance of AccountCredits for TLC: a balance pays for either of two  *)
(* videos that do not cost the same, which share the slots with an image    *)
(* and a poll.                                                              *)
EXTENDS AccountCredits, TLC

CONSTANTS v1, v2, i1, p1

TheImages == {i1}
TheVideos == {v1, v2}
ThePolls == {p1}
TheCost == v1 :> 1 @@ v2 :> 2
=============================================================================
