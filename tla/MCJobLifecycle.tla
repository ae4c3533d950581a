--------------------------- MODULE MCJobLifecycle ---------------------------
(* An instance of JobLifecycle for TLC: two jobs, a video and an image, the *)
(* image bound to its route.                                                *)
EXTENDS JobLifecycle

MCVideo == {1}
MCLocked == {2}
=============================================================================
