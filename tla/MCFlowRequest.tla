--------------------------- MODULE MCFlowRequest ---------------------------
(* An instance of FlowRequest for TLC: a generation request and a project   *)
(* request of one connector, over three sockets.                            *)
EXTENDS FlowRequest

CONSTANTS g1, p1
=============================================================================
