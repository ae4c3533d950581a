------------------------- MODULE MCConnectorSession -------------------------
(* An instance of ConnectorSession for TLC: three sockets, so that two      *)
(* hellos can wait for the same prior socket, and a request under way.      *)
EXTENDS ConnectorSession

CONSTANT c1
=============================================================================
