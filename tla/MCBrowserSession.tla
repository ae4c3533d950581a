-------------------------- MODULE MCBrowserSession --------------------------
(* An instance of BrowserSession for TLC: two accounts, two sockets, a      *)
(* request and a page that captures a session.                              *)
EXTENDS BrowserSession

CONSTANTS a1, a2, r1, f1
=============================================================================
