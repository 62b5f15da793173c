---------------------------- MODULE MCRshServer ----------------------------
(* Clients as model values for TLC. *)
EXTENDS RshServer

CONSTANTS c1, c2, c3
=============================================================================
