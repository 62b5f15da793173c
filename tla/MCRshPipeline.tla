--------------------------- MODULE MCRshPipeline ---------------------------
(* An instance of RshPipeline for TLC. *)
EXTENDS RshPipeline

CONSTANTS s1, s2

Cmd(kind) == [kind |-> kind, redir |-> {}]
EchoCat == {<<Cmd("source"), Cmd("filter")>>}   \* echo hello | cat
=============================================================================
