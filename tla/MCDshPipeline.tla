--------------------------- MODULE MCDshPipeline ---------------------------
(* An instance of DshPipeline for TLC. *)
EXTENDS DshPipeline

CONSTANT dsh

ErrCmdArgsBad == -4

Cmd(kind) == [kind |-> kind, redir |-> {}]
SomePipelines == {
    <<Cmd("source")>>, <<Cmd("source"), Cmd("filter")>>, <<Cmd("endless"), Cmd("taker")>>,
    <<Cmd("endless"), Cmd("taker"), Cmd("filter")>>,
    <<Cmd("endless"), [Cmd("filter") EXCEPT !.redir = {"in"}]>>,      \* yes | cat < file
    <<[Cmd("source") EXCEPT !.redir = {"out"}], Cmd("filter")>>}      \* echo hello > file | cat
=============================================================================
