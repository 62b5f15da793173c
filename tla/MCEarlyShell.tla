---------------------------- MODULE MCEarlyShell ----------------------------
(* Instances of EarlyShell for TLC: one letter names a builtin. *)
EXTENDS EarlyShell

X == "x"
ExitName == <<"e">>
Cd == <<"c">>
Rc == <<"c", "e">>
Dragon == <<"c", "c">>

ShortLines(chars, length) == UNION {[1..k -> chars] : k \in 0..length}
Builtins == {<<"e">>, <<" ", "e">>, <<"c", "e">>, <<"c", "c">>, <<"c">>, <<"c", " ", X>>,
             <<"c", " ", X, " ", X>>, <<"e", " ", X>>}
\* Lines at the limits of the arrays: argv, commands[], cmd_line.
LimitLines == {<<X, " ", X, " ", X>>, <<X, " ", X, " ", "\"", "\"">>, <<X, "|", X, "|", X>>,
    [i \in 1..6 |-> X], [i \in 1..7 |-> X], [i \in 1..8 |-> X], [i \in 1..9 |-> " "],
    <<X, " ", " ", " ", " ", " ", "e">>, <<X, " ", " ", " ", " ", " ", " ", "e">>,
    <<" ", " ", "\"", "'", "\"", " ", X>>, <<"'", X, "\"", "'", X, " ", X>>,
    <<"\"", X, " ", " ", " ", " ", " ", "\"", "e">>}
AllLines == ShortLines({X, " ", "\"", "'", "|"}, 4) \cup Builtins \cup LimitLines

\* The line typed last matters until it has been read and parsed.
View == <<pc, parserVars, stdin, eof, n, childVars,
          IF pc = "prompt" /\ stdin = <<>> THEN <<>> ELSE typed>>
=============================================================================
