----------------------------- MODULE MCDshLocal -----------------------------
(* Instances of DshLocal for TLC: one letter names a builtin. *)
EXTENDS DshLocal

Exit == <<"x">>
Cd == <<"c">>
Rc == <<"c", "x">>
Dragon == <<"c", "c">>
Stop == <<"x", "x">>

X == "x"
\* Lines at the limits of the arrays.
LongLines == {
    <<"<", X, "<", X, "<", X, "<", X>>,                       \* tokens
    <<X, X, X, "<", X, X, X, "<", X, X, X, ">", X, X>>,       \* the buffer
    [i \in 1..9 |-> "<"], [i \in 1..11 |-> IF i < 9 THEN ">" ELSE X],   \* expanded
    [i \in 1..15 |-> IF i % 2 = 0 THEN "|" ELSE X],           \* commands
    [i \in 1..15 |-> X], <<X, " ", X, " ", X>>,               \* a line, argv
    <<"c", " ", "c", " ", "c">>, <<X, "|", "|", X>>, <<"c", " ", X>>}
Quoted == {
    <<"\"", X, " ", X, "\"">>, <<"'", "\"", "'", X, "\"", "'", "\"">>, <<"\"", X, "|", X, "\"">>,
    <<X, "\"", ">", "\"", X>>, <<X, " ", "'", ">", "'", " ", X>>, <<X, ">", ">", X, "<", X>>,
    <<X, " ", ">", ">", ">", " ", X>>, <<"'", " ", "'", " ", X, "'", X>>}
ShortLines(chars, length) == UNION {[1..k -> chars] : k \in 0..length}
AllLines ==
    ShortLines({X, " ", "\"", ">", "|"}, 4) \cup ShortLines({X, "c"} \cup Special, 3)
        \cup LongLines \cup Quoted
=============================================================================
