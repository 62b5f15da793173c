---------------------------- MODULE MCTextTools ----------------------------
(* Command lines for TextTools. *)
EXTENDS TextTools, TLC

\* Every text of up to n characters out of cs.
Texts(cs, n) == UNION {[1..k -> cs] : k \in 0..n}

Cmd(tool, flags, pattern, files) ==
    [tool |-> tool, flags |-> flags, pattern |-> pattern, files |-> files]

MCChars == {"a", "b", "A"}
Small == Texts({"a", "b", NEWLINE}, 3)

\* Texts in which a match overlaps a failed one, in which lines are longer than
\* the buffer, by its newline only or by more than it holds, or the last one is
\* not terminated.
Chosen == {<<"a", "a", "a", "b", NEWLINE>>, <<"A", "b", NEWLINE, "a", "a", "A">>,
           <<"a", "a", "a", "b", "a", "b", "a", NEWLINE, "b">>, <<NEWLINE, NEWLINE, "a">>,
           <<"b", "a", "a", "b", "a", NEWLINE, "a">>,
           <<"b", "b", "b", "b", "a", "b", "a", "a", "b", "b", "a", "b", NEWLINE>>}

Patterns == {<<>>, <<"a">>, <<"a", "b">>, <<"a", "A">>, <<"a", "a", "b">>}
GrepFlags == {<<>>, <<"n">>, <<"i", "n">>, <<"c">>, <<"v">>, <<"v", "c">>, <<"n", "i", "v">>,
              <<"h">>, <<"n", "h">>, <<"x">>}

GrepArgs ==
    {Cmd("minigrep", fl, p, <<t>>) : fl \in {<<"n">>, <<"v", "c">>}, p \in Patterns, t \in Small}
    \cup {Cmd("minigrep", fl, p, fs) :
            fl \in GrepFlags, p \in Patterns,
            fs \in {<<>>, <<Missing>>} \cup {<<t>> : t \in Chosen}
                   \cup {<<t, u>> : t \in Chosen, u \in Chosen \cup {Missing}}}
    \cup {Cmd("minigrep", fl, Missing, <<>>) : fl \in GrepFlags}

WcArgs ==
    {Cmd("wordcount", <<>>, Missing, <<t>>) : t \in Texts({"a", " ", NEWLINE}, 5) \cup {Missing}}
    \cup {Cmd("wordcount", fl, Missing, fs) :
            fl \in {<<"l">>, <<"w", "c">>, <<"w", "x">>},
            fs \in [1..3 -> {<<>>, <<"a", " ", "a">>, <<"a", NEWLINE>>, Missing}]}

MCArgs == GrepArgs \cup WcArgs

\* Sorted is the library's operator.
ASSUME SortedAssumption == \A S \in SUBSET (0..5) : Sorted(S) = SetToSortSeq(S, <)
=============================================================================
