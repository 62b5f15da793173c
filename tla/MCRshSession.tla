---------------------------- MODULE MCRshSession ----------------------------
(* Instances of RshSession for TLC. *)
EXTENDS RshSession

AllLines == Kinds
AllOutputs == {<<>>, <<"data">>, <<"data", "data">>, <<"data", "eot">>,
               <<"eot", "data">>}
=============================================================================
