----------------------------- MODULE Ascending -----------------------------
(***************************************************************************)
(* The members of a finite set of numbers in ascending order: the          *)
(* SetToSortSeq(S, <) of the community modules, which rests on SortSeq,    *)
(* an operator that has no definition a prover could use.                  *)
(***************************************************************************)
EXTENDS Integers, Sequences, FiniteSetsExt

\* The k-th is the least one that has k members up to it.
UpTo(S, n) == {x \in S : x <= n}
Sorted(S) ==
    [k \in 1..Cardinality(S) |-> Min({x \in S : Cardinality(UpTo(S, x)) >= k})]

\* What s has at the places in S, in order.
Picked(s, S) == [k \in DOMAIN Sorted(S) |-> s[Sorted(S)[k]]]
=============================================================================
