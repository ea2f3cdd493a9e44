---------------------------- MODULE MCStatistics ----------------------------
(* Instances of Statistics for TLC: bulks whose columns are grouped in one   *)
(* way or another by each process.                                           *)
EXTENDS Statistics, TLC

CONSTANTS t1, t2, t3, q1

\* by three, in two orders: two batches have the same ends, and not the same
\* columns
SameEnds == {{<<"a", "b", "c">>, <<"t">>}, {<<"a", "t", "c">>, <<"b">>}}

\* by two, in two orders: names differ, and files overlap
Overlapping == {{<<"a", "b">>, <<"c", "t">>}, {<<"t", "a">>, <<"b", "c">>}}

\* all at once: names are the same, and so are the columns
AllAtOnce == {{<<"a", "b", "t", "c">>}, {<<"t", "a", "b", "c">>}}

AnyOrder == {SameEnds, Overlapping, AllAtOnce}

Symmetry == Permutations(Triggers)
=============================================================================
