---------------------------- MODULE MCReference -----------------------------
(* Two columns and four rows: chunks apart, overlapping, in decreasing order *)
(* of the index, of one row, and a curve with a hole or out of order.        *)
EXTENDS Reference

Frame(q, v) == [index |-> q, val |-> v]

MCFrames ==
    {Frame(<<1, 2>>, [a |-> <<1, 2>>]),
     Frame(<<2, 1>>, [a |-> <<2, 1>>]),
     Frame(<<3>>, [a |-> <<3>>]),
     Frame(<<3, 4>>, [a |-> <<5, 4>>]),
     Frame(<<1, 2, 3>>, [a |-> <<1, NaN, 3>>]),
     Frame(<<1, 2>>, [a |-> <<1, 2>>, b |-> <<7, 8>>]),
     Frame(<<3>>, [b |-> <<9>>])}

MCLegacyFrames == {Frame(<<1, 2>>, [a |-> <<1, 2>>]), Frame(<<4, 3>>, [a |-> <<4, 3>>])}

Symmetric == Permutations(Sessions) \cup Permutations(Commits)
=============================================================================
