-------------------------- MODULE MCFindConflicts --------------------------
(* Lists of chunks for FindConflicts: every list of three chunks over the    *)
(* ways to share three columns, of four over fewer shapes and in chains, and *)
(* of two and three whose dtypes differ.                                     *)
EXTENDS FindConflicts, SequencesExt

CONSTANT nan

Metas(colSets, ranges, kinds) ==
    {[cols |-> C, first |-> r[1], last |-> r[2], kind |-> k] :
       C \in colSets, r \in ranges, k \in kinds}

Wide  == Metas({{1}, {3}, {1, 2}, {2, 3}}, {<<0, 0>>, <<0, 1>>, <<1, 1>>}, {"i"})
Long  == Metas({{1}, {1, 2}}, {<<0, 0>>, <<0, 1>>, <<1, 2>>}, {"i"})
Links == Metas({{1}, {1, 2}}, {<<0, 0>>, <<0, 1>>, <<1, 2>>, <<2, 2>>}, {"i"})
Kinds == Metas({{1}, {2}, {1, 2}}, {<<0, 0>>, <<1, 1>>}, {"i", "f"})

\* four chunks that overlap as the links of a chain do
Chains ==
    {s \in [1 .. 4 -> Links] : \A i, j \in 1 .. 4 :
       i # j => <<s[i].first, s[i].last>> # <<s[j].first, s[j].last>>}

SmallLists == BoundedSeq(Wide, 3) \cup BoundedSeq(Long, 4) \cup Chains \cup BoundedSeq(Kinds, 3)
=============================================================================
