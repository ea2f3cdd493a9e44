------------------------------- MODULE Chunks -------------------------------
(***************************************************************************)
(* Dataframes, the metadata the worker derives from them (chunk_meta.py),  *)
(* and the pure part of conflict handling: when two chunks conflict, how   *)
(* conflicting chunks are grouped, merged, and split again (conflict.py,   *)
(* dataframe.py).                                                          *)
(*                                                                         *)
(* A dataframe is the set of its column labels, the set of its index       *)
(* values, and a value for every cell.  What a value is does not matter to *)
(* the worker, only who wrote it: a cell holds the post that wrote it, or  *)
(* NaN.  Indexes are taken increasing.                                     *)
(***************************************************************************)
EXTENDS Integers, FiniteSets, FiniteSetsExt

CONSTANTS Cols,        \* column labels; numbers, so that natsorted is <
          Rows,        \* index values
          Writers,     \* who may have written a value
          NaN,         \* a cell without a value
          Dirs,        \* folders chunks are stored in: sessions and bulks
          MaxColumns,  \* WRITE_MAX_COLUMNS_COUNT
          MaxValues    \* WRITE_MAX_TOTAL_VALUES_COUNT

ASSUME GeometryAssumption ==
    /\ Cols \subseteq Int /\ IsFiniteSet(Cols)
    /\ Rows \subseteq Int /\ IsFiniteSet(Rows)
    /\ NaN \notin Writers

ASSUME LimitAssumption ==
    MaxColumns \in Nat \ {0} /\ MaxValues \in Nat \ {0}

-----------------------------------------------------------------------------
(* Dataframes *)

\* the columns and rows of a dataframe that is not empty
Shapes == [cols : (SUBSET Cols) \ {{}}, rows : (SUBSET Rows) \ {{}}]

DataFrames ==
    UNION {[cols : {s.cols}, rows : {s.rows},
            val  : [s.cols \X s.rows -> Writers \cup {NaN}]] : s \in Shapes}

\* a dataframe as a client sends it, all of whose cells have a value
FilledBy(w, shape) ==
    [cols |-> shape.cols, rows |-> shape.rows,
     val  |-> [x \in shape.cols \X shape.rows |-> w]]

\* pd.DataFrame(): where merging starts
EmptyFrame == [cols |-> {}, rows |-> {}, val |-> [x \in {} \X {} |-> NaN]]

HasValue(d, x) == x \in DOMAIN d.val /\ d.val[x] # NaN

\* The write limits of validate_df
WithinLimits(shape) ==
    /\ Cardinality(shape.cols) <= MaxColumns
    /\ Cardinality(shape.cols) * Cardinality(shape.rows) <= MaxValues

-----------------------------------------------------------------------------
(* Chunk metadata.  The file name of a chunk is a hash of exactly these      *)
(* fields, so a chunk is identified by its folder and its metadata.          *)

MetaOf(d) == [cols  |-> d.cols,
              first |-> Min(d.rows), last |-> Max(d.rows),
              nb    |-> Cardinality(d.rows)]

ChunkAt(dir, d) == [dir |-> dir, meta |-> MetaOf(d)]

ColumnHash(m) == m.cols
IndexHash(m)  == <<m.first, m.last, m.nb>>
IndexOf(R)    == <<Min(R), Max(R), Cardinality(R)>>  \* that of a chunk with rows R

\* the standalone index file next to a chunk, named by the index hash alone
IndexFileOf(r) == <<r.dir, IndexHash(r.meta)>>

Chunk     == {ChunkAt(dir, s) : dir \in Dirs, s \in Shapes}
IndexFile == {IndexFileOf(r) : r \in Chunk}

-----------------------------------------------------------------------------
(* Conflicts.  An item is a chunk as a commit sees it: old when it comes     *)
(* from the previous bulk (order -1), not old when it comes from the session *)

Item == [chunk : Chunk, old : BOOLEAN]

ShareColumns(m, n) == m.cols \cap n.cols # {}
IndexOverlap(m, n) == ~(n.first > m.last \/ n.last < m.first)
OverlapWith(m, n)  == ShareColumns(m, n) /\ IndexOverlap(m, n)

\* Two chunks of different shapes that share a column cannot be one column
\* group of a catalog, whatever their rows.
Misaligned(m, n) == ShareColumns(m, n) /\ ColumnHash(m) # ColumnHash(n)

InConflict(i, j) ==
    /\ i # j
    /\ OverlapWith(i.chunk.meta, j.chunk.meta) \/ Misaligned(i.chunk.meta, j.chunk.meta)

\* the items that i is in conflict with, directly or through others
GroupOf(i, S) ==
    LET Closed(T) == \A j \in T, k \in S : InConflict(j, k) => k \in T
    IN  {j \in S : \A T \in SUBSET S : i \in T /\ Closed(T) => j \in T}

\* find_conflicts as a definition; module FindConflicts has its algorithm
ConflictGroups(S) ==
    {GroupOf(i, S) : i \in {j \in S : \E k \in S : InConflict(j, k)}}

ConflictedColumns(groups) ==
    MapThenSumSet(LAMBDA i : Cardinality(i.chunk.meta.cols), UNION groups)

-----------------------------------------------------------------------------
(* Merging and splitting *)

\* DataFrame.combine_first: the cells of l, and those of r where l has none.
\* An outer join (disjoint columns) and a concat (disjoint rows) are the same
\* function on the frames they are applied to.
CombineFirst(l, r) ==
    LET C == l.cols \cup r.cols
        R == l.rows \cup r.rows
    IN  [cols |-> C, rows |-> R,
         val  |-> [x \in C \X R |-> IF HasValue(l, x) THEN l.val[x]
                                    ELSE IF HasValue(r, x) THEN r.val[x] ELSE NaN]]

SliceOf(d, C, R) == [cols |-> C, rows |-> R, val |-> [x \in C \X R |-> d.val[x]]]

\* Mutant: each run ends with the first element of the next.
RunsOneMore(S, k) ==
    LET Rank(x) == Cardinality({y \in S : y < x})
    IN  {{y \in S : Rank(y) - Rank(x) \in 0 .. k} : x \in {z \in S : Rank(z) % k = 0}}

\* consecutive runs of k elements of S, in increasing order
Runs(S, k) ==
    LET Rank(x) == Cardinality({y \in S : y < x})
    IN  {{y \in S : Rank(y) \div k = Rank(x) \div k} : x \in S}

SplitByColumns(d, k) == {SliceOf(d, C, d.rows) : C \in Runs(d.cols, k)}
SplitByRows(d, k)    == UNION {{SliceOf(d, {c}, R) : R \in Runs(d.rows, k)} : c \in d.cols}

\* split_into_chunks: by columns, and by rows only when one column is too long
SplitIntoChunks(d) ==
    LET nb == Cardinality(d.rows)
    IN  IF nb > MaxValues
        THEN SplitByRows(d, MaxValues)
        ELSE SplitByColumns(d, Min({MaxColumns, MaxValues \div nb}))

-----------------------------------------------------------------------------
(* Index loading in build_index: one chunk is loaded for each index hash     *)

Representatives(S) ==
    {T \in SUBSET S :
       /\ {IndexHash(r.meta) : r \in T} = {IndexHash(r.meta) : r \in S}
       /\ \A r, t \in T : IndexHash(r.meta) = IndexHash(t.meta) => r = t}

-----------------------------------------------------------------------------
(* Keeping chunks apart, for the proof that those of a bulk never overlap    *)

\* No chunk, whatever is merged into it, is over the write limits.
NeverSplit == WithinLimits([cols |-> Cols, rows |-> Rows])

\* The ways two chunks can stand without conflict, or without overlap only
\* when splitting may change the columns of what it splits.
Stand(way, m, n) ==
    \/ way = "beside" /\ ~ShareColumns(m, n)
    \/ way = "below"  /\ m.last < n.first /\ (NeverSplit => m.cols = n.cols)
    \/ way = "above"  /\ n.last < m.first /\ (NeverSplit => m.cols = n.cols)

MetasOf(items) == {i.chunk.meta : i \in items}

Apart(M, N) ==
    \E way \in {"beside", "below", "above"} : \A m \in M, n \in N : Stand(way, m, n)
=============================================================================
