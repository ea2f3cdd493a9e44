----------------------------- MODULE Reference ------------------------------
(***************************************************************************)
(* The reference curve of a bulk, from the posts that declare it to the    *)
(* description a commit answers with (writer.py, chunk_meta.py,            *)
(* validators.py, describe.py).  A commit never reads the curve: it knows  *)
(* the first and the last value of each chunk from metadata, written when  *)
(* the chunk was posted, or rebuilt from it when it is committed again.    *)
(*                                                                         *)
(* Requests are atomic here, BulkWriter has their interleavings; only the  *)
(* upload of rebuilt metadata, which nobody awaits, lands later, or never. *)
(***************************************************************************)
EXTENDS Integers, Sequences, FiniteSets, SequencesExt

CONSTANTS Columns,        \* column labels
          Sessions, Wholes, Commits,
          Legacy,         \* the bulk stored before the worker, and its folder
          NaN, None,
          References,     \* curves declared as reference, or None
          Frames,         \* the dataframes clients post
          LegacyFrames,   \* those the legacy bulk may hold
          MaxPosts        \* bound

ASSUME ReferenceAssumption ==
    /\ None \notin Columns /\ References \subseteq Columns \cup {None}
    /\ Sessions \cap Wholes = {} /\ Legacy \notin Sessions \cup Wholes \cup Commits
    /\ MaxPosts \in Nat

\* Frames with the same edges and length have the same index: what happens
\* when they do not is in BulkWriter.
ASSUME FramesAssumption ==
    \A f, g \in Frames \cup LegacyFrames :
        f.index[1] = g.index[1] /\ f.index[Len(f.index)] = g.index[Len(g.index)]
            /\ Len(f.index) = Len(g.index) => f.index = g.index

VARIABLES
    data,      \* parquet object |-> dataframe
    metas,     \* meta object |-> what it holds
    catalogs,  \* bulk |-> its chunks, for bulks that have a catalog
    describes, \* bulk |-> the description it was answered with
    late,      \* uploads of rebuilt metadata not done yet: <<object, content>>
    closed,    \* sessions committed
    posts      \* posts so far

vars == <<data, metas, catalogs, describes, late, closed, posts>>

Put(f, k, v) == [x \in DOMAIN f \cup {k} |-> IF x = k THEN v ELSE f[x]]

-----------------------------------------------------------------------------
(* Dataframes: the index, in the order of the rows, and for each column its  *)
(* values in that order                                                      *)

FrameColumns(f)   == DOMAIN f.val
RowsOf(f)         == Range(f.index)
Holds(f, c)       == c \in FrameColumns(f)
ValueAt(f, c, x)  == IF Holds(f, c) /\ x \in RowsOf(f)
                     THEN f.val[c][CHOOSE i \in DOMAIN f.index : f.index[i] = x] ELSE NaN

NoNaN(s)        == NaN \notin Range(s)
IsIncreasing(s) == NoNaN(s) /\ \A i \in 1 .. Len(s) - 1 : s[i] <= s[i + 1]
IsDecreasing(s) == NoNaN(s) /\ \A i \in 1 .. Len(s) - 1 : s[i] >= s[i + 1]
IsMonotonic(s)  == IsIncreasing(s) \/ IsDecreasing(s)

\* validate_reference: a frame without the curve is valid
ValidReference(f, reference) ==
    Holds(f, reference) =>
        NoNaN(f.val[reference]) /\ IsInjective(f.val[reference]) /\ IsMonotonic(f.val[reference])

ValidIndex(f) == f.index # <<>> /\ IsInjective(f.index)

\* validate_df, but for the limits
ValidFrame(f, reference) == ValidIndex(f) /\ ValidReference(f, reference)

Ascending(R) == [k \in 1 .. Cardinality(R) |->
                   CHOOSE x \in R : Cardinality({y \in R : y < x}) = k - 1]

\* Index.union sorts, except what it leaves as it is
UnionIndex(l, r) ==
    IF r = <<>> \/ l = r THEN l
    ELSE IF l = <<>> THEN r ELSE Ascending(Range(l) \cup Range(r))

\* DataFrame.combine_first, and an outer join, over the rows of an index
CombineOn(index, l, r) ==
    [index |-> index,
     val   |-> [c \in FrameColumns(l) \cup FrameColumns(r) |->
                  [i \in DOMAIN index |-> LET v == ValueAt(l, c, index[i])
                                          IN  IF v # NaN THEN v ELSE ValueAt(r, c, index[i])]]]

CombineFirst(l, r) == CombineOn(UnionIndex(l.index, r.index), l, r)
Concat(l, r)       == CombineOn(l.index \o r.index, l, r)

EmptyFrame == [index |-> <<>>, val |-> <<>>]

-----------------------------------------------------------------------------
(* Names.  An object is in a folder, and its file name is a base with        *)
(* extensions; the base of a chunk is a hash of what identifies it.          *)

BaseOf(f) == <<FrameColumns(f), f.index[1], Last(f.index), Len(f.index)>>

EndsWith(name, e)     == name.ext # <<>> /\ Last(name.ext) = e
AddExtension(name, e) == IF EndsWith(name, e) THEN name ELSE [name EXCEPT !.ext = Append(@, e)]
ReplaceExtension(name, old, e) ==
    AddExtension(IF EndsWith(name, old) THEN [name EXCEPT !.ext = Front(@)] ELSE name, e)

\* ChunkMeta._filename_without_extension
WithoutMeta(name) ==
    IF EndsWith(name, "meta")
    THEN [name EXCEPT !.ext = SelectSeq(@, LAMBDA e : e # "meta")] ELSE name

Named(dir, f) == [dir |-> dir, base |-> BaseOf(f), ext |-> <<>>]

-----------------------------------------------------------------------------
(* Chunk metadata.  "chunk" is the path it was made for, without .meta.      *)

NoReference == [name |-> None]

EdgesOf(f, c) == [name |-> c, start |-> f.val[c][1], end |-> Last(f.val[c])]

\* ChunkMeta.from_dataframe
MetaOf(f, reference) ==
    [cols |-> FrameColumns(f), start |-> f.index[1], end |-> Last(f.index), nb |-> Len(f.index),
     reference |-> IF Holds(f, reference) THEN EdgesOf(f, reference) ELSE NoReference,
     version |-> 2]

\* metadata of the first version: no reference, and edges read in the file name
FirstVersion(m) == [m EXCEPT !.reference = NoReference, !.version = 1]

HasReference(m)     == m.reference # NoReference
IsIndexIncreasing(m) == m.end >= m.start
OrderedRange(m)     == IF m.end > m.start THEN <<m.start, m.end>> ELSE <<m.end, m.start>>

\* an item of a commit: metadata as loaded, from a session or a previous bulk
Item(m, chunk, old) == [meta |-> m, chunk |-> chunk, old |-> old]

ShareColumns(m, n) == m.cols \cap n.cols # {}
IndexOverlap(m, n) == ~(OrderedRange(n)[1] > OrderedRange(m)[2] \/ OrderedRange(n)[2] < OrderedRange(m)[1])

InConflict(i, j) ==
    /\ i # j
    /\ ShareColumns(i.meta, j.meta)
    /\ IndexOverlap(i.meta, j.meta) \/ i.meta.cols # j.meta.cols

\* the connected components of more than one item
ConflictGroups(S) ==
    LET conflicted == {i \in S : \E j \in S : InConflict(i, j)}
        unions     == {T \in SUBSET conflicted :
                         \A i \in T, j \in conflicted \ T : ~InConflict(i, j)}
    IN  {T \in unions \ {{}} : \A U \in unions : U \subseteq T => U \in {{}, T}}

\* start_end_df of a chunk: its edges, as <<index, reference value>>
EdgeRows(m) == IF m.nb > 1 THEN <<<<m.start, m.reference.start>>, <<m.end, m.reference.end>>>>
                           ELSE <<<<m.start, m.reference.start>>>>

\* sort_chunk_metas_by_index, over items
MixedOrders(S) ==
    \E i, j \in {k \in S : k.meta.nb > 1} : IsIndexIncreasing(i.meta) /\ ~IsIndexIncreasing(j.meta)
SortMetas(S) ==
    IF \E i \in S : i.meta.nb > 1 /\ ~IsIndexIncreasing(i.meta)
    THEN SetToSortSeq(S, LAMBDA i, j : i.meta.start > j.meta.start)
    ELSE SetToSortSeq(S, LAMBDA i, j : i.meta.start < j.meta.start)

-----------------------------------------------------------------------------

Init ==
    /\ describes = <<>> /\ late = {} /\ closed = {} /\ posts = 0
    /\ \/ data = <<>> /\ metas = <<>> /\ catalogs = <<>>
       \* a bulk older than metadata, or with metadata of the first version,
       \* with or without a catalog
       \/ \E f \in LegacyFrames :
            LET name == Named(Legacy, f)
                file == AddExtension(name, "parquet")
            IN  /\ data = Put(<<>>, file, f)
                /\ \/ metas = <<>> /\ catalogs = <<>>
                   \/ /\ catalogs = Put(<<>>, Legacy, {file})
                      /\ metas \in {<<>>, Put(<<>>, AddExtension(name, "meta"), FirstVersion(MetaOf(f, None)))}

\* POST in a session: write_bulk_data_in_session, upload_chunk
PostChunk(s, f, reference) ==
    /\ posts < MaxPosts
    /\ s \notin closed
    /\ ValidFrame(f, reference)
    /\ LET name == Named(s, f)
       IN  /\ data'  = Put(data, AddExtension(name, "parquet"), f)
           /\ metas' = Put(metas, AddExtension(name, "meta"), MetaOf(f, reference))
    /\ posts' = posts + 1
    /\ UNCHANGED <<catalogs, describes, late, closed>>

\* description of a column of a dataframe: ColumnDescribe.from_column
DescribeColumn(f, c) ==
    IF Holds(f, c)
    THEN [name |-> c, rows |-> Len(f.index), start |-> f.val[c][1], end |-> Last(f.val[c]),
          increasing |-> IsIncreasing(f.val[c]), decreasing |-> IsDecreasing(f.val[c])]
    ELSE [name |-> None, rows |-> Len(f.index), start |-> f.index[1], end |-> Last(f.index),
          increasing |-> IsIncreasing(f.index), decreasing |-> IsDecreasing(f.index)]

\* Mutant: the extension is forgotten.
FullFilePathBare(w, f) == Named(w, f)

\* full_file_path of write_bulk
FullFilePath(w, f) == [Named(w, f) EXCEPT !.ext = Append(@, "parquet")]

\* POST of a whole bulk: write_bulk
PostWhole(w, f, reference) ==
    /\ posts < MaxPosts
    /\ w \notin DOMAIN catalogs
    /\ ValidFrame(f, reference)
    /\ data'      = Put(data, FullFilePath(w, f), f)
    /\ metas'     = Put(metas, AddExtension(Named(w, f), "meta"), MetaOf(f, reference))
    /\ catalogs'  = Put(catalogs, w, {FullFilePath(w, f)})
    /\ describes' = Put(describes, w, DescribeColumn(f, reference))
    /\ posts' = posts + 1
    /\ UNCHANGED <<late, closed>>

-----------------------------------------------------------------------------
(* PATCH of a session: complete_session *)

\* _get_chunks_metadata: every meta object of the folder
SessionItems(s) ==
    {Item(metas[o], WithoutMeta(o), FALSE) : o \in {n \in DOMAIN metas : n.dir = s}}

\* get_absolut_chunk_paths, or get_chunk_path_outside_session when the bulk
\* has no catalog
PreviousPaths(b) ==
    IF b \in DOMAIN catalogs THEN catalogs[b] ELSE {o \in DOMAIN data : o.dir = b}

MetaPath(path) == ReplaceExtension(path, "parquet", "meta")

\* _load_or_create_chunk_metadata must build the metadata from the chunk
MustCreate(path, reference) ==
    \/ MetaPath(path) \notin DOMAIN metas
    \/ LET m == metas[MetaPath(path)]
       IN  reference \in m.cols /\ ~HasReference(m)

PreviousItem(path, reference) ==
    IF MustCreate(path, reference)
    THEN Item(MetaOf(data[path], reference), path, TRUE)
    ELSE Item([metas[MetaPath(path)] EXCEPT !.version = 2], WithoutMeta(MetaPath(path)), TRUE)

\* what it uploads, with no one to wait for it: metadata just built, or of the
\* first version, under the name of the path with its extension, which is not
\* that of MetaPath: it is built again at the next commit, see the README
Uploads(path, reference) ==
    IF MustCreate(path, reference) \/ metas[MetaPath(path)].version = 1
    THEN {<<AddExtension(path, "meta"), PreviousItem(path, reference).meta>>} ELSE {}

FileOf(i) == AddExtension(i.chunk, "parquet")

\* resolve_single_conflict_group: the chunks of the session in any order, over
\* those of the previous bulk, by shape and in the order of the index
MergesOf(g) ==
    LET current   == {i \in g : ~i.old}
        shapes    == {i.meta.cols : i \in g \ current}
        InOrder(h) == SetToSortSeq({i \in g : i.old /\ i.meta.cols = h},
                                   LAMBDA i, j : i.meta.start < j.meta.start)
        Merge(q)  == FoldLeft(LAMBDA f, i : CombineFirst(f, data[FileOf(i)]), EmptyFrame, q)
        Stack(h)  == FoldLeft(LAMBDA f, i : Concat(f, data[FileOf(i)]), EmptyFrame, InOrder(h))
        Previous(q) == FoldLeft(LAMBDA f, h : CombineFirst(f, Stack(h)), EmptyFrame, q)
    IN  {CombineFirst(Merge(q), Previous(p)) :
            q \in SetToSeqs(current), p \in SetToSeqs(shapes)}

\* validate_column_index_reference of a merged group
ValidMerge(merged, reference) == ValidIndex(merged) /\ ValidReference(merged, reference)

\* the objects stored for the merged frames M, in folder s
StoredData(s, M) ==
    [o \in {AddExtension(Named(s, f), "parquet") : f \in M} |->
        CHOOSE f \in M : AddExtension(Named(s, f), "parquet") = o]
StoredMetas(s, M, reference) ==
    [o \in {AddExtension(Named(s, f), "meta") : f \in M} |->
        MetaOf(CHOOSE f \in M : AddExtension(Named(s, f), "meta") = o, reference)]

\* build_index.  It reads one chunk for each index hash; see FramesAssumption.
GlobalIndex(items, d) == UNION {RowsOf(d[FileOf(i)]) : i \in items}

\* Mutant: a curve that covers some of the bulk is described.
CoversNothing(S, rows) == S # {}

\* reference values counted chunk by chunk
Covers(S, rows) == MapThenSumSet(LAMBDA i : i.meta.nb, S) = Cardinality(rows)

\* The description of the reference from the metadata of the items S that have
\* it, or None when the commit is refused.
DescribeReference(S, rows, reference) ==
    LET items == SortMetas(S)
        edges == FlattenSeq([k \in DOMAIN items |-> EdgeRows(items[k].meta)])
        frame == [index |-> [k \in DOMAIN edges |-> edges[k][1]],
                  val   |-> [col \in {reference} |-> [k \in DOMAIN edges |-> edges[k][2]]]]
    IN  IF MixedOrders(S) \/ ~Covers(S, rows) \/ ~ValidFrame(frame, reference)
        THEN None
        ELSE [DescribeColumn(frame, reference) EXCEPT !.rows = Cardinality(rows)]

DescribeIndex(rows) ==
    DescribeColumn([index |-> Ascending(rows), val |-> <<>>], None)

\* A commit of session s onto the bulk prev, or onto none.  Groups of conflicts
\* are resolved one at a time: when one is refused, those before are stored.
Commit(c, s, prev, reference) ==
    /\ c \notin DOMAIN describes /\ s \notin closed
    /\ LET paths   == IF prev = None THEN {} ELSE PreviousPaths(prev)
           items   == SessionItems(s) \cup {PreviousItem(p, reference) : p \in paths}
           groups  == ConflictGroups(items)
       IN  /\ SessionItems(s) # {}
           /\ late' = late \cup UNION {Uploads(p, reference) : p \in paths}
           /\ \E choice \in {f \in [groups -> UNION {MergesOf(g) : g \in groups}] :
                               \A g \in groups : f[g] \in MergesOf(g)} :
              \E G \in SUBSET groups :
                LET merged  == {choice[g] : g \in G}
                    stored  == StoredData(s, merged) @@ data
                    final   == (items \ UNION groups)
                                 \cup {Item(MetaOf(f, reference), Named(s, f), FALSE) : f \in merged}
                IN  /\ \A g \in G : ValidMerge(choice[g], reference)
                    /\ data'  = stored
                    /\ metas' = StoredMetas(s, merged, reference) @@ metas
                    /\ IF G # groups
                       THEN /\ \E g \in groups \ G : ~ValidMerge(choice[g], reference)
                            /\ UNCHANGED <<catalogs, describes, closed>>
                       ELSE LET rows == GlobalIndex(final, stored)
                                S    == {i \in final : i.meta.reference.name = reference}
                                d    == IF reference = None THEN DescribeIndex(rows)
                                        ELSE DescribeReference(S, rows, reference)
                            IN  IF d = None
                                THEN UNCHANGED <<catalogs, describes, closed>>
                                ELSE /\ catalogs'  = Put(catalogs, c, {FileOf(i) : i \in final})
                                     /\ describes' = Put(describes, c, d)
                                     /\ closed'    = closed \cup {s}
    /\ UNCHANGED posts

\* The task of an upload ends, at any time, or never: no one holds it
LandLate(u) ==
    /\ u \in late
    /\ metas' = Put(metas, u[1], u[2])
    /\ late'  = late \ {u}
    /\ UNCHANGED <<data, catalogs, describes, closed, posts>>

Next ==
    \/ \E f \in Frames, reference \in References :
         \/ \E s \in Sessions : PostChunk(s, f, reference)
         \/ \E w \in Wholes : PostWhole(w, f, reference)
    \/ \E c \in Commits, s \in Sessions, reference \in References :
         \E prev \in {None} \cup DOMAIN describes \cup ({n.dir : n \in DOMAIN data} \ Sessions) :
           Commit(c, s, prev, reference)
    \/ \E u \in late : LandLate(u)

Spec == Init /\ [][Next]_vars

-----------------------------------------------------------------------------
(* Properties *)

TypeOK ==
    /\ \A o \in DOMAIN data : o.ext = <<"parquet">> /\ ValidIndex(data[o])
    /\ \A o \in DOMAIN metas : EndsWith(o, "meta")
    /\ DOMAIN catalogs \subseteq Wholes \cup Commits \cup {Legacy}
    /\ DOMAIN describes \subseteq DOMAIN catalogs
    /\ \A b \in DOMAIN catalogs : catalogs[b] # {} /\ catalogs[b] \subseteq DOMAIN data
    /\ \A u \in late : EndsWith(u[1], "meta")
    /\ closed \subseteq Sessions /\ posts \in 0 .. MaxPosts

BulkRows(b)        == UNION {RowsOf(data[p]) : p \in catalogs[b]}
HoldersOf(b, c, x) == {p \in catalogs[b] : Holds(data[p], c) /\ x \in RowsOf(data[p])}
BulkValue(b, c, x) == ValueAt(data[CHOOSE p \in HoldersOf(b, c, x) : TRUE], c, x)

\* Where edges say all: the index of every chunk is monotonic, and a chunk that
\* was never posted with the curve as its reference is nonetheless valid for it.
\* No one checks either, see the README.
EdgesTell(b, c) ==
    \A p \in catalogs[b] : IsMonotonic(data[p].index) /\ ValidReference(data[p], c)

\* The description of a reference curve, made of the edges of the chunks, is
\* true of the bulk: the curve has a value at each row of the bulk, in one chunk,
\* no value twice, and they go one way along the index, from the value at one end
\* to the value at the other, as the answer says.
ReferenceIsColumn ==
    \A b \in DOMAIN describes :
        LET d == describes[b]
            c == d.name
            R == BulkRows(b)
        IN  c # None /\ EdgesTell(b, c) =>
              /\ d.rows = Cardinality(R)
              /\ \A x \in R : Cardinality(HoldersOf(b, c, x)) = 1 /\ BulkValue(b, c, x) # NaN
              /\ \A x, y \in R : x # y => BulkValue(b, c, x) # BulkValue(b, c, y)
              /\ \E first, last \in R :
                   /\ d.start = BulkValue(b, c, first) /\ d.end = BulkValue(b, c, last)
                   /\ {first, last} = {x \in R : (\A y \in R : x <= y) \/ (\A y \in R : x >= y)}
                   /\ \A x, y \in R :
                        (IF first < last THEN x < y ELSE x > y) =>
                          /\ d.increasing => BulkValue(b, c, x) < BulkValue(b, c, y)
                          /\ d.decreasing => BulkValue(b, c, x) > BulkValue(b, c, y)
              /\ d.increasing \/ d.decreasing
=============================================================================
