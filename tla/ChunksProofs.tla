---------------------------- MODULE ChunksProofs ----------------------------
(***************************************************************************)
(* Facts about the operators on dataframes and chunks: what each returns.  *)
(***************************************************************************)
EXTENDS Chunks, FiniteSetTheorems, TLAPS

(* A dataframe is three fields that fit each other, and its columns and rows *)
(* are a shape.                                                              *)
LEMMA DataFrameFields ==
    ASSUME NEW d \in DataFrames
    PROVE  /\ d.cols \in SUBSET Cols /\ d.cols # {}
           /\ d.rows \in SUBSET Rows /\ d.rows # {}
           /\ d.val \in [d.cols \X d.rows -> Writers \cup {NaN}]
           /\ [cols |-> d.cols, rows |-> d.rows] \in Shapes
<1>1. PICK s \in Shapes :
        d \in [cols : {s.cols}, rows : {s.rows},
              val  : [s.cols \X s.rows -> Writers \cup {NaN}]]
  BY DEF DataFrames
<1>2. /\ d.cols = s.cols /\ d.rows = s.rows
      /\ d.val \in [s.cols \X s.rows -> Writers \cup {NaN}]
  BY <1>1
<1>3. /\ s.cols \in SUBSET Cols /\ s.cols # {}
      /\ s.rows \in SUBSET Rows /\ s.rows # {}
      /\ s = [cols |-> s.cols, rows |-> s.rows]
  BY DEF Shapes
<1> QED BY <1>2, <1>3

(* What makes a dataframe. *)
LEMMA DataFrameIntro ==
    ASSUME NEW C \in SUBSET Cols, C # {},
           NEW R \in SUBSET Rows, R # {},
           NEW v \in [C \X R -> Writers \cup {NaN}]
    PROVE  [cols |-> C, rows |-> R, val |-> v] \in DataFrames
<1> DEFINE s == [cols |-> C, rows |-> R]
<1>1. s \in Shapes
  BY DEF Shapes
<1>2. [cols |-> C, rows |-> R, val |-> v]
         \in [cols : {s.cols}, rows : {s.rows}, val : [s.cols \X s.rows -> Writers \cup {NaN}]]
  OBVIOUS
<1> QED BY <1>1, <1>2 DEF DataFrames

(* What a writer posts is a dataframe. *)
LEMMA FilledByType ==
    ASSUME NEW w \in Writers, NEW shape \in Shapes
    PROVE  FilledBy(w, shape) \in DataFrames
<1>1. /\ shape.cols \in SUBSET Cols /\ shape.cols # {}
      /\ shape.rows \in SUBSET Rows /\ shape.rows # {}
  BY DEF Shapes
<1>2. [x \in shape.cols \X shape.rows |-> w] \in [shape.cols \X shape.rows -> Writers \cup {NaN}]
  OBVIOUS
<1> QED BY <1>1, <1>2, DataFrameIntro DEF FilledBy

(* A dataframe stored in a folder of the record is a chunk. *)
LEMMA ChunkAtType ==
    ASSUME NEW dir \in Dirs, NEW d \in DataFrames
    PROVE  ChunkAt(dir, d) \in Chunk
<1> DEFINE s == [cols |-> d.cols, rows |-> d.rows]
<1>1. s \in Shapes
  BY DataFrameFields
<1>2. ChunkAt(dir, d) = ChunkAt(dir, s)
  BY DEF ChunkAt, MetaOf
<1> QED BY <1>1, <1>2 DEF Chunk

(* A chunk is in the folder it is uploaded to. *)
LEMMA ChunkDir ==
    ASSUME NEW k \in Chunk
    PROVE  k.dir \in Dirs /\ IndexFileOf(k) \in IndexFile
BY DEF Chunk, ChunkAt, IndexFile

(* combine_first of two dataframes is a dataframe, and so is the first merge. *)
LEMMA CombineFirstType ==
    ASSUME NEW l \in DataFrames \cup {EmptyFrame}, NEW r \in DataFrames
    PROVE  CombineFirst(l, r) \in DataFrames
<1> DEFINE C == l.cols \cup r.cols
           R == l.rows \cup r.rows
           v == [x \in C \X R |-> IF HasValue(l, x) THEN l.val[x]
                                  ELSE IF HasValue(r, x) THEN r.val[x] ELSE NaN]
<1>1. /\ l.cols \in SUBSET Cols /\ l.rows \in SUBSET Rows
      /\ \A x : HasValue(l, x) => l.val[x] \in Writers
  <2>1. CASE l \in DataFrames
    BY <2>1, DataFrameFields DEF HasValue
  <2>2. CASE l = EmptyFrame
    BY <2>2 DEF EmptyFrame, HasValue
  <2> QED BY <2>1, <2>2
<1>2. /\ r.cols \in SUBSET Cols /\ r.cols # {}
      /\ r.rows \in SUBSET Rows /\ r.rows # {}
      /\ \A x : HasValue(r, x) => r.val[x] \in Writers
  BY DataFrameFields DEF HasValue
<1>3. v \in [C \X R -> Writers \cup {NaN}]
  BY <1>1, <1>2
<1>4. C \in SUBSET Cols /\ C # {} /\ R \in SUBSET Rows /\ R # {}
  BY <1>1, <1>2
<1> HIDE DEF v
<1>5. [cols |-> C, rows |-> R, val |-> v] \in DataFrames
  BY <1>3, <1>4, DataFrameIntro
<1> QED BY <1>5 DEF CombineFirst, v

(* The parts rows and columns are split into are not empty. *)
LEMMA RunsNonEmpty ==
    ASSUME NEW S, NEW k, NEW T \in Runs(S, k)
    PROVE  T \subseteq S /\ T # {}
BY DEF Runs

(* A part of a dataframe is a dataframe. *)
LEMMA SliceType ==
    ASSUME NEW d \in DataFrames,
           NEW C \in SUBSET d.cols, C # {},
           NEW R \in SUBSET d.rows, R # {}
    PROVE  SliceOf(d, C, R) \in DataFrames
<1>1. [x \in C \X R |-> d.val[x]] \in [C \X R -> Writers \cup {NaN}]
  BY DataFrameFields
<1>2. C \in SUBSET Cols /\ R \in SUBSET Rows
  BY DataFrameFields
<1> QED BY <1>1, <1>2, DataFrameIntro DEF SliceOf

(* Splitting by rows gives dataframes. *)
LEMMA SplitByRowsType ==
    ASSUME NEW d \in DataFrames, NEW k
    PROVE  SplitByRows(d, k) \subseteq DataFrames
<1> SUFFICES ASSUME NEW e \in SplitByRows(d, k) PROVE e \in DataFrames
  OBVIOUS
<1>1. PICK c \in d.cols, R \in Runs(d.rows, k) : e = SliceOf(d, {c}, R)
  BY DEF SplitByRows
<1>2. R \in SUBSET d.rows /\ R # {}
  BY RunsNonEmpty
<1>3. {c} \in SUBSET d.cols /\ {c} # {}
  OBVIOUS
<1> QED BY <1>1, <1>2, <1>3, SliceType

(* Splitting by columns gives dataframes. *)
LEMMA SplitByColumnsType ==
    ASSUME NEW d \in DataFrames, NEW k
    PROVE  SplitByColumns(d, k) \subseteq DataFrames
<1> SUFFICES ASSUME NEW e \in SplitByColumns(d, k) PROVE e \in DataFrames
  OBVIOUS
<1>1. PICK C \in Runs(d.cols, k) : e = SliceOf(d, C, d.rows)
  BY DEF SplitByColumns
<1>2. C \in SUBSET d.cols /\ C # {}
  BY RunsNonEmpty
<1>3. d.rows \in SUBSET d.rows /\ d.rows # {}
  BY DataFrameFields
<1> QED BY <1>1, <1>2, <1>3, SliceType

(* Nothing is split into nothing.                                            *)
LEMMA SplitOfNothing == SplitIntoChunks(EmptyFrame) = {}
<1>1. EmptyFrame.cols = {}
  BY DEF EmptyFrame
<1>2. \A k : SplitByColumns(EmptyFrame, k) = {} /\ SplitByRows(EmptyFrame, k) = {}
  BY <1>1 DEF Runs, SplitByColumns, SplitByRows
<1> QED BY <1>2 DEF SplitIntoChunks

(* Every piece a dataframe is split into is a dataframe that is not empty. *)
LEMMA SplitType ==
    ASSUME NEW d \in DataFrames \cup {EmptyFrame}
    PROVE  SplitIntoChunks(d) \subseteq DataFrames
<1>1. CASE d = EmptyFrame
  BY <1>1, SplitOfNothing
<1>2. CASE d \in DataFrames
  BY <1>2, SplitByRowsType, SplitByColumnsType DEF SplitIntoChunks
<1> QED BY <1>1, <1>2

(* A conflict group is made of the items it was looked for in. *)
LEMMA GroupsType ==
    ASSUME NEW S
    PROVE  \A g \in ConflictGroups(S) : g \subseteq S
BY DEF ConflictGroups, GroupOf

(* An item in conflict is in a group: resolve_conflicts keeps as they are    *)
(* only chunks that conflict with none of the others.                        *)
LEMMA ConflictsAreGrouped ==
    ASSUME NEW S, NEW i \in S, NEW j \in S, InConflict(i, j)
    PROVE  i \in UNION ConflictGroups(S)
BY DEF ConflictGroups, GroupOf

-----------------------------------------------------------------------------
(* First and last rows *)

(* A finite set of integers that is not empty has a greatest and a least     *)
(* element: a smallest subset without one would have one element too many.   *)
LEMMA BoundsExist ==
    ASSUME NEW S, IsFiniteSet(S), S # {}, S \subseteq Int
    PROVE  /\ \E x \in S : \A y \in S : x >= y
           /\ \E x \in S : \A y \in S : x =< y
<1> DEFINE HasMax(T) == \E x \in T : \A y \in T : x >= y
           HasMin(T) == \E x \in T : \A y \in T : x =< y
           Bad == {T \in SUBSET S : T # {} /\ ~(HasMax(T) /\ HasMin(T))}
<1>1. SUFFICES ASSUME S \in Bad PROVE FALSE
  OBVIOUS
<1>2. IsWellFoundedOn(StrictSubsetOrdering(S), SUBSET S)
  BY FS_StrictSubsetOrderingWellFounded, FS_FiniteSubsetsOfFinite
<1>3. Bad \subseteq SUBSET S /\ Bad # {}
  BY <1>1
<1> HIDE DEF Bad
<1>4. PICK T \in Bad : \A U \in Bad : <<U, T>> \notin StrictSubsetOrdering(S)
  BY <1>2, <1>3, WFMin
<1> USE DEF Bad
<1>5. T \subseteq S /\ T # {} /\ ~(HasMax(T) /\ HasMin(T))
  BY <1>4
<1>6. PICK x : x \in T
  BY <1>5
<1> DEFINE U == T \ {x}
<1>7. U \notin Bad
  <2>1. U \subseteq T /\ U # T /\ U \in SUBSET S /\ T \in SUBSET S
    BY <1>5, <1>6
  <2>2. <<U, T>> \in StrictSubsetOrdering(S)
    BY <2>1 DEF StrictSubsetOrdering
  <2> QED BY <1>4, <2>2
<1>8. CASE U = {}
  <2>1. T = {x} /\ x \in Int
    BY <1>5, <1>6, <1>8
  <2> QED BY <2>1, <1>5
<1>9. CASE U # {}
  <2>1. HasMax(U) /\ HasMin(U)
    BY <1>5, <1>7, <1>9
  <2>2. PICK m \in U : \A y \in U : m >= y
    BY <2>1
  <2>3. PICK n \in U : \A y \in U : n =< y
    BY <2>1
  <2>4. m \in Int /\ n \in Int /\ x \in Int /\ T \subseteq Int /\ m \in T /\ n \in T
    BY <1>5, <1>6
  <2>5. HasMax(T)
    <3>1. CASE m >= x
      BY <2>2, <2>4, <3>1
    <3>2. CASE x >= m
      <4>1. \A y \in T : x >= y
        BY <2>2, <2>4, <3>2
      <4> QED BY <4>1, <1>6
    <3> QED BY <3>1, <3>2, <2>4
  <2>6. HasMin(T)
    <3>1. CASE n =< x
      BY <2>3, <2>4, <3>1
    <3>2. CASE x =< n
      <4>1. \A y \in T : x =< y
        BY <2>3, <2>4, <3>2
      <4> QED BY <4>1, <1>6
    <3> QED BY <3>1, <3>2, <2>4
  <2> QED BY <2>5, <2>6, <1>5
<1> QED BY <1>8, <1>9

(* The metadata of a frame or of a shape: its columns, and the ends of its   *)
(* rows.                                                                     *)
LEMMA MetaIs ==
    ASSUME NEW d, d.rows # {}, d.rows \subseteq Rows
    PROVE  /\ MetaOf(d).cols = d.cols
           /\ MetaOf(d).first \in d.rows /\ MetaOf(d).last \in d.rows
           /\ \A r \in d.rows : MetaOf(d).first =< r /\ r =< MetaOf(d).last
           /\ d.rows \subseteq Int
           /\ MetaOf(d).first =< MetaOf(d).last
<1>1. d.rows \subseteq Int /\ IsFiniteSet(d.rows)
  BY GeometryAssumption, FS_Subset
<1>2. /\ \E x \in d.rows : \A y \in d.rows : x >= y
      /\ \E x \in d.rows : \A y \in d.rows : x =< y
  BY <1>1, BoundsExist
<1>3. MetaOf(d).cols = d.cols
  BY DEF MetaOf
<1>4. MetaOf(d).first \in d.rows /\ \A y \in d.rows : MetaOf(d).first =< y
  BY <1>2 DEF MetaOf, Min
<1>5. MetaOf(d).last \in d.rows /\ \A y \in d.rows : MetaOf(d).last >= y
  BY <1>2 DEF MetaOf, Max
<1> QED BY <1>1, <1>3, <1>4, <1>5

(* The metadata a chunk, or a frame, can have.                               *)
Meta == {MetaOf(s) : s \in Shapes}

(* It has columns, and its first row is not after its last.                  *)
LEMMA MetaFields ==
    ASSUME NEW m \in Meta
    PROVE  /\ m.cols \subseteq Cols /\ m.cols # {}
           /\ m.first \in Int /\ m.last \in Int /\ m.first =< m.last
<1>1. PICK s \in Shapes : m = MetaOf(s)
  BY DEF Meta
<1>2. s.cols \subseteq Cols /\ s.cols # {} /\ s.rows \subseteq Rows /\ s.rows # {}
  BY DEF Shapes
<1> QED BY <1>1, <1>2, MetaIs

LEMMA ChunkMeta ==
    ASSUME NEW k \in Chunk
    PROVE  k.meta \in Meta
BY DEF Chunk, ChunkAt, Meta

LEMMA FrameMeta ==
    ASSUME NEW d \in DataFrames
    PROVE  MetaOf(d) \in Meta
<1> DEFINE s == [cols |-> d.cols, rows |-> d.rows]
<1>1. s \in Shapes
  BY DataFrameFields
<1>2. MetaOf(d) = MetaOf(s)
  BY DEF MetaOf
<1> QED BY <1>1, <1>2 DEF Meta

-----------------------------------------------------------------------------
(* Conflict groups *)

LEMMA ItemMeta ==
    ASSUME NEW i \in Item
    PROVE  i.chunk \in Chunk /\ i.chunk.meta \in Meta
BY ChunkMeta DEF Item

(* What the lemmas on conflicts ask of an item, which one of a commit has.    *)
Proper(i) == LET m == i.chunk.meta
             IN  m.cols # {} /\ m.first \in Int /\ m.last \in Int /\ m.first =< m.last

LEMMA ItemProper ==
    ASSUME NEW i \in Item
    PROVE  Proper(i)
BY ItemMeta, MetaFields DEF Proper

(* If i conflicts with j, j conflicts with i; they share a column.           *)
LEMMA ConflictSymmetric ==
    ASSUME NEW i, Proper(i), NEW j, Proper(j), InConflict(i, j)
    PROVE  InConflict(j, i) /\ ShareColumns(i.chunk.meta, j.chunk.meta)
<1> DEFINE m == i.chunk.meta
           n == j.chunk.meta
<1>1. m.first \in Int /\ m.last \in Int /\ n.first \in Int /\ n.last \in Int
  BY DEF Proper
<1>2. i # j /\ (OverlapWith(m, n) \/ Misaligned(m, n))
  BY DEF InConflict
<1> HIDE DEF m, n
<1>3. ShareColumns(m, n) /\ ShareColumns(n, m)
  BY <1>2 DEF OverlapWith, Misaligned, ShareColumns
<1>4. OverlapWith(n, m) \/ Misaligned(n, m)
  BY <1>1, <1>2, <1>3 DEF OverlapWith, Misaligned, IndexOverlap, ColumnHash
<1> QED BY <1>2, <1>3, <1>4 DEF InConflict, m, n

(* The group of an item holds it and what it conflicts with, ...             *)
LEMMA GroupClosed ==
    ASSUME NEW S, NEW i \in S
    PROVE  /\ i \in GroupOf(i, S) /\ GroupOf(i, S) \subseteq S
           /\ \A j \in GroupOf(i, S), k \in S : InConflict(j, k) => k \in GroupOf(i, S)
BY DEF GroupOf

(* ... and is in every set that does.                                        *)
LEMMA GroupLeast ==
    ASSUME NEW S, NEW i \in S, NEW T \in SUBSET S, i \in T,
           \A j \in T, k \in S : InConflict(j, k) => k \in T
    PROVE  GroupOf(i, S) \subseteq T
BY DEF GroupOf

(* An item is in one group: groups that meet are one.                        *)
LEMMA GroupUnique ==
    ASSUME NEW S, \A j \in S : Proper(j), NEW i \in S, NEW x \in GroupOf(i, S)
    PROVE  GroupOf(x, S) = GroupOf(i, S)
<1>1. x \in S
  BY DEF GroupOf
<1>2. GroupOf(x, S) \subseteq GroupOf(i, S)
  BY <1>1, GroupClosed, GroupLeast
<1>3. i \in GroupOf(x, S)
  <2> SUFFICES ASSUME i \notin GroupOf(x, S) PROVE FALSE
    OBVIOUS
  <2> DEFINE T == S \ GroupOf(x, S)
  <2>1. T \in SUBSET S /\ i \in T
    OBVIOUS
  <2>2. ASSUME NEW j \in T, NEW k \in S, InConflict(j, k)
        PROVE  k \in T
    <3>1. InConflict(k, j)
      BY <2>2, ConflictSymmetric
    <3> QED BY <3>1, <2>2, <1>1, GroupClosed
  <2>3. GroupOf(i, S) \subseteq T
    BY <2>1, <2>2, GroupLeast
  <2> QED BY <2>3, <1>1, GroupClosed
<1>4. GroupOf(i, S) \subseteq GroupOf(x, S)
  BY <1>1, <1>3, GroupClosed, GroupLeast
<1> QED BY <1>2, <1>4

(* Items of two groups do not conflict, nor does what is in no group.        *)
LEMMA GroupsApartFromOthers ==
    ASSUME NEW S, NEW g \in ConflictGroups(S), NEW j \in g,
           NEW k \in S \ g
    PROVE  ~InConflict(j, k)
<1>1. PICK i \in S : g = GroupOf(i, S)
  BY DEF ConflictGroups
<1> QED BY <1>1, GroupClosed

(* Two chunks that share a column and are not in conflict have the same      *)
(* columns, and one ends before the other begins.                            *)
LEMMA NoConflictMeans ==
    ASSUME NEW i, Proper(i), NEW j, Proper(j), i # j, ~InConflict(i, j),
           ShareColumns(i.chunk.meta, j.chunk.meta)
    PROVE  /\ i.chunk.meta.cols = j.chunk.meta.cols
           /\ \/ i.chunk.meta.last < j.chunk.meta.first
              \/ j.chunk.meta.last < i.chunk.meta.first
BY DEF Proper, InConflict, OverlapWith, Misaligned, IndexOverlap, ColumnHash

(* A group lies all to one side of an item it does not conflict with: it     *)
(* shares no column with it, or has its columns and is all below, or above.  *)
LEMMA OneSide ==
    ASSUME NEW S, \A j \in S : Proper(j), NEW g \in ConflictGroups(S),
           NEW k, Proper(k), k \notin g, \A j \in g : ~InConflict(j, k)
    PROVE  \/ \A j \in g : ~ShareColumns(j.chunk.meta, k.chunk.meta)
           \/ \A j \in g : /\ j.chunk.meta.cols = k.chunk.meta.cols
                           /\ j.chunk.meta.last < k.chunk.meta.first
           \/ \A j \in g : /\ j.chunk.meta.cols = k.chunk.meta.cols
                           /\ k.chunk.meta.last < j.chunk.meta.first
<1>0. PICK i \in S : g = GroupOf(i, S)
  BY DEF ConflictGroups
<1>1. g \subseteq S /\ \A y \in g, z \in S : InConflict(y, z) => z \in g
  BY <1>0, GroupClosed
<1> DEFINE n == k.chunk.meta
           Below(j) == j.chunk.meta.cols = n.cols /\ j.chunk.meta.last < n.first
           Above(j) == j.chunk.meta.cols = n.cols /\ n.last < j.chunk.meta.first
<1>2. /\ n.first \in Int /\ n.last \in Int /\ n.first =< n.last /\ n.cols # {}
      /\ \A j \in S : /\ j.chunk.meta.first \in Int /\ j.chunk.meta.last \in Int
                      /\ j.chunk.meta.first =< j.chunk.meta.last
                      /\ j.chunk.meta.cols # {}
  BY DEF Proper
<1>3. \A j \in g : ShareColumns(j.chunk.meta, n) => Below(j) \/ Above(j)
  BY <1>1, NoConflictMeans
<1>4. ASSUME NEW y \in g, NEW z \in S, InConflict(y, z)
      PROVE  /\ Below(y) => Below(z)
             /\ Above(y) => Above(z)
  <2>1. z \in g /\ InConflict(z, y) /\ ShareColumns(y.chunk.meta, z.chunk.meta)
    BY <1>1, <1>4, ConflictSymmetric
  <2>2. y.chunk.meta.cols = n.cols => ShareColumns(z.chunk.meta, n)
    BY <2>1 DEF ShareColumns
  <2>3. y.chunk.meta.cols = n.cols => Below(z) \/ Above(z)
    BY <1>3, <2>1, <2>2
  <2>4. y.chunk.meta.cols = z.chunk.meta.cols
          => ~(y.chunk.meta.last < z.chunk.meta.first) /\ ~(z.chunk.meta.last < y.chunk.meta.first)
    BY <1>1, <1>2, <1>4 DEF InConflict, OverlapWith, IndexOverlap, Misaligned, ColumnHash
  <2> QED BY <1>1, <1>2, <2>3, <2>4
<1>5. ASSUME NEW x \in g
      PROVE  /\ Below(x) => \A j \in g : Below(j)
             /\ Above(x) => \A j \in g : Above(j)
  <2>1. x \in S /\ GroupOf(x, S) = g
    BY <1>0, <1>1, GroupUnique
  <2>2. ASSUME Below(x) PROVE \A j \in g : Below(j)
    <3> DEFINE T == {y \in g : Below(y)}
    <3>1. T \in SUBSET S /\ x \in T
      BY <1>1, <2>2
    <3>2. \A j \in T, z \in S : InConflict(j, z) => z \in T
      BY <1>1, <1>4
    <3>3. g \subseteq T
      BY <2>1, <3>1, <3>2, GroupLeast
    <3> QED BY <3>3
  <2>3. ASSUME Above(x) PROVE \A j \in g : Above(j)
    <3> DEFINE T == {y \in g : Above(y)}
    <3>1. T \in SUBSET S /\ x \in T
      BY <1>1, <2>3
    <3>2. \A j \in T, z \in S : InConflict(j, z) => z \in T
      BY <1>1, <1>4
    <3>3. g \subseteq T
      BY <2>1, <3>1, <3>2, GroupLeast
    <3> QED BY <3>3
  <2> QED BY <2>2, <2>3
<1> QED BY <1>3, <1>5

(* Being apart does not depend on which set is named first.                  *)
LEMMA ApartSymmetric ==
    ASSUME NEW M \in SUBSET Meta, NEW N \in SUBSET Meta, Apart(M, N)
    PROVE  Apart(N, M)
<1>1. PICK way \in {"beside", "below", "above"} : \A m \in M, n \in N : Stand(way, m, n)
  BY DEF Apart
<1>2. CASE way = "beside"
  <2>1. \A n \in N, m \in M : Stand("beside", n, m)
    BY <1>1, <1>2 DEF Stand, ShareColumns
  <2> QED BY <2>1 DEF Apart
<1>3. CASE way = "below"
  <2>1. \A n \in N, m \in M : Stand("above", n, m)
    BY <1>1, <1>3 DEF Stand
  <2> QED BY <2>1 DEF Apart
<1>4. CASE way = "above"
  <2>1. \A n \in N, m \in M : Stand("below", n, m)
    BY <1>1, <1>4 DEF Stand
  <2> QED BY <2>1 DEF Apart
<1> QED BY <1>1, <1>2, <1>3, <1>4

(* What is apart from a set is apart from its parts.                         *)
LEMMA ApartSubset ==
    ASSUME NEW M, NEW N, Apart(M, N), NEW P \in SUBSET M
    PROVE  Apart(P, N)
BY DEF Apart

LEMMA ApartEmpty ==
    ASSUME NEW N
    PROVE  Apart({}, N)
BY DEF Apart

(* Chunks that are apart do not overlap, and are aligned when nothing is     *)
(* ever split.                                                               *)
LEMMA ApartMeans ==
    ASSUME NEW m \in Meta, NEW n \in Meta, Apart({m}, {n})
    PROVE  ~OverlapWith(m, n) /\ (NeverSplit => ~Misaligned(m, n))
<1>1. PICK way \in {"beside", "below", "above"} : Stand(way, m, n)
  BY DEF Apart
<1>2. /\ m.first \in Int /\ m.last \in Int /\ m.first =< m.last
      /\ n.first \in Int /\ n.last \in Int /\ n.first =< n.last
  BY MetaFields
<1> QED BY <1>1, <1>2
        DEF Stand, OverlapWith, Misaligned, ShareColumns, IndexOverlap, ColumnHash

(* Two items that are not in conflict are apart.                             *)
LEMMA ItemsApart ==
    ASSUME NEW i, Proper(i), NEW j, Proper(j), i # j, ~InConflict(i, j)
    PROVE  Apart({i.chunk.meta}, {j.chunk.meta})
<1> DEFINE m == i.chunk.meta
           n == j.chunk.meta
<1>1. CASE ~ShareColumns(m, n)
  <2>1. Stand("beside", m, n)
    BY <1>1 DEF Stand
  <2> QED BY <2>1 DEF Apart
<1>2. CASE ShareColumns(m, n)
  <2>1. m.cols = n.cols /\ (m.last < n.first \/ n.last < m.first)
    BY <1>2, NoConflictMeans
  <2>2. Stand("below", m, n) \/ Stand("above", m, n)
    BY <2>1 DEF Stand
  <2> QED BY <2>2 DEF Apart
<1> QED BY <1>1, <1>2

(* A group is apart from an item that conflicts with none of it.             *)
LEMMA GroupItemApart ==
    ASSUME NEW S, \A j \in S : Proper(j), NEW g \in ConflictGroups(S),
           NEW k, Proper(k), k \notin g, \A j \in g : ~InConflict(j, k)
    PROVE  Apart(MetasOf(g), {k.chunk.meta})
<1> DEFINE n == k.chunk.meta
<1>1. CASE \A j \in g : ~ShareColumns(j.chunk.meta, n)
  <2>1. \A m \in MetasOf(g) : Stand("beside", m, n)
    BY <1>1 DEF Stand, MetasOf
  <2> QED BY <2>1 DEF Apart
<1>2. CASE \A j \in g : j.chunk.meta.cols = n.cols /\ j.chunk.meta.last < n.first
  <2>1. \A m \in MetasOf(g) : Stand("below", m, n)
    BY <1>2 DEF Stand, MetasOf
  <2> QED BY <2>1 DEF Apart
<1>3. CASE \A j \in g : j.chunk.meta.cols = n.cols /\ n.last < j.chunk.meta.first
  <2>1. \A m \in MetasOf(g) : Stand("above", m, n)
    BY <1>3 DEF Stand, MetasOf
  <2> QED BY <2>1 DEF Apart
<1> QED BY <1>1, <1>2, <1>3, OneSide

(* An item is in no more than one group.                                     *)
LEMMA GroupsDisjoint ==
    ASSUME NEW S, \A j \in S : Proper(j),
           NEW g \in ConflictGroups(S), NEW h \in ConflictGroups(S), NEW x \in g, x \in h
    PROVE  g = h
<1>1. PICK i \in S : g = GroupOf(i, S)
  BY DEF ConflictGroups
<1>2. PICK j \in S : h = GroupOf(j, S)
  BY DEF ConflictGroups
<1> QED BY <1>1, <1>2, GroupUnique

(* Each item of a group has all of another to one side, and it is the same   *)
(* side for all of them.                                                     *)
LEMMA GroupsSided ==
    ASSUME NEW S, \A j \in S : Proper(j),
           NEW g \in ConflictGroups(S), NEW h \in ConflictGroups(S), g # h
    PROVE  \/ \A x \in g, k \in h : ~ShareColumns(x.chunk.meta, k.chunk.meta)
           \/ \A x \in g, k \in h : /\ x.chunk.meta.cols = k.chunk.meta.cols
                                    /\ x.chunk.meta.last < k.chunk.meta.first
           \/ \A x \in g, k \in h : /\ x.chunk.meta.cols = k.chunk.meta.cols
                                    /\ k.chunk.meta.last < x.chunk.meta.first
<1>0. g \subseteq S /\ h \subseteq S
  BY GroupsType
<1>1. \A x \in g : x \notin h /\ \A k \in h : k \notin g /\ ~InConflict(x, k) /\ ~InConflict(k, x)
  BY <1>0, GroupsDisjoint, GroupsApartFromOthers
<1>2. \A x \in S : /\ x.chunk.meta.first \in Int /\ x.chunk.meta.last \in Int
                   /\ x.chunk.meta.first =< x.chunk.meta.last
                   /\ x.chunk.meta.cols # {}
  BY DEF Proper
<1> SUFFICES ASSUME NEW x0 \in g, NEW k0 \in h, ShareColumns(x0.chunk.meta, k0.chunk.meta)
             PROVE  \/ \A x \in g, k \in h : /\ x.chunk.meta.cols = k.chunk.meta.cols
                                             /\ x.chunk.meta.last < k.chunk.meta.first
                    \/ \A x \in g, k \in h : /\ x.chunk.meta.cols = k.chunk.meta.cols
                                             /\ k.chunk.meta.last < x.chunk.meta.first
  OBVIOUS
<1>3. \/ \A x \in g : /\ x.chunk.meta.cols = k0.chunk.meta.cols
                      /\ x.chunk.meta.last < k0.chunk.meta.first
      \/ \A x \in g : /\ x.chunk.meta.cols = k0.chunk.meta.cols
                      /\ k0.chunk.meta.last < x.chunk.meta.first
  BY <1>0, <1>1, OneSide
<1>4. ASSUME NEW x \in g
      PROVE  \/ \A k \in h : ~ShareColumns(k.chunk.meta, x.chunk.meta)
             \/ \A k \in h : /\ k.chunk.meta.cols = x.chunk.meta.cols
                             /\ k.chunk.meta.last < x.chunk.meta.first
             \/ \A k \in h : /\ k.chunk.meta.cols = x.chunk.meta.cols
                             /\ x.chunk.meta.last < k.chunk.meta.first
  BY <1>0, <1>1, OneSide
<1>5. \A x \in g : ShareColumns(k0.chunk.meta, x.chunk.meta)
  BY <1>0, <1>2, <1>3 DEF ShareColumns
<1>6. CASE \A x \in g : /\ x.chunk.meta.cols = k0.chunk.meta.cols
                        /\ x.chunk.meta.last < k0.chunk.meta.first
  BY <1>0, <1>2, <1>4, <1>5, <1>6
<1>7. CASE \A x \in g : /\ x.chunk.meta.cols = k0.chunk.meta.cols
                        /\ k0.chunk.meta.last < x.chunk.meta.first
  BY <1>0, <1>2, <1>4, <1>5, <1>7
<1> QED BY <1>3, <1>6, <1>7

(* So two groups are apart. *)
LEMMA GroupsApart ==
    ASSUME NEW S, \A j \in S : Proper(j),
           NEW g \in ConflictGroups(S), NEW h \in ConflictGroups(S), g # h
    PROVE  Apart(MetasOf(g), MetasOf(h))
<1>1. CASE \A x \in g, k \in h : ~ShareColumns(x.chunk.meta, k.chunk.meta)
  <2>1. \A m \in MetasOf(g), n \in MetasOf(h) : Stand("beside", m, n)
    BY <1>1 DEF Stand, MetasOf
  <2> QED BY <2>1 DEF Apart
<1>2. CASE \A x \in g, k \in h : /\ x.chunk.meta.cols = k.chunk.meta.cols
                                 /\ x.chunk.meta.last < k.chunk.meta.first
  <2>1. \A m \in MetasOf(g), n \in MetasOf(h) : Stand("below", m, n)
    BY <1>2 DEF Stand, MetasOf
  <2> QED BY <2>1 DEF Apart
<1>3. CASE \A x \in g, k \in h : /\ x.chunk.meta.cols = k.chunk.meta.cols
                                 /\ k.chunk.meta.last < x.chunk.meta.first
  <2>1. \A m \in MetasOf(g), n \in MetasOf(h) : Stand("above", m, n)
    BY <1>3 DEF Stand, MetasOf
  <2> QED BY <2>1 DEF Apart
<1> QED BY <1>1, <1>2, <1>3, GroupsSided

-----------------------------------------------------------------------------
(* Merging and splitting keep chunks apart *)

(* Merging two frames that stand on one side of a chunk stays on that side.  *)
LEMMA MergeStands ==
    ASSUME NEW l \in DataFrames, NEW r \in DataFrames, NEW n \in Meta, NEW way,
           Stand(way, MetaOf(l), n), Stand(way, MetaOf(r), n)
    PROVE  Stand(way, MetaOf(CombineFirst(l, r)), n)
<1> DEFINE d == CombineFirst(l, r)
<1>1. d \in DataFrames /\ d.cols = l.cols \cup r.cols /\ d.rows = l.rows \cup r.rows
  BY CombineFirstType DEF CombineFirst
<1> HIDE DEF d
<1>2. /\ MetaOf(d).cols = MetaOf(l).cols \cup MetaOf(r).cols
      /\ MetaOf(d).first \in l.rows \cup r.rows /\ MetaOf(d).last \in l.rows \cup r.rows
  BY <1>1, DataFrameFields, MetaIs
<1>3. /\ \A x \in l.rows : MetaOf(l).first =< x /\ x =< MetaOf(l).last /\ x \in Int
      /\ \A x \in r.rows : MetaOf(r).first =< x /\ x =< MetaOf(r).last /\ x \in Int
      /\ MetaOf(l).first \in Int /\ MetaOf(l).last \in Int
      /\ MetaOf(r).first \in Int /\ MetaOf(r).last \in Int
      /\ n.first \in Int /\ n.last \in Int
  BY DataFrameFields, MetaIs, MetaFields, FrameMeta
<1>4. ASSUME way = "beside" PROVE Stand(way, MetaOf(d), n)
  BY <1>2, <1>4 DEF Stand, ShareColumns
<1>5. ASSUME way = "below" PROVE Stand(way, MetaOf(d), n)
  BY <1>2, <1>3, <1>5 DEF Stand
<1>6. ASSUME way = "above" PROVE Stand(way, MetaOf(d), n)
  BY <1>2, <1>3, <1>6 DEF Stand
<1>7. Stand(way, MetaOf(d), n)
  BY <1>4, <1>5, <1>6 DEF Stand
<1> QED BY <1>7 DEF d

(* The first merge is with nothing.                                          *)
LEMMA FirstMerge ==
    ASSUME NEW r \in DataFrames
    PROVE  MetaOf(CombineFirst(EmptyFrame, r)) = MetaOf(r)
<1> DEFINE d == CombineFirst(EmptyFrame, r)
<1>1. d.cols = r.cols /\ d.rows = r.rows
  BY DEF CombineFirst, EmptyFrame
<1> HIDE DEF d
<1>2. MetaOf(d) = MetaOf(r)
  BY <1>1 DEF MetaOf
<1> QED BY <1>2 DEF d

(* Integer division by a positive number is monotonic.                       *)
LEMMA DivMonotonic ==
    ASSUME NEW a \in Nat, NEW b \in Nat, NEW k \in Nat \ {0}, a =< b
    PROVE  a \div k \in Nat /\ b \div k \in Nat /\ a \div k =< b \div k
OBVIOUS

(* It gives zero for what is less than the divisor.                          *)
LEMMA DivZero ==
    ASSUME NEW a \in Nat, NEW k \in Nat \ {0}, a < k
    PROVE  a \div k = 0
OBVIOUS

(* How many elements of a finite set of integers are before one of them.     *)
LEMMA RankIs ==
    ASSUME NEW S, IsFiniteSet(S), S \subseteq Int, NEW x \in S
    PROVE  /\ Cardinality({z \in S : z < x}) \in Nat
           /\ Cardinality({z \in S : z < x}) < Cardinality(S)
           /\ \A y \in S : x =< y => Cardinality({z \in S : z < x}) =< Cardinality({z \in S : z < y})
<1> DEFINE B(y) == {z \in S : z < y}
<1>1. \A y \in S : IsFiniteSet(B(y)) /\ Cardinality(B(y)) \in Nat
  <2> TAKE y \in S
  <2>1. B(y) \in SUBSET S
    OBVIOUS
  <2> HIDE DEF B
  <2> QED BY <2>1, FS_Subset, FS_CardinalityType
<1>2. Cardinality(B(x)) < Cardinality(S)
  <2>1. B(x) \in SUBSET S /\ B(x) # S
    OBVIOUS
  <2> HIDE DEF B
  <2>2. Cardinality(B(x)) =< Cardinality(S) /\ Cardinality(B(x)) # Cardinality(S)
    BY <2>1, FS_Subset
  <2> QED BY <1>1, <2>2, FS_CardinalityType
<1>3. ASSUME NEW y \in S, x =< y
      PROVE  Cardinality(B(x)) =< Cardinality(B(y))
  <2>1. B(x) \in SUBSET B(y)
    <3>1. y \in Int /\ x \in Int
      OBVIOUS
    <3>2. \A z \in S : z < x => z < y
      BY <1>3, <3>1
    <3> QED BY <3>2
  <2> HIDE DEF B
  <2> QED BY <1>1, <2>1, FS_Subset
<1> QED BY <1>1, <1>2, <1>3

(* Of two runs of a set, one is all before the other.                        *)
LEMMA RunsOrdered ==
    ASSUME NEW S, IsFiniteSet(S), S \subseteq Int, NEW k \in Nat \ {0},
           NEW Q \in Runs(S, k), NEW R \in Runs(S, k), Q # R
    PROVE  (\A x \in Q, y \in R : x < y) \/ (\A x \in Q, y \in R : y < x)
<1> DEFINE Rank(x) == Cardinality({z \in S : z < x})
           Run(x)  == Rank(x) \div k
<1>1. PICK q \in S : Q = {y \in S : Run(y) = Run(q)}
  BY DEF Runs
<1>2. PICK r \in S : R = {y \in S : Run(y) = Run(r)}
  BY DEF Runs
<1>3. \A x \in S : Rank(x) \in Nat /\ \A y \in S : x =< y => Rank(x) =< Rank(y)
  BY RankIs
<1> HIDE DEF Rank
<1>4. \A x \in S, y \in S : Run(x) \in Nat /\ (x =< y => Run(x) =< Run(y))
  BY <1>3, DivMonotonic
<1> HIDE DEF Run
<1>5. Run(q) # Run(r)
  BY <1>1, <1>2
<1>6. CASE Run(q) < Run(r)
  <2>1. \A x \in Q, y \in R : ~(y =< x)
    BY <1>1, <1>2, <1>4, <1>6
  <2> QED BY <2>1, <1>1, <1>2
<1>7. CASE Run(r) < Run(q)
  <2>1. \A x \in Q, y \in R : ~(x =< y)
    BY <1>1, <1>2, <1>4, <1>7
  <2> QED BY <2>1, <1>1, <1>2
<1> QED BY <1>4, <1>5, <1>6, <1>7

(* A set no longer than a run is one run.                                    *)
LEMMA RunsWhole ==
    ASSUME NEW S, IsFiniteSet(S), S \subseteq Int, NEW k \in Nat \ {0},
           Cardinality(S) =< k, NEW Q \in Runs(S, k)
    PROVE  Q = S
<1> DEFINE Rank(x) == Cardinality({z \in S : z < x})
<1>1. PICK q \in S : Q = {y \in S : Rank(y) \div k = Rank(q) \div k}
  BY DEF Runs
<1>2. Cardinality(S) \in Nat
  BY FS_CardinalityType
<1>3. \A x \in S : Rank(x) \in Nat /\ Rank(x) < k
  <2> TAKE x \in S
  <2>1. Rank(x) \in Nat /\ Rank(x) < Cardinality(S)
    BY RankIs
  <2> HIDE DEF Rank
  <2> QED BY <1>2, <2>1
<1> HIDE DEF Rank
<1>4. \A x \in S : Rank(x) \div k = 0
  <2> TAKE x \in S
  <2>1. Rank(x) \in Nat /\ Rank(x) < k
    BY <1>3
  <2> HIDE DEF Rank
  <2> QED BY <2>1, DivZero
<1> QED BY <1>1, <1>4

(* A column or a row run of a frame: not empty, finite, of integers.         *)
LEMMA FrameFinite ==
    ASSUME NEW d \in DataFrames
    PROVE  /\ IsFiniteSet(d.cols) /\ d.cols \subseteq Int
           /\ IsFiniteSet(d.rows) /\ d.rows \subseteq Int
           /\ Cardinality(d.cols) \in Nat \ {0} /\ Cardinality(d.rows) \in Nat \ {0}
<1>1. d.cols \in SUBSET Cols /\ d.rows \in SUBSET Rows /\ d.cols # {} /\ d.rows # {}
  BY DataFrameFields
<1>2. IsFiniteSet(d.cols) /\ IsFiniteSet(d.rows) /\ d.cols \subseteq Int /\ d.rows \subseteq Int
  BY <1>1, GeometryAssumption, FS_Subset
<1> QED BY <1>1, <1>2, FS_CardinalityType, FS_EmptySet

(* How many columns a piece gets: one at least.                              *)
LEMMA ColumnsPerPiece ==
    ASSUME NEW nb \in Nat \ {0}, nb =< MaxValues
    PROVE  /\ Min({MaxColumns, MaxValues \div nb}) \in Nat \ {0}
           /\ Min({MaxColumns, MaxValues \div nb}) \in {MaxColumns, MaxValues \div nb}
<1>1. MaxColumns \in Nat \ {0} /\ MaxValues \in Nat \ {0}
  BY LimitAssumption
<1>2. MaxValues \div nb \in Nat \ {0}
  BY <1>1
<1> DEFINE a == MaxColumns
           b == MaxValues \div nb
<1>3. a \in Int /\ b \in Int
  BY <1>1, <1>2
<1> HIDE DEF a, b
<1>4. \E x \in {a, b} : \A y \in {a, b} : x =< y
  BY <1>3
<1>5. Min({a, b}) \in {a, b}
  BY <1>4 DEF Min
<1> QED BY <1>1, <1>2, <1>5 DEF a, b

(* When nothing is over the limits, a frame is one piece.                    *)
LEMMA NoSplit ==
    ASSUME NeverSplit, NEW d \in DataFrames, NEW e \in SplitIntoChunks(d)
    PROVE  e.cols = d.cols
<1> DEFINE nc == Cardinality(d.cols)
           nb == Cardinality(d.rows)
           C  == Cardinality(Cols)
           R  == Cardinality(Rows)
<1>1. nc \in Nat \ {0} /\ nb \in Nat \ {0}
  BY FrameFinite
<1>2. C \in Nat /\ R \in Nat /\ nc =< C /\ nb =< R
  BY DataFrameFields, GeometryAssumption, FS_Subset, FS_CardinalityType
<1>3. C =< MaxColumns /\ C * R =< MaxValues
  BY DEF NeverSplit, WithinLimits
<1>4. MaxColumns \in Nat \ {0} /\ MaxValues \in Nat \ {0}
  BY LimitAssumption
<1> HIDE DEF nc, nb, C, R
<1>5. nc * nb =< C * R
  <2>1. nc * nb =< C * nb
    BY <1>1, <1>2
  <2>2. C * nb =< C * R
    BY <1>1, <1>2
  <2> QED BY <1>1, <1>2, <2>1, <2>2
<1>6. nc * nb =< MaxValues /\ nc =< MaxColumns
  BY <1>1, <1>2, <1>3, <1>4, <1>5
<1>7. nb =< MaxValues /\ nc =< MaxValues \div nb
  BY <1>1, <1>4, <1>6
<1> DEFINE k == Min({MaxColumns, MaxValues \div nb})
<1>8. k \in Nat \ {0} /\ k \in {MaxColumns, MaxValues \div nb}
  BY <1>1, <1>7, ColumnsPerPiece
<1>9. nc =< k
  BY <1>6, <1>7, <1>8
<1>10. SplitIntoChunks(d) = SplitByColumns(d, k)
  BY <1>1, <1>4, <1>7 DEF SplitIntoChunks, nb
<1> HIDE DEF k
<1>11. PICK Q \in Runs(d.cols, k) : e = SliceOf(d, Q, d.rows)
  BY <1>10 DEF SplitByColumns
<1>12. Q = d.cols
  BY <1>8, <1>9, RunsWhole, FrameFinite DEF nc
<1> QED BY <1>11, <1>12 DEF SliceOf

(* What a piece has of the frame it is cut from.                             *)
LEMMA PieceIs ==
    ASSUME NEW d \in DataFrames, NEW e \in SplitIntoChunks(d)
    PROVE  e \in DataFrames /\ e.cols \subseteq d.cols /\ e.rows \subseteq d.rows
<1>1. e \in DataFrames
  BY SplitType
<1>2. ASSUME NEW k, e \in SplitByColumns(d, k)
      PROVE  e.cols \subseteq d.cols /\ e.rows \subseteq d.rows
  <2>1. PICK C \in Runs(d.cols, k) : e = SliceOf(d, C, d.rows)
    BY <1>2 DEF SplitByColumns
  <2> QED BY <2>1, RunsNonEmpty DEF SliceOf
<1>3. ASSUME NEW k, e \in SplitByRows(d, k)
      PROVE  e.cols \subseteq d.cols /\ e.rows \subseteq d.rows
  <2>1. PICK c \in d.cols, R \in Runs(d.rows, k) : e = SliceOf(d, {c}, R)
    BY <1>3 DEF SplitByRows
  <2> QED BY <2>1, RunsNonEmpty DEF SliceOf
<1>4. \E k : e \in SplitByColumns(d, k) \/ e \in SplitByRows(d, k)
  BY DEF SplitIntoChunks
<1> QED BY <1>1, <1>2, <1>3, <1>4

(* A piece stands on the side its frame stands on.                           *)
LEMMA PieceStands ==
    ASSUME NEW d \in DataFrames, NEW e \in SplitIntoChunks(d), NEW n \in Meta, NEW way,
           Stand(way, MetaOf(d), n)
    PROVE  Stand(way, MetaOf(e), n)
<1>1. e \in DataFrames /\ e.cols \subseteq d.cols /\ e.rows \subseteq d.rows
  BY PieceIs
<1>2. /\ MetaOf(e).cols \subseteq MetaOf(d).cols
      /\ MetaOf(e).first \in d.rows /\ MetaOf(e).last \in d.rows
      /\ \A x \in d.rows : MetaOf(d).first =< x /\ x =< MetaOf(d).last /\ x \in Int
      /\ MetaOf(d).first \in Int /\ MetaOf(d).last \in Int
      /\ n.first \in Int /\ n.last \in Int
  BY <1>1, DataFrameFields, MetaIs, MetaFields, FrameMeta
<1>3. NeverSplit => MetaOf(e).cols = MetaOf(d).cols
  BY <1>1, NoSplit, DataFrameFields, MetaIs
<1>4. CASE way = "beside"
  BY <1>2, <1>4 DEF Stand, ShareColumns
<1>5. CASE way = "below"
  BY <1>2, <1>3, <1>5 DEF Stand
<1>6. CASE way = "above"
  BY <1>2, <1>3, <1>6 DEF Stand
<1> QED BY <1>4, <1>5, <1>6 DEF Stand

(* Two pieces of a frame are apart: other columns, or other rows of one.     *)
LEMMA PiecesApart ==
    ASSUME NEW d \in DataFrames, NEW e \in SplitIntoChunks(d), NEW f \in SplitIntoChunks(d),
           MetaOf(e) # MetaOf(f)
    PROVE  Apart({MetaOf(e)}, {MetaOf(f)})
<1> DEFINE m == MetaOf(e)
           n == MetaOf(f)
           nb == Cardinality(d.rows)
<1>1. /\ m.cols = e.cols /\ m.first \in e.rows /\ m.last \in e.rows
      /\ n.cols = f.cols /\ n.first \in f.rows /\ n.last \in f.rows
  BY PieceIs, DataFrameFields, MetaIs
<1>2. CASE nb > MaxValues
  <2>1. PICK c \in d.cols, Q \in Runs(d.rows, MaxValues) : e = SliceOf(d, {c}, Q)
    BY <1>2 DEF SplitIntoChunks, SplitByRows
  <2>2. PICK b \in d.cols, R \in Runs(d.rows, MaxValues) : f = SliceOf(d, {b}, R)
    BY <1>2 DEF SplitIntoChunks, SplitByRows
  <2>3. e.cols = {c} /\ e.rows = Q /\ f.cols = {b} /\ f.rows = R
    BY <2>1, <2>2 DEF SliceOf
  <2>4. CASE c # b
    <3>1. Stand("beside", m, n)
      BY <1>1, <2>3, <2>4 DEF Stand, ShareColumns
    <3> QED BY <3>1 DEF Apart
  <2>5. CASE c = b
    <3>1. Q # R
      BY <2>1, <2>2, <2>5
    <3>2. (\A x \in Q, y \in R : x < y) \/ (\A x \in Q, y \in R : y < x)
      BY <3>1, RunsOrdered, FrameFinite, LimitAssumption
    <3>3. m.cols = n.cols /\ (m.last < n.first \/ n.last < m.first)
      BY <1>1, <2>3, <2>5, <3>2
    <3>4. Stand("below", m, n) \/ Stand("above", m, n)
      BY <3>3 DEF Stand
    <3> QED BY <3>4 DEF Apart
  <2> QED BY <2>4, <2>5
<1>3. CASE ~(nb > MaxValues)
  <2> DEFINE k == Min({MaxColumns, MaxValues \div nb})
  <2>1. k \in Nat \ {0}
    <3>1. nb \in Nat \ {0} /\ nb =< MaxValues
      BY <1>3, FrameFinite, LimitAssumption
    <3> HIDE DEF nb
    <3> QED BY <3>1, ColumnsPerPiece
  <2>2. SplitIntoChunks(d) = SplitByColumns(d, k)
    BY <1>3 DEF SplitIntoChunks
  <2> HIDE DEF k
  <2>3. PICK Q \in Runs(d.cols, k) : e = SliceOf(d, Q, d.rows)
    BY <2>2 DEF SplitByColumns
  <2>4. PICK R \in Runs(d.cols, k) : f = SliceOf(d, R, d.rows)
    BY <2>2 DEF SplitByColumns
  <2>5. e.cols = Q /\ f.cols = R /\ Q # R
    BY <2>3, <2>4 DEF SliceOf
  <2>6. (\A x \in Q, y \in R : x < y) \/ (\A x \in Q, y \in R : y < x)
    BY <2>1, <2>5, RunsOrdered, FrameFinite
  <2>7. Q \subseteq Int /\ Q \cap R = {}
    BY <2>6, RunsNonEmpty, FrameFinite
  <2>8. Stand("beside", m, n)
    BY <1>1, <2>5, <2>7 DEF Stand, ShareColumns
  <2> QED BY <2>8 DEF Apart
<1> QED BY <1>2, <1>3

-----------------------------------------------------------------------------
(* The values of merged and split frames *)

(* A value is at a column and a row of its frame, and nothing is empty.      *)
LEMMA HasInside ==
    ASSUME NEW d \in DataFrames \cup {EmptyFrame}, NEW x, HasValue(d, x)
    PROVE  d \in DataFrames /\ x \in d.cols \X d.rows /\ x \in Cols \X Rows
<1>1. d # EmptyFrame
  <2>1. DOMAIN EmptyFrame.val = {}
    BY DEF EmptyFrame
  <2> QED BY <2>1 DEF HasValue
<1>2. DOMAIN d.val = d.cols \X d.rows /\ d.cols \subseteq Cols /\ d.rows \subseteq Rows
  BY <1>1, DataFrameFields
<1> QED BY <1>1, <1>2 DEF HasValue

(* What a writer posts has a value, its own, in each cell of the shape.      *)
LEMMA FilledIs ==
    ASSUME NEW w \in Writers, NEW shape
    PROVE  /\ DOMAIN FilledBy(w, shape).val = shape.cols \X shape.rows
           /\ \A x : HasValue(FilledBy(w, shape), x) <=> x \in shape.cols \X shape.rows
           /\ \A x \in shape.cols \X shape.rows : FilledBy(w, shape).val[x] = w
           /\ MetaOf(FilledBy(w, shape)) = MetaOf(shape)
BY GeometryAssumption DEF FilledBy, HasValue, MetaOf

(* What is merged first is what is kept; nothing is lost.                    *)
LEMMA CombineIs ==
    ASSUME NEW l \in DataFrames \cup {EmptyFrame}, NEW r \in DataFrames, NEW x
    PROVE  /\ HasValue(l, x) => /\ HasValue(CombineFirst(l, r), x)
                                /\ CombineFirst(l, r).val[x] = l.val[x]
           /\ HasValue(r, x) => HasValue(CombineFirst(l, r), x)
           /\ HasValue(CombineFirst(l, r), x) /\ ~HasValue(l, x) =>
                HasValue(r, x) /\ CombineFirst(l, r).val[x] = r.val[x]
<1> DEFINE C == l.cols \cup r.cols
           R == l.rows \cup r.rows
           d == CombineFirst(l, r)
<1>1. d.val = [y \in C \X R |-> IF HasValue(l, y) THEN l.val[y]
                                ELSE IF HasValue(r, y) THEN r.val[y] ELSE NaN]
  BY DEF CombineFirst
<1>2. HasValue(l, x) \/ HasValue(r, x) => x \in C \X R
  BY HasInside
<1> HIDE DEF C, R, d
<1>3. HasValue(d, x) <=> x \in C \X R /\ d.val[x] # NaN
  BY <1>1 DEF HasValue
<1>4. x \in C \X R => d.val[x] = IF HasValue(l, x) THEN l.val[x]
                                 ELSE IF HasValue(r, x) THEN r.val[x] ELSE NaN
  BY <1>1
<1>5. /\ HasValue(l, x) => l.val[x] # NaN
      /\ HasValue(r, x) => r.val[x] # NaN
  BY DEF HasValue
<1>6. /\ HasValue(l, x) => HasValue(d, x) /\ d.val[x] = l.val[x]
      /\ HasValue(r, x) => HasValue(d, x)
      /\ HasValue(d, x) /\ ~HasValue(l, x) => HasValue(r, x) /\ d.val[x] = r.val[x]
  BY <1>2, <1>3, <1>4, <1>5
<1> QED BY <1>6 DEF d

(* A part of a frame has the values of the frame.                            *)
LEMMA SliceIs ==
    ASSUME NEW d \in DataFrames, NEW C \in SUBSET d.cols, NEW R \in SUBSET d.rows, NEW x
    PROVE  /\ HasValue(SliceOf(d, C, R), x) =>
                HasValue(d, x) /\ SliceOf(d, C, R).val[x] = d.val[x]
           /\ HasValue(d, x) /\ x \in C \X R => HasValue(SliceOf(d, C, R), x)
<1>1. DOMAIN d.val = d.cols \X d.rows
  BY DataFrameFields
<1>2. C \X R \subseteq d.cols \X d.rows
  OBVIOUS
<1>3. /\ DOMAIN SliceOf(d, C, R).val = C \X R
      /\ \A y \in C \X R : SliceOf(d, C, R).val[y] = d.val[y]
  BY DEF SliceOf
<1> QED BY <1>1, <1>2, <1>3 DEF HasValue

(* How a frame is split: by runs of its columns, or cell by cell in columns. *)
LEMMA SplitIs ==
    ASSUME NEW d \in DataFrames
    PROVE  \/ SplitIntoChunks(d) = SplitByRows(d, MaxValues)
           \/ \E k \in Nat \ {0} : SplitIntoChunks(d) = SplitByColumns(d, k)
<1> DEFINE nb == Cardinality(d.rows)
           k  == Min({MaxColumns, MaxValues \div nb})
<1>1. CASE ~(nb > MaxValues)
  <2>1. nb \in Nat \ {0} /\ nb =< MaxValues
    BY <1>1, FrameFinite, LimitAssumption
  <2>2. SplitIntoChunks(d) = SplitByColumns(d, k)
    BY <1>1 DEF SplitIntoChunks
  <2> HIDE DEF nb
  <2>3. k \in Nat \ {0}
    BY <2>1, ColumnsPerPiece
  <2> HIDE DEF k
  <2> QED BY <2>2, <2>3
<1> QED BY <1>1 DEF SplitIntoChunks

(* Each element is in a run, and two runs have no element in common.         *)
LEMMA RunsPartition ==
    ASSUME NEW S, IsFiniteSet(S), S \subseteq Int, NEW k \in Nat \ {0}
    PROVE  /\ \A x \in S : \E Q \in Runs(S, k) : x \in Q
           /\ \A Q \in Runs(S, k), R \in Runs(S, k) : \A x \in Q : x \in R => Q = R
<1> DEFINE Rank(x) == Cardinality({z \in S : z < x})
           Run(x)  == {y \in S : Rank(y) \div k = Rank(x) \div k}
<1>1. \A x \in S : \E Q \in Runs(S, k) : x \in Q
  <2>1. Runs(S, k) = {Run(x) : x \in S}
    BY DEF Runs
  <2> HIDE DEF Rank
  <2>2. \A x \in S : x \in Run(x)
    OBVIOUS
  <2> HIDE DEF Run
  <2> QED BY <2>1, <2>2
<1>2. ASSUME NEW Q \in Runs(S, k), NEW R \in Runs(S, k), NEW x \in Q, x \in R, Q # R
      PROVE  FALSE
  <2>1. x \in Int
    BY RunsNonEmpty
  <2>2. x < x
    BY <1>2, RunsOrdered
  <2> QED BY <2>1, <2>2
<1> QED BY <1>1, <1>2

(* Splitting loses no value and makes none up.                               *)
LEMMA PieceValues ==
    ASSUME NEW d \in DataFrames, NEW x
    PROVE  /\ \A e \in SplitIntoChunks(d) : HasValue(e, x) => HasValue(d, x) /\ e.val[x] = d.val[x]
           /\ HasValue(d, x) => \E e \in SplitIntoChunks(d) : HasValue(e, x)
<1>0. /\ IsFiniteSet(d.cols) /\ d.cols \subseteq Int /\ IsFiniteSet(d.rows) /\ d.rows \subseteq Int
      /\ MaxValues \in Nat \ {0}
  BY FrameFinite, LimitAssumption
<1>1. CASE SplitIntoChunks(d) = SplitByRows(d, MaxValues)
  <2>1. ASSUME NEW e \in SplitIntoChunks(d), HasValue(e, x)
        PROVE  HasValue(d, x) /\ e.val[x] = d.val[x]
    <3>1. PICK c \in d.cols, R \in Runs(d.rows, MaxValues) : e = SliceOf(d, {c}, R)
      BY <1>1 DEF SplitByRows
    <3>2. {c} \subseteq d.cols /\ R \subseteq d.rows
      BY RunsNonEmpty
    <3> QED BY <2>1, <3>1, <3>2, SliceIs
  <2>2. ASSUME HasValue(d, x)
        PROVE  \E e \in SplitIntoChunks(d) : HasValue(e, x)
    <3>1. x \in d.cols \X d.rows
      BY <2>2, HasInside
    <3>2. PICK R \in Runs(d.rows, MaxValues) : x[2] \in R
      BY <1>0, <3>1, RunsPartition
    <3>3. x \in {x[1]} \X R /\ {x[1]} \subseteq d.cols /\ R \subseteq d.rows
      BY <3>1, <3>2, RunsNonEmpty
    <3>4. HasValue(SliceOf(d, {x[1]}, R), x)
      BY <2>2, <3>3, SliceIs
    <3>5. SliceOf(d, {x[1]}, R) \in SplitIntoChunks(d)
      <4> DEFINE Parts(c) == {SliceOf(d, {c}, Q) : Q \in Runs(d.rows, MaxValues)}
      <4>1. x[1] \in d.cols
        BY <3>1
      <4>2. SliceOf(d, {x[1]}, R) \in Parts(x[1])
        OBVIOUS
      <4>3. SplitIntoChunks(d) = UNION {Parts(c) : c \in d.cols}
        BY <1>1 DEF SplitByRows
      <4> HIDE DEF Parts
      <4> QED BY <4>1, <4>2, <4>3
    <3> QED BY <3>4, <3>5
  <2> QED BY <2>1, <2>2
<1>2. ASSUME NEW k \in Nat \ {0}, SplitIntoChunks(d) = SplitByColumns(d, k)
      PROVE  /\ \A e \in SplitIntoChunks(d) : HasValue(e, x) => HasValue(d, x) /\ e.val[x] = d.val[x]
             /\ HasValue(d, x) => \E e \in SplitIntoChunks(d) : HasValue(e, x)
  <2>1. ASSUME NEW e \in SplitIntoChunks(d), HasValue(e, x)
        PROVE  HasValue(d, x) /\ e.val[x] = d.val[x]
    <3>1. PICK C \in Runs(d.cols, k) : e = SliceOf(d, C, d.rows)
      BY <1>2 DEF SplitByColumns
    <3>2. C \subseteq d.cols
      BY RunsNonEmpty
    <3> QED BY <2>1, <3>1, <3>2, SliceIs
  <2>2. ASSUME HasValue(d, x)
        PROVE  \E e \in SplitIntoChunks(d) : HasValue(e, x)
    <3>1. x \in d.cols \X d.rows
      BY <2>2, HasInside
    <3>2. PICK C \in Runs(d.cols, k) : x[1] \in C
      BY <1>0, <3>1, RunsPartition
    <3>3. x \in C \X d.rows /\ C \subseteq d.cols
      BY <3>1, <3>2, RunsNonEmpty
    <3>4. HasValue(SliceOf(d, C, d.rows), x)
      BY <2>2, <3>3, SliceIs
    <3>5. SliceOf(d, C, d.rows) \in SplitIntoChunks(d)
      BY <1>2 DEF SplitByColumns
    <3> QED BY <3>4, <3>5
  <2> QED BY <2>1, <2>2
<1> QED BY <1>1, <1>2, SplitIs

(* Two pieces of a frame do not have the same metadata, so that none is      *)
(* stored in the place of another.                                           *)
LEMMA PieceNames ==
    ASSUME NEW d \in DataFrames, NEW e \in SplitIntoChunks(d), NEW f \in SplitIntoChunks(d),
           MetaOf(e) = MetaOf(f)
    PROVE  e = f
<1>0. /\ IsFiniteSet(d.cols) /\ d.cols \subseteq Int /\ IsFiniteSet(d.rows) /\ d.rows \subseteq Int
      /\ MaxValues \in Nat \ {0}
  BY FrameFinite, LimitAssumption
<1>1. e.cols = f.cols /\ MetaOf(e).first \in e.rows /\ MetaOf(e).first \in f.rows
  BY PieceIs, DataFrameFields, MetaIs
<1>2. CASE SplitIntoChunks(d) = SplitByRows(d, MaxValues)
  <2>1. PICK c \in d.cols, Q \in Runs(d.rows, MaxValues) : e = SliceOf(d, {c}, Q)
    BY <1>2 DEF SplitByRows
  <2>2. PICK b \in d.cols, R \in Runs(d.rows, MaxValues) : f = SliceOf(d, {b}, R)
    BY <1>2 DEF SplitByRows
  <2>3. e.cols = {c} /\ e.rows = Q /\ f.cols = {b} /\ f.rows = R
    BY <2>1, <2>2 DEF SliceOf
  <2>4. Q = R
    BY <1>0, <1>1, <2>3, RunsPartition
  <2> QED BY <1>1, <2>1, <2>2, <2>3, <2>4
<1>3. ASSUME NEW k \in Nat \ {0}, SplitIntoChunks(d) = SplitByColumns(d, k)
      PROVE  e = f
  <2>1. PICK Q \in Runs(d.cols, k) : e = SliceOf(d, Q, d.rows)
    BY <1>3 DEF SplitByColumns
  <2>2. PICK R \in Runs(d.cols, k) : f = SliceOf(d, R, d.rows)
    BY <1>3 DEF SplitByColumns
  <2> QED BY <1>1, <2>1, <2>2 DEF SliceOf
<1> QED BY <1>2, <1>3, SplitIs

(* A piece of a frame has the cells it covers from the frame.                *)
LEMMA PieceCells ==
    ASSUME NEW d \in DataFrames, NEW e \in SplitIntoChunks(d), NEW x \in DOMAIN e.val
    PROVE  x \in DOMAIN d.val /\ e.val[x] = d.val[x]
<1>0. DOMAIN d.val = d.cols \X d.rows
  BY DataFrameFields
<1>1. \E C \in SUBSET d.cols, R \in SUBSET d.rows : e = SliceOf(d, C, R)
  <2>1. CASE SplitIntoChunks(d) = SplitByRows(d, MaxValues)
    <3>1. PICK c \in d.cols, R \in Runs(d.rows, MaxValues) : e = SliceOf(d, {c}, R)
      BY <2>1 DEF SplitByRows
    <3>2. {c} \subseteq d.cols /\ R \subseteq d.rows
      BY RunsNonEmpty
    <3> QED BY <3>1, <3>2
  <2>2. ASSUME NEW k \in Nat \ {0}, SplitIntoChunks(d) = SplitByColumns(d, k)
        PROVE  \E C \in SUBSET d.cols, R \in SUBSET d.rows : e = SliceOf(d, C, R)
    <3>1. PICK C \in Runs(d.cols, k) : e = SliceOf(d, C, d.rows)
      BY <2>2 DEF SplitByColumns
    <3>2. C \subseteq d.cols
      BY RunsNonEmpty
    <3> QED BY <3>1, <3>2
  <2> QED BY <2>1, <2>2, SplitIs
<1>2. PICK C \in SUBSET d.cols, R \in SUBSET d.rows : e = SliceOf(d, C, R)
  BY <1>1
<1>3. x \in C \X R /\ e.val[x] = d.val[x]
  BY <1>2 DEF SliceOf
<1>4. C \X R \subseteq d.cols \X d.rows
  OBVIOUS
<1> QED BY <1>0, <1>3, <1>4

(* Two frames that cover a cell, with or without a value, overlap.           *)
LEMMA CellCovered ==
    ASSUME NEW d \in DataFrames, NEW e \in DataFrames, NEW x \in DOMAIN d.val, x \in DOMAIN e.val
    PROVE  OverlapWith(MetaOf(d), MetaOf(e))
<1>1. x[1] \in d.cols /\ x[1] \in e.cols /\ x[2] \in d.rows /\ x[2] \in e.rows
  <2>1. x \in d.cols \X d.rows /\ x \in e.cols \X e.rows
    BY DataFrameFields
  <2> QED BY <2>1
<1>2. /\ MetaOf(d).cols = d.cols /\ MetaOf(e).cols = e.cols
      /\ MetaOf(d).first =< x[2] /\ x[2] =< MetaOf(d).last
      /\ MetaOf(e).first =< x[2] /\ x[2] =< MetaOf(e).last
      /\ x[2] \in Int /\ MetaOf(d).first \in Int /\ MetaOf(d).last \in Int
      /\ MetaOf(e).first \in Int /\ MetaOf(e).last \in Int
  BY <1>1, DataFrameFields, MetaIs
<1> QED BY <1>1, <1>2 DEF OverlapWith, ShareColumns, IndexOverlap

(* So do two that have a value for it.                                       *)
LEMMA CellShared ==
    ASSUME NEW d \in DataFrames, NEW e \in DataFrames, NEW x, HasValue(d, x), HasValue(e, x)
    PROVE  OverlapWith(MetaOf(d), MetaOf(e))
BY CellCovered DEF HasValue
=============================================================================
