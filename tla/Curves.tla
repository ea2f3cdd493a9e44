------------------------------- MODULE Curves -------------------------------
(***************************************************************************)
(* Column labels.  C[2] is a part of the array curve C: a commit answers   *)
(* how many columns each curve has, a read that is too large answers       *)
(* partitions in which C[0], C[1], C[2] are the slice C[0:2], and a read   *)
(* takes labels, slices and names of arrays back (dataframe.py,            *)
(* catalog.py, error_model.py, reader.py).                                 *)
(*                                                                         *)
(* A client that follows these answers, partition by partition or curve by *)
(* curve, a page at a time when it must, should read the bulk.             *)
(***************************************************************************)
EXTENDS Integers, Sequences, FiniteSets, SequencesExt

CONSTANTS Bulks,           \* what may be committed: [chunks, nbRows]
          Spaced,          \* the names that start or end with spaces |-> without them
          None,
          MaxReadColumns,  \* READ_MAX_COLUMNS_COUNT
          MaxReadValues,   \* READ_MAX_TOTAL_VALUES_COUNT_FILTERED
          MaxLoadValues    \* READ_MAX_TOTAL_VALUES_COUNT_UNFILTERED

VARIABLES
    bulk,      \* the chunks of a commit, conflicts resolved, and its row count
    catalog,   \* the catalog that was saved, or None
    plan,      \* the selections the client still has to read, or None
    page,      \* the one it reads by pages: [sel, next, limit], or None
    got,       \* <<label, row>> |-> how many times it was read
    refused    \* selections the client gave up, with the status

vars == <<bulk, catalog, plan, page, got, refused>>

-----------------------------------------------------------------------------
(* Labels: plain; with an index, which may be written with leading zeros; or *)
(* ending in what reads as a slice.  A selection is a set of labels.         *)

Plain(n)       == [name |-> n, start |-> None, stop |-> None, zeros |-> FALSE]
At(n, i)       == [Plain(n) EXCEPT !.start = i]
Zeros(n, i)    == [At(n, i) EXCEPT !.zeros = TRUE]
Slice(n, i, j) == [At(n, i) EXCEPT !.stop = j]

IsArray(l)     == l.start # None
IsFullSlice(l) == l.stop # None

ASSUME CurvesAssumption ==
    /\ \A b \in Bulks :
         /\ b.nbRows \in Nat \ {0}
         /\ IsFiniteSet(b.chunks)
         /\ \A c, d \in b.chunks : c.cols = d.cols \/ c.cols \cap d.cols = {}
    /\ {MaxReadColumns, MaxReadValues, MaxLoadValues} \subseteq Nat \ {0}

LabelsOf(b) == UNION {c.cols : c \in b.chunks}
Names       == {l.name : l \in UNION {LabelsOf(b) : b \in Bulks}}
Label       == [name : Names, start : Nat \cup {None}, stop : Nat \cup {None}, zeros : BOOLEAN]

\* an index is written in digits
ASSUME LabelsAssumption ==
    \A b \in Bulks : \A c \in b.chunks :
        /\ IsFiniteSet(c.cols) /\ c.cols # {}
        /\ \A l \in c.cols :
             \/ l = Plain(l.name)
             \/ l.start \in Nat /\ l \in {At(l.name, l.start), Zeros(l.name, l.start)}
             \/ l.start \in Nat /\ l.stop \in Nat /\ l = Slice(l.name, l.start, l.stop)

AllColumns(groups) == UNION groups

\* one more label l: a plain one takes the place of the array of its name
WithLabel(curves, l) ==
    [n \in DOMAIN curves \cup {l.name} |->
        IF n # l.name THEN curves[n]
        ELSE IF IsArray(l) /\ n \in DOMAIN curves THEN Append(curves[n], l) ELSE <<l>>]

\* Mutant: the curves that are not arrays are not counted.
GroupCurvesArraysOnly(q) ==
    LET arrays == SelectSeq(q, IsArray)
        curves[k \in 0 .. Len(arrays)] ==
            IF k = 0 THEN <<>> ELSE WithLabel(curves[k - 1], arrays[k])
    IN  curves[Len(arrays)]

\* group_curve_columns, label by label
GroupCurves(q) ==
    LET curves[k \in 0 .. Len(q)] ==
            IF k = 0 THEN <<>> ELSE WithLabel(curves[k - 1], q[k])
    IN  curves[Len(q)]

CountCurves(q) == LET curves == GroupCurves(q) IN [n \in DOMAIN curves |-> Len(curves[n])]

\* the parts of arrays among labels L, those of one array, and the slice they span
Parts(L)      == {l \in L : IsArray(l) /\ ~IsFullSlice(l)}
PartsOf(L, n) == {l \in Parts(L) : l.name = n}
Indexes(L, n) == {l.start : l \in PartsOf(L, n)}
Spanned(L, n) == Slice(n, Min(Indexes(L, n)), Max(Indexes(L, n)))

\* Mutant: the parts of an array are always made a slice.
ColumnsToSlicesAlways(L) ==
    (L \ Parts(L)) \cup {Spanned(L, n) : n \in {l.name : l \in Parts(L)}}

\* the parts of an array become a slice when there are as many as it spans
Sliced(L) ==
    {n \in {l.name : l \in Parts(L)} :
       /\ Cardinality(PartsOf(L, n)) > 1
       /\ Cardinality(PartsOf(L, n)) = Max(Indexes(L, n)) + 1 - Min(Indexes(L, n))}

ColumnsToSlices(L) ==
    {l \in L : l \notin Parts(L) \/ l.name \notin Sliced(L)}
      \cup {Spanned(L, n) : n \in Sliced(L)}

\* how the query string carries a selection
Carried(sel) ==
    {[l EXCEPT !.name = IF @ \in DOMAIN Spaced THEN Spaced[@] ELSE @] : l \in sel}

\* Mutant: the end of a slice is left out.
MatchingHalfOpen(e, columns) ==
    IF e \in columns THEN {e}
    ELSE IF IsFullSlice(e) THEN {At(e.name, i) : i \in e.start .. e.stop - 1}
    ELSE LET parts == {l \in columns : IsArray(l) /\ l.name = e.name}
         IN  IF ~IsArray(e) /\ parts # {} THEN parts ELSE {e}

\* get_requested_columns, for one entry: a label of the bulk is itself, a slice
\* is what it spans, the name of an array is all its parts
Matching(e, columns) ==
    IF e \in columns THEN {e}
    ELSE IF IsFullSlice(e) THEN {At(e.name, i) : i \in e.start .. e.stop}
    ELSE LET parts == {l \in columns : IsArray(l) /\ l.name = e.name}
         IN  IF ~IsArray(e) /\ parts # {} THEN parts ELSE {e}

\* The answer to a read of n rows of a selection, or of everything: its status
\* and the columns it has.
Read(c, sel, n) ==
    LET columns == AllColumns(c.groups)
        chosen  == IF sel = None THEN columns
                   ELSE UNION {Matching(e, columns) : e \in Carried(sel)}
        nb      == Cardinality(chosen)
    IN  IF ~ chosen \subseteq columns THEN [status |-> "not found", cols |-> {}]
        ELSE IF nb > MaxReadColumns \/ c.nbRows * nb > MaxLoadValues \/ n * nb > MaxReadValues
        THEN [status |-> "too large", cols |-> {}]
        ELSE [status |-> "data", cols |-> chosen]

\* set_bulk_description, with get_chunk_columns_slices
Partitions(c) == {ColumnsToSlices(g) : g \in c.groups}

\* None is no index, no selection, no plan and no page
ASSUME NoneAssumption ==
    /\ None \notin Nat
    /\ None \notin [sel : SUBSET Label, next : Nat, limit : Nat]
    /\ \A b \in Bulks : LET sels == {ColumnsToSlices(c.cols) : c \in b.chunks}
                       IN  None \notin sels /\ \A P \in SUBSET sels : None # P
    /\ \A n \in Names : None # {Plain(n)}
    /\ \A N \in SUBSET Names : None # {{Plain(n)} : n \in N}

-----------------------------------------------------------------------------

Init ==
    /\ bulk \in Bulks
    /\ catalog = None /\ plan = None /\ page = None
    /\ got = [x \in (UNION {c.cols : c \in bulk.chunks}) \X (1 .. bulk.nbRows) |-> 0]
    /\ refused = {}

\* The end of a commit: from_metas groups the chunks by columns, and the curves
\* are counted once, in the order a set of strings is iterated in, when the
\* catalog is saved; the answer has the count that was saved.
Commit ==
    /\ catalog = None
    /\ LET groups == {c.cols : c \in bulk.chunks}
       IN  \E q \in SetToSeqs(AllColumns(groups)) :
             catalog' = [groups |-> groups, nbRows |-> bulk.nbRows, curves |-> CountCurves(q)]
    /\ UNCHANGED <<bulk, plan, page, got, refused>>

\* the rows first .. last of the columns C
Receive(C, first, last) ==
    got' = [x \in DOMAIN got |-> IF x[1] \in C /\ x[2] \in first .. last THEN got[x] + 1 ELSE got[x]]

\* The client asks for the whole bulk, and is given it or its partitions.
AskWhole ==
    /\ catalog # None /\ plan = None
    /\ LET answer == Read(catalog, None, catalog.nbRows)
       IN  IF answer.status = "data"
           THEN Receive(answer.cols, 1, catalog.nbRows) /\ plan' = {}
           ELSE plan' = Partitions(catalog) /\ UNCHANGED got
    /\ UNCHANGED <<bulk, catalog, page, refused>>

\* Or it goes by the curves it was told of when it wrote the bulk.
AskCurves ==
    /\ catalog # None /\ plan = None
    /\ plan' = {{Plain(n)} : n \in DOMAIN catalog.curves}
    /\ UNCHANGED <<bulk, catalog, page, got, refused>>

\* It reads a selection: at once, or by pages of as many rows as are accepted,
\* if any.
Ask(sel) ==
    /\ page = None
    /\ LET answer == Read(catalog, sel, catalog.nbRows)
           limits == {n \in 1 .. catalog.nbRows - 1 : Read(catalog, sel, n).status = "data"}
       IN  CASE answer.status = "data" ->
                  /\ Receive(answer.cols, 1, catalog.nbRows)
                  /\ plan' = plan \ {sel}
                  /\ UNCHANGED <<page, refused>>
             [] answer.status = "too large" /\ limits # {} ->
                  /\ \E n \in limits : page' = [sel |-> sel, next |-> 1, limit |-> n]
                  /\ UNCHANGED <<plan, got, refused>>
             [] OTHER ->
                  /\ refused' = refused \cup {<<sel, answer.status>>}
                  /\ plan' = plan \ {sel}
                  /\ UNCHANGED <<page, got>>
    /\ UNCHANGED <<bulk, catalog>>

NextPage(p, nb) == IF p.next + p.limit > nb THEN None ELSE [p EXCEPT !.next = @ + p.limit]

\* index_filters.row_count: the last page may be short
AskPage ==
    /\ page # None
    /\ LET n == Min({page.limit, catalog.nbRows + 1 - page.next})
           answer == Read(catalog, page.sel, n)
       IN  /\ answer.status = "data"
           /\ Receive(answer.cols, page.next, page.next + n - 1)
    /\ page' = NextPage(page, catalog.nbRows)
    /\ plan' = IF page' = None THEN plan \ {page.sel} ELSE plan
    /\ UNCHANGED <<bulk, catalog, refused>>

Next ==
    \/ Commit
    \/ AskWhole
    \/ AskCurves
    \/ plan # None /\ \E sel \in plan : Ask(sel)
    \/ AskPage

Spec == Init /\ [][Next]_vars

-----------------------------------------------------------------------------
(* Properties *)

Columns == LabelsOf(bulk)

\* The labels the notation is made for: no leading zeros, no label that reads as
\* a slice, no spaces at the ends.  Nothing refuses the others when they are
\* posted; what becomes of them is in the README.
Clean == \A l \in Columns : ~l.zeros /\ ~IsFullSlice(l) /\ l.name \notin DOMAIN Spaced

\* a curve and an array of the same name
Clash == \E k, l \in Columns : k.name = l.name /\ IsArray(k) /\ ~IsArray(l)

\* Type invariant, with the place of the page being read.
TypeOK ==
    /\ catalog # None => AllColumns(catalog.groups) = Columns
    /\ catalog = None => plan = None
    /\ page # None =>
         /\ plan # None
         /\ page \in [sel : plan, next : 1 .. bulk.nbRows, limit : 1 .. bulk.nbRows]
    /\ DOMAIN got = Columns \X (1 .. bulk.nbRows)
    /\ \A x \in DOMAIN got : got[x] \in Nat
    /\ \A r \in refused : r[2] \in {"not found", "too large"}

\* A client that reads every partition it was given, or every curve it was told
\* of, without being refused one, has read each cell of the bulk exactly once:
\* slices, names of arrays and pages lose nothing and repeat nothing.  Going by
\* curves, only when no curve has the name of an array.
GuidedReadGetsAll ==
    Clean /\ ~Clash /\ plan = {} /\ refused = {} => \A x \in DOMAIN got : got[x] = 1

\* What the service itself proposes to read exists: a selection is refused only
\* if a single row of it is over the limits, or the limit on what is loaded,
\* which paging does not help, is passed.
ProposalsAreReadable ==
    Clean => \A r \in refused :
        /\ r[2] = "too large"
        /\ LET C == UNION {Matching(e, Columns) : e \in r[1]}
           IN  \/ Cardinality(C) > Min({MaxReadColumns, MaxReadValues})
               \/ Cardinality(C) * bulk.nbRows > MaxLoadValues

\* The number of columns a commit answers for each curve is the number of columns
\* a read of that curve answers, whatever the order the labels were counted in,
\* and every column counts for one curve; when no curve has the name of an array.
CurvesTellColumns ==
    catalog # None /\ ~Clash =>
        /\ \A n \in DOMAIN catalog.curves :
             catalog.curves[n] = Cardinality(Matching(Plain(n), Columns))
        /\ \A l \in Columns :
             Cardinality({n \in DOMAIN catalog.curves : l \in Matching(Plain(n), Columns)}) = 1

-----------------------------------------------------------------------------
(* Why GuidedReadGetsAll holds: the inductive invariant of its proof.  What  *)
(* a client still has to read are proposals of one kind, which do not        *)
(* overlap; what is in none of them was read, and what is in one was not,    *)
(* but for the pages it got.                                                 *)

ByCurve(c) == {{Plain(n)} : n \in DOMAIN c.curves}

CatalogKnown ==
    catalog # None =>
        /\ catalog.groups = {c.cols : c \in bulk.chunks} /\ catalog.nbRows = bulk.nbRows
        /\ \E q \in SetToSeqs(Columns) : catalog.curves = CountCurves(q)

PlanKnown ==
    plan # None => /\ catalog # None
                   /\ plan \subseteq Partitions(catalog) \/ plan \subseteq ByCurve(catalog)

\* the columns a read of a selection answers
ColumnsRead(sel) == UNION {Matching(e, Columns) : e \in Carried(sel)}

\* the cells of a page that were read
ReadOf(p) == ColumnsRead(p.sel) \X (1 .. p.next - 1)

Accounted ==
    Clean /\ ~Clash /\ refused = {} =>
        \A x \in DOMAIN got :
            IF plan = None \/ (\E sel \in plan : x[1] \in ColumnsRead(sel))
            THEN got[x] = IF page # None /\ x \in ReadOf(page) THEN 1 ELSE 0
            ELSE got[x] = 1

Inv == /\ bulk \in Bulks /\ TypeOK /\ CatalogKnown /\ PlanKnown
       /\ Accounted /\ ProposalsAreReadable
=============================================================================
