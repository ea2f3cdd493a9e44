------------------------------- MODULE Reader -------------------------------
(***************************************************************************)
(* GET /data/{record}/{bulk}: reading and describing a bulk (read_router,  *)
(* reader.py, filtering.py, filtering_model.py and what they use of        *)
(* catalog.py and dataframe.py).                                           *)
(*                                                                         *)
(* A bulk never changes once its id is known to clients, so a read meets   *)
(* no writer: what can go wrong is that its many paths (the answer from    *)
(* the catalog alone, the forwarding of a single file, the assembly of     *)
(* groups of chunks on the index of the bulk, bulks without catalog)       *)
(* disagree about what the bulk holds.  A client sends a first request,    *)
(* then a second one that follows it up: the next page, or the description *)
(* of what it has read.                                                    *)
(*                                                                         *)
(* Cells hold the numbers value filters compare.                           *)
(***************************************************************************)
EXTENDS Chunks, Sequences, SequencesExt

CONSTANTS StoredBulks,     \* the bulks that may be read
          Queries,         \* what the first request may ask
          FollowUps(_),    \* what the second may ask after a query
          ArrayCols,       \* the columns that are parts of an array curve
          MaxReadColumns,  \* READ_MAX_COLUMNS_COUNT
          MaxReadValues,   \* READ_MAX_TOTAL_VALUES_COUNT_FILTERED
          MaxLoadValues,   \* READ_MAX_TOTAL_VALUES_COUNT_UNFILTERED
          Absent           \* a query parameter that is not given

-----------------------------------------------------------------------------
(* Bulks.  A group of the catalog has its column labels and its files; a     *)
(* file is a dataframe whose columns are in the order its writer chose.  The *)
(* index is absent for a bulk posted whole.  A bulk without catalog, older   *)
(* than catalogs, is one file among the objects listed in its folder.        *)

FilesOf(g) == {g.paths[i] : i \in DOMAIN g.paths}
Groups(b)  == {b.groups[i] : i \in DOMAIN b.groups}
Files(b)   == UNION {FilesOf(g) : g \in Groups(b)}

AllColumns(b) == UNION {g.labels : g \in Groups(b)}

IndexRows(b) == IF b.index = Absent THEN {} ELSE b.index

StoredFile(f, C) ==
    /\ f.cols = C /\ f.rows \in (SUBSET Rows) \ {{}}
    /\ f.val \in [f.cols \X f.rows -> Writers \cup {NaN}]
    /\ f.order \in Seq(C) /\ ToSet(f.order) = C /\ Len(f.order) = Cardinality(C)

\* What a commit leaves (CatalogFreeOfConflicts and IndexCoversBulk of
\* BulkWriter): the columns of two groups are disjoint, so are the rows of two
\* files of a group, and the index has every row.
WellFormed(b) ==
    /\ b.groups \in Seq(Groups(b))
    /\ \A g \in Groups(b) : /\ g.labels \in (SUBSET Cols) \ {{}}
                            /\ g.paths \in Seq(FilesOf(g)) /\ g.paths # <<>>
                            /\ \A f \in FilesOf(g) : StoredFile(f, g.labels)
    /\ \A i, j \in DOMAIN b.groups : i # j => b.groups[i].labels \cap b.groups[j].labels = {}
    /\ \A g \in Groups(b) : \A i, j \in DOMAIN g.paths :
         i # j => g.paths[i].rows \cap g.paths[j].rows = {}
    /\ IF b.index = Absent THEN Len(b.groups) = 1 /\ \A g \in Groups(b) : Len(g.paths) = 1
       ELSE b.index = UNION {f.rows : f \in Files(b)}
    /\ b.catalog \in BOOLEAN
    /\ ~b.catalog => b.index = Absent
    /\ b.nbRows = Cardinality(UNION {f.rows : f \in Files(b)})

\* What a query string can ask: offset and limit are checked when it is parsed.
Query(q) ==
    /\ q \in [describe : BOOLEAN, json : BOOLEAN, curves : {q.curves}, filters : {q.filters},
             offset : Nat \cup {Absent}, limit : (Nat \ {0}) \cup {Absent}]
    /\ q.curves \in Seq(ToSet(q.curves))

ASSUME ReaderAssumption ==
    /\ \A b \in StoredBulks : WellFormed(b)
    /\ \A q \in Queries : Query(q) /\ \A p \in FollowUps(q) : Query(p)
    /\ Writers \subseteq Int
    /\ ArrayCols \subseteq Cols
    /\ {MaxReadColumns, MaxReadValues, MaxLoadValues} \subseteq Nat \ {0}
    /\ Absent \notin Nat

VARIABLES
    bulk,     \* the bulk that is read
    query,    \* request |-> its parameters
    pc,       \* request |-> where it is
    fetch,    \* request |-> the objects it still waits for
    answer    \* request |-> what it was answered

vars == <<bulk, query, pc, fetch, answer>>

Requests == {"first", "second"}

-----------------------------------------------------------------------------
(* Parameters.  A curve selection is a sequence of entries: a column label   *)
(* or an array slice, which stands for the labels it expands to, none when   *)
(* it ends before it starts; or the name of an array, which stands for the   *)
(* columns of that array the bulk has.                                       *)

\* how many of S come before x
Position(S, x) == Cardinality({y \in S : y < x})

Natsorted(S) == [k \in 1 .. Cardinality(S) |-> CHOOSE x \in S : Position(S, x) = k - 1]

AddLabels(names, labels) == names \o Natsorted(labels \ ToSet(names))

\* the labels of the sets C[1], C[2], ..., each in natural order, none twice
Listed(C) ==
    LET names[k \in 0 .. Len(C)] ==
            IF k = 0 THEN <<>> ELSE AddLabels(names[k - 1], C[k])
    IN  names[Len(C)]

Matching(e, columns) ==
    IF e.array /\ e.cols \cap columns # {} THEN e.cols \cap columns ELSE e.cols

NonExistent(sel, columns) ==
    UNION {Matching(sel[i], columns) \ columns : i \in DOMAIN sel}

Selected(sel, columns) ==
    Listed([i \in DOMAIN sel |-> IF Matching(sel[i], columns) \subseteq columns
                                 THEN Matching(sel[i], columns) ELSE {}])

RequestedColumns(q, columns) ==
    IF q.curves = <<>> THEN Natsorted(columns) ELSE Selected(q.curves, columns)

FilterColumns(q) == {f.col : f \in q.filters}

\* ValueFilters: one filter for each column and operator, no eq beside in
InvalidFilters(q) ==
    \E f, g \in q.filters :
      f # g /\ f.col = g.col /\ (f.op = g.op \/ {f.op, g.op} = {"eq", "in"})

\* the operand of a filter is the set of its values, of one value but for "in";
\* NaN is unequal to, and out of order with, everything
Keeps(f, v) ==
    CASE f.op \in {"eq", "in"} -> v \in f.values
      [] f.op = "neq" -> v \notin f.values
      [] f.op = "lt"  -> v # NaN /\ \A w \in f.values : v < w
      [] f.op = "gte" -> v # NaN /\ \A w \in f.values : v >= w

\* BulkFilters.any_filter: an offset of 0 counts
AnyFilter(q) == q.filters # {} \/ q.offset # Absent \/ q.limit # Absent

-----------------------------------------------------------------------------
(* Index filters *)

Skip(q) == IF q.offset = Absent THEN 0 ELSE q.offset

RowCount(q, nb) ==
    LET left == Max({0, nb - Skip(q)})
    IN  IF q.limit = Absent THEN left ELSE Min({q.limit, left})

\* Mutant: the limit counts from the first row.
FilterByIndexFromStart(q, R) ==
    {r \in R : /\ Position(R, r) >= Skip(q)
               /\ q.limit # Absent => Position(R, r) <= q.limit}

FilterByIndex(q, R) ==
    {r \in R : /\ Position(R, r) >= Skip(q)
               /\ q.limit # Absent => Position(R, r) < Skip(q) + q.limit}

-----------------------------------------------------------------------------
(* Answers *)

\* 400 bad request, 404 not found, 412 unsupported, 413 too large, 500 error
Refused(status) == [status |-> status]

DescribeAnswer(n, columns) == [status |-> "described", rowCount |-> n, order |-> columns]

DataAnswer(columns, frame) ==
    [status |-> "data", order |-> columns, rows |-> frame.rows, val |-> frame.val]

\* Mutant: describes the whole bulk, whatever the offset.
DescribeCatalogWhole(q, b) ==
    DescribeAnswer(RowCount([q EXCEPT !.offset = Absent], b.nbRows),
                   RequestedColumns(q, AllColumns(b)))

\* BulkCatalog.describe: curves that do not exist are left out
DescribeCatalog(q, b) ==
    DescribeAnswer(RowCount(q, b.nbRows), RequestedColumns(q, AllColumns(b)))

-----------------------------------------------------------------------------
(* Validation, before anything is loaded *)

\* the status of the first check that fails
FirstFailing(checks) ==
    LET failing == {i \in DOMAIN checks : checks[i].fails}
    IN  IF failing = {} THEN "ok" ELSE checks[Min(failing)].status

Check(fails, status) == [fails |-> fails, status |-> status]

SelectionChecks(q, columns) ==
    <<Check(q.curves # <<>> /\ NonExistent(q.curves, columns) # {}, "not found"),
      Check(q.curves = <<>> /\ Cardinality(columns) > MaxReadColumns, "too large"),
      Check(~ FilterColumns(q) \subseteq columns, "bad request")>>

DescribeChecks(q, b) ==
    <<Check(q.filters # {} /\ b.nbRows * Cardinality(FilterColumns(q)) > MaxLoadValues, "too large")>>

\* Mutant: the values of the answer are not counted.
ReadChecksUnpaged(q, b) ==
    LET nb == Len(RequestedColumns(q, AllColumns(b)))
    IN  <<Check(nb > MaxReadColumns, "too large"), Check(b.nbRows * nb > MaxLoadValues, "too large")>>

ReadChecks(q, b) ==
    LET nb == Len(RequestedColumns(q, AllColumns(b)))
    IN  <<Check(nb > MaxReadColumns, "too large"),
          Check(b.nbRows * nb > MaxLoadValues, "too large"),
          Check(RowCount(q, b.nbRows) * nb > MaxReadValues, "too large")>>

ValidateParameters(q, b) ==
    FirstFailing(SelectionChecks(q, AllColumns(b))
                   \o IF q.describe THEN DescribeChecks(q, b) ELSE ReadChecks(q, b))

\* a description with filters loads the columns of the filters only
ColumnsToLoad(q, b) ==
    IF q.describe /\ q.filters # {} THEN FilterColumns(q)
    ELSE ToSet(RequestedColumns(q, AllColumns(b))) \cup FilterColumns(q)

-----------------------------------------------------------------------------
(* Reading *)

\* no label is any label
GroupsFor(b, labels) == {g \in Groups(b) : labels = {} \/ g.labels \cap labels # {}}

\* Mutant: one file is taken as it is for parquet only.
SingleFileInParquet(q, b) ==
    /\ ~ q.json
    /\ b.catalog => ~ q.describe /\ ~ AnyFilter(q)
    /\ Cardinality(GroupsFor(b, ColumnsToLoad(q, b))) = 1
    /\ \A g \in GroupsFor(b, ColumnsToLoad(q, b)) : Len(g.paths) = 1

\* the case of one file, which may be forwarded as it is
SingleFile(q, b) ==
    /\ b.catalog => /\ ~ q.describe /\ ~ AnyFilter(q)
                    /\ Cardinality(GroupsFor(b, ColumnsToLoad(q, b))) = 1
    /\ \A g \in GroupsFor(b, ColumnsToLoad(q, b)) : Len(g.paths) = 1

Forwarded(q, b) ==
    /\ SingleFile(q, b) /\ ~ q.json /\ ~ AnyFilter(q) /\ ~ q.describe
    /\ IF b.catalog
       THEN LET requested == ToSet(RequestedColumns(q, AllColumns(b)))
            IN  requested = {} \/ \A g \in GroupsFor(b, ColumnsToLoad(q, b)) : g.labels = requested
       ELSE q.curves = <<>>

\* pd.concat of the index and the groups along columns, of the files of a group along rows
Concat(files, index, labels) ==
    LET R == index \cup UNION {f.rows : f \in files}
        C == labels \cap UNION {f.cols : f \in files}
    IN  [cols |-> C, rows |-> R,
         val  |-> [x \in C \X R |->
                     IF \E f \in files : HasValue(f, x)
                     THEN (CHOOSE f \in files : HasValue(f, x)).val[x] ELSE NaN]]

Loaded(q, b) ==
    LET labels == ColumnsToLoad(q, b)
        groups == GroupsFor(b, labels)
        whole  == Forwarded(q, b) \/ ~ b.catalog
    IN  Concat(UNION {FilesOf(g) : g \in groups},
               IF SingleFile(q, b) THEN {} ELSE IndexRows(b),
               IF whole THEN UNION {g.labels : g \in groups} ELSE labels)

\* Mutant: one filter is enough to keep a row.
ApplyBulkFiltersAny(q, d) ==
    {r \in d.rows : q.filters = {} \/ \E f \in q.filters : Keeps(f, d.val[<<f.col, r>>])}

ApplyBulkFilters(q, d) ==
    {r \in d.rows : \A f \in q.filters : Keeps(f, d.val[<<f.col, r>>])}

\* the order groups are put side by side in, each in natural order
GroupOrder(q, b) == Listed([i \in DOMAIN b.groups |-> b.groups[i].labels \cap ColumnsToLoad(q, b)])

FileOrder(q, b) ==
    (CHOOSE g \in GroupsFor(b, ColumnsToLoad(q, b)) : TRUE).paths[1].order

\* Columns in the order of the selection.  Without one, in natural order when
\* there is an array curve, else as they were loaded, and so they are when
\* nothing was selected.  A file that is forwarded keeps its own order, whatever
\* was selected.
ColumnOrder(q, b) ==
    LET requested == RequestedColumns(q, AllColumns(b))
    IN  IF Forwarded(q, b) THEN FileOrder(q, b)
        ELSE IF requested # <<>> /\ (q.curves # <<>> \/ AllColumns(b) \cap ArrayCols # {})
        THEN requested
        ELSE IF b.catalog THEN GroupOrder(q, b) ELSE FileOrder(q, b)

\* the columns of a description: all of them, in no particular order of which
\* the natural one is taken, when nothing was selected
Described(q, b) ==
    LET requested == RequestedColumns(q, AllColumns(b))
    IN  IF requested = <<>> THEN Natsorted(AllColumns(b)) ELSE requested

Result(q, b) ==
    LET d    == Loaded(q, b)
        rows == FilterByIndex(q, ApplyBulkFilters(q, d))
        cols == ColumnOrder(q, b)
    IN  IF q.describe
        THEN DescribeAnswer(Cardinality(rows), Described(q, b))
        ELSE DataAnswer(cols, SliceOf(d, ToSet(cols), rows))

-----------------------------------------------------------------------------
(* The requests *)

Init ==
    /\ bulk \in StoredBulks
    /\ query  = [r \in Requests |-> Absent]
    /\ pc     = [r \in Requests |-> "idle"]
    /\ fetch  = [r \in Requests |-> {}]
    /\ answer = [r \in Requests |-> Refused("none")]

Answer(r, a) ==
    /\ pc'     = [pc EXCEPT ![r] = "answered"]
    /\ answer' = [answer EXCEPT ![r] = a]

Start(r, objects) ==
    /\ pc'    = [pc EXCEPT ![r] = "fetching"]
    /\ fetch' = [fetch EXCEPT ![r] = objects]
    /\ UNCHANGED answer

Send(r) ==
    /\ pc[r] = "idle"
    /\ r = "second" => pc["first"] = "answered"
    /\ \E q \in IF r = "first" THEN Queries ELSE FollowUps(query["first"]) :
         query' = [query EXCEPT ![r] = q]
    /\ pc' = [pc EXCEPT ![r] = "catalog"]
    /\ UNCHANGED <<bulk, fetch, answer>>

\* the objects a read downloads: files and, but for a single file, the index
Objects(q, b) ==
    {<<"file", f>> : f \in UNION {FilesOf(g) : g \in GroupsFor(b, ColumnsToLoad(q, b))}}
      \cup (IF SingleFile(q, b) \/ b.index = Absent THEN {} ELSE {<<"index">>})

\* the catalog is downloaded, or known not to exist: what follows depends on it
CatalogLoaded(r, found) == pc[r] = "catalog" /\ bulk.catalog = found

\* ValueFilters rejects the filters, catalog or not
RejectFilters(r) ==
    /\ CatalogLoaded(r, bulk.catalog)
    /\ InvalidFilters(query[r])
    /\ Answer(r, Refused("bad request"))
    /\ UNCHANGED <<bulk, query, fetch>>

\* the catalog is enough to describe, without any check of the parameters
Describe(r) ==
    /\ CatalogLoaded(r, TRUE)
    /\ query[r].describe /\ query[r].filters = {}
    /\ Answer(r, DescribeCatalog(query[r], bulk))
    /\ UNCHANGED <<bulk, query, fetch>>

\* read_bulk: a check fails, or the downloads start
ReadBulk(r) ==
    /\ CatalogLoaded(r, TRUE)
    /\ ~ InvalidFilters(query[r])
    /\ query[r].describe => query[r].filters # {}
    /\ LET checked == ValidateParameters(query[r], bulk)
       IN  \/ checked = "ok" /\ Start(r, Objects(query[r], bulk))
           \/ checked # "ok" /\ Answer(r, Refused(checked)) /\ UNCHANGED fetch
    /\ UNCHANGED <<bulk, query>>

\* read_bulk_outside_session: the folder of the bulk is listed, and must leave
\* one file to load
ReadBulkOutsideSession(r) ==
    /\ CatalogLoaded(r, FALSE)
    /\ ~ InvalidFilters(query[r])
    /\ LET supported == bulk.objects > 1 => bulk.parquets = 1
       IN  \/ supported /\ Start(r, {<<"file", f>> : f \in Files(bulk)})
           \/ ~ supported /\ Answer(r, Refused("unsupported")) /\ UNCHANGED fetch
    /\ UNCHANGED <<bulk, query>>

Fetch(r, o) ==
    /\ pc[r] = "fetching"
    /\ o \in fetch[r]
    /\ fetch' = [fetch EXCEPT ![r] = @ \ {o}]
    /\ UNCHANGED <<bulk, query, pc, answer>>

\* a download fails: gather raises at once
Fail(r) ==
    /\ pc[r] = "catalog" \/ (pc[r] = "fetching" /\ fetch[r] # {})
    /\ fetch' = [fetch EXCEPT ![r] = {}]
    /\ Answer(r, Refused("error"))
    /\ UNCHANGED <<bulk, query>>

\* Everything is loaded.  The parameters of a bulk without catalog are only
\* checked now, and not at all when no curve is selected: a filter on a column
\* it does not have is then a KeyError.
Outcome(q, b) ==
    LET checked == IF b.catalog THEN "ok"
                   ELSE IF q.curves # <<>> \/ q.describe THEN ValidateParameters(q, b)
                   ELSE IF FilterColumns(q) \subseteq AllColumns(b) THEN "ok" ELSE "error"
    IN  IF checked = "ok" THEN Result(q, b) ELSE Refused(checked)

Finish(r) ==
    /\ pc[r] = "fetching"
    /\ fetch[r] = {}
    /\ Answer(r, Outcome(query[r], bulk))
    /\ UNCHANGED <<bulk, query, fetch>>

Next == \E r \in Requests :
    \/ Send(r)
    \/ RejectFilters(r)
    \/ Describe(r)
    \/ ReadBulk(r)
    \/ ReadBulkOutsideSession(r)
    \/ \E o \in fetch[r] : Fetch(r, o)
    \/ Fail(r)
    \/ Finish(r)

Spec == Init /\ [][Next]_vars

-----------------------------------------------------------------------------
(* Properties.  What the bulk holds is defined here from its files, without  *)
(* the operators of the reader.                                              *)

BulkRows(b) == UNION {f.rows : f \in Files(b)}

Cell(b, c, r) ==
    IF \E f \in Files(b) : <<c, r>> \in DOMAIN f.val
    THEN (CHOOSE f \in Files(b) : <<c, r>> \in DOMAIN f.val).val[<<c, r>>]
    ELSE NaN

Passing(q, b) ==
    {r \in BulkRows(b) : \A f \in q.filters : Keeps(f, Cell(b, f.col, r))}

Blank(b, C, r) == \A c \in C : Cell(b, c, r) = NaN

\* a selection of slices that end before they start: it matches no column
SelectsNothing(q, b) == q.curves # <<>> /\ RequestedColumns(q, AllColumns(b)) = <<>>

\* P is the page of R that q asks: as many rows as are left, without a gap,
\* after as many as are skipped
IsPage(P, q, R) ==
    /\ P \subseteq R
    /\ Cardinality(P) = RowCount(q, Cardinality(R))
    /\ \A r \in R \ P : (\A p \in P : r < p) \/ (\A p \in P : p < r)
    /\ P # {} => Cardinality({r \in R : \A p \in P : r < p}) = Skip(q)

Status(r) == answer[r].status

\* Every path of a read answers what the bulk holds: the columns requested, the
\* cells as they were written, and the page of the rows that pass the filters.
\* Without filter, offset and limit a single file is read without the index:
\* then, and only then, rows may be missing, all without a value in the columns
\* requested.
ReadsTheBulk ==
    \A r \in Requests : Status(r) = "data" /\ ~ SelectsNothing(query[r], bulk) =>
      LET q == query[r]
          a == answer[r]
          C == ToSet(RequestedColumns(q, AllColumns(bulk)))
          R == Passing(q, bulk)
      IN  /\ ToSet(a.order) = C /\ Len(a.order) = Cardinality(C)
          /\ DOMAIN a.val = C \X a.rows
          /\ \A c \in C, t \in a.rows : a.val[<<c, t>>] = Cell(bulk, c, t)
          /\ IF AnyFilter(q) THEN IsPage(a.rows, q, R)
             ELSE a.rows \subseteq R /\ \A t \in R \ a.rows : Blank(bulk, C, t)

\* The description of what was read, from the catalog or computed, lists the
\* columns of the read and counts its rows; but for the blank rows a read of a
\* single file leaves out, which the description counts.
DescribesWhatIsRead ==
    /\ Status("first") = "data" /\ Status("second") = "described"
    /\ query["second"] = [query["first"] EXCEPT !.describe = TRUE]
    => LET a == answer["first"]
           d == answer["second"]
           missing == IF AnyFilter(query["first"]) THEN {} ELSE BulkRows(bulk) \ a.rows
       IN  /\ SelectsNothing(query["first"], bulk) \/ ToSet(d.order) = ToSet(a.order)
           /\ d.rowCount = Cardinality(a.rows) + Cardinality(missing)

\* A page and the next one have no row in common, come one after the other and
\* leave out none of the rows that pass the filters between them.
PagesTile ==
    LET p == query["first"]
        q == query["second"]
    IN  /\ Status("first") = "data" /\ Status("second") = "data"
        /\ p.limit # Absent
        /\ q = [p EXCEPT !.offset = Skip(p) + p.limit]
        => LET P == answer["first"].rows
               Q == answer["second"].rows
           IN  /\ \A x \in P, y \in Q : x < y
               /\ \A t \in Passing(p, bulk) \ (P \cup Q) :
                    (\A x \in P : t < x) \/ (\A y \in P \cup Q : y < t)
               /\ Q = {} <=> Cardinality(Passing(p, bulk)) <= Skip(p) + p.limit

\* The answer in JSON, which is always loaded and rendered, and the one in
\* parquet, which may be a file as it is stored, hold the same cells.
JsonIsParquet ==
    /\ Status("first") = "data" /\ Status("second") = "data"
    /\ query["second"] = [query["first"] EXCEPT !.json = ~ @]
    /\ ~ SelectsNothing(query["first"], bulk)
    => /\ ToSet(answer["first"].order) = ToSet(answer["second"].order)
       /\ answer["first"].val = answer["second"].val

\* No answer of a bulk that has a catalog is larger than the read limits, though
\* they are checked against the catalog before anything is filtered or loaded.
AnswerWithinLimits ==
    \A r \in Requests : Status(r) = "data" /\ bulk.catalog /\ ~ SelectsNothing(query[r], bulk) =>
      /\ Len(answer[r].order) <= MaxReadColumns
      /\ Len(answer[r].order) * Cardinality(answer[r].rows) <= MaxReadValues

\* What the code says of its checks: a selection that matches no column is
\* refused.  One of slices that end before they start is not: it is answered
\* whatever was loaded, a whole file of any size.  No run lists it, as it fails.
EmptySelectionRefused ==
    \A r \in Requests : Status(r) = "data" => ~ SelectsNothing(query[r], bulk)

-----------------------------------------------------------------------------
(* Why the properties hold: where an answer comes from. *)

\* the checks of the parameters that were passed before anything was answered
Accepted(q, b) ==
    IF b.catalog THEN (q.describe => q.filters # {}) /\ ValidateParameters(q, b) = "ok"
    ELSE IF q.curves # <<>> \/ q.describe THEN ValidateParameters(q, b) = "ok"
    ELSE FilterColumns(q) \subseteq AllColumns(b)

Refusals == {Refused(status) :
    status \in {"none", "bad request", "not found", "unsupported", "too large", "error"}}

AnswerKnown(r) ==
    \/ answer[r] \in Refusals
    \/ /\ bulk.catalog /\ query[r].describe /\ query[r].filters = {}
       /\ answer[r] = DescribeCatalog(query[r], bulk)
    \/ Accepted(query[r], bulk) /\ answer[r] = Result(query[r], bulk)

Inv ==
    /\ bulk \in StoredBulks
    /\ DOMAIN pc = Requests /\ DOMAIN query = Requests /\ DOMAIN answer = Requests
    /\ pc["first"] # "idle" => query["first"] \in Queries
    /\ \A r \in Requests :
         /\ pc[r] # "idle" => Query(query[r])
         /\ pc[r] = "idle" => answer[r] = Refused("none")
         /\ pc[r] = "fetching" /\ bulk.catalog => Accepted(query[r], bulk)
         /\ AnswerKnown(r)
=============================================================================
