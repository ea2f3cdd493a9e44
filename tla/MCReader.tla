------------------------------ MODULE MCReader ------------------------------
(* A small instance of Reader for TLC: bulks of every kind the reader tells   *)
(* apart, and the combinations of parameters of a read.                       *)
EXTENDS Reader, TLC

CONSTANTS nan, absent

\* what cells hold: each row its own pattern, with and without missing values
Plain(c, r)  == 1 + ((c + r) % 2)
Sparse(c, r) == IF c = r THEN nan ELSE 1 + (r % 2)

File(order, R, value(_, _)) ==
    LET C == {order[i] : i \in DOMAIN order}
    IN  [order |-> order, cols |-> C, rows |-> R,
         val |-> [x \in C \X R |-> value(x[1], x[2])]]

Group(files) == [labels |-> files[1].cols, paths |-> files]

NbRows(groups) ==
    Cardinality(UNION {UNION {groups[i].paths[j].rows : j \in DOMAIN groups[i].paths}
                       : i \in DOMAIN groups})

\* committed from a session, posted whole, and older than catalogs
Committed(groups) ==
    [catalog |-> TRUE, groups |-> groups, nbRows |-> NbRows(groups), objects |-> 0, parquets |-> 0,
     index |-> UNION {UNION {groups[i].paths[j].rows : j \in DOMAIN groups[i].paths}
                      : i \in DOMAIN groups}]
Whole(file) ==
    [Committed(<<Group(<<file>>)>>) EXCEPT !.index = absent]
Legacy(file, objects, parquets) ==
    [Whole(file) EXCEPT !.catalog = FALSE, !.objects = objects, !.parquets = parquets]

BulksOf(v(_, _)) ==
    {Whole(File(<<2, 1>>, {0, 1, 2}, v)),
     Whole(File(<<3, 1, 4>>, {0, 1}, v)),
     Legacy(File(<<2, 1>>, {0, 1, 2}, v), 0, 0),
     Legacy(File(<<1, 4, 3>>, {0, 1}, v), 3, 1),
     Legacy(File(<<1>>, {0, 1}, v), 3, 2),
     Committed(<<Group(<<File(<<2, 1>>, {0, 1}, v), File(<<1, 2>>, {2}, v)>>)>>),
     Committed(<<Group(<<File(<<2>>, {0, 1, 2}, v)>>), Group(<<File(<<1>>, {1}, v)>>)>>),
     Committed(<<Group(<<File(<<4, 3>>, {1, 2}, v)>>),
                 Group(<<File(<<1>>, {0}, v), File(<<1>>, {2}, v)>>)>>),
     Committed(<<Group(<<File(<<1, 2>>, {0, 1}, v)>>), Group(<<File(<<3, 4>>, {1, 2}, v)>>)>>)}

Bulks == BulksOf(Plain) \cup BulksOf(Sparse)

Entry(array, C) == [array |-> array, cols |-> C]

\* none, one, two out of order, an array by name, a slice of it, an unknown one,
\* a slice that ends before it starts
Selections ==
    {<<>>, <<Entry(FALSE, {1})>>, <<Entry(FALSE, {2}), Entry(FALSE, {1})>>,
     <<Entry(TRUE, {3, 4})>>, <<Entry(FALSE, {3, 4}), Entry(FALSE, {1})>>,
     <<Entry(FALSE, {9})>>, <<Entry(FALSE, {})>>}

Filter(c, op, V) == [col |-> c, op |-> op, values |-> V]

FilterSets ==
    {{}, {Filter(1, "lt", {2})}, {Filter(1, "neq", {1}), Filter(2, "gte", {1})},
     {Filter(2, "in", {1, 2})}, {Filter(1, "eq", {1}), Filter(1, "in", {1, 2})},
     {Filter(9, "eq", {1})}}

AllQueries ==
    [describe : BOOLEAN, json : BOOLEAN, curves : Selections, filters : FilterSets,
     offset : {absent, 0, 1}, limit : {absent, 1, 2}]

\* a description is asked for first in one form only
FirstQueries == {q \in AllQueries : q.describe => q.json}

NextPage(q) ==
    IF q.limit = absent THEN {}
    ELSE {[q EXCEPT !.offset = (IF @ = absent THEN 0 ELSE @) + q.limit]}

Follow(q) ==
    IF q.describe THEN {}
    ELSE {[q EXCEPT !.describe = TRUE], [q EXCEPT !.json = ~ @]} \cup NextPage(q)
=============================================================================
