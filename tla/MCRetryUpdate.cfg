\* a retried update brings back the values of the bulk it failed on
SPECIFICATION Spec
CONSTANTS
    p1 = p1 p2 = p2 p3 = p3 c1 = c1 c2 = c2 w1 = w1 w2 = w2 s1 = s1 s2 = s2
    nan = nan none = none
    Cols = {1, 2}
    Rows = {0, 1, 2}
    Posts = {p1}
    Commits = {c1, c2}
    Wholes = {w1, w2}
    Writers = {p1, w1, w2}
    Sessions = {s1}
    Dirs = {s1, w1, w2}
    NaN = nan
    None = none
    MaxColumns = 2
    MaxValues = 100
    MaxConflictedColumns = 100
    PostShapes <- OneCell
    WholeShapes <- WholeBulk
    UpdateFrom <- OntoWhole
    MaxFailures = 1
    Protocol = {"settled", "closed", "once"}
SYMMETRY Symmetry
INVARIANTS
    UpdateKeepsPrevious
CHECK_DEADLOCK FALSE
