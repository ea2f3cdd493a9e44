\* a session committed onto the bulk of another session or a whole bulk
SPECIFICATION Spec
CONSTANTS
    p1 = p1 p2 = p2 p3 = p3 c1 = c1 c2 = c2 w1 = w1 w2 = w2 s1 = s1 s2 = s2
    nan = nan none = none
    Cols = {1, 2}
    Rows = {0, 1, 2}
    Posts = {p1, p2}
    Commits = {c1, c2}
    Wholes = {w1}
    Writers = {p1, p2, w1}
    Sessions = {s1, s2}
    Dirs = {s1, s2, w1}
    NaN = nan
    None = none
    MaxColumns = 2
    MaxValues = 100
    MaxConflictedColumns = 100
    PostShapes <- Layered
    WholeShapes <- WholeBulk
    UpdateFrom <- Onto
    MaxFailures = 0
    Protocol = {"settled", "closed", "once"}
SYMMETRY Symmetry
INVARIANTS
    UpdateKeepsPrevious
    AckedBulkReadable
PROPERTIES
    BulkImmutable
    BulksAreVersions
CHECK_DEADLOCK FALSE
