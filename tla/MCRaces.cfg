\* two posts into one session race with two commits of it; nothing fails
SPECIFICATION Spec
CONSTANTS
    p1 = p1 p2 = p2 p3 = p3 c1 = c1 c2 = c2 w1 = w1 w2 = w2 s1 = s1 s2 = s2
    nan = nan none = none
    Cols = {1, 2}
    Rows = {0, 1, 2}
    Posts = {p1, p2}
    Commits = {c1, c2}
    Wholes = {}
    Writers = {p1, p2}
    Sessions = {s1}
    Dirs = {s1}
    NaN = nan
    None = none
    MaxColumns = 2
    MaxValues = 100
    MaxConflictedColumns = 100
    PostShapes <- Crossing
    WholeShapes <- NoShapes
    UpdateFrom <- NoUpdate
    MaxFailures = 0
    Protocol = {}
SYMMETRY Symmetry
INVARIANTS
    IndexCoversBulk
    CatalogFreeOfConflicts
    LastComeWins
CHECK_DEADLOCK FALSE
