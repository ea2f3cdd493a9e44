\* a storage call fails or a worker dies, under clients that follow the protocol
SPECIFICATION FairSpec
CONSTANTS
    p1 = p1 p2 = p2 p3 = p3 c1 = c1 c2 = c2 w1 = w1 w2 = w2 s1 = s1 s2 = s2
    nan = nan none = none
    Cols = {1, 2}
    Rows = {0, 1, 2, 3}
    Posts = {p1, p2}
    Commits = {c1}
    Wholes = {}
    Writers = {p1, p2}
    Sessions = {s1}
    Dirs = {s1}
    NaN = nan
    None = none
    MaxColumns = 2
    MaxValues = 4
    MaxConflictedColumns = 4
    PostShapes <- Assorted
    WholeShapes <- NoShapes
    UpdateFrom <- NoUpdate
    MaxFailures = 1
    Protocol = {"settled", "closed", "once"}
INVARIANTS
    Inv
    AckedBulkStored
    AckedPostCommitted
    CatalogChunksDisjoint
PROPERTIES
    EveryRequestAnswered
CHECK_DEADLOCK FALSE
