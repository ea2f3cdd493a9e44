\* every kind of bulk, read with every combination of parameters, then paged,
\* described or read in the other format; any download may fail
SPECIFICATION Spec
CONSTANTS
    nan = nan absent = absent
    Cols = {1, 2, 3, 4}
    Rows = {0, 1, 2}
    Writers = {1, 2}
    NaN = nan
    Dirs = {}
    MaxColumns = 3
    MaxValues = 100
    StoredBulks <- Bulks
    Queries <- FirstQueries
    FollowUps <- Follow
    ArrayCols = {3, 4}
    MaxReadColumns = 3
    MaxReadValues = 5
    MaxLoadValues = 8
    Absent = absent
INVARIANTS
    ReadsTheBulk
    DescribesWhatIsRead
    PagesTile
    JsonIsParquet
    AnswerWithinLimits
CHECK_DEADLOCK FALSE
