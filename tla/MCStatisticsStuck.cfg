\* two triggers one after the other, one of which dies; then an hour passes
SPECIFICATION Spec
CONSTANTS
    t1 = t1 t2 = t2 t3 = t3 q1 = q1
    NoFile = NoFile
    Triggers = {t1, t2}
    Readers = {}
    Columns = {"a", "b", "c", "t"}
    Computable = {"a", "b", "c"}
    Groupings <- AnyOrder
    Clients = {"serial"}
    MaxAttempts = 2
    MaxTime = 1
    MaxFailures = 1
PROPERTIES
    RecomputedAfterHour
CHECK_DEADLOCK FALSE
