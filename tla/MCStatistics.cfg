\* three triggers and a reader, three failures, an hour
SPECIFICATION Spec
CONSTANTS
    t1 = t1 t2 = t2 t3 = t3 q1 = q1
    NoFile = NoFile
    Triggers = {t1, t2, t3}
    Readers = {q1}
    Columns = {"a", "b", "c", "t"}
    Computable = {"a", "b", "c"}
    Groupings <- AnyOrder
    Clients = {"free", "atomic", "serial"}
    MaxAttempts = 2
    MaxTime = 1
    MaxFailures = 3
SYMMETRY Symmetry
INVARIANTS
    TypeOK
    CompleteIsStored
    ReadersGetAll
    ErrorsBounded
PROPERTIES
    CompleteIsFinal
CHECK_DEADLOCK FALSE
