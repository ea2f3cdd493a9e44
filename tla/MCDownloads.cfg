\* the session's chunks, and those of two shapes of the previous bulk
SPECIFICATION Spec
CONSTANTS
    session = session shape1 = shape1 shape2 = shape2
    Streams = {session, shape1, shape2}
    Current = session
    PathLists <- Lists
INVARIANTS
    NothingLost
    RaisedStopsAll
PROPERTIES
    MergesInOrder
    GroupEnds
CHECK_DEADLOCK FALSE
