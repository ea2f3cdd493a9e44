\* two requests at a time, for any routes
SPECIFICATION Spec
CONSTANTS
    Requests = {r1, r2}
    None = None
INVARIANTS
    LinesTellTheirRequest
    SpanTellsAnswer
    FailuresLogged
    OnlyTheseEscape
SYMMETRY Symmetric
CHECK_DEADLOCK FALSE
