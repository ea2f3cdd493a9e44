\* two sessions, a whole bulk and one older than the worker, two commits
SPECIFICATION Spec
CONSTANTS
    Columns = {"a", "b"}
    Sessions = {s1, s2}
    Wholes = {w1}
    Commits = {c1, c2}
    Legacy = b0
    NaN = NaN
    None = None
    References = {"a", None}
    Frames <- MCFrames
    LegacyFrames <- MCLegacyFrames
    MaxPosts = 2
INVARIANTS
    TypeOK
    ReferenceIsColumn
SYMMETRY Symmetric
CHECK_DEADLOCK FALSE
