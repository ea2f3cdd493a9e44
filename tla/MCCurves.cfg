\* a bulk that is committed, and a client that reads it as it is told to
SPECIFICATION Spec
CONSTANTS
    None = None
    Bulks <- SmallBulks
    Spaced <- Strip
    MaxReadColumns = 3
    MaxReadValues = 4
    MaxLoadValues = 8
INVARIANTS
    GuidedReadGetsAll
    ProposalsAreReadable
    CurvesTellColumns
CHECK_DEADLOCK FALSE
