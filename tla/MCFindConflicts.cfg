\* every small list of chunks, visited in every order
SPECIFICATION Spec
CONSTANTS
    nan = nan
    Cols = {1, 2, 3}
    Rows = {0, 1, 2}
    Writers = {}
    NaN = nan
    Dirs = {}
    MaxColumns = 3
    MaxValues = 100
    Lists <- SmallLists
INVARIANTS
    GroupsAreComponents
    OneRoundIsEnough
    RefusedOnMixedKinds
PROPERTIES
    Terminates
CHECK_DEADLOCK FALSE
