CONSTANTS
    Row = {r1}
    Archived = archived
    Op = {o1}
    None = None
    Overlap = TRUE
    Stops = {"interrupt"}
    MaxFaults = 0
    MaxChanges = 2
    Paint = {c1, c2}
    Restorer = {q1, q2}
    Nothing = Nothing
    MaxNodes = 3
    MaxRevisions = 1
    MaxExports = 2
    MaxRestores = 3
SPECIFICATION MCSpec
INVARIANTS
    NothingIsLost
CHECK_DEADLOCK FALSE
