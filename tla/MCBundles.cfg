CONSTANTS
    Row = {r1}
    Archived = archived
    Op = {o1, o2}
    None = None
    Overlap = FALSE
    Stops = {"crash", "interrupt"}
    MaxFaults = 2
    MaxChanges = 2
    Paint = {c1, c2}
    Restorer = {q1, q2}
    Nothing = Nothing
    MaxNodes = 3
    MaxRevisions = 1
    MaxExports = 2
    MaxRestores = 3
SPECIFICATION MCSpec
INVARIANTS
    BackupInv
    NothingIsLost
    BundleInv
    BundleIsAMoment
PROPERTIES
    FailuresEndWell
CHECK_DEADLOCK FALSE
