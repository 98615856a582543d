SPECIFICATION MCSpec
CONSTANTS
    Path = {p1}
    Write = {w1}
    Kinds = {"mask"}
    MinAge = 2
    MaxTime = 4
    Job = {j1, j2, j3}
    Key = {k1}
    NoKey = NoKey
    NoJob = NoJob
    Type = {preview}
    Artifact = {a1}
    MaxProgress = 2
    Request = {1, 2, 3, 4}
    Many = 3
    Content = {c1, c2}
    Ops = {"save", "edit", "undo", "redo", "publish", "branch", "accept", "remove", "discard"}
    UndoLimit = 1
    MaxNodes = 6
    MaxRevisions = 2
PROPERTIES
    ReferencedIsExcluded
CHECK_DEADLOCK FALSE
