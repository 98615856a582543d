SPECIFICATION MCSpec
CONSTANTS
    Session = {s1}
    Exec = {e1, e2}
    Alt = {a1, a2}
    Faults = {}
    Editor = {d1, d2}
    Config = {c1, c2}
    Layout = {l1}
    None = None
    MaxPreviews = 2
    MaxRevisions = 1
    MaxBuilds = 2
    MaxEdits = 1
    MaxSaves = 3
    MaxFaults = 1
INVARIANTS
    MuralInv
    DownloadIsCurrent
PROPERTIES
    SessionsEnd
    RequestsAreMet
CHECK_DEADLOCK FALSE
