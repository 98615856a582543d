SPECIFICATION FairSpec
CONSTANTS
    Panels = {"preview", "output", "mural"}
    LateAnswers = {"preview", "output"}
    Outside <- MCOutside
    Project = {p1}
    NoProject = NoProject
    MaxCalls = 2
    MaxTroubles = 2
INVARIANTS
    PanelInv
PROPERTIES
    NoLateUpdates
    Settles
CHECK_DEADLOCK FALSE
