SPECIFICATION Spec
CONSTANTS
    Panels = {"mural"}
    LateAnswers = {"mural"}
    Outside <- MCOutside
    Project = {p1}
    NoProject = NoProject
    MaxCalls = 2
    MaxTroubles = 2
PROPERTIES
    NoLateUpdates
CHECK_DEADLOCK FALSE
