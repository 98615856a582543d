SPECIFICATION Spec
CONSTANTS
    Panels = {"preview", "output", "mural"}
    LateAnswers = {}
    Outside <- MCOutside
    Project = {p1}
    NoProject = NoProject
    MaxCalls = 2
    MaxTroubles = 2
INVARIANTS
    CurrentIsOnScreen
CHECK_DEADLOCK FALSE
