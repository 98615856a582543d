CONSTANTS
    Proc = {p1, p2, p3}
    Nobody = Nobody
    Installer = Installer
    Desktop = {p3}
    DesktopVersion = 1
    Release = {1, 3}
    Row = {r1}
    MaxProcs = 2
    MaxInstalls = 2
    MaxFaults = 1
SPECIFICATION Spec
INVARIANTS
    ShellInv
    CurrentOpensWorkspace
PROPERTIES
    FailedUpdateChangesNothing
    CallsEnd
CHECK_DEADLOCK FALSE
