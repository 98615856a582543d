SPECIFICATION Spec
CONSTANTS
    Request = {r1, r2}
    Config <- Configs
    Command = {fill, weld}
    Local = {fill}
    MaxSaves = 4
    MaxOps = 1
    MaxEngine = 2
INVARIANTS
    EvidenceInv
    ScopedIsFull
    FreshEvidenceIsExact
SYMMETRY Symmetry
CHECK_DEADLOCK FALSE
