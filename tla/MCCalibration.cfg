CONSTANTS
    Draft = {d1}
    Request = {q1, q2}
    r1 = r1
    r2 = r2
    r3 = r3
    p1 = p1
    p2 = p2
    dot = dot
    hole = hole
    RunId <- MCRunId
    Process <- MCProcess
    Kind <- MCKind
    Hole = hole
    Sizes = {1, 2}
    Contents <- MCContents
    None = None
    MaxOrdinal = 1
    MaxGeneration = 5
    MaxPromotions = 2
SPECIFICATION Spec
CONSTRAINT Focus
INVARIANTS
    CalibrationInv
PROPERTIES
    RecordsAreFinal
SYMMETRY Requests
CHECK_DEADLOCK FALSE
