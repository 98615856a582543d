SPECIFICATION Spec
CONSTANTS
    Session = {s1, s2}
    Exec = {e1, e2}
    Alt = {a1, a2}
    Faults = {"job_cancel", "shutdown", "crash", "request"}
INVARIANTS
    SessionInv
    SuccessIsDelivered
SYMMETRY Symmetry
CHECK_DEADLOCK FALSE
