SPECIFICATION MCSpec
CONSTANTS
    Key = {1, 2}
    Job = {1, 2, 3}
    Request = {4, 5, 6}
    Nobody = 0
    CacheSize = 1
    MaxActors = 3
    MaxFaults = 1
INVARIANTS
    OutputInv
    ComputeOnce
PROPERTIES
    JobsEnd
    IdenticalShare
CHECK_DEADLOCK FALSE
