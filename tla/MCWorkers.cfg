SPECIFICATION FairWSpec
CONSTANTS
    Job = {j1, j2}
    Key = {k1}
    NoKey = NoKey
    NoJob = NoJob
    Type = {preview}
    RetryableTypes = {preview}
    Artifact = {}
    MaxProgress = 1
    MaxWorkers = 2
    MaxLosses = 1
INVARIANTS
    ManagerInv
    NoStrandedJob
PROPERTIES
    ImplementsJobStore
    AllEnds
CHECK_DEADLOCK FALSE
