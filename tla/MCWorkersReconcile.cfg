SPECIFICATION WSpec
CONSTANTS
    Job = {j1}
    Key = {k1}
    NoKey = NoKey
    NoJob = NoJob
    Type = {preview}
    RetryableTypes = {preview, geometry, export, validation}
    Artifact = {}
    MaxProgress = 1
    MaxWorkers = 1
    MaxLosses = 1
PROPERTY
    OnlyAbandonedJobsFail
CHECK_DEADLOCK FALSE
