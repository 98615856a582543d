SPECIFICATION FairWSpec
CONSTANTS
    Job = {j1}
    Key = {k1}
    NoKey = NoKey
    NoJob = NoJob
    Type = {prompted_edit}
    RetryableTypes = {preview, geometry, export, validation}
    Artifact = {}
    MaxProgress = 1
    MaxWorkers = 1
    MaxLosses = 1
PROPERTY
    InterruptedJobsFail
CHECK_DEADLOCK FALSE
