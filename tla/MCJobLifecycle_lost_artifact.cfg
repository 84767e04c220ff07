\* One job, no fault.
SPECIFICATION Spec
CONSTANTS
    Jobs = {j1}
    NoJob = NoJob
    MaxConcurrent = 1
    MaxStarts = 1
    SpawnFaults = FALSE
    TidyFaults = FALSE
    LoopFaults = 0
    WorkersOutliveApi = FALSE
INVARIANTS
    CompletedHasArtifact
