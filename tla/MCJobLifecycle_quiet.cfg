\* Two jobs queue for one slot; no restart, no fault, under fairness.
SPECIFICATION FairSpec
CONSTANTS
    Jobs = {j1, j2}
    NoJob = NoJob
    MaxConcurrent = 1
    MaxStarts = 1
    SpawnFaults = FALSE
    TidyFaults = FALSE
    LoopFaults = 0
    WorkersOutliveApi = FALSE
INVARIANTS
    SlotLimit
PROPERTIES
    QueueDrains
