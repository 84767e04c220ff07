\* One job and every fault: spawning, tidying up, one raising query or overrun stop, two
\* restarts (the second of them from a crash during recovery), surviving workers; under fairness.
SPECIFICATION FairSpec
CONSTANTS
    Jobs = {j1}
    NoJob = NoJob
    MaxConcurrent = 1
    MaxStarts = 3
    SpawnFaults = TRUE
    TidyFaults = TRUE
    LoopFaults = 1
    WorkersOutliveApi = TRUE
INVARIANTS
    TypeOK
    CancelledNeverCompletes
    NoJobLost
    NoLeftovers
PROPERTIES
    NeverReopened
    OnlyKnownLoss
    KeepsContract
    ActiveEnds
\* A dead dispatcher loop with nothing left to restart stops the system.
CHECK_DEADLOCK FALSE
