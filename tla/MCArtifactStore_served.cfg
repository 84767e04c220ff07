\* Fallbacks and handlers cut off; one deleter, under fairness; nothing fails once
\* the local copies are being removed (see the run lost_copies).
SPECIFICATION FairSpec
CONSTANTS
    Artifacts = {a1, a2}
    NoArtifact = NoArtifact
    Deleters = {d1}
    KeepLocal = FALSE
    Fallback = TRUE
    DeleteOnExpiry = TRUE
    LateFaults = FALSE
    SecondSignal = TRUE
INVARIANTS
    RowsServable
PROPERTIES
    ExpiredObjectsGo
