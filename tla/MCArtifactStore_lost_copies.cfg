\* A failure after the promotion with the local copies removed.
SPECIFICATION Spec
CONSTANTS
    Artifacts = {a1, a2}
    NoArtifact = NoArtifact
    Deleters = {d1}
    KeepLocal = FALSE
    Fallback = TRUE
    DeleteOnExpiry = TRUE
    LateFaults = TRUE
    SecondSignal = FALSE
INVARIANTS
    FallbackRestoresFiles
