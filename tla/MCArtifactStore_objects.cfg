\* Two deleters; every fault; local copies are removed.
SPECIFICATION Spec
CONSTANTS
    Artifacts = {a1, a2}
    NoArtifact = NoArtifact
    Deleters = {d1, d2}
    KeepLocal = FALSE
    Fallback = TRUE
    DeleteOnExpiry = TRUE
    LateFaults = TRUE
    SecondSignal = TRUE
SYMMETRY StoreSymmetry
INVARIANTS
    TypeOK
    NoOrphanObject
    NoHalfSet
