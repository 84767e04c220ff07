\* Two requests at a time, a queue of two.
SPECIFICATION Spec
CONSTANTS
    Requests = {r1, r2}
    Jobs = {j1, j2, j3}
    Analyses = {a1, a2}
    Keys = {k1}
    NoKey = NoKey
    NoAnalysis = NoAnalysis
    MaxQueued = 2
SYMMETRY AdmissionSymmetry
INVARIANTS
    TypeOK
    OverrunBounded
    OneJobPerKey
    BlindJobsBounded
