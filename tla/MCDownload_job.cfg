\* One media or a playlist of two entries; streams of two pieces, a limit of three.
SPECIFICATION Spec
CONSTANTS
    Formats <- MCFormats
    Heights = {720, 1080}
    ListHeights = {720}
    MaxFormats = 3
    Items = 2
    Pieces = 2
    MaxBytes = 3
INVARIANTS
    TypeOK
    PickHonoured
    BudgetHolds
    SeenCancelEnds
    LateNumbersTrue
\* A job ends.
CHECK_DEADLOCK FALSE
