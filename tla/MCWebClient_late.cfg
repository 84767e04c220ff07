\* Two jobs, two loops, two other requests in flight, two clicks, under fairness.
SPECIFICATION FairSpec
CONSTANTS
    Jobs = {j1, j2}
    NoJob = NoJob
    Loops = {l1, l2}
    NoLoop = NoLoop
    Calls = {c1, c2}
    MaxClicks = 2
INVARIANTS
    TypeOK
    Followed
PROPERTIES
    DismissedStaysShut
    CardSettles
\* Without clicks left and with the session over, the page is at rest.
CHECK_DEADLOCK FALSE
