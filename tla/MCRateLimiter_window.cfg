\* Two hits in a window of two seconds of two ticks.
SPECIFICATION Spec
CONSTANTS
    Limit = 2
    Seconds = 2
    Tick = 2
    Horizon = 11
INVARIANTS
    WindowRespected
    RetryIsEnough
PROPERTIES
    NoNeedlessRefusal
\* The clock stops at the horizon.
CHECK_DEADLOCK FALSE
