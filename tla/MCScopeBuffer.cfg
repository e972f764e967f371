SPECIFICATION MCSpec
CONSTANTS
    Capacity = 3
    Word = 6
    Blocks = {1, 2}
    Windows = {2, 7}
    MaxPoints = 2
    Timeout = 1
    MaxSamples = 7
    MaxRuns = 2
    MaxTime = 3
INVARIANTS
    TypeOK
    WindowWhole
    HealthTells
CHECK_DEADLOCK FALSE
