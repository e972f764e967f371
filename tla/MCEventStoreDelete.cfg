SPECIFICATION Spec
CONSTANTS
    Lengths <- MCLengths
    MaxSize = 0
    MaxEvents = 2
    MaxStarts = 1
    MaxDeletes = 1
INVARIANTS
    RecordedIsListed
CHECK_DEADLOCK FALSE
