SPECIFICATION Spec
CONSTANTS
    Lengths <- MCLengths
    MaxSize = 3
    MaxEvents = 4
    MaxStarts = 2
    MaxDeletes = 1
INVARIANTS
    TypeOK
    WaveformStays
    ClosedIsWhole
PROPERTIES
    DeletedIsGone
CHECK_DEADLOCK FALSE
