SPECIFICATION Spec
CONSTANTS
    Hdr = 2
    Typ = 2
    Stride = 2
    Rate = 2
    DefaultRate = 1
    Round = {}
    MaxSize = 11
    MaxTime = 10
    MaxStarts = 2
    MaxTears = 1
    Spans = {}
    Windows <- MCWindows
    Points <- MCPoints
INVARIANT
    ResyncsPastCorrupt
CHECK_DEADLOCK FALSE
