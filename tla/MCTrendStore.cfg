SPECIFICATION Spec
CONSTANTS
    Hdr = 2
    Typ = 4
    Stride = 2
    Rate = 2
    DefaultRate = 1
    Round = {3, 6, 7, 11}
    MaxSize = 11
    MaxTime = 15
    MaxStarts = 2
    MaxTears = 1
    Spans = {0, 5}
    Windows <- MCWindows
    Points <- MCPoints
INVARIANTS
    TypeOK
    AnswerComplete
    AnswerOrdered
    PageIsNewest
    ToolsAgree
CHECK_DEADLOCK FALSE
