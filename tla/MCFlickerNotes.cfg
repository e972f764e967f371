SPECIFICATION MCSpec
CONSTANTS
    Window = 2
    SagLine = 900
    Brief = 2
    Long = 2
    ChartCap = 2
    DefaultBucket = 1
    Levels <- MCLevels
    Usual = 1000
    Bodies <- MCBodies
    MaxAge = 1
    MaxFuture = 1
    ListLimit = 1
    MaxTime = 4
    MaxNotes = 2
INVARIANTS
    NoteShowsTheLine
    TypeOK
    AcknowledgedStays
    StoredIsMilder
CHECK_DEADLOCK FALSE
