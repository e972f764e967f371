SPECIFICATION FairSpec
CONSTANTS
    BlockLen = 3
    WarmUp = 2
    MinSag = 2
    MinSwell = 6
    CoolSag = 3
    CoolSwell = 0
    Pre = 1
    Post = 2
    MaxEvent = 5
    Slack = 0
    Margin = 2
    SaveLimit = 100
    MaxDur = 7
INVARIANTS
    TypeOK
    InStep
    SavedWhole
    SavedLongEnough
    ForceFindsEvent
PROPERTIES
    CaptureEnds
