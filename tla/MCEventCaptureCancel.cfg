SPECIFICATION Spec
CONSTANTS
    BlockLen = 3
    WarmUp = 0
    MinSag = 2
    MinSwell = 1
    CoolSag = 3
    CoolSwell = 3
    Pre = 1
    Post = 2
    MaxEvent = 5
    Slack = 0
    Margin = 2
    SaveLimit = 100
    MaxDur = 6
INVARIANTS
    OnlyShortEventsCancelled
