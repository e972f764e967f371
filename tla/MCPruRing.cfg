SPECIFICATION FairSpec
CONSTANTS
    NumBlocks = 2
    BlockSize = 2
    CountMod = 4
    Period = 3
    MinWork = 2
    MaxWork = 2
    MaxLoop = 0
    MaxPublish = 1
    TimeoutCycles = 1
    CcntMax = 9
    MaxBlocks = 4
    MaxTimeouts = 1
INVARIANTS
    TypeOK
    CompleteMeansWhole
    TakenWholeUnlessLapped
    NoGapUnlessLapped
    RisingUnlessLapped
    KeepsPaceUnlessLost
PROPERTY
    PublishedIsTaken
