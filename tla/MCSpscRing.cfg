SPECIFICATION FairRingSpec
CONSTANTS
    Capacity <- MCCapacity
    Width <- MCWidth
    Word <- MCWord
    Nothing = Nothing
INVARIANTS
    RingTypeOK
    NoSlotRace
PROPERTIES
    ImplementsFifo
    ElementsArePopped
