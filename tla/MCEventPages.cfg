SPECIFICATION Spec
CONSTANTS
    SizeV2 = 2
    SizeV3 = 3
    PageLimit = 2
    CaptureLimit = 30
    Cooldown = 1
    MaxEventsBytes = 60
    Settings <- MCSettings
    Voltages <- MCVoltages
    Lengths <- MCLengths
    MaxEvents = 3
    MaxSteps = 1
    MaxTears = 1
INVARIANTS
    TypeOK
    ListingsComplete
    ReviewIsTable
    ValidatorAgrees
