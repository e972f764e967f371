SPECIFICATION Spec
CONSTANTS
    Rates = {1, 2}
    Thresholds = {1, 2}
    Lookbacks = {1}
    Asked = {1, 2, 3}
    MaxRequests = 2
    MaxProcs = 3
    MaxCrashes = 2
INVARIANTS
    TypeOK
    LoggerIsAlone
PROPERTY
    SettingsTakeEffect
CHECK_DEADLOCK FALSE
