SPECIFICATION MCSpec
CONSTANTS
    Scenarios = {"files", "live", "mixed"}
    MaxLiveSessions = 2
    MaxMixedTeardowns = 3
    Capacity = 2
    MaxSessions = 3
    MaxGeneration = 4
    MaxRows = 4
    MaxFiles = 2
    BatchSizes = {1, 2}
    Caps = {1, 2}
    DefaultRetention = 3
    SizeMod = 16
    Commands <- AllCommands
INVARIANTS
    TypeOK
    NoLostWakeup
    FinishedAfterDelivery
    ExactlyOneFinish
    SessionIsolation
    EvictionIsSuffix
PROPERTIES
    RowsAccounted
CHECK_DEADLOCK FALSE
