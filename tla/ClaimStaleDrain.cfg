SPECIFICATION MCSpec
CONSTANTS
    Scenarios = {"files"}
    MaxLiveSessions = 0
    MaxMixedTeardowns = 0
    Capacity = 1
    MaxSessions = 2
    MaxGeneration = 3
    MaxRows = 2
    MaxFiles = 0
    BatchSizes = {1}
    Caps = {1}
    DefaultRetention = 3
    SizeMod = 16
    Commands = {"openStatic"}
CHECK_DEADLOCK FALSE
INVARIANT StaleDrainDiscardsStaleRows
