SPECIFICATION LiveSpec
CONSTANTS
    Scenarios = {"sink", "lines"}
    Capacity = 1
    MaxSessions = 2
    MaxGeneration = 3
    MaxRows = 3
    MaxFiles = 0
    BatchSizes = {1, 2}
    Caps = {1}
    DefaultRetention = 3
    SizeMod = 16
    Commands <- StopPauseCommands
    Kinds <- AllKinds
    Peers = {1, 2}
    MaxBytes = 2
    Cap = 2
    ReadChunk = 2
    ReadBuffer = 1
    ClientLimits = {1, 2}
    Stoppers = {"gui", "owner"}
PROPERTIES
    SinkProgress
    ProducersEnd
CHECK_DEADLOCK FALSE
