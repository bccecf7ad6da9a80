SPECIFICATION Spec
CONSTANTS
    MaxFiles = 3
    MaxLines = 3
    MaxBody = 2
    MaxRotations = 2
    Rotations <- AllRotations
    InitialLines = 1
    RetentionLines = 1
    ReadChunk = 3
    PrefillChunk = 2
    PrefillMaxScan = 4
INVARIANTS
    DeliversTheFile
PROPERTIES
    PrefillIsTail
    EndsCaughtUp
CHECK_DEADLOCK FALSE
