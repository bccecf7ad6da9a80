SPECIFICATION LinesSpec
CONSTANTS
    Kinds <- AllKinds
    Peers = {1, 2}
    MaxBytes = 4
    Cap = 2
    ReadChunk = 2
    ReadBuffer = 1
    ClientLimits = {1, 2}
    Stoppers = {"gui", "owner"}
INVARIANTS
    QueueAccountsExact
    LinesKeptWhole
    EndsDrained
CHECK_DEADLOCK FALSE
