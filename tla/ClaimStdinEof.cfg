SPECIFICATION LinesSpec
CONSTANTS
    Kinds <- JustStdin
    Peers = {1, 2}
    MaxBytes = 4
    Cap = 2
    ReadChunk = 2
    ReadBuffer = 1
    ClientLimits = {1, 2}
    Stoppers = {"gui"}
CHECK_DEADLOCK FALSE
INVARIANT ClosedMeansExhausted
