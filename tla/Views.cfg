SPECIFICATION Spec
CONSTANTS
    Scenarios = {"rows", "tail"}
    Keys = {"a", "b"}
    FilterKey = "a"
    Values = {1, 2}
    Absent = Absent
    Rank <- MCRank
    RowValues <- MCRowValues
    FirstBatches <- MCFirstBatches
    BatchSizes = {1, 2}
    Retention = 3
    Filters = {{1}, {2}}
    Needles = {{2}}
    Heights = {0, 2}
    MaxFind = 1
    MaxLines = 6
    MaxSteps = 4
    Page = 2
    TailCap = 4
    WalkLimit = 1
    TailBatches <- MCTailBatches
    MaxTailLines = 6
    MaxTailSteps = 6
INVARIANTS
    ShownAsAsked
    NamedRowsKept
    DerivedFromRows
    TailShownOrCounted
CHECK_DEADLOCK FALSE
