SPECIFICATION Spec
CONSTANTS
    Scenarios = {"filter", "time"}
    Bare <- MCBare
    LastTime = 3
    WordBits = 2
    Cell <- MCCell
    Columns <- MCColumns
    NumRows = 3
    Phrases <- MCPhrases
    FormValues <- MCFormValues
    MaxPhrases = 3
    MaxFilters = 2
    StampKeys = {"t", "u"}
    LevelKey = "l"
    Levels = {"error", "info"}
    Unknown = "unknown"
    NoTime = NoTime
    LineValues <- MCLineValues
    InitTypes <- MCInitTypes
    Colours = {1, 2}
    Widths <- MCWidths
    Budget = 2
    Pixels = 2
    Retained = 3
    LineBatches <- MCLineBatches
    Targets <- MCTargets
    MaxTimeLines = 4
    MaxTimeSteps = 3
INVARIANTS
    AnswerIsAsked
    
    HistogramIsOfTheRows
    JumpsLandRight
CHECK_DEADLOCK FALSE
