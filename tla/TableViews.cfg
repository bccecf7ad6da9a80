CONSTANTS
    Keys = {"lvl", "ts"}
    KeyOrder <- MCKeyOrder
    TimeKeys = {"ts"}
    LevelKeys = {"lvl"}
    Texts = {"info", "warn", "WARN", "odd", "toolong", "noon"}
    TimeTexts = {"noon"}
    LongTexts = {"toolong"}
    Numbers = {"seven"}
    LevelOf <- MCLevelOf
    Unknown = Unknown
    Cap = 2
    StreamMin = 2
    StaticMin = 3
    HealthMin = 2
    Absent = Absent
    Batches <- MCBatches
    Configs <- MCConfigs
    Rules <- MCRules
    Retention = 3
    MaxSteps = 4
SPECIFICATION Spec
INVARIANTS
    EncodingsAreFaithful
    FilterShowsSelected
CHECK_DEADLOCK FALSE
