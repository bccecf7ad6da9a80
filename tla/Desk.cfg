SPECIFICATION Spec
CONSTANTS
    Scenarios = {"history", "launches", "decode", "bundle", "rotation", "themes", "rules"}
    Procs = {g1, g2, g3}
    MaxForwarded = 1
    FileCounts = {0, 2}
    MaxSlow = 1
    MaxGuardCrashes = 1
    Instances = {p1, p2}
    Publishers = {p1}
    Uuids = {u1, u2, u3}
    MaxEntries = 2
    CleanupCap = 2
    RestoreCap = 1
    MaxLaunches = 3
    MaxEdits = 2
    MaxFaults = 1
    Archives <- MCArchives
    Chunk = 2
    OutBuf = 2
    Cap = 8
    MaxHeader = 3
    Writers = {"w1", "w2"}
    Tables <- MCTables
    Names = {"t1", "t2"}
    MaxAttempts = 2
    Interval = 2
    MaxRows = 3
    MaxExports = 3
    MaxLosses = 1
    FileNames <- MCFileNames
    MaxNumber = 5
    MaxWalked = 4
    MaxFiles = 5
    MaxSelected = 2
    UserFiles <- MCUserFiles
    UserThemes <- MCUserThemes
    NoTheme = NoTheme
    AutoTheme = ""
    Tabs = {1, 2}
    MaxThemeSteps = 4
    RuleTabs = {t1, t2}
    NewColumns <- MCNewColumns
    LogRows <- MCLogRows
    RuleFiles <- MCRuleFiles
    RuleNeedles <- MCRuleNeedles
    NoDraft = NoDraft
    NoEditor = NoEditor
    MaxRuleRows = 2
    MaxRules = 2
    MaxRuleSteps = 6
INVARIANTS
    OneWindowPerLaunch
    OnePrimary
    RecentsListWhole
    
    WholeOrRefused
    BundleReopensAsSaved
    FamiliesOpenInOrder
    PaintedAsChosen
    RulesPaintedAndKept
CHECK_DEADLOCK FALSE
