SPECIFICATION MCReadSpec
CONSTANTS
    Scripts <- MCScripts
    Roles = {"weekly", "watch-rerun", "exercise", "untagged"}
    CadenceRoles = {"weekly"}
    RecoveryRoles = {"watch-rerun"}
    Days = {1, 2}
    Spine <- MCSpine
    Excused = {}
    ServedBy <- MCServedBy
    SkipTerminals = {"Skip"}
    WaitGrouping <- MCWait
    Registry <- MCRegistry
    HistoryPageSize = 2
    ListPageSize = 2
    SearchLimit = 3
    ScanLimit = 3
    RecentLimit = 2
    MaxCycles = 1
    MaxRuns = 4
    Reads = 1
    Faults = 1
INVARIANT CleanStreakCounts
CHECK_DEADLOCK FALSE
