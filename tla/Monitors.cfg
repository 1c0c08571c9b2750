SPECIFICATION MonitorsSpec
CONSTANTS
    Registries <- MCRegistries
    Keys <- MCKeys
    Dates <- MCDates
    Contents <- MCContents
    Instants <- MCInstants
    Holidays <- MCHolidays
    DstEnds = 20
    ListCap = 2
    MaxWrites = 2
    MaxRefusals = 1
    MaxSweeps = 2
    Scripts <- MCScripts
    Roles = {"weekly", "watch-rerun", "exercise", "untagged"}
    CadenceRoles = {"weekly"}
    RecoveryRoles = {"watch-rerun"}
    Days = {1, 2}
    Spine <- MCSpine
    Excused = {}
    ServedBy <- MCServedBy
    SkipTerminals = {"Skip"}
    WaitGrouping <- MCWait
    Registry <- MCRegistry
    HistoryPageSize = 2
    ListPageSize = 2
    SearchLimit = 3
    ScanLimit = 3
    RecentLimit = 2
    MaxCycles = 1
    MaxRuns = 4
    Reads = 1
    Faults = 1
    Processes = {"live", "again", "alias", "named", "tried"}
    ProcessOf <- MCProcessOf
    StampKeyOf <- MCStampKeyOf
    Artifacts = {"a"}
    ClaimedCadences <- MCClaimedCadences
    Buffer = 0
    MaxStampAge = 1
    StampHorizon = 2
    StampFaults = 1
INVARIANTS
    ReadingIsTrue
    VerdictIsOfThisSweep
    NoSilentLoss
    MissedStaysMissed
    CadenceIsShown
    CausesKeepTheirHistory
    OkIsProduced
    FreshSurfaceRanLive
CHECK_DEADLOCK FALSE
