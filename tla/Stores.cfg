SPECIFICATION Spec
CONSTANTS
    Ingests = {"j1", "j2", "j3", "j4", "j5", "j6", "j7"}
    ArticleOf <- MCArticleOf
    Casts <- MCCasts
    Queries = {"p", "q"}
    Closeness <- MCCloseness
    Matches <- MCMatches
    Judgement <- MCJudgement
    Finer = 2
    Decimals = 10
    VectorWeight = 7
    WeightScale = 10
    TopK = 2
    RerankInput = 3
    CacheSize = 2
    KeyPage = 1
    FiledFrom = 2
    RagFaults = 1
    RagRetries = 1
    Rosters <- MCRosters
    Days = 3
    MaxVersions = 3
    Columns = {TRUE, FALSE}
    LastDay = 4
    Weekend = {2}
    MaxAge = 2
    MaxWeekdays = 2
    WindowWrites = 3
    WindowFaults = 1
    Phases <- MCPhases
    ClausesOf <- MCClausesOf
    IssueClauses = {"c2"}
    NotYetDue = {"UNMEASURED"}
    Reporters = {"r1", "r2"}
    Recorders = {"k"}
    DayOf <- MCDayOf
    FirstBoard <- MCFirstBoard
    PageSize = 1
    PageCeiling = 2
    Budget = 3
    ReportCasts <- MCReportCasts
    MaxFaults = 1
    MaxRetries = 1
INVARIANTS
    CorpusIsConsistent
    AsOfIsAnswered
    ShownIsTrue
    RetryLeavesNoSecond
    RankedByOwnScores
    FreshestOfItsWindow
CHECK_DEADLOCK FALSE
