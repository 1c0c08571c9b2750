SPECIFICATION Spec
CONSTANTS
    Files = {"ci", "probe"}
    Texts <- MCTexts
    LibText <- MCLibText
    Legs <- MCLegs
    Matched <- MCMatched
    Requirements <- MCRequirements
    GuardContext <- MCGuardContext
    Allowlists <- MCAllowlists
    Budgets <- MCBudgets
    Slots = {"allow", "deny", "apart", "syntax", "box", "clock", "code", "cron", "saved"}
    FileOf <- MCFileOf
    DocumentOf <- MCDocumentOf
    NotAService = {"aws"}
    Tests = {}
    Captures = {"backup"}
    Variants <- MCVariants
    Acts <- MCActs
    Universe <- MCUniverse
    ServiceOf <- MCServiceOf
    Marked = {}
    Globs = {"*", "ce:*", "s3:*", "cb:*"}
    Wildcards = {"*"}
    TypeService <- MCTypeService
    MinCronInterval = 15
    Ledgers <- MCLedgers
    Requests = {"r1", "r2"}
    CostEdits = 3
    LedgerEdits = 1
    Inventories <- MCInventories
    InventoryRow <- MCInventoryRow
    SubstrateKeys <- MCSubstrateKeys
    FilesOf <- MCFilesOf
    Machines = {"m1", "m2"}
    Tallies <- MCTallies
    Envs <- MCEnvs
    SubstrateDays = 2
    BatchSize = 3
    MaxChecks = 1
    MaxStirs = 2
    SubstrateFaults = 1
    Issues = {"i1", "i2"}
    Floor = 2
    MaxWait = 1
    StrikeLimit = 2
    LabelSets <- MCLabelSets
    Waits = {0, 1}
    Boxes = {"b1", "b2"}
    GroomBudgets <- MCGroomBudgets
PROPERTY VerdictIsEarned
INVARIANTS
    GreenIsDeclared
    FailureIsHeard
    GreenMeansReported
    NoUnseenSpend
    CountedIsWorked
CHECK_DEADLOCK FALSE
