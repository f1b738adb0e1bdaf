SPECIFICATION ContentSpec
CONSTANTS
    x1 = x1  x2 = x2  x3 = x3  x4 = x4  x5 = x5  x6 = x6  x7 = x7  x8 = x8  e1 = e1  e2 = e2  e3 = e3  e4 = e4  d1 = d1  d2 = d2
    Challenges = 3
    CvWorkload <- VerdictWork
    Requests = {"r1", "r2"}
    Cids = {"c1"}
    Limit = 1
    MaxRefills = 1
    ExWorkload <- ExcludeWork
    PrRequest <- ThreePubs
    PrWorkload <- RulesWork
    FgComment <- FourComments
    FgSlice = 1
    FgSeconds = 2
    FgAhead = 2
    FgWorkload <- FiguresWork
    GenComment <- FourComments
    GenPage = 3
    GenMaxPage = 4
    GenBudget = 8
    GenCache = 9
    GenWorkload <- PagesWork
    PzWorkload <- SizesWork
    Posts = {1, 2, 3, 4}
    BatchSize = 2
    MaxRecords = 3
    PgWorkload <- PurgeWork
    NoRow = NoRow
    Missing = Missing
    MaxCrashes = 2
    InvalidRows = {x2, e1}
    Tables <- MigratedTables
    Rows <- MigratedRows
    RowParent <- MigratedParents
    RowId <- MigratedIds
    Signature <- MigratedSignatures
    XpExport = {1, 2}
    XpDownload = {d1, d2}
    XpWorkload <- ExportWork
    ClRuns = 3
    ClTries = 1
    ClWorkload <- ListWork
INVARIANTS
    VerdictIsFair
    ExclusionsAreSound
    RulesAreKept
    FiguresSettle
    PagesAreSound
    PurgeIsThorough
    MigrationIsSafe
    ExportsAreSound
    ListsSettle
PROPERTIES
    EndedStaysEnded
CHECK_DEADLOCK FALSE
