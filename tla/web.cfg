SPECIFICATION Spec
CONSTANTS
    None = None
    Conns = {1, 2}
    Queries = {1, 2, 3}
    Sockets = {1, 2, 3}
    MaxStatements = 2
    MaxSends = 3
    Data <- MCData
    Rank <- MCRank
    Window = 1
    GridSteps = 4
    TabTexts = {"a", "b"}
    Default = "a"
    MaxTabs = 4
    ObjectTables = {"a", "b"}
    Workbench = "w"
    LogTexts = {"q", "Q", "r"}
    Hash <- MCHash
    Durations = {0, 5}
    MaxPerHash = 2
    MaxTotal = 2
    Limit = 1
    LogRuns = 3
    ShellConns = {1, 2, 3}
    Redis = {3}
    ShellSteps = 3
    MaxPings = 2
    SchemasOf <- MCSchemasOf
    MainSchema <- MCFirst
    CatalogSteps = 2
    Dbs = {0, 1}
    RedisPages <- MCRedisPages
    Strings = {"k1"}
    ReadOnly = {2}
    RedisActs = 3
    TableRows = {"r"}
    NewRows = {"n"}
    TableColumns = {"c"}
    TableCells = {0, 1}
    TablePages <- MCTablePages
    TableEdits = 3
    MaxLoads = 2
    PartNames = {"a", "b"}
    AutoName = "b"
    Parts <- MCParts
    Dialects = {"sqlite", "postgres", "oracle"}
    StructureRuns = 2
    StructureEdits = 2
    Differences = {1, 2}
    Plans = {{}, {1, 2}}
    Destructive = {2}
    Rebuilds = {1}
    TableOf <- MCTableOf
    SyncStatements = {1, 2}
    MaxRequests = 3
    ImportSchemas = {"m", "x"}
    Tables = {"t"}
    FirstSchema = "m"
    Exists <- MCExists
    FileColumns <- MCFileColumns
    Stored <- MCStored
    StoredSnaps <- MCStoredSnaps
    MaxSnapshots = 2
    TargetHistory = 1
    TargetActs = 5
    MapTargets <- MCTargets
    TargetKeys = {"k1", "k2"}
    AutoInc = {}
    Defaults = {"d"}
    SameName <- MCSameName
    Score <- MCScore
    FileRows <- MCFileRows
    Doubtful = {1}
    MappingSteps = 3
    ImportFiles = {"f"}
    ImportRows = {1, 2}
    ImportRuns = 2
    MaxHistory = 2
    MaxFixes = 3
    Keys = {1, 2}
    Versions = {1, 2}
    MaxTombstones = 1
    SnapshotTtl = 0
    MaxTime = 1
    MaxSaves = 3
    MaxDeletes = 2
    MaxAudits = 1
    Foreign = {2}
    Big = {1}
    BackupFiles <- MCBackupFiles
    UndoSeconds = 1
    MaxImports = 2
    MaxWrites = 1
    RiskKeys = {1, 2}
    TTL = 1
    MaxDays = 2
    Alphabets <- MCAlphabets
    MaxLength = 5
    CsvNames <- MCCsvNames
    Fields <- MCFields
    CsvRows = 2
INVARIANTS
    TypeOK
    OneAnswer
    SettledWhenIdle
    ShownIsStored
    ShownIsCurrent
    ReportIsTrue
    NoTxLeft
    TextsSurvive
    MappingIsMeant
    ConfigFitsTarget
    RunsWhatWasPicked
    ExportIsPicked
    ViewsAddUp
PROPERTIES
    CancelledIsAnswered
    RunsInOrder
    OthersUntouched
    CommittedIsShown
    UndoGoesBack
    LostOnlySo
    NothingUnasked
CHECK_DEADLOCK FALSE
