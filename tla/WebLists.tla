------------------------------ MODULE WebLists ------------------------------
(***************************************************************************)
(* The machines of the web client that filter lists, cut them and put them *)
(* in order: the table editor, the result grid, the query log, and of an   *)
(* import the target, the mapping, the run and the store of the presets.   *)
(***************************************************************************)
EXTENDS WebVars

CONSTANTS
    Data,           \* the result grid: results of queries
    Rank,           \*   the order of texts
    Window,         \*   rows rendered at once
    GridSteps,      \*   bound: steps
    LogTexts,       \* the query log: statements
    Hash,           \*   the hash of each
    Durations,      \*   milliseconds
    MaxPerHash,     \*   MAX_PER_HASH
    MaxTotal,       \*   MAX_TOTAL
    Limit,          \*   rows shown
    LogRuns,        \*   bound: queries run
    TableRows,      \* the table editor: rows
    NewRows,        \*   names for new ones
    TableColumns,   \*   columns
    TableCells,     \*   values
    TablePages,     \*   what can be asked for
    TableEdits,     \*   bound: edits
    MaxLoads,       \*   bound: loads
    ImportSchemas,  \* the target of an import: schemas
    Tables,         \*   tables of each
    FirstSchema,    \*   the first one
    Exists,         \*   the columns of each table
    FileColumns,    \*   the columns of the file
    Stored,         \*   presets of an earlier session
    StoredSnaps,    \*   and their snapshots
    MaxSnapshots,   \*   MAX_SNAPSHOTS
    TargetHistory,  \*   MAX_FIX_HISTORY of this machine
    TargetActs,     \*   bound: steps
    MapTargets,     \* the mapping of an import: columns of the table
    TargetKeys,     \*   its key
    AutoInc,        \*   columns the database numbers
    Defaults,       \*   columns with a default
    SameName,       \*   the namesake of a column
    Score,          \*   how alike names are
    FileRows,       \*   rows of the file
    Doubtful,       \*   columns with a transform
    MappingSteps,   \*   bound: steps
    ImportFiles,    \* the run of an import: files
    ImportRows,     \*   statements of a file
    ImportRuns,     \*   bound: imports
    Versions,       \* the presets: contents of one
    MaxTombstones,  \*   MAX_TOMBSTONES
    SnapshotTtl,    \*   SNAPSHOT_TTL_MS
    MaxTime,        \*   bound: the clock
    MaxSaves,       \*   bound: saves
    MaxDeletes,     \*   bound: deletes
    MaxAudits       \*   bound: audits

-----------------------------------------------------------------------------
(* The variables by the names that the modules of the machines give them:  *)
(* INSTANCE puts these in the place of the variables of a module.          *)

result == v1
log == v1
mapping == v1
bin == v1
queue == v2
colsOf == v2
page == v3
bar == v3
sort == v4
ran == v4
table == v4
filters == v5
least == v5
key == v6
loads == v6
presets == v6
desc == v7
reqSeq == v7
snaps == v7
trims == v7
mode == v8
undoStack == v8
results == v8
hidden == v9
review == v9
policy == v9
saves == v9
inspector == v10
commits == v10
rules == v10
deletes == v10
menu == v11
committing == v11
strict == v11
audits == v11
chart == v12
filter == v12
latest == v12
now == v12
sqlFiles == v12
limit == v13
overrides == v13
parsed == v13
isSelect == v14
skipFailed == v14
cols == v15
map == v16
retry == v16
notice == v17
txRef == v17
arming == v18
history == v18
stray == v19
tx == v19
kept == v20
undoing == v21

-----------------------------------------------------------------------------
(* The machines.                                                           *)

RG == INSTANCE ResultGrid WITH
    MaxSteps <- GridSteps

QL == INSTANCE QueryLog WITH
    Texts <- LogTexts, All <- None, MaxRuns <- LogRuns

TE == INSTANCE TableEdit WITH
    Rows <- TableRows, Columns <- TableColumns, Cells <- TableCells, Pages <- TablePages,
    MaxEdits <- TableEdits

IT == INSTANCE ImportTarget WITH
    Schemas <- ImportSchemas, Names <- FileColumns, MaxHistory <- TargetHistory,
    MaxActs <- TargetActs

MS == INSTANCE MappingStep WITH
    Targets <- MapTargets, Keys <- TargetKeys, Rows <- FileRows, MaxSteps <- MappingSteps

IR == INSTANCE ImportRun WITH
    Files <- ImportFiles, Rows <- ImportRows, MaxRuns <- ImportRuns

PS == INSTANCE PresetStore

ASSUME ListsAssumption ==
    /\ QL!LogAssumption
    /\ TE!EditAssumption
    /\ IT!TargetAssumption
    /\ IR!ImportAssumption
    /\ PS!StoreAssumption
    /\ RG!GridAssumption
    /\ MS!MappingAssumption
=============================================================================
