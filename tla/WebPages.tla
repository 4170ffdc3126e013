------------------------------ MODULE WebPages ------------------------------
(***************************************************************************)
(* The machines of the web client that show a database and change its      *)
(* schema, which are the catalog, the Redis panel, the structure editor    *)
(* and the compare wizard, and the undo of an import: the fixes of its     *)
(* options and the backups of its presets.                                 *)
(***************************************************************************)
EXTENDS WebVars

CONSTANTS
    SchemasOf,      \* the catalog: the schemas of each connection
    MainSchema,     \*   the one that comes first
    CatalogSteps,   \*   bound: steps
    Dbs,            \* the Redis panel: databases of a connection
    RedisPages,     \*   what a scan returns
    Strings,        \*   keys that hold a string
    ReadOnly,       \*   connections marked read only
    RedisActs,      \*   bound: steps
    PartNames,      \* the structure editor: names of parts
    AutoName,       \*   the one made up
    Parts,          \*   the parts at first
    Dialects,       \*   dialects
    StructureRuns,  \*   bound: runs
    StructureEdits, \*   bound: edits of the form
    Differences,    \* the compare wizard: differences
    Plans,          \*   what a comparison finds
    Destructive,    \*   those not selected
    Rebuilds,       \*   those that rebuild a table
    TableOf,        \*   the table of each
    SyncStatements, \*   those of a script
    MaxRequests,    \*   bound: requests
    MaxHistory,     \* the fixes of an import: MAX_FIX_HISTORY
    MaxFixes,       \*   bound: fixes
    Foreign,        \* backups of presets: those of another connection
    Big,            \*   those an overwriting changes much
    BackupFiles,    \*   backups
    UndoSeconds,    \*   the undo window
    MaxImports,     \*   bound: files read
    MaxWrites       \*   bound: deletes meanwhile

-----------------------------------------------------------------------------
(* The variables by the names that the modules of the machines give them:  *)
(* INSTANCE puts these in the place of the variables of a module.          *)

before == v2
error == v4
redo == v4
calls == v5
source == v5
diffOpen == v5
dialect == v6
redone == v6
white == v6
op == v7
script == v7
fixes == v7
schemas == v8
db == v8
outcome == v8
selSchema == v9
pattern == v9
txId == v9
tables == v10
names == v10
selected == v10
tab == v11
keys == v11
column == v11
audit == v11
detail == v12
selKey == v12
parts == v12
confirming == v12
cached == v13
value == v13
at == v13
left == v13
unhurried == v14
editing == v14
sql == v14
imports == v14
draft == v15
msg == v15
writes == v15
saving == v16
work == v16
session == v17
ranOn == v17
done == v18
requests == v18
calm == v19

-----------------------------------------------------------------------------
(* The machines.                                                           *)

CA == INSTANCE Catalog WITH
    First <- MainSchema, MaxSteps <- CatalogSteps

RP == INSTANCE RedisPanel WITH
    Pages <- RedisPages, MaxActs <- RedisActs

SE == INSTANCE StructureEdit WITH
    Names <- PartNames, MaxRuns <- StructureRuns, MaxEdits <- StructureEdits

CS == INSTANCE CompareSync WITH
    Entries <- Differences, Statements <- SyncStatements

FH == INSTANCE FixHistory

BP == INSTANCE BackupPreview WITH
    Files <- BackupFiles

ASSUME PagesAssumption ==
    /\ CA!CatalogAssumption
    /\ RP!PanelAssumption
    /\ SE!EditAssumption
    /\ CS!SyncAssumption
    /\ FH!HistoryAssumption
    /\ BP!BackupAssumption
=============================================================================
