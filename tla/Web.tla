-------------------------------- MODULE Web ---------------------------------
(***************************************************************************)
(* The machines of the web client, side by side. They share no state in    *)
(* these models, so one specification stands for all of them: the initial  *)
(* state chooses a machine, and only that machine moves.                   *)
(*                                                                         *)
(* WebQueries, WebPages and WebLists hold the machines that there are      *)
(* proofs about, so that a proof need not see them all; those here are the *)
(* scanners.                                                               *)
(***************************************************************************)
EXTENDS WebQueries, WebPages, WebLists

CONSTANTS
    Alphabets,      \* the scanners of SQL: sets of characters
    MaxLength,      \*   bound: characters
    CsvNames,       \* the export and import of CSV: names of a column
    Fields,         \*   cells
    CsvRows         \*   bound: rows

-----------------------------------------------------------------------------
(* The variables by the names that the modules of the machines give them:  *)
(* INSTANCE puts these in the place of the variables of a module.          *)

header == v1
rows == v2

-----------------------------------------------------------------------------
(* The machines.                                                           *)

SQ == INSTANCE SqlText WITH
    text <- v1, items <- v2

CV == INSTANCE CsvText WITH
    Names <- CsvNames, MaxRows <- CsvRows

ASSUME ScannersAssumption == SQ!SqlAssumption /\ CV!CsvAssumption

-----------------------------------------------------------------------------
Unused20 == v20 = None /\ v21 = None
Unused19 == v19 = None /\ Unused20
Unused18 == v18 = None /\ Unused19
Unused16 == v16 = None /\ v17 = None /\ Unused18
Unused15 == v15 = None /\ Unused16
Unused14 == v14 = None /\ Unused15
Unused13 == v13 = None /\ Unused14
Unused12 == v12 = None /\ Unused13
Unused9 == v9 = None /\ v10 = None /\ v11 = None /\ Unused12
Unused8 == v8 = None /\ Unused9
Unused5 == v5 = None /\ v6 = None /\ v7 = None /\ Unused8
Unused3 == v3 = None /\ v4 = None /\ Unused5

rest20 == <<v20, v21>>
rest19 == <<v19, rest20>>
rest18 == <<v18, rest19>>
rest16 == <<v16, v17, rest18>>
rest15 == <<v15, rest16>>
rest14 == <<v14, rest15>>
rest13 == <<v13, rest14>>
rest12 == <<v12, rest13>>
rest9 == <<v9, v10, v11, rest12>>
rest8 == <<v8, rest9>>
rest5 == <<v5, v6, v7, rest8>>
rest3 == <<v3, v4, rest5>>

Init ==
    \/ machine = "socket" /\ WS!Init /\ Unused14
    \/ machine = "query" /\ QR!Init /\ Unused13
    \/ machine = "grid" /\ RG!Init /\ Unused15
    \/ machine = "editor" /\ ET!Init /\ Unused9
    \/ machine = "objects" /\ OT!Init /\ Unused5
    \/ machine = "log" /\ QL!Init /\ Unused8
    \/ machine = "shell" /\ SH!Init /\ Unused18
    \/ machine = "catalog" /\ CA!Init /\ Unused15
    \/ machine = "redis" /\ RP!Init /\ Unused20
    \/ machine = "table" /\ TE!Init /\ Unused13
    \/ machine = "structure" /\ SE!Init /\ Unused16
    \/ machine = "compare" /\ CS!Init /\ Unused19
    \/ machine = "target" /\ IT!Init /\ Unused20
    \/ machine = "mapping" /\ MS!Init /\ Unused14
    \/ machine = "import" /\ IR!Init
    \/ machine = "fixes" /\ FH!Init /\ Unused8
    \/ machine = "presets" /\ PS!Init /\ Unused13
    \/ machine = "backup" /\ BP!Init /\ Unused16
    \/ machine = "whitelist" /\ WL!Init /\ Unused9
    \/ machine = "sql" /\ SQ!Init /\ Unused3
    \/ machine = "csv" /\ CV!Init /\ Unused3

Next ==
    \/ machine = "socket" /\ WS!Next /\ UNCHANGED <<machine, rest14>>
    \/ machine = "query" /\ QR!Next /\ UNCHANGED <<machine, rest13>>
    \/ machine = "grid" /\ RG!Next /\ UNCHANGED <<machine, rest15>>
    \/ machine = "editor" /\ ET!Next /\ UNCHANGED <<machine, rest9>>
    \/ machine = "objects" /\ OT!Next /\ UNCHANGED <<machine, rest5>>
    \/ machine = "log" /\ QL!Next /\ UNCHANGED <<machine, rest8>>
    \/ machine = "shell" /\ SH!Next /\ UNCHANGED <<machine, rest18>>
    \/ machine = "catalog" /\ CA!Next /\ UNCHANGED <<machine, rest15>>
    \/ machine = "redis" /\ RP!Next /\ UNCHANGED <<machine, rest20>>
    \/ machine = "table" /\ TE!Next /\ UNCHANGED <<machine, rest13>>
    \/ machine = "structure" /\ SE!Next /\ UNCHANGED <<machine, rest16>>
    \/ machine = "compare" /\ CS!Next /\ UNCHANGED <<machine, rest19>>
    \/ machine = "target" /\ IT!Next /\ UNCHANGED <<machine, rest20>>
    \/ machine = "mapping" /\ MS!Next /\ UNCHANGED <<machine, rest14>>
    \/ machine = "import" /\ IR!Next /\ UNCHANGED machine
    \/ machine = "fixes" /\ FH!Next /\ UNCHANGED <<machine, rest8>>
    \/ machine = "presets" /\ PS!Next /\ UNCHANGED <<machine, rest13>>
    \/ machine = "backup" /\ BP!Next /\ UNCHANGED <<machine, rest16>>
    \/ machine = "whitelist" /\ WL!Next /\ UNCHANGED <<machine, rest9>>
    \/ machine = "sql" /\ SQ!Next /\ UNCHANGED <<machine, rest3>>
    \/ machine = "csv" /\ CV!Next /\ UNCHANGED <<machine, rest3>>

\* The fairness of the socket machine; no other needs any.
SocketStep(A) ==
    machine = "socket" /\ A /\ UNCHANGED <<machine, stops, rest14>>

Fairness ==
    /\ \A q \in Queries : WF_vars(SocketStep(WS!Opened(q) \/ WS!OpenFails(q)))
    /\ \A s \in Sockets : WF_vars(SocketStep(WS!CloseEvent(s)))
    /\ \A s \in Sockets, q \in Queries :
         WF_vars(SocketStep(stops /\ q \in asked /\ WS!Message(s, q)))

Spec == Init /\ [][Next]_vars /\ Fairness

-----------------------------------------------------------------------------
(* Properties, by the hazard they are about.                               *)

\* The variables of each machine have their types.
TypeOK ==
    /\ machine = "socket" => WS!TypeOK
    /\ machine = "query" => QR!TypeOK
    /\ machine = "grid" => RG!TypeOK
    /\ machine = "editor" => ET!TypeOK
    /\ machine = "objects" => OT!TypeOK
    /\ machine = "log" => QL!TypeOK
    /\ machine = "shell" => SH!TypeOK
    /\ machine = "catalog" => CA!TypeOK
    /\ machine = "redis" => RP!TypeOK
    /\ machine = "table" => TE!TypeOK
    /\ machine = "structure" => SE!TypeOK
    /\ machine = "compare" => CS!TypeOK
    /\ machine = "target" => IT!TypeOK
    /\ machine = "mapping" => MS!TypeOK
    /\ machine = "import" => IR!TypeOK
    /\ machine = "fixes" => FH!TypeOK
    /\ machine = "presets" => PS!TypeOK
    /\ machine = "backup" => BP!TypeOK
    /\ machine = "whitelist" => WL!TypeOK
    /\ machine = "sql" => SQ!TypeOK
    /\ machine = "csv" => CV!TypeOK

\* A query over the WebSocket gets at most one terminal callback, however
\* sockets are replaced, dropped and closed.
OneAnswer ==
    machine = "socket" => WS!OneAnswer

\* A query whose cancel was sent over the WebSocket gets its terminal
\* callback, also if its socket is replaced or dropped before the answer comes;
\* only a server that cannot answer before the statement ends may leave it
\* waiting, as long as the socket is open.
CancelledIsAnswered == []<>(machine = "socket" => WS!NobodyWaits)

\* Once a run has ended no statement on display is waiting or running,
\* whatever was cancelled, rerun or switched meanwhile.
SettledWhenIdle ==
    machine = "query" => QR!SettledWhenIdle

\* The statements of a run go to one connection in order, each after the
\* outcome of the one before and none after a cancel; rerunning the failures
\* repeats no statement that succeeded.
RunsInOrder ==
    [][/\ machine = "query" => QR!SendsInOrderStep
       /\ machine = "query" => QR!OkIsNotRepeatedStep]_vars

\* What is shown of the editor tabs, the object tabs and the risk whitelist
\* is what the browser has stored, as soon as no save is due, so a reload
\* neither loses nor revives anything.
ShownIsStored ==
    /\ machine = "editor" => ET!QuietIsSaved
    /\ machine = "objects" => OT!ShownIsStored
    /\ machine = "whitelist" => WL!ShownIsStored

\* No step changes the stored tabs of a connection that is not on display
\* before or after it, though a switch takes two tasks.
OthersUntouched ==
    [][/\ machine = "editor" => ET!OthersUntouchedStep
       /\ machine = "objects" => OT!OthersUntouchedStep]_vars

\* However answers are delayed and overtaken, what is shown as loaded is what
\* was asked for last: the page of the table editor (the one chosen, unless the
\* reload of a commit asked last, which asks for the page of its click), the
\* catalog of the connection, the light of the selected connection, and, for
\* whoever waits for each answer, the keys and values of a Redis database.
ShownIsCurrent ==
    /\ machine = "table" => TE!LastLoadWins
    /\ machine = "catalog" => CA!CatalogIsOfConnection
    /\ machine = "shell" => SH!HealthIsOfConnection
    /\ machine = "redis" => RP!RightWhenUnhurried

\* A commit of the table editor leaves each row as the grid showed it at the
\* click, unless somebody else changed the row, and adds exactly the new
\* rows, however edits were repeated, collapsed, undone or discarded.
CommittedIsShown ==
    [][machine = "table" => TE!CommittedIsShownStep]_vars

\* What the page says of a run of statements is true: of a sync script that
\* it was applied or rolled back, of an import that it was a success,
\* partial, cancelled or failed, of a change of a table that it succeeded or
\* was taken back.  The exceptions, which each machine's part names: a commit
\* done with its answer lost; a database whose DDL commits by itself; and an
\* import that skips failures, after one that aborted its transaction.
ReportIsTrue ==
    /\ machine = "compare" => CS!AppliedIsWhole
    /\ machine = "compare" => CS!RolledBackIsClean
    /\ machine = "import" => IR!HistoryIsTrue
    /\ machine = "structure" => SE!MessageIsTrue

\* However an import ends and whenever the modal is closed, no transaction of
\* it stays open on the server, unless a rollback was lost on the way or the
\* answer of its begin was, which leaves the page no id to roll back.
NoTxLeft ==
    /\ machine = "import" => IR!NoTxLeft

\* Undoing n fixes of an import, or the last backup applied, brings back the
\* state before, whatever overflowed, was applied again or deleted in
\* between.
UndoGoesBack ==
    [][/\ machine = "fixes" => FH!UndoGoesBackStep
       /\ machine = "backup" => BP!UndoIsExactStep]_vars

\* A version of an import preset that leaves the store can be got back from
\* the snapshots or the bin, except in the seven ways PresetStore names, by
\* which the program loses one.
LostOnlySo ==
    [][machine = "presets" => PS!LostOnlySoStep]_vars

\* What needs a question is not done without: overwriting a preset from the
\* bin, however the bin has changed since, and writing an item of a backup that
\* is foreign or whose table is gone, whatever audits and answers come between.
NothingUnasked ==
    [][/\ machine = "presets" => PS!OverwriteIsConfirmedStep
       /\ machine = "backup" => BP!RiskyIsPickedStep]_vars

\* Two scanners of one text agree: the parameters counted line up with the
\* statements cut, a cut is one statement again, and an exported table is
\* imported again cell by cell.
TextsSurvive ==
    /\ machine = "sql" => SQ!ParamsLineUp
    /\ machine = "sql" => SQ!CutsAreClean
    /\ machine = "csv" => CV!ExportComesBack

\* Each value of an import statement goes to the target its column is mapped to,
\* in an update or an upsert as long as no unmapped column comes before a mapped
\* one, and the rows and cells the user left out are in no statement.
MappingIsMeant ==
    /\ machine = "mapping" => MS!ParamsMeanTheirColumns
    /\ machine = "mapping" => MS!LeftOutStaysOut

\* The columns mapped in the later steps of an import are columns of the
\* table it will write, whatever the order of jumps, steps and answers.
ConfigFitsTarget ==
    machine = "target" => IT!ConfigFitsTarget

\* What runs unasked was picked in the log, runs once, and on the connection
\* of its log entry where that is known.
RunsWhatWasPicked ==
    machine = "shell" => SH!RunsWhatWasPicked

\* What is exported, copied or inspected belongs to the result on display and
\* was chosen on it, and the bars of a chart add up to its rows.
ExportIsPicked ==
    /\ machine = "grid" => RG!ExportIsPicked
    /\ machine = "grid" => RG!ChartAddsUp

\* The log keeps the newest runs of each statement, and both of its views add
\* up to the entries the filter lets through.
ViewsAddUp ==
    /\ machine = "log" => QL!KeepsNewest
    /\ machine = "log" => QL!ViewsAddUp
=============================================================================
