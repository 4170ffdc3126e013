# A verification development of polydb

polydb is a database client with two interchangeable servers, one in Rust
(`rust/crates`) and one in Go (`go/pkg`), and four front ends, of which the web
client (`web/src`) is by far the largest.  Both servers implement one contract,
`spec/behavior.md`.  This directory holds TLA+ modules translated from the code
of the servers and of the web client, TLC configurations that check them on
small instances, and proofs checked by TLAPS.  `PROJECT.json` lists the runs,
the source lines behind every definition, a mutant for every property, the
findings and the hazards.

## 1. The system

### The servers

| Part | State | Operations | Hard behaviour | What makes it correct |
|---|---|---|---|---|
| Rust core, `app-core/src/lib.rs` | maps `connections`, `read_only`, `tunnels` (a lock each), `txs` (a mutex) | connect, ensure, execute, ping, test, begin, execute in tx, commit, rollback, disconnect, update, delete | one lock per map and none across an await; futures dropped at awaits | an entry has one owner; no live transaction is forgotten; disconnect ends everything; read-only holds |
| Go core, `appcore.go` | maps under one mutex, a `TxManager` per connection, a singleflight group | the same | steps between critical sections; waiting for another caller's connect; the manager's sweeper | no driver or tunnel leaks; handles are serial; managers belong to open connections |
| Single-session drivers, `db-sqlite`, `db-mssql`, `db-oracle` | one session | begin, execute, commit, rollback | transactions of different clients meet in one session | a write lives and dies with its own transaction |
| REST queries, `server/src/lib.rs`, `server.go` | registry query id -> cancel | register, run, select, time out, unregister, cancel, hang up | end, cancel and deadline race; statements cannot be interrupted | every deadline answers; cancels reach the right query and only while it runs |
| WebSocket sessions, `ws.rs`, `ws.go` | auth, in-flight map, outbound queue | hello, query, cancel, shutdown | two loops and query tasks | one end message per query; cancels reach; shutdown ends all |
| Edit queue, `changes.go`, `changes.rs` (the web client's copy is below) | list of row changes, undo list | edit cell, insert, delete, undo, build statements | long sequences | the queue is the net effect of the edits |
| Sync planning, `cmpsync.go` | selection of differences | toggle, group gaps, fill, plan | partial selection, failure in the middle | what is executed is what was selected, in units that can fail alone |
| Schema diff, `schemadiff`, `schema-diff` | none | diff, generate | dependency order, cycles | ordered by phase and by references, deterministic |
| Blobs, `blobs.go`, `blobs.rs` | files by age | put, sweep, range read | sweep between size and read; range edges | a range read returns those bytes or an error |
| Connections and secrets, `connection_repo`, `keyring` | sqlite rows, a keyring file | create, update, delete, set, get | read-modify-write, crash in a rewrite | no update lost; no secret without a row |
| SSH tunnels, pooled drivers, Redis drivers, detection and browsing SQL, transports, TUI and GUI, protocol | see `PROJECT.json` | | | not modelled; reasons there |

A request enters a server handler, which calls its core; the core reads the
row and the secrets, opens a tunnel and a driver and keeps both in its maps;
a driver call is made outside the locks.  A front end reaches the same core
through HTTP, or in the process (TUI, GUI).  Cancelling goes through the
query registry beside the core, not through the core.

### The web client

A React page.  All its code runs on one thread, but every await, timer, effect
and socket event is a point where something else may come first, and closures
keep the values of the render in which they were made.  Its parts share little:
`App.tsx` owns the selected connection and passes it down; the panels below it
call the server through HTTP (`api`), the workbench also through a socket; what
outlives a reload is in `localStorage`.

| Part | State | Operations | Hard behaviour | What makes it correct |
|---|---|---|---|---|
| Socket, `lib/ws.ts` | one client, its pending handlers | query, cancel, socket events | a socket is replaced or dropped with queries on it | one terminal callback for each query; a cancelled query does not wait for ever |
| Query workspace, `QueryWorkspace.tsx` | entries of the run, the cancel flag, the text | run, cancel, rerun, continue, switch | answers after a cancel or a switch; closures of earlier renders | in order, nothing twice, nothing left running; on the connection shown |
| Result grid, same file | sort, filters, selection by position | every control of the pane, export | the result under them is replaced | exports hold what was chosen on the result shown |
| SQL and CSV text, `sqlSplit.ts`, `csvParser.ts`, `exporters.ts` | none | split, count, write, read | two scanners of one text | they agree where things end |
| Tabs, `tabStore.ts`, `openTabs.ts` | tabs per connection, stored | add, close, cycle, type, switch, reload | the save timer outlives a switch that takes two tasks | shown is stored; no other connection's tabs change |
| Table editing, `TableDataView.tsx`, `changes.ts` | page, queue of changes, undo | load, edit, insert, delete, undo, commit | overtaking answers, collapsing edits, other clients | the commit leaves what the grid showed |
| Compare and sync, `CompareSyncWizard.tsx`, `compareSync.ts` | the wizard, its script and run | compare, select, generate, apply, cancel, roll back, close | cancel and lost answers in the middle | reports are true |
| Import, `ImportModal.tsx` and `import/` | steps, file queue, target, mapping, options, run, fixes | all of the wizard | closed while a call is awaited, late column lists, undo stacks | reports are true, no transaction stays open, values go to their columns |
| Presets, `importPresets.ts`, `PresetManager.tsx` | presets, snapshots, bin, backup under review, whitelist | save, restore, delete, purge, audit, apply, undo | bounded lists, applying over newer presets | nothing is lost or overwritten unasked |
| Shell, `App.tsx`, `ConnectionList.tsx` | selected connection, heartbeats, picks | select, ping, pick from the log | pings of an earlier connection, picks before the workbench is there | the light and the run belong to the right connection |
| Catalog, Redis, structure editor, query log | lists and forms | load, open, edit, alter, filter | late answers; DDL that commits by itself | shown is of the connection shown; messages and sums are true |

## 2. Modules

```
TxSpec            what behavior.md section 10 promises about transactions
  ^        ^
  |        +-- GoAppCore    <- MCGoAppCore, GoAppCoreProofs
RustAppCore    <- MCRustAppCore, RustAppCoreProofs
SharedSession  <- MCSharedSession, SharedSessionProofs
QueryRegistry  <- MCQueryRegistry, QueryRegistryProofs

WebVars           the registers that the machines of the web client live in
  WebQueries  -- INSTANCEs of --  WsClient, QueryRun, EditorTabs, ObjectTabs,
    RiskWhitelist, Shell                             <- WebQueryProofs
  WebPages    -- INSTANCEs of --  Catalog, RedisPanel, StructureEdit,
    CompareSync, FixHistory, BackupPreview           <- WebPageProofs
  WebLists    -- INSTANCEs of --  TableEdit, ImportTarget, MappingStep,
    ImportRun, PresetStore, ResultGrid, QueryLog     <- WebListProofs
Web               extends these three; INSTANCEs of SqlText and CsvText
                                                     <- MCWeb
WebProofs         extends Web and the three modules of proofs
Ordered           numbers as a list, filter(), sort(); used by ImportRun,
                  ImportTarget, MappingStep, PresetStore, TableEdit,
                  QueryLog and ResultGrid
```

An arrow from a name on its right means that the module on the right EXTENDS the
one on the left.  `Web` is the specification of the client and states its
properties; `MCWeb` only adds values for its larger constants.  `WebQueries`,
`WebPages` and `WebLists` are parts of it, so that the proof about one machine
need not see the other twenty.

### Servers

**TxSpec** is abstract: a transaction is unborn, active, finalizing, committed
or rolled back; statements in it are serial; it is finalized at most once; it
may be discarded.  Both cores are shown to implement it: each ends with the
mapping `status` and `running` and `Tx == INSTANCE TxSpec WITH ...`.

**RustAppCore.** Each request (`Callers`) has a label `pc`, the request `op`,
and what is on its stack: the driver `drv`, the borrowed or finalized
transaction `held`, the ids `todo` a disconnect still removes.  A step is the
code between two lock acquisitions or awaits: `is_read_only` is three steps,
the publication in `connect` up to three, `disconnect` four and one for each
transaction.  Dropping a future at an await is `Abandon` (with the guard's
`Drop`), and one outcome of `OpenDriver`, `BeginTxFails` and `Finalized`.
`dbtx` is what the database made of a transaction: it appears in no source
file, and is what the properties compare the registry with.  A dropped handle
is rolled back, as `sqlx::Transaction` does; for the drivers with one session
see the next module but one.

**GoAppCore.** The same requests against the Go core.  A step is one critical
section of `AppCore.mu` or one driver call.  `Fly`, `Recheck` and `Land` are
the singleflight group in `ensure`.  `dbcore.TxManager` is not in this
repository: its actions (`BeginDb`, `Insert`, `Take`, `Sweep`, `RollbackOne`)
are modelled from the comments at `appcore.go:51` and `:587` and from the
calls, and marked external in the map.  Whether it refuses entries once it is
closed is not known here; the model lets them in, which can only add
behaviours to what is checked.

**SharedSession.** sqlite, mssql and oracle transactions are empty markers:
begin, commit and rollback are statements on a session shared by everybody.
`Dialect` selects how that session treats a second begin and a commit.  Writes
are single effects that the session holds (`pending`) or the database has
(`durable`), with the transaction each was acknowledged in.  The entry in the
core's registry is taken for each call, as in RustAppCore.

**QueryRegistry.** Both servers' query handlers in one module; `backend`, fixed
by the initial state, selects where they differ (see its header).  A statement
of the Rust server is `queued` until a thread takes its task, and then either
awaits its database (`running`) or keeps the thread until it ends (`blocking`,
as sqlite's `execute` does); `Scheduled` says that a thread is free, and is a
guard of every step that needs one.  `acked`
records which request a cancel was answered 204 for.

The bounds: `Drivers` and `Managers` are names to be reused once nothing refers
to them; when they run out, opening fails as it may anyway.  `Txns`, `Writes`
and `Requests` are used once each.

### Web client

In all of these a step is one macrotask: an event handler with the renders and
effects that follow it, a timer, or an answer with the continuation up to the
next await.  Calls under way are in a variable (`calls`, `loads`, `run`), so
that their answers may come in any order, or fail.  Fields that no source line
has (what the server really did, what a list was read from, what was picked)
are what the properties compare the page with; each is commented where it is
declared.

* **WsClient** (`ws.ts`): `client` is the module variable, `pending` the map of
  each socket, `pc` where a call of `query` stands.  The server answers what it
  received and may drop a socket.
* **QueryRun** (`QueryWorkspace.tsx`): the loop of a run, its entries on
  display, cancel by button, key and flag, `held` the closures that Ctrl+Enter
  and the palette keep.
* **ResultGrid** (the same file's result pane): the state kept by position over
  a replaced `result`, and what is displayed, copied and exported from it.
* **SqlText**, **CsvText**: the scanners as functions of a text that grows one
  character, row or column at a time.
* **EditorTabs** (`tabStore.ts`), **ObjectTabs** (`openTabs.ts`): tabs as they
  are on display, in the refs, and in `store`; `coming` is a switch whose
  render is still due, `armed` the timer.
* **TableEdit** (`TableDataView.tsx`, `changes.ts`): `queue` of changes,
  `commits` under way with the rows each statement touched, `table` what the
  server has.
* **CompareSync** (`CompareSyncWizard.tsx`, `compareSync.ts`): `script` with its
  transaction units, `run` the loop that executes it, `work` and `schema` what
  the server made of it.
* **ImportRun** (`ImportModal.tsx`): the wizard's step, the queue of files, the
  loop of `runImport`, which goes on when the modal is closed.
* **ImportTarget**: choosing the target, late `listSchemas` and `listColumns`,
  presets and snapshots applied, one-click saves; `stray` marks a
  configuration that was changed without being asked for.
* **MappingStep** (`Step3Map.tsx`, `importData.ts`): the mapping, the rules and
  the rows left out; `Statements` is `buildStatements`, and the three readers of
  its parameters are separate operators, as they are in the code.
* **FixHistory** (`importUndo.ts`): the two stacks and their limit.
* **PresetStore**, **BackupPreview**, **RiskWhitelist** (`importPresets.ts`,
  `importBackupPreview.ts`, `riskWhitelist.ts`, `PresetManager.tsx`).
* **Shell** (`App.tsx`, `ConnectionList.tsx`): selection, heartbeats (`pings`),
  and the token with which a picked text is run (`AutoRun`).
* **Catalog**, **RedisPanel**: lists and values as the connection, database and
  key they were read from.
* **StructureEdit** (`TableStructureEditor.tsx`, `alterSql.ts`): the form, the
  statement or its refusal, and a database in which DDL may commit by itself.
* **QueryLog** (`runStats.ts`, `QueryLogPanel.tsx`): the log with its two caps, the
  two views of it with their filters, the rows of the statement view up to its
  limit (`SqlAgg`, `SqlRows`), and the detail that a click opens.

Some code is left out because nothing reaches it: `App.tsx` always gives the
workspace an empty `contextSchema` and `contextTable`, so editing cells of a
result (`commitEdit`, `commitBatchEdit`, its pending transaction and generated
statements) and the overwriting of the import's target by the context cannot
happen.

## 3. Runs

| Run | Instance | Result |
|---|---|---|
| `rust_core` | 2 requests, 2 connections, 2 drivers, 1 transaction; every row read-only and with a tunnel, so that all three maps are written | 3.0 million states; all properties hold |
| `go_core` | 2 requests, 1 connection, 2 drivers, 2 managers, 1 transaction, two kinds of row | 0.8 million states; all properties hold |
| `sqlite_session` | 3 transactions, 3 writes | 5,927 states; all hold |
| `queries` | 2 requests, 2 ids, both servers, 2 threads | 124,920 states; safety and liveness hold |
| `web` | 21 machines of the web client, see below | 1.8 million states; safety and liveness hold |
| `rust_zombie_tx`, `rust_read_only`, `mssql_lost_commit`, `sqlite_stuck`, `go_orphan_manager`, `go_cancel_hangs`, `web_stale_run` | the smallest that shows it | each violates the one sentence of a document, comment or label it states |

Why the servers' bounds are enough: the cores' races are between two requests and one
piece of shared state, and two requests already meet at every pair of labels;
two connections in the Rust run show that a disconnect spares the other one;
two drivers in the Go run let both requests open one for the same connection, or
one be current, or on its way out, while the next is opened.
One transaction suffices there since transactions meet only in a session, and
that is SharedSession, with three.  Two queries with two ids include the
shared id and both orders of every pair of steps; two threads for two
statements include a free thread and none.  For the safety properties of
all four modules the proofs of section 4 remove the bounds altogether, and for
18 of the properties of `web`.

**The run `web`.**  The machines of the web client share no state in these
models, so one run explores them side by side: the initial state chooses
`machine`, its variables live in the registers `v1` to `v21`, and only it
moves.  The initial state of ImportRun also chooses which of the files are SQL
scripts (`sqlFiles`).
`QueriesAssumption`, `PagesAssumption`, `ListsAssumption` and `ScannersAssumption`
state the assumptions of every instance for its constants.
Each property of the run joins the properties of the machines it is about.

The bounds: two connections, two tables or keys, two or three rows, and two
to six user actions.  They are chosen so that each case the properties are
about happens, which the mutants confirm: two loads under way so that they can
overtake each other; three queries on three sockets so that a socket is
replaced while another still has queries (a new socket takes the next free name,
since sockets differ in nothing else); lists whose limit is two, so that
they overflow, and the log's statement view shows one row, so that its limit
cuts some off; texts of up to five characters over alphabets that each hold one
kind of quote; tables of two columns and two rows over every kind of field.  The
counters that end a machine (`MaxSteps`, `MaxRuns`, `MaxSends` and the like) guard
what the user starts, and `MaxPings` the heartbeats; none holds back an answer.  A snapshot lives as long as
the clock stands (`SnapshotTtl` 0, `MaxTime` 1), so that a preset is either
younger or older than that when it is replaced; the bin holds one tombstone
(`MaxTombstones`), which two deletions overflow.

What the passing runs show.  *RustAppCore*: a transaction entry has one owner
(`OwnedOnce`); the transactions open in the database are those the registry or
a request can reach (`OpenIsReachable`); one ends only by its own request or by
a disconnect of its connection (`OnlyDisconnectDiscards`).  *GoAppCore*: every
open driver is the one of its connection or about to be (`DriverNotLeaked`);
tunnels come and go with their drivers (`TunnelPaired`); an open transaction is
in a registry or with exactly one request (`HandleNotLost`); whoever waits for
a flight waits for somebody who is on the way (in `TypeOK`).  *SharedSession*
with sqlite: acknowledged commits and rollbacks are true, and nobody else's
commit makes a write permanent.  *QueryRegistry*: a running query can be
cancelled, nobody is told of a cancellation that was not asked for, a cancel
after the answer is 404, and deadlines always answer (in the Rust server as long
as hanging statements leave it a thread).

*The web client*:

| Property | Says |
|---|---|
| `OneAnswer`, `CancelledIsAnswered` | a query over the socket ends once, and a cancelled one does end, on a server that can end it |
| `SettledWhenIdle`, `RunsInOrder` | statements run in order, none twice, none stays running on display |
| `ShownIsStored`, `OthersUntouched` | tabs and whitelist shown are those stored; a switch writes nobody else's |
| `ShownIsCurrent` | the page, the catalog, the light and the keys shown are those asked for last (a commit's reload asks for the page of its click) |
| `CommittedIsShown` | a commit leaves each row as the grid showed it |
| `ReportIsTrue`, `NoTxLeft` | sync, import and structure change report what happened; no transaction stays open; each exception is named |
| `MappingIsMeant`, `ConfigFitsTarget` | each value goes to its column (in an update or upsert: without a gap in the mapping), and the columns are those of the target |
| `UndoGoesBack`, `LostOnlySo`, `NothingUnasked` | undo restores; presets are lost in seven known ways only; a preset in the way of one from the bin and a risky item of a backup are asked about |
| `RunsWhatWasPicked`, `ExportIsPicked`, `ViewsAddUp`, `TextsSurvive` | picks run once and where they belong; exports, sums and texts are right |

Where the program is weaker than one would like, the property says exactly how
far it holds, and section 6 lists the gap.

What the others show, in a sentence each; the quotations are in `PROJECT.json`.

* `rust_zombie_tx`: a transaction that is borrowed or being begun while its
  connection is disconnected comes back into the registry afterwards.
* `rust_read_only`: between the insertion into `connections` and the one into
  `read_only` a writing statement passes the check.
* `mssql_lost_commit`: begin tran nests, so one client's rollback undoes what
  another was told is committed.
* `sqlite_stuck`: a commit that fails leaves the session in a transaction the
  registry has forgotten.
* `go_orphan_manager`: a begin overtaken by a disconnect makes a registry for
  a closed connection; after a reconnect begins go to the closed driver.
* `go_cancel_hangs`: the Go handler does not wait for its own cancellation.
* `web_stale_run`: after a switch, Ctrl+Enter and the palette run the text on
  the connection of an earlier render.

**Fairness.**  QueryRegistry: weak fairness of `Spawn`, `Begin`, `Select`,
`Unregister` (the scheduler runs a task that is ready whenever a thread is free,
which is their guard `Scheduled`) and `Expire` (clocks advance).  None is assumed
of `WorkerEnds`: both handlers say that a running statement cannot be
interrupted.  So in the Rust server as many sqlite statements that hang as there
are threads stop everything, timers included; `DeadlineMet` and `RustCancelEnds`
are about the runs in which a thread stays free from some time on
(`<>[]Scheduled`).  The Go runtime has a thread for each blocking call.  WsClient, and the socket machine of `web`: weak fairness of a
connection attempt ending one way or the other, of a close event once a socket
is closed (both are promises of browsers), and, if `stops`, of the server
answering a query that it was asked to cancel.  `stops` is chosen at the start: it
is true of the Rust server over a driver that awaits its database, since `ws.rs`
polls the statement and the cancel in one task; false over sqlite and mssql,
whose calls block that task, and of the Go server, whose read loop executes the
query itself (`ws.go:231`) and reads the cancel when it has ended.
None is assumed of queries that nobody cancelled, nor of users.  `queries`,
`web` and `web_stale_run` allow deadlock because all requests may have been
served and all actions used.

## 4. Proofs

Eight modules prove 36 theorems that are properties of the runs, for every value
of the constants: any number of requests, connections, tabs, statements, tables,
rows, presets, and any limit.  The only assumptions are those that the modules
name in an ASSUME, which TLC evaluates for the runs: sets are not empty or
finite where the code indexes them, limits and bounds are natural numbers, tables are
of the shape that their types in the source give them, and `None` is
none of the values it stands beside.  Every invariant was checked by TLC before
it was proved.

Most of the properties are not inductive.  What follows says what has to be
added to them, because that is the argument why the code is right.

**The Rust core** (`RustAppCoreProofs`): `TypeOK`, `OwnedOnce`,
`OpenIsReachable`, `OnlyDisconnectDiscards` and the refinement of TxSpec.  The
inductive invariant is `TypeOK /\ OwnedOnce /\ OpenIsReachable`, none of which
is inductive alone: an entry may be put back only because nobody else has it;
a new id is fresh only because everything reachable is open and the new one is
unborn; and which requests hold an entry follows from their label and kind
(`Stack`, in `TypeOK`).  `OnlyDisconnectDiscards` then is a case analysis of the
steps that change `dbtx`; the refinement first proves that most steps leave
`status` and `running` alone (`Quiet`, `Release`) and then treats the six that
do not.

**The Go core** (`GoAppCoreProofs`): `TypeOK`, `DriverNotLeaked`, `TunnelPaired`,
`HandleNotLost` and the refinement.  `TypeInv` adds to `TypeOK` what the flight
relies on: whoever is named in `flight` is on the way to publish for that very
connection, is a lazy connect (only those join a flight), and has the driver it
opened with the configuration it loaded.  With it the three properties together
are inductive.

**One session** (`SharedSessionProofs`): for sqlite `CommittedIsDurable`,
`RolledBackIsGone` and `OwnCommitOnly`, and `TypeOK` for every dialect.  The
strengthening is `OneTransaction` (at most one transaction is active, and then
the session is in it), `WritesFollow` (an active transaction's writes are
pending, and nothing else of a transaction is) and `TakenIsOut`; `TypeOK`
needs only `NotYet`, that what nobody has written yet is nowhere.

**Queries** (`QueryRegistryProofs`), for both servers: `TypeOK`, `Cancellable`,
`CancelledWasAsked` and `NoCancelAfterAnswer`.  The last holds because an entry
is gone before its request is answered (`EntriesAreLive`), the one before
because only a cancel touches the permit or context of a handler that has not
returned (`CancelledByCancel`).

**The web client.**  The invariants of the machines are proved in three modules,
each over its own part of `Web`.  `WebProofs` has the rest: a step of `Web` that
ends in a machine is a step or a stutter of that machine (the lemmas named
`...Moves`), so the conjunction of the machines' invariants, each under its
`machine = ...`, is inductive (`WebInv`), and the theorems follow from it.  The
types of the variables are a second conjunction (`TypesInv`), inductive given the
first; the lemmas about them stand at the end of each of the three modules.

*The workspace* (`WebQueryProofs`):

* `OneAnswer`, from `HandlerIsOne`: a handler waits on the one socket its call
  works with, and only before its callback.
* `SettledWhenIdle` and `RunsInOrder`, from `InFlight`: the statement under way is
  the one sent last, every statement of the run that is neither it nor still to
  do has an outcome, those still to do come later, and a rerun has only failures
  to do.
* `ShownIsStored` and `OthersUntouched`.  For the editor `EditorInv`: the ids of a
  list are different and the active one is among them; when no timer is armed
  and no switch is on its way the text is that of the active tab and the list is
  stored; and whatever is stored is stored under the connection then on display
  (`StoresCurrent`), since the timer reads the refs and not its own render.
* `RunsWhatWasPicked`, from `WaitingIsPicked`: what waits for a workbench is the
  last pick and has not run.  `AliveIsCurrent`: only pings of the selected
  connection are still believed, which is the light's part of `ShownIsCurrent`.

*Pages that read and change a schema* (`WebPageProofs`):

* The rest of `ShownIsCurrent`, but for the table's page.  `CatalogInv` says of
  each kind of answer on its way whom it is for.  `PanelOk`, for whoever waits
  for each Redis answer: there is at most one request or answer, it is about what
  is on display, and while a save is unread or a database is being selected the
  panel may be behind.
* The sync runs on scripts of a shape (`Shaped`: every statement is there, and a
  transaction that begins later begins before any of them), and `Knows` says
  that a run which has not failed sees the schema it found changed by just the
  statements it has passed, in its transaction or outside, and that a transaction
  that can be rolled back has left the schema as it was.
* The structure editor: `ChangeKnows` says at each await what has been done, what
  is held back and what is lost, for every dialect.

* `UndoIsNewest`, for `UndoGoesBack`: until redo is used the undo stack is the
  newest part of the options before each fix, so the cap cuts off the other end.
  `BackupInv`, for the backup's part of `NothingUnasked`: the undo of a backup holds what was there
  before the last apply, and a risky item that is ticked was ticked by hand.

*Lists and data that is changed* (`WebListProofs`): the rest of `ReportIsTrue`,
`NoTxLeft` and `ShownIsCurrent`, `CommittedIsShown`, `ConfigFitsTarget`,
`LostOnlySo`, `MappingIsMeant`, `ExportIsPicked` and `ViewsAddUp`.

* The import: a run keeps the modal busy and closing it sends its rollback once
  (`RunIsBusy`); a transaction found at the begin has a rollback on the way or
  lost (`FoundIsAccounted`); every row the loop has passed is in the transaction
  or listed as failed (`LoopKnows`).
* The table editor: the page asked for last is the one that counts (`PagesInv`).
  The queue has one change for each row and type (`QueueOk`),
  so what the grid shows of a row, and what the statements make of it, are both
  what its one change makes of the row (`Makes`).  `ClickOk` keeps the first since
  the click; `ViewOk` the second, for the statements run so far, in the
  transaction's view; when all have run the two are about the same changes.
* `ConfigOfColumns`: the columns loaded are those of a table of the connection,
  the mapping names only columns loaded, and from the mapping step on they are
  the columns of the target unless it was left in one of the two ways marked
  `stray`.
* `Limited` and `OneTombstone`: no list is longer than its limit and no table is in
  the bin twice; then a cleanup loses a preset only if it buries more than the
  bin holds, and a save or a restore loses one only if it has expired.
* The mapping (`MappingIsMeant`): `MapInv` only says that a row typed over has the
  file's columns.  The rest is about `buildStatements`, whose parameters are
  written by one reader of the mapping and named by others: both go through the
  mapped columns in order, so the n-th parameter and the n-th name are of the same
  column (`ParametersMatch`, `LabelsMatch`), in an update or upsert as long as the
  mapped columns are the first ones, where a number in the file and a place among
  the mapped columns are the same; the columns of an update that are no
  keys come first and the keys after them, with no number left between the two
  (`NoGap`), and nothing that was left out is among either (`LeftOutStay`).
* The result grid (`ExportIsPicked`): `GridInv` says that the rows selected were
  clicked while this result was on display, and that the commands a palette
  holds are of it.  What leaves the grid is a filter of the rows by what was
  picked, in their order; the bars of a chart add up to the column it is drawn of.
* The query log (`ViewsAddUp`): `LogInv` has the entries newest first, all of them
  run, and what is kept the newest of each statement and of all; the order in time is
  what makes both caps cut off the oldest.  The rows of a view are a
  partition of what the filters leave (`RowsCountAll`).  What the limit cuts off is
  no slower than what is shown (`SqlRowsAre`): the rows above a given row are
  above every slower or equal row below it, so a row cut off has more above it.

*The types* (`TypesHold`): `TypeOK` of `Web` holds for all 21 machines, and few of its
parts are inductive by themselves.  The selection of the grid is one of rows and the
sort one of columns because a new result resets both (`ChosenTyped`); what a
Redis panel has asked says what its answer may hold (`RedisWires`); an action
of the object tabs is on a strip with its workbench first and each tab
once, which filtering and reordering keep (`StripTyped`); the mapping a suggestion
makes is one because every column it adds was free (`Suggest`); a failure of an import
is of a row of the file, also while it is sent again (`FailuresTyped`); and a count of
placeholders is no longer than its text (`MarksAreFew`).

Three kinds of lemmas stand under these.  `filter` and `slice`: a list of the
numbers of a set in order is a matter of counting, and `NumbersInOrder` gets from
the pigeonhole principle that each place of the list has one number; the same for
a list sorted by a key (`RankedIs`).  Sums: a fold over a finite set is an induction
over its subsets, which is stated with a set in the place of the operator
(`SubsetInduction`), so that `SumIs` and `SumOfParts` (the sums over the parts of a
set make the sum over the set) can be proved and cited.

**Only model-checked.**

* Liveness, which TLAPS does not do under fairness: `DeadlineMet`,
  `CancelledIsAnswered`, and `RustCancelEnds`.
* `TextsSurvive`: the scanners of SQL and CSV are recursive functions of a text, and
  what they compute for every text needs induction over texts.
* The runs that show violations.

## 5. Not modelled

Servers: creating connections and secrets, metadata, browsing and Redis calls
through the cores add the same ensure-then-call shape as `execute`.  The DSN
builders, SQL text, value conversion and the protocol's encodings are text and
are covered by shared vectors.  Restarts: both servers keep transactions and
queries in memory only, so a restart is `Init`.  The servers' socket sessions,
blobs, the keyring and the repository's locking are not modelled; three hazards
of theirs are listed without a property.

Web client: formatting and linting of SQL, completion, templates, the drawing of
grids, charts, maps and plans, column widths, themes and dialogs; the text of
reports, exports other than CSV, and of literals and DDL in each dialect;
decoding of files; search, tags and statistics of the preset manager.  They
either keep no state or only state that nothing else reads.  `localStorage` does
not fail in the models, and one page uses it; two pages of one browser overwrite
each other's tabs and presets, which no code here tries to prevent.

The components listed as `not_modelled` in `PROJECT.json` have their reasons
there.

## 6. Observations

Met while modelling, besides the findings in `PROJECT.json`; the models contain
these behaviours, and the properties are stated so that they hold beside them.

*Query workspace.*  A statement that ends after a switch is recorded in the log
under the new connection (`QueryWorkspace.tsx:681`).  A switch clears the result
but not `busy`.  A
text typed less than 300 ms before a switch of the connection is lost.  The
palette's exports, like its run, keep stale closures (`:2761`).

*Socket.*  A socket the server has dropped is not marked closed, so the next query
of the same connection is put on it and never answered (`ws.ts:90`).  The same
test lets a query use a client that is still connecting: `send` throws with the
handler already in the map.

*Log and shell.*  The pattern for block comments in `normalizeSqlForHash`
(`runStats.ts:21`) ends at `**` instead of `*/`, so most of them stay.  A pick
whose connection is unknown runs at once on the current one (`App.tsx:229`).  A list of schemas, a search
result or a Redis answer that comes after a switch is shown: of those,
`CatalogIsOfConnection` and `RightWhenUnhurried` speak only for a user who waits
for each answer.

*Registry.*  With sqlite, whose `execute` blocks its worker thread
(`db-sqlite/src/driver.rs:366`), hanging statements, as many as there are threads,
stop timers and cancels as well; the server's own test of timeouts asks for
`worker_threads = 4` (`server/src/tests.rs:373`).

*Table editing.*  A commit whose answer is lost can be repeated, and inserts
its new rows again; so can a second click on commit.  The reload after a commit
is that of the render that was clicked (`TableDataView.tsx:266`): if the filter or
the page has changed while the commit was awaited, the rows of before are asked
for last and shown under the new filter.

*Compare and sync.*  Changing source or target keeps the script of the earlier
pair.  A lost answer of a commit or a statement counts as a failure.

*Structure editor.*  In MySQL and Oracle a DDL statement has committed when the
editor says it was rolled back (`TableStructureEditor.tsx:130`, `:205`), also when
no answer was lost and it is only the commit that fails; `MessageIsTrue` excepts
these two databases.  A begin whose answer is lost leaves a transaction open.  In
PostgreSQL and sqlite an added column is never declared NOT NULL, whatever the
box says (`alterSql.ts:179`).  A drop
can be run with nothing chosen.

*Import.*  In an update or upsert `convertParams` has a value for each mapped
column, and the statements look into it with the number of the column in the file
(`importData.ts:510-519`, `:536`, `:551`): behind an unmapped column every value
goes to the next column.  With `skipFailed` on Postgres a failed statement aborts
the transaction, the commit is then a rollback, and the import is recorded as
partial although it kept nothing (`ImportModal.tsx:2093-2126`).  A begin whose
answer is lost leaves a transaction that nothing rolls back (`:2009`, `:2165`).
Closing the modal during `beginTransaction` lets the run go on and
commit.  A lost answer of a commit is reported as a failure.  The rows of a
retry are numbered within the retried subset.  Redo of the fix just undone sets
the options from before it, so it changes nothing.  The stacks stored in
`localStorage` are cleared by an effect at every mount (`ImportModal.tsx:968`).
A late `listSchemas` replaces the schema that a jump has chosen (`:1140`).
`diffPreset` calls two presets aligned that map the same columns from different
places, and the list of snapshots then restores one without a question, as if it
had no effect (`Step4Preview.tsx:2944`, `:3058`); the list of the mapping step
(`RestoreHere`) restores any without a question, whatever columns it changes.  No
property claims otherwise.  Three texts say that an undo
returns to the earlier configuration (`:2881`, `:3023`, `:3164`); it restores the
options, and not the mapping.

*Presets.*  The snapshots kept are the oldest five, not the newest.  A snapshot
has the time of the preset it was, not that of its replacement, and is listed and
restored for thirty days after it (`importPresets.ts:135`, `:143`, `:162`): the
version of a preset older than that is gone with the next save or restore, and a
restore over a preset whose version is among the expired ones loses it too.  "Clear and
reset" deletes a preset without a tombstone.  A cleanup of
more than twenty dead presets pushes the first of them out of the bin, although
the message after it says that they can be restored there
(`PresetManager.tsx:3756`, `importPresets.ts:245`).  The seven ways in which a
version can be lost are spelled out in `PresetStore`'s `LostOnlySoStep`.

*Result grid.*  The command that copies a column is labelled 整列（可见行） and
copies all rows, the filtered ones too; labels are not in the models.

*Texts.*  `countParams` of the editor does not know the quotes ` and [ that the
splitter knows, so a `?` inside such a name shifts every later parameter;
`ParamsLineUp` is stated for texts without them.  `toCsv` quotes no header, and
`csvEscape` no lone carriage return; `ExportComesBack` says for which tables
the way back is exact.

## 7. Plan

1. done: the servers' modules, each with its safety properties proved, the two
   refinements of TxSpec among them.
2. done: the web client (21 machines), with 18 of its 20 properties proved.
3. **WsSession**: the servers' socket sessions, composed with WsClient in place
   of its free environment.
4. **ConnectionStore** and **BlobStore**: processes that may crash between a
   read and a write.
