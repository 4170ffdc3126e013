----------------------------- MODULE GoAppCore -----------------------------
(***************************************************************************)
(* The Go application core (go/pkg/appcore/appcore.go): connecting lazily  *)
(* (coalesced by a singleflight group), explicitly or to test; executing;  *)
(* transactions, registered per connection in a TxManager of the external  *)
(* module dbcore; disconnecting; deleting.                                 *)
(*                                                                         *)
(* One mutex `mu` protects all the maps and is never held across driver    *)
(* I/O, except to close a driver, so a step of this module is one critical *)
(* section of one request, or one driver call.  The manager has a lock of  *)
(* its own, and makes its driver calls outside it.                         *)
(***************************************************************************)
CONSTANTS
  Callers,   \* requests being served at once
  Conns,     \* connection ids, all of them rows of the storage initially
  Drivers,   \* driver instances; the tunnel opened for a driver has its name
  Managers,  \* instances of dbcore.TxManager
  Txns,      \* transaction ids
  Configs,   \* what a row may say: [read_only, ssh : BOOLEAN]
  None       \* no entry

ASSUME ConfigsAssumption ==
  /\ Configs # {}
  /\ Configs \subseteq [read_only : BOOLEAN, ssh : BOOLEAN]

VARIABLES
  repo,        \* repo[c]: the row of c
  connections, \* connections[c]: its open driver
  readOnly,    \* readOnly[c]: its read_only when it was opened
  tunnels,     \* tunnels[c]: its tunnel
  txManagers,  \* txManagers[c]: its transaction registry
  txMeta,      \* txMeta[t]: the connection of transaction t
  flight,      \* flight[c]: the request that connects for all who wait
  live,        \* drivers that are open
  opened,      \* opened[d]: the configuration d was opened with
  bound,       \* bound[m]: the driver manager m begins transactions on
  entries,     \* entries[t]: the manager in whose registry t is
  dbtx,        \* dbtx[t]: what the database made of t
  pc, op,      \* what each request does next, and what it was asked
  drv, mgr, tx \* the driver, manager and transaction it has in hand

core == <<connections, readOnly, tunnels, txManagers, txMeta>>
drivers == <<live, opened>>
kernel == <<bound, entries, dbtx>>
stack == <<pc, op, drv, mgr, tx>>
vars == <<repo, core, flight, drivers, kernel, stack>>

Kinds == {"connect", "test", "execute", "begin", "disconnect", "delete",
          "execute_in_tx", "commit", "rollback"}

Request == [kind : Kinds, conn : Conns, write : BOOLEAN]

ASSUME NoneAssumption ==
  /\ None \notin Callers
  /\ None \notin Conns
  /\ None \notin Drivers
  /\ None \notin Managers
  /\ None \notin Txns
  /\ None \notin Configs
  /\ None \notin Request

Labels == {"idle", "check", "ensure", "flight", "wait", "recheck", "load",
           "open", "publish", "get", "run", "manager", "begin_db", "insert",
           "meta", "take", "run_tx", "finalize", "forget", "disconnect",
           "rollback_all", "delete_row"}

Outcomes == {"unborn", "open", "committed", "rolled_back"}

\* Where a request is of no use without what it has in hand.
HasDriver == {"publish", "run", "manager"}
HasManager == {"begin_db", "insert", "take", "run_tx", "rollback_all"}
HasTx == {"insert", "meta", "take", "run_tx", "finalize", "forget"}

TypeOK ==
  /\ repo \in [Conns -> Configs \cup {None}]
  /\ connections \in [Conns -> Drivers \cup {None}]
  /\ readOnly \in [Conns -> BOOLEAN \cup {None}]
  /\ tunnels \in [Conns -> Drivers \cup {None}]
  /\ txManagers \in [Conns -> Managers \cup {None}]
  /\ txMeta \in [Txns -> Conns \cup {None}]
  /\ flight \in [Conns -> Callers \cup {None}]
  /\ live \subseteq Drivers
  /\ opened \in [Drivers -> Configs \cup {None}]
  /\ bound \in [Managers -> Drivers \cup {None}]
  /\ entries \in [Txns -> Managers \cup {None}]
  /\ dbtx \in [Txns -> Outcomes]
  /\ pc \in [Callers -> Labels]
  /\ op \in [Callers -> Request \cup {None}]
  /\ drv \in [Callers -> Drivers \cup {None}]
  /\ mgr \in [Callers -> Managers \cup {None}]
  /\ tx \in [Callers -> Txns \cup {None}]
  /\ \A p \in Callers :
       /\ pc[p] = "idle" <=> op[p] = None
       /\ pc[p] \in HasDriver => drv[p] # None
       /\ pc[p] \in HasManager => mgr[p] # None
       /\ pc[p] \in HasTx => tx[p] # None
       \* Whoever waits waits for somebody who is on the way.
       /\ pc[p] = "wait" => flight[op[p].conn] # None
  /\ \A c \in Conns : flight[c] # None =>
       /\ pc[flight[c]] \in {"recheck", "load", "open", "publish"}
       /\ op[flight[c]].conn = c

Init ==
  /\ repo \in [Conns -> Configs]
  /\ connections = [c \in Conns |-> None]
  /\ readOnly = [c \in Conns |-> None]
  /\ tunnels = [c \in Conns |-> None]
  /\ txManagers = [c \in Conns |-> None]
  /\ txMeta = [t \in Txns |-> None]
  /\ flight = [c \in Conns |-> None]
  /\ live = {}
  /\ opened = [d \in Drivers |-> None]
  /\ bound = [m \in Managers |-> None]
  /\ entries = [t \in Txns |-> None]
  /\ dbtx = [t \in Txns |-> "unborn"]
  /\ pc = [p \in Callers |-> "idle"]
  /\ op = [p \in Callers |-> None]
  /\ drv = [p \in Callers |-> None]
  /\ mgr = [p \in Callers |-> None]
  /\ tx = [p \in Callers |-> None]

Goto(p, label) == pc' = [pc EXCEPT ![p] = label]

\* The requests in S end; nothing is left on their stacks.
ReturnAll(S) ==
  /\ pc' = [q \in Callers |-> IF q \in S THEN "idle" ELSE pc[q]]
  /\ op' = [q \in Callers |-> IF q \in S THEN None ELSE op[q]]
  /\ drv' = [q \in Callers |-> IF q \in S THEN None ELSE drv[q]]
  /\ mgr' = [q \in Callers |-> IF q \in S THEN None ELSE mgr[q]]
  /\ tx' = [q \in Callers |-> IF q \in S THEN None ELSE tx[q]]

Return(p) == ReturnAll({p})

Move(p, label) == Goto(p, label) /\ UNCHANGED <<op, drv, mgr, tx>>

-----------------------------------------------------------------------------
(* Requests arriving.                                                      *)

Ask(p, k, c, w) ==
  /\ pc[p] = "idle"
  /\ op' = [op EXCEPT ![p] = [kind |-> k, conn |-> c, write |-> w]]
  /\ \/ k \in {"connect", "test"} /\ ~w /\ Goto(p, "load")
     \/ k = "execute" /\ Goto(p, IF w THEN "check" ELSE "ensure")
     \/ k = "begin" /\ ~w /\ Goto(p, "ensure")
     \/ k \in {"disconnect", "delete"} /\ ~w /\ Goto(p, "disconnect")
  /\ UNCHANGED <<repo, core, flight, drivers, kernel, drv, mgr, tx>>

\* txContext: the metadata gives the connection, the connection the manager;
\* if either is missing the answer is TRANSACTION_NOT_FOUND.
TxContext(p, t, k, w) ==
  /\ pc[p] = "idle"
  /\ k \in {"execute_in_tx", "commit", "rollback"}
  /\ w => k = "execute_in_tx"
  /\ LET c == txMeta[t] IN
       /\ c # None
       /\ txManagers[c] # None
       /\ op' = [op EXCEPT ![p] = [kind |-> k, conn |-> c, write |-> w]]
       /\ mgr' = [mgr EXCEPT ![p] = txManagers[c]]
  /\ tx' = [tx EXCEPT ![p] = t]
  /\ Goto(p, IF w THEN "check" ELSE "take")
  /\ UNCHANGED <<repo, core, flight, drivers, kernel, drv>>

UpdateConnection(c, cfg) ==
  /\ repo[c] # None
  /\ repo' = [repo EXCEPT ![c] = cfg]
  /\ UNCHANGED <<core, flight, drivers, kernel, stack>>

\* isReadOnly and rejectWriteOnReadOnly, for a statement that mutates data.
\* The row is read after the flag of the open connection; that the two reads
\* are one step here is of no consequence to what this module states.
Check(p) ==
  /\ pc[p] = "check"
  /\ LET c == op[p].conn
         ro == IF readOnly[c] # None THEN readOnly[c]
               ELSE repo[c] # None /\ repo[c].read_only
     IN IF ro THEN Return(p)
              ELSE Move(p, IF op[p].kind = "execute" THEN "ensure" ELSE "take")
  /\ UNCHANGED <<repo, core, flight, drivers, kernel>>

-----------------------------------------------------------------------------
(* ensure, its singleflight group, and Connect.                            *)

\* What follows once a request for a connection has its driver.
UseDriver(p, d) ==
  /\ drv' = [drv EXCEPT ![p] = d]
  /\ Goto(p, IF op[p].kind = "begin" THEN "manager" ELSE "run")
  /\ UNCHANGED <<op, mgr, tx>>

Ensure(p) ==
  /\ pc[p] = "ensure"
  /\ LET d == connections[op[p].conn] IN
       IF d # None THEN UseDriver(p, d) ELSE Move(p, "flight")
  /\ UNCHANGED <<repo, core, flight, drivers, kernel>>

\* connectSF.Do: join the flight of this connection or start one.
Fly(p) ==
  /\ pc[p] = "flight"
  /\ LET c == op[p].conn IN
       IF flight[c] # None
         THEN Move(p, "wait") /\ UNCHANGED flight
         ELSE Move(p, "recheck") /\ flight' = [flight EXCEPT ![c] = p]
  /\ UNCHANGED <<repo, core, drivers, kernel>>

\* The flight of p lands; everybody in it has the same result.
Aboard(p) ==
  {p} \cup {q \in Callers : pc[q] = "wait" /\ op[q].conn = op[p].conn}

\* Mutant of Land: the flight ends but those who wait for it are not told.
LandAlone(p, ok) ==
  /\ flight' = [flight EXCEPT ![op[p].conn] = None]
  /\ IF ok THEN Move(p, "get") ELSE Return(p)

Land(p, ok) ==
  /\ flight' = [flight EXCEPT ![op[p].conn] = None]
  /\ IF ok
       THEN /\ pc' = [q \in Callers |-> IF q \in Aboard(p) THEN "get"
                                                           ELSE pc[q]]
            /\ UNCHANGED <<op, drv, mgr, tx>>
       ELSE ReturnAll(Aboard(p))

Recheck(p) ==
  /\ pc[p] = "recheck"
  /\ IF connections[op[p].conn] # None
       THEN Land(p, TRUE)
       ELSE Move(p, "load") /\ UNCHANGED flight
  /\ UNCHANGED <<repo, core, drivers, kernel>>

\* Connect returns to whoever called it.
Connected(p, ok) ==
  IF op[p].kind \in {"connect", "test"}
    THEN /\ IF ok /\ op[p].kind = "test" THEN Move(p, "disconnect")
                                         ELSE Return(p)
         /\ UNCHANGED flight
    ELSE Land(p, ok)

\* Names nothing refers to any more.
UnusedManager(m) ==
  /\ \A c \in Conns : txManagers[c] # m
  /\ \A p \in Callers : mgr[p] # m
  /\ \A t \in Txns : entries[t] # m

Unused(d) ==
  /\ d \notin live
  /\ \A c \in Conns : connections[c] # d /\ tunnels[c] # d
  /\ \A p \in Callers : drv[p] # d
  /\ \A m \in Managers : bound[m] = d => UnusedManager(m)

\* The row is read, and the driver it describes will be opened; without a
\* row, or when the bound Drivers is used up, Connect fails.
LoadRow(p) ==
  /\ pc[p] = "load"
  /\ LET row == repo[op[p].conn] IN
       \/ /\ row # None
          /\ \E d \in Drivers :
               /\ Unused(d)
               /\ drv' = [drv EXCEPT ![p] = d]
               /\ opened' = [opened EXCEPT ![d] = row]
          /\ Goto(p, "open")
          /\ UNCHANGED <<op, mgr, tx, flight>>
       \/ /\ row = None \/ ~\E d \in Drivers : Unused(d)
          /\ Connected(p, FALSE)
          /\ UNCHANGED opened
  /\ UNCHANGED <<repo, core, live, kernel>>

\* Tunnel, driver and ping; when one fails the others are closed again.
Open(p) ==
  /\ pc[p] = "open"
  /\ \/ /\ live' = live \cup {drv[p]}
        /\ Move(p, "publish")
        /\ UNCHANGED flight
     \/ Connected(p, FALSE) /\ UNCHANGED live
  /\ UNCHANGED <<repo, core, opened, kernel>>

\* Mutant of Publish: the replaced driver is not closed.
PublishLeaks(p) ==
  /\ pc[p] = "publish"
  /\ LET c == op[p].conn IN
       /\ live' = live
       /\ connections' = [connections EXCEPT ![c] = drv[p]]
       /\ readOnly' = [readOnly EXCEPT ![c] = opened[drv[p]].read_only]
       /\ tunnels' = [tunnels EXCEPT
                        ![c] = IF opened[drv[p]].ssh THEN drv[p] ELSE None]
  /\ Connected(p, TRUE)
  /\ UNCHANGED <<repo, txManagers, txMeta, opened, kernel>>

\* Mutant of Publish: the tunnel is stored when there is a new one, and the
\* old one otherwise kept.
PublishKeepsTunnel(p) ==
  /\ pc[p] = "publish"
  /\ LET c == op[p].conn IN
       /\ live' = live \ {connections[c]}
       /\ connections' = [connections EXCEPT ![c] = drv[p]]
       /\ readOnly' = [readOnly EXCEPT ![c] = opened[drv[p]].read_only]
       /\ tunnels' = [tunnels EXCEPT
                        ![c] = IF opened[drv[p]].ssh THEN drv[p] ELSE @]
  /\ Connected(p, TRUE)
  /\ UNCHANGED <<repo, txManagers, txMeta, opened, kernel>>

\* One critical section: what was open is closed and replaced.  Transactions
\* and their manager are left alone.
Publish(p) ==
  /\ pc[p] = "publish"
  /\ LET c == op[p].conn IN
       /\ live' = live \ {connections[c]}
       /\ connections' = [connections EXCEPT ![c] = drv[p]]
       /\ readOnly' = [readOnly EXCEPT ![c] = opened[drv[p]].read_only]
       /\ tunnels' = [tunnels EXCEPT
                        ![c] = IF opened[drv[p]].ssh THEN drv[p] ELSE None]
  /\ Connected(p, TRUE)
  /\ UNCHANGED <<repo, txManagers, txMeta, opened, kernel>>

\* get: a disconnect may have come between.
Get(p) ==
  /\ pc[p] = "get"
  /\ LET d == connections[op[p].conn] IN
       IF d # None THEN UseDriver(p, d) ELSE Return(p)
  /\ UNCHANGED <<repo, core, flight, drivers, kernel>>

\* The statement of a plain execute ends, well or badly.
Executed(p) ==
  /\ pc[p] = "run"
  /\ Return(p)
  /\ UNCHANGED <<repo, core, flight, drivers, kernel>>

-----------------------------------------------------------------------------
(* BeginTransaction.                                                       *)

\* txManagerForLocked: the connection's manager, or a new one for the driver
\* the request has.  (When the bound Managers is used up the request ends.)
ManagerFor(p) ==
  /\ pc[p] = "manager"
  /\ LET m == txManagers[op[p].conn] IN
       \/ /\ m # None
          /\ mgr' = [mgr EXCEPT ![p] = m]
          /\ Goto(p, "begin_db")
          /\ UNCHANGED <<txManagers, bound, op, drv, tx>>
       \/ /\ m = None
          /\ \E n \in Managers :
               /\ UnusedManager(n)
               /\ bound' = [bound EXCEPT ![n] = drv[p]]
               /\ txManagers' = [txManagers EXCEPT ![op[p].conn] = n]
               /\ mgr' = [mgr EXCEPT ![p] = n]
          /\ Goto(p, "begin_db")
          /\ UNCHANGED <<op, drv, tx>>
       \/ /\ m = None
          /\ ~\E n \in Managers : UnusedManager(n)
          /\ Return(p)
          /\ UNCHANGED <<txManagers, bound>>
  /\ UNCHANGED <<repo, connections, readOnly, tunnels, txMeta, flight, drivers,
                 entries, dbtx>>

\* TxManager.Begin: the driver call, which a closed driver refuses, ...
BeginDb(p) ==
  /\ pc[p] = "begin_db"
  /\ \/ /\ bound[mgr[p]] \in live
        /\ \E t \in Txns :
             /\ dbtx[t] = "unborn"
             /\ dbtx' = [dbtx EXCEPT ![t] = "open"]
             /\ tx' = [tx EXCEPT ![p] = t]
        /\ Goto(p, "insert")
        /\ UNCHANGED <<op, drv, mgr>>
     \/ Return(p) /\ UNCHANGED dbtx
  /\ UNCHANGED <<repo, core, flight, drivers, bound, entries>>

\* ... then the registry.
Insert(p) ==
  /\ pc[p] = "insert"
  /\ entries' = [entries EXCEPT ![tx[p]] = mgr[p]]
  /\ Move(p, "meta")
  /\ UNCHANGED <<repo, core, flight, drivers, bound, dbtx>>

Meta(p) ==
  /\ pc[p] = "meta"
  /\ txMeta' = [txMeta EXCEPT ![tx[p]] = op[p].conn]
  /\ Return(p)
  /\ UNCHANGED <<repo, connections, readOnly, tunnels, txManagers, flight,
                 drivers, kernel>>

-----------------------------------------------------------------------------
(* ExecuteInTx, Commit and Rollback of the manager.                        *)

\* Mutant of Take: the entry stays registered while it is used.
TakeShared(p) ==
  /\ pc[p] = "take"
  /\ IF entries[tx[p]] = mgr[p]
       THEN Move(p, IF op[p].kind = "execute_in_tx" THEN "run_tx"
                                                    ELSE "finalize")
       ELSE Return(p)
  /\ UNCHANGED <<repo, core, flight, drivers, kernel>>

\* The entry is taken out of the registry for as long as the request uses it.
Take(p) ==
  /\ pc[p] = "take"
  /\ IF entries[tx[p]] = mgr[p]
       THEN /\ entries' = [entries EXCEPT ![tx[p]] = None]
            /\ Move(p, IF op[p].kind = "execute_in_tx" THEN "run_tx"
                                                       ELSE "finalize")
       ELSE Return(p) /\ UNCHANGED entries
  /\ UNCHANGED <<repo, core, flight, drivers, bound, dbtx>>

\* Mutant of ExecutedInTx: a failed statement returns before the entry is put
\* back.
ExecutedInTxForgets(p) ==
  /\ pc[p] = "run_tx"
  /\ \/ entries' = [entries EXCEPT ![tx[p]] = mgr[p]]
     \/ UNCHANGED entries
  /\ Return(p)
  /\ UNCHANGED <<repo, core, flight, drivers, bound, dbtx>>

\* A statement ends, well or badly, and the entry goes back.
ExecutedInTx(p) ==
  /\ pc[p] = "run_tx"
  /\ entries' = [entries EXCEPT ![tx[p]] = mgr[p]]
  /\ Return(p)
  /\ UNCHANGED <<repo, core, flight, drivers, bound, dbtx>>

\* The driver's commit or rollback ends; a commit can fail.
Finalize(p) ==
  /\ pc[p] = "finalize"
  /\ \E o \in (IF op[p].kind = "commit" THEN {"committed", "rolled_back"}
                                        ELSE {"rolled_back"}) :
       dbtx' = [dbtx EXCEPT ![tx[p]] = o]
  /\ Move(p, "forget")
  /\ UNCHANGED <<repo, core, flight, drivers, bound, entries>>

Forget(p) ==
  /\ pc[p] = "forget"
  /\ txMeta' = [txMeta EXCEPT ![tx[p]] = None]
  /\ Return(p)
  /\ UNCHANGED <<repo, connections, readOnly, tunnels, txManagers, flight,
                 drivers, kernel>>

\* An entry in the registry is rolled back without its client asking.
Reclaim(t) ==
  /\ entries' = [entries EXCEPT ![t] = None]
  /\ dbtx' = [dbtx EXCEPT ![t] = "rolled_back"]

\* The manager's sweeper, until the manager is closed: idle entries and, over
\* capacity, the oldest.  Their metadata stays.
Sweep(t) ==
  /\ entries[t] # None
  /\ \/ \E c \in Conns : txManagers[c] = entries[t]
     \/ \E p \in Callers : pc[p] = "rollback_all" /\ mgr[p] = entries[t]
  /\ Reclaim(t)
  /\ UNCHANGED <<repo, core, flight, drivers, bound, stack>>

-----------------------------------------------------------------------------
(* Disconnect and DeleteConnection.                                        *)

Disconnected(p) ==
  IF op[p].kind = "delete" THEN Move(p, "delete_row") ELSE Return(p)

\* One critical section empties all the maps ...
Disconnect(p) ==
  /\ pc[p] = "disconnect"
  /\ LET c == op[p].conn IN
       /\ live' = live \ {connections[c]}
       /\ connections' = [connections EXCEPT ![c] = None]
       /\ readOnly' = [readOnly EXCEPT ![c] = None]
       /\ tunnels' = [tunnels EXCEPT ![c] = None]
       /\ txManagers' = [txManagers EXCEPT ![c] = None]
       /\ txMeta' = [t \in Txns |-> IF txMeta[t] = c THEN None ELSE txMeta[t]]
       /\ IF txManagers[c] = None
            THEN Disconnected(p)
            ELSE /\ mgr' = [mgr EXCEPT ![p] = txManagers[c]]
                 /\ Goto(p, "rollback_all")
                 /\ UNCHANGED <<op, drv, tx>>
  /\ UNCHANGED <<repo, flight, opened, kernel>>

\* ... and outside it what is in the manager's registry is rolled back, one
\* transaction after the other, and the manager closed.
RollbackOne(p, t) ==
  /\ pc[p] = "rollback_all"
  /\ entries[t] = mgr[p]
  /\ Reclaim(t)
  /\ UNCHANGED <<repo, core, flight, drivers, bound, stack>>

RolledBack(p) ==
  /\ pc[p] = "rollback_all"
  /\ \A t \in Txns : entries[t] # mgr[p]
  /\ Disconnected(p)
  /\ UNCHANGED <<repo, core, flight, drivers, kernel>>

DeleteRow(p) ==
  /\ pc[p] = "delete_row"
  /\ repo' = [repo EXCEPT ![op[p].conn] = None]
  /\ Return(p)
  /\ UNCHANGED <<core, flight, drivers, kernel>>

-----------------------------------------------------------------------------
Arrive(p) ==
  \/ \E k \in Kinds, c \in Conns, w \in BOOLEAN : Ask(p, k, c, w)
  \/ \E t \in Txns, k \in Kinds, w \in BOOLEAN : TxContext(p, t, k, w)

Serve(p) ==
  \/ Check(p) \/ Ensure(p) \/ Fly(p) \/ Recheck(p) \/ LoadRow(p) \/ Open(p)
  \/ Publish(p) \/ Get(p) \/ Executed(p)
  \/ ManagerFor(p) \/ BeginDb(p) \/ Insert(p) \/ Meta(p)
  \/ Take(p) \/ ExecutedInTx(p) \/ Finalize(p) \/ Forget(p)
  \/ Disconnect(p) \/ RolledBack(p) \/ DeleteRow(p)
  \/ \E t \in Txns : RollbackOne(p, t)

Next ==
  \/ \E p \in Callers : Arrive(p) \/ Serve(p)
  \/ \E c \in Conns, cfg \in Configs : UpdateConnection(c, cfg)
  \/ \E t \in Txns : Sweep(t)

Spec == Init /\ [][Next]_vars

-----------------------------------------------------------------------------
(* Properties.                                                             *)

\* A driver that is open is the one of its connection or about to be: no
\* interleaving of lazy connects, explicit connects, tests and disconnects
\* loses one (comment in Connect: a replaced handle that is not closed leaks
\* for good).
DriverNotLeaked ==
  \A d \in live : \/ \E c \in Conns : connections[c] = d
                  \/ \E p \in Callers : pc[p] = "publish" /\ drv[p] = d

\* A tunnel is kept for the driver that was opened through it, and an open
\* connection whose row asked for one has its own.
TunnelPaired ==
  \A c \in Conns :
    tunnels[c] = IF connections[c] # None /\ opened[connections[c]].ssh
                   THEN connections[c] ELSE None

\* No handle is dropped: a transaction the database still has open is in some
\* manager's registry or in the hands of exactly one request.
HandleNotLost ==
  \A t \in Txns :
    LET users == {p \in Callers :
                    tx[p] = t /\ pc[p] \in {"insert", "run_tx", "finalize"}}
    IN /\ dbtx[t] = "open" <=> entries[t] # None \/ users # {}
       /\ entries[t] # None => users = {}
       /\ \A p, q \in users : p = q

\* The core keeps the promise of TxSpec.
Finalizing(t) == \E p \in Callers : tx[p] = t /\ pc[p] = "finalize"

status ==
  [t \in Txns |-> IF dbtx[t] # "open" THEN dbtx[t]
                  ELSE IF Finalizing(t) THEN "finalizing" ELSE "active"]

running == {t \in Txns : \E p \in Callers : tx[p] = t /\ pc[p] = "run_tx"}

Tx == INSTANCE TxSpec WITH Txns <- Txns, status <- status, running <- running

TxRefinement == Tx!Spec

\* "Every open connection has one transaction registry; made by
\* BeginTransaction, closed by Disconnect" (comment on AppCore.txManagers):
\* once no request is at work, the manager of a connection is that of an open
\* one.
ManagerOfOpen ==
  (\A p \in Callers : pc[p] = "idle") =>
    \A c \in Conns : txManagers[c] # None => connections[c] # None
=============================================================================
