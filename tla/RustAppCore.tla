---------------------------- MODULE RustAppCore ----------------------------
(***************************************************************************)
(* The Rust application core (rust/crates/app-core/src/lib.rs): connecting *)
(* lazily, explicitly or to test; executing; the registry of transactions  *)
(* `txs` with its borrowing guard; disconnecting; deleting.                *)
(*                                                                         *)
(* Every request runs on a worker thread of its own.  Each lock protects   *)
(* one map and is held for one access, and nothing is held across an       *)
(* await, so a step of this module is the code between two lock            *)
(* acquisitions or awaits of one request.                                  *)
(***************************************************************************)
CONSTANTS
  Callers,  \* requests the server can be serving at once
  Conns,    \* connection ids, all of them rows of the storage initially
  Drivers,  \* driver instances; the tunnel opened for a driver has its name
  Txns,     \* transaction ids (uuid::Uuid::new_v4)
  Configs,  \* what a row may say: [read_only, ssh : BOOLEAN]
  None      \* Option::None

ASSUME ConfigsAssumption ==
  /\ Configs # {}
  /\ Configs \subseteq [read_only : BOOLEAN, ssh : BOOLEAN]

VARIABLES
  storage,      \* storage[c]: the row of c, None when there is none
  connections,  \* connections[c]: the driver of an open connection
  read_only,    \* ids of the open connections that are read-only
  tunnels,      \* tunnels[c]: the tunnel kept for c
  txs,          \* keys of the map of transaction entries
  owner,        \* owner[t]: the connection_id of t's TxEntry
  dbtx,         \* dbtx[t]: what the database made of the transaction
  opened,       \* opened[d]: the configuration driver d was opened with
  pc,           \* pc[p]: what request p does next
  op,           \* op[p]: what request p was asked
  drv,          \* drv[p]: the driver p has in hand
  held,         \* held[p]: the transaction p borrowed or finalizes
  todo          \* todo[p]: entries a disconnect has still to remove

shared == <<storage, connections, read_only, tunnels>>
registry == <<txs, owner, dbtx>>
vars == <<shared, registry, opened, pc, op, drv, held, todo>>

Kinds == {"connect", "test", "ping", "execute", "begin", "execute_in_tx",
          "commit", "rollback", "disconnect", "delete"}

TxKinds == {"execute_in_tx", "commit", "rollback"}

Request == [kind : Kinds, conn : Conns, write : BOOLEAN]

ASSUME NoneAssumption ==
  /\ None \notin Drivers
  /\ None \notin Txns
  /\ None \notin Conns
  /\ None \notin Configs
  /\ None \notin Request

Outcomes == {"unborn", "open", "committed", "rolled_back"}

Connecting == {"load", "open", "publish", "publish_ro", "publish_tunnel"}
Checking == {"ro_snapshot", "ro_connected", "ro_storage"}
Dropping == {"collect", "drop_txs", "drop_ro", "drop_tunnel"}

\* Where a request of kind k can be; every other request is "idle".  A test
\* that has connected is a "ping", which may have to connect again.
CanBeAt(k, label) ==
  \/ k \in {"connect", "test", "ping", "execute", "begin"} /\ label \in Connecting
  \/ k \in {"execute", "execute_in_tx"} /\ label \in Checking
  \/ k \in {"ping", "disconnect", "delete"} /\ label \in Dropping
  \/ k \in {"ping", "execute", "begin"} /\ label \in {"ensure", "get"}
  \/ k \in {"ping", "execute", "execute_in_tx"} /\ label = "run"
  \/ k = "begin" /\ label = "begin_tx"
  \/ k \in {"commit", "rollback"} /\ label = "finalize"
  \/ k = "delete" /\ label = "delete_row"

Labels == {"idle", "ensure", "get", "begin_tx", "run", "finalize",
           "delete_row"} \cup Connecting \cup Checking \cup Dropping

\* What request p has on its stack.
Stack(p) ==
  /\ IF pc[p] = "idle" THEN op[p] = None
                       ELSE op[p] # None /\ CanBeAt(op[p].kind, pc[p])
  /\ held[p] # None <=> pc[p] # "idle" /\ op[p].kind \in TxKinds
  /\ \/ pc[p] \in (Connecting \ {"load"}) \cup {"begin_tx"}
     \/ pc[p] = "run" /\ op[p].kind \in {"execute", "ping"}
     => drv[p] # None
  /\ \A t \in todo[p] : pc[p] = "drop_txs" /\ owner[t] = op[p].conn

TypeOK ==
  /\ storage \in [Conns -> Configs \cup {None}]
  /\ connections \in [Conns -> Drivers \cup {None}]
  /\ read_only \subseteq Conns
  /\ tunnels \in [Conns -> Drivers \cup {None}]
  /\ txs \subseteq Txns
  /\ owner \in [Txns -> Conns \cup {None}]
  /\ dbtx \in [Txns -> Outcomes]
  /\ opened \in [Drivers -> Configs \cup {None}]
  /\ pc \in [Callers -> Labels]
  /\ op \in [Callers -> Request \cup {None}]
  /\ drv \in [Callers -> Drivers \cup {None}]
  /\ held \in [Callers -> Txns \cup {None}]
  /\ todo \in [Callers -> SUBSET Txns]
  /\ \A t \in Txns : owner[t] = None <=> dbtx[t] = "unborn"
  /\ \A p \in Callers : Stack(p)

Init ==
  /\ storage \in [Conns -> Configs]
  /\ connections = [c \in Conns |-> None]
  /\ read_only = {}
  /\ tunnels = [c \in Conns |-> None]
  /\ txs = {}
  /\ owner = [t \in Txns |-> None]
  /\ dbtx = [t \in Txns |-> "unborn"]
  /\ opened = [d \in Drivers |-> None]
  /\ pc = [p \in Callers |-> "idle"]
  /\ op = [p \in Callers |-> None]
  /\ drv = [p \in Callers |-> None]
  /\ held = [p \in Callers |-> None]
  /\ todo = [p \in Callers |-> {}]

Goto(p, label) == pc' = [pc EXCEPT ![p] = label]

\* A request that ends leaves nothing on its stack.
Return(p) ==
  /\ pc' = [pc EXCEPT ![p] = "idle"]
  /\ op' = [op EXCEPT ![p] = None]
  /\ drv' = [drv EXCEPT ![p] = None]
  /\ held' = [held EXCEPT ![p] = None]

\* The driver call is over, or was not reached: a request ends, except that a
\* test goes on from its ping to its disconnect whatever the ping answered.
Leave(p) ==
  IF op[p].kind = "ping"
    THEN /\ Goto(p, "collect")
         /\ drv' = [drv EXCEPT ![p] = None]
         /\ UNCHANGED <<op, held>>
    ELSE Return(p)

-----------------------------------------------------------------------------
(* Requests arriving.                                                      *)

\* A request on a connection.  A statement that does not mutate data passes
\* reject_write_on_read_only whatever is_read_only answers.
Ask(p, k, c, w) ==
  /\ pc[p] = "idle"
  /\ op' = [op EXCEPT ![p] = [kind |-> k, conn |-> c, write |-> w]]
  /\ \/ k \in {"connect", "test"} /\ ~w /\ Goto(p, "load")
     \/ k = "execute" /\ Goto(p, IF w THEN "ro_snapshot" ELSE "ensure")
     \/ k = "begin" /\ ~w /\ Goto(p, "ensure")
     \/ k \in {"disconnect", "delete"} /\ ~w /\ Goto(p, "collect")
  /\ UNCHANGED <<shared, registry, opened, drv, held, todo>>

\* Mutant of TakeTx: the entry is read and left in the map.
TakeTxPeeks(p, t) ==
  /\ t \in txs
  /\ txs' = txs
  /\ held' = [held EXCEPT ![p] = t]

\* take_tx: the entry leaves the map and is the request's alone; an id that
\* is not in the map is answered TRANSACTION_NOT_FOUND and changes nothing.
TakeTx(p, t) ==
  /\ t \in txs
  /\ txs' = txs \ {t}
  /\ held' = [held EXCEPT ![p] = t]

ExecuteInTransaction(p, t, w) ==
  /\ pc[p] = "idle"
  /\ TakeTx(p, t)
  /\ op' = [op EXCEPT ![p] = [kind |-> "execute_in_tx", write |-> w,
                              conn |-> owner[t]]]
  /\ Goto(p, IF w THEN "ro_snapshot" ELSE "run")
  /\ UNCHANGED <<shared, owner, dbtx, opened, drv, todo>>

\* commit_transaction and rollback_transaction: the handle is taken out and
\* the guard finished before the driver is awaited, so nothing is put back.
FinalizeTransaction(p, t, k) ==
  /\ pc[p] = "idle"
  /\ k \in {"commit", "rollback"}
  /\ TakeTx(p, t)
  /\ op' = [op EXCEPT ![p] = [kind |-> k, write |-> FALSE,
                              conn |-> owner[t]]]
  /\ Goto(p, "finalize")
  /\ UNCHANGED <<shared, owner, dbtx, opened, drv, todo>>

\* update_connection: the row is rewritten; an open connection is left alone.
UpdateConnection(c, cfg) ==
  /\ storage[c] # None
  /\ storage' = [storage EXCEPT ![c] = cfg]
  /\ UNCHANGED <<connections, read_only, tunnels, registry, opened, pc, op,
                 drv, held, todo>>

-----------------------------------------------------------------------------
(* reject_write_on_read_only, for a statement that mutates data.           *)

\* TxEntryGuard::drop: the borrowed entry goes back into the map.
DropGuard(p) == txs' = IF held[p] = None THEN txs ELSE txs \cup {held[p]}

Permit(p) ==
  /\ Goto(p, IF op[p].kind = "execute" THEN "ensure" ELSE "run")
  /\ UNCHANGED <<txs, op, drv, held>>

Reject(p) == Return(p) /\ DropGuard(p)

Verdict(p, readonly) == IF readonly THEN Reject(p) ELSE Permit(p)

\* is_read_only reads three places under three locks, one after another.
ReadOnlySnapshot(p) ==
  /\ pc[p] = "ro_snapshot"
  /\ IF op[p].conn \in read_only
       THEN Verdict(p, TRUE)
       ELSE Goto(p, "ro_connected") /\ UNCHANGED <<txs, op, drv, held>>
  /\ UNCHANGED <<shared, owner, dbtx, opened, todo>>

ReadOnlyConnected(p) ==
  /\ pc[p] = "ro_connected"
  /\ IF connections[op[p].conn] # None
       THEN Verdict(p, FALSE)
       ELSE Goto(p, "ro_storage") /\ UNCHANGED <<txs, op, drv, held>>
  /\ UNCHANGED <<shared, owner, dbtx, opened, todo>>

ReadOnlyStorage(p) ==
  /\ pc[p] = "ro_storage"
  /\ LET row == storage[op[p].conn] IN
       Verdict(p, IF row = None THEN FALSE ELSE row.read_only)
  /\ UNCHANGED <<shared, owner, dbtx, opened, todo>>

-----------------------------------------------------------------------------
(* ensure_connected, connect and get_conn.                                 *)

EnsureConnected(p) ==
  /\ pc[p] = "ensure"
  /\ Goto(p, IF connections[op[p].conn] # None THEN "get" ELSE "load")
  /\ UNCHANGED <<shared, registry, opened, op, drv, held, todo>>

\* A name no map and no request refers to any more.  An entry also keeps the
\* driver it was begun on, whatever is connected later; nothing here depends
\* on which one that is, so it does not reserve the name.
Unused(d) ==
  /\ \A c \in Conns : connections[c] # d /\ tunnels[c] # d
  /\ \A p \in Callers : drv[p] # d

\* connect reads the row once and works with that copy from here on.  Without
\* a row it ends in ConnectionNotFound; when the bound Drivers is used up,
\* opening fails.
LoadRow(p) ==
  /\ pc[p] = "load"
  /\ LET row == storage[op[p].conn] IN
       \/ /\ row # None
          /\ \E d \in Drivers :
               /\ Unused(d)
               /\ opened' = [opened EXCEPT ![d] = row]
               /\ drv' = [drv EXCEPT ![p] = d]
          /\ Goto(p, "open")
          /\ UNCHANGED <<op, held>>
       \/ /\ row = None \/ ~\E d \in Drivers : Unused(d)
          /\ Leave(p)
          /\ UNCHANGED opened
  /\ UNCHANGED <<shared, registry, todo>>

\* The tunnel and then the driver are opened, which takes as long as the
\* network does; if either fails the tunnel is closed and nothing published.
OpenDriver(p) ==
  /\ pc[p] = "open"
  /\ \/ Goto(p, "publish") /\ UNCHANGED <<op, drv, held>>
     \/ Leave(p)
  /\ UNCHANGED <<shared, registry, opened, todo>>

\* connect returns: a connect is done; test_connection calls ping, which
\* starts with ensure_connected again; everybody else goes on to get_conn.
Published(p) ==
  \/ op[p].kind = "connect" /\ Return(p)
  \/ /\ op[p].kind = "test"
     /\ op' = [op EXCEPT ![p].kind = "ping"]
     /\ drv' = [drv EXCEPT ![p] = None]
     /\ Goto(p, "ensure")
     /\ UNCHANGED held
  \/ /\ op[p].kind \notin {"connect", "test"}
     /\ Goto(p, "get")
     /\ UNCHANGED <<op, drv, held>>

\* Three maps are written under three locks: connections, read_only, tunnels.
Publish(p) ==
  /\ pc[p] = "publish"
  /\ connections' = [connections EXCEPT ![op[p].conn] = drv[p]]
  /\ Goto(p, "publish_ro")
  /\ UNCHANGED <<storage, read_only, tunnels, registry, opened, op, drv, held,
                 todo>>

PublishReadOnly(p) ==
  /\ pc[p] = "publish_ro"
  /\ read_only' = IF opened[drv[p]].read_only
                    THEN read_only \cup {op[p].conn}
                    ELSE read_only \ {op[p].conn}
  /\ IF opened[drv[p]].ssh
       THEN Goto(p, "publish_tunnel") /\ UNCHANGED <<op, drv, held>>
       ELSE Published(p)
  /\ UNCHANGED <<storage, connections, tunnels, registry, opened, todo>>

PublishTunnel(p) ==
  /\ pc[p] = "publish_tunnel"
  /\ tunnels' = [tunnels EXCEPT ![op[p].conn] = drv[p]]
  /\ Published(p)
  /\ UNCHANGED <<storage, connections, read_only, registry, opened, todo>>

\* Mutant of GetConn: the map was checked by ensure_connected, so the entry
\* is taken to be there.
GetConnUnchecked(p) ==
  /\ pc[p] = "get"
  /\ drv' = [drv EXCEPT ![p] = connections[op[p].conn]]
  /\ Goto(p, IF op[p].kind = "begin" THEN "begin_tx" ELSE "run")
  /\ UNCHANGED <<shared, registry, opened, op, held, todo>>

\* get_conn, and on to the driver call.  The connection may be gone again.
GetConn(p) ==
  /\ pc[p] = "get"
  /\ LET d == connections[op[p].conn] IN
       IF d # None
         THEN /\ drv' = [drv EXCEPT ![p] = d]
              /\ Goto(p, IF op[p].kind = "begin" THEN "begin_tx" ELSE "run")
              /\ UNCHANGED <<op, held>>
         ELSE Leave(p)
  /\ UNCHANGED <<shared, registry, opened, todo>>

-----------------------------------------------------------------------------
(* The driver answers, or the future is dropped at its await.              *)

\* begin_transaction: the entry is made and inserted after the await.
BeginTx(p, t) ==
  /\ pc[p] = "begin_tx"
  /\ dbtx[t] = "unborn"
  /\ dbtx' = [dbtx EXCEPT ![t] = "open"]
  /\ owner' = [owner EXCEPT ![t] = op[p].conn]
  /\ txs' = txs \cup {t}
  /\ Return(p)
  /\ UNCHANGED <<shared, opened, todo>>

\* The driver refuses, or the future is dropped and the handle with it.
BeginTxFails(p) ==
  /\ pc[p] = "begin_tx"
  /\ Return(p)
  /\ UNCHANGED <<shared, registry, opened, todo>>

\* The statement of a plain execute or a test's ping ends, well or badly.
Executed(p) ==
  /\ pc[p] = "run"
  /\ op[p].kind \in {"execute", "ping"}
  /\ Leave(p)
  /\ UNCHANGED <<shared, registry, opened, todo>>

\* A statement in a transaction ends: the guard is dropped on success and on
\* error alike, so the transaction stays active (behavior.md 10.3).
ExecutedInTx(p) ==
  /\ pc[p] = "run"
  /\ op[p].kind = "execute_in_tx"
  /\ Return(p)
  /\ DropGuard(p)
  /\ UNCHANGED <<shared, owner, dbtx, opened, todo>>

\* Mutant of Abandon: no guard.  The entry dies with the dropped future, and
\* the driver rolls the transaction back.
AbandonUnguarded(p) ==
  /\ pc[p] = "run"
  /\ op[p].kind \in {"execute_in_tx", "ping"}
  /\ Return(p)
  /\ dbtx' = IF held[p] = None THEN dbtx
                               ELSE [dbtx EXCEPT ![held[p]] = "rolled_back"]
  /\ UNCHANGED <<shared, txs, owner, opened, todo>>

\* The client goes away and the handler's future is dropped at the await; a
\* test then never disconnects.  A plain execute has nothing to put back: one
\* that is dropped (a WebSocket cancel) ends like any other.
Abandon(p) ==
  /\ pc[p] = "run"
  /\ op[p].kind \in {"execute_in_tx", "ping"}
  /\ Return(p)
  /\ DropGuard(p)
  /\ UNCHANGED <<shared, owner, dbtx, opened, todo>>

\* Mutant of Finalized: the guard is not finished before the await, and puts
\* the entry back when a rollback fails.
FinalizedGuarded(p) ==
  /\ pc[p] = "finalize"
  /\ \E o \in {"committed", "rolled_back"} :
       dbtx' = [dbtx EXCEPT ![held[p]] = o]
  /\ Return(p)
  /\ DropGuard(p)
  /\ UNCHANGED <<shared, owner, opened, todo>>

\* The driver's commit or rollback ends.  When it fails, or the future is
\* dropped, the handle is consumed all the same; whether a commit had reached
\* the database by then is not known.
Finalized(p) ==
  /\ pc[p] = "finalize"
  /\ \E o \in (IF op[p].kind = "commit" THEN {"committed", "rolled_back"}
                                        ELSE {"rolled_back"}) :
       dbtx' = [dbtx EXCEPT ![held[p]] = o]
  /\ Return(p)
  /\ UNCHANGED <<shared, txs, owner, opened, todo>>

-----------------------------------------------------------------------------
(* disconnect: six lock acquisitions, one map access each.                 *)

Collect(p) ==
  /\ pc[p] = "collect"
  /\ todo' = [todo EXCEPT
                ![p] = {t \in txs : owner[t] = op[p].conn}]
  /\ Goto(p, "drop_txs")
  /\ UNCHANGED <<shared, registry, opened, op, drv, held>>

\* Mutant of DropTx: the transaction is rolled back by its id, whether or not
\* the entry is still there to be dropped.
DropTxById(p, t) ==
  /\ pc[p] = "drop_txs"
  /\ t \in todo[p]
  /\ todo' = [todo EXCEPT ![p] = @ \ {t}]
  /\ txs' = txs \ {t}
  /\ dbtx' = [dbtx EXCEPT ![t] = "rolled_back"]
  /\ UNCHANGED <<shared, owner, opened, pc, op, drv, held>>

\* Dropping an entry drops its handle, and the driver rolls back.  (So do the
\* pooled drivers, whose handle is a sqlx::Transaction; the drivers with one
\* session for everybody are the subject of SharedSession.)
DropTx(p, t) ==
  /\ pc[p] = "drop_txs"
  /\ t \in todo[p]
  /\ todo' = [todo EXCEPT ![p] = @ \ {t}]
  /\ txs' = txs \ {t}
  /\ dbtx' = IF t \in txs THEN [dbtx EXCEPT ![t] = "rolled_back"] ELSE dbtx
  /\ UNCHANGED <<shared, owner, opened, pc, op, drv, held>>

DropConn(p) ==
  /\ pc[p] = "drop_txs"
  /\ todo[p] = {}
  /\ connections' = [connections EXCEPT ![op[p].conn] = None]
  /\ Goto(p, "drop_ro")
  /\ UNCHANGED <<storage, read_only, tunnels, registry, opened, op, drv, held,
                 todo>>

DropReadOnly(p) ==
  /\ pc[p] = "drop_ro"
  /\ read_only' = read_only \ {op[p].conn}
  /\ Goto(p, "drop_tunnel")
  /\ UNCHANGED <<storage, connections, tunnels, registry, opened, op, drv,
                 held, todo>>

DropTunnel(p) ==
  /\ pc[p] = "drop_tunnel"
  /\ tunnels' = [tunnels EXCEPT ![op[p].conn] = None]
  /\ IF op[p].kind = "delete"
       THEN Goto(p, "delete_row") /\ UNCHANGED <<op, drv, held>>
       ELSE Return(p)
  /\ UNCHANGED <<storage, connections, read_only, registry, opened, todo>>

\* delete_connection, after its disconnect.
DeleteRow(p) ==
  /\ pc[p] = "delete_row"
  /\ storage' = [storage EXCEPT ![op[p].conn] = None]
  /\ Return(p)
  /\ UNCHANGED <<connections, read_only, tunnels, registry, opened, todo>>

-----------------------------------------------------------------------------
Arrive(p) ==
  \/ \E k \in Kinds, c \in Conns, w \in BOOLEAN : Ask(p, k, c, w)
  \/ \E t \in Txns, w \in BOOLEAN : ExecuteInTransaction(p, t, w)
  \/ \E t \in Txns, k \in Kinds : FinalizeTransaction(p, t, k)

Serve(p) ==
  \/ ReadOnlySnapshot(p) \/ ReadOnlyConnected(p) \/ ReadOnlyStorage(p)
  \/ EnsureConnected(p) \/ LoadRow(p) \/ OpenDriver(p)
  \/ Publish(p) \/ PublishReadOnly(p) \/ PublishTunnel(p) \/ GetConn(p)
  \/ \E t \in Txns : BeginTx(p, t)
  \/ BeginTxFails(p) \/ Executed(p) \/ ExecutedInTx(p) \/ Abandon(p)
  \/ Finalized(p)
  \/ Collect(p)
  \/ \E t \in Txns : DropTx(p, t)
  \/ DropConn(p) \/ DropReadOnly(p) \/ DropTunnel(p) \/ DeleteRow(p)

Next ==
  \/ \E p \in Callers : Arrive(p) \/ Serve(p)
  \/ \E c \in Conns, cfg \in Configs : UpdateConnection(c, cfg)

Spec == Init /\ [][Next]_vars

-----------------------------------------------------------------------------
(* Properties.                                                             *)

\* The registry's own invariant (comment on TxEntryGuard): an entry is in the
\* map or with exactly one borrower, never both and never with two, so no two
\* requests drive one handle.
OwnedOnce ==
  \A p \in Callers : held[p] # None =>
    /\ held[p] \notin txs
    /\ \A q \in Callers \ {p} : held[q] # held[p]

\* A transaction the database still has open can always be reached through
\* the registry or is in the hands of a request, and what can be reached is
\* open: no path forgets a live transaction (it would keep its locks) and
\* none leaves a finished one to be committed again.
OpenIsReachable ==
  \A t \in Txns : dbtx[t] = "open" <=> \/ t \in txs
                                      \/ \E p \in Callers : held[p] = t

\* Every transaction that stops being open in this step was being finalized
\* or is of a connection that is being disconnected.
EndedProperly ==
  \A t \in Txns : dbtx[t] = "open" /\ dbtx'[t] # "open" =>
     \E p \in Callers :
       \/ pc[p] = "finalize" /\ held[p] = t
       \/ /\ pc[p] = "drop_txs"
          /\ op[p].kind \in {"disconnect", "delete", "ping"}
          /\ op[p].conn = owner[t]

\* A transaction ends without a commit or rollback request of its own only at
\* the hands of a disconnect of its connection (behavior.md 10.1): not by a
\* failed statement, a rejected write, an abandoned request or a reconnect.
OnlyDisconnectDiscards == [][EndedProperly]_vars

\* The registry keeps the promise of TxSpec: a transaction is "finalizing"
\* once commit or rollback took its handle, and "running" while borrowed for
\* a statement.
Finalizing(t) == \E p \in Callers : held[p] = t /\ pc[p] = "finalize"

status ==
  [t \in Txns |-> IF dbtx[t] # "open" THEN dbtx[t]
                  ELSE IF Finalizing(t) THEN "finalizing" ELSE "active"]

running ==
  {t \in Txns : \E p \in Callers : held[p] = t /\ pc[p] # "finalize"}

Tx == INSTANCE TxSpec WITH Txns <- Txns, status <- status, running <- running

TxRefinement == Tx!Spec

-----------------------------------------------------------------------------
(* What the documents promise and the code does not keep.                  *)

\* behavior.md 10.1: disconnecting drops every active transaction of the
\* connection, so a registered transaction has an open connection, unless a
\* disconnect is still at work on it.
NoTxWithoutConnection ==
  \A t \in txs :
    LET c == owner[t] IN
      connections[c] = None =>
        \E p \in Callers : pc[p] # "idle" /\ op[p].conn = c

\* behavior.md 12.3: the server itself keeps a mutating statement from a
\* connection opened read-only.
ReadOnlyEnforced ==
  \A p \in Callers :
    pc[p] = "run" /\ op[p].kind = "execute" /\ op[p].write =>
      ~opened[drv[p]].read_only
=============================================================================
