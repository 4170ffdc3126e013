--------------------------- MODULE SharedSession ---------------------------
(***************************************************************************)
(* The Rust drivers that have one physical session for everybody: sqlite   *)
(* (db-sqlite/src/driver.rs), mssql and oracle (src/lib.rs of db-mssql and *)
(* db-oracle).  Their transaction handle is an empty marker; begin, commit *)
(* and rollback are statements on the shared session, and a statement in a *)
(* transaction is the same call as one outside.  The session's lock makes  *)
(* each driver call atomic.  What keeps transactions apart is therefore    *)
(* the registry of app-core and the dialect's own rules, modelled here on  *)
(* one connection.                                                         *)
(***************************************************************************)
EXTENDS Naturals

CONSTANTS
  Dialect,  \* "sqlite", "mssql" or "oracle"
  Txns,     \* transaction ids
  Writes    \* effects of mutating statements, each executed at most once

ASSUME DialectAssumption == Dialect \in {"sqlite", "mssql", "oracle"}

VARIABLES
  txs,      \* keys of app-core's map of transaction entries
  taken,    \* taken[t]: what the request that took t's entry does, or "no"
  status,   \* status[t]: what t's client was told last
  depth,    \* transaction nesting of the session (@@TRANCOUNT)
  pending,  \* writes the session has not made permanent
  durable,  \* writes the database has made permanent
  author    \* author[w]: the transaction w was acknowledged in, or who else

vars == <<txs, taken, status, depth, pending, durable, author>>

Jobs == {"execute", "commit", "rollback"}

\* A transaction that "failed" was told TRANSACTION_FAILED; a "dropped" one
\* disappeared with its connection.
Statuses == {"unborn", "active", "committed", "rolled_back", "failed",
             "dropped"}

Plain == "outside any transaction"
Nobody == "not executed"

ASSUME AuthorAssumption == {Plain, Nobody} \cap Txns = {}

TypeOK ==
  /\ txs \subseteq Txns
  /\ taken \in [Txns -> Jobs \cup {"no"}]
  /\ status \in [Txns -> Statuses]
  /\ depth \in Nat
  /\ pending \subseteq Writes
  /\ durable \subseteq Writes
  /\ pending \cap durable = {}
  /\ author \in [Writes -> Txns \cup {Plain, Nobody}]
  /\ depth = 0 /\ Dialect # "oracle" => pending = {}
  /\ \A t \in Txns : status[t] = "active" <=> t \in txs \/ taken[t] # "no"

Init ==
  /\ txs = {}
  /\ taken = [t \in Txns |-> "no"]
  /\ status = [t \in Txns |-> "unborn"]
  /\ depth = 0
  /\ pending = {}
  /\ durable = {}
  /\ author = [w \in Writes |-> Nobody]

-----------------------------------------------------------------------------
(* The session.                                                            *)

session == <<depth, pending, durable>>

\* Mutant of RunStatement: the session is left in autocommit mode.
RunStatementAutocommits(w) ==
  /\ durable' = durable \cup {w}
  /\ UNCHANGED <<depth, pending>>

\* One mutating statement: oracle always opens a transaction by itself, the
\* others commit by themselves when none is open.
RunStatement(w) ==
  /\ IF Dialect = "oracle" \/ depth > 0
       THEN pending' = pending \cup {w} /\ UNCHANGED durable
       ELSE durable' = durable \cup {w} /\ UNCHANGED pending
  /\ UNCHANGED depth

\* Mutant of CanBegin: a begin in an open transaction is nested, as a driver
\* that counts its transactions would do.
CanBeginNested == TRUE

\* BEGIN IMMEDIATE, refused in an open transaction; BEGIN TRAN, which nests;
\* nothing at all.
CanBegin == Dialect = "sqlite" => depth = 0

BeginSession ==
  /\ depth' = IF Dialect = "oracle" THEN depth ELSE depth + 1
  /\ UNCHANGED <<pending, durable>>

MakeDurable ==
  /\ depth' = 0
  /\ pending' = {}
  /\ durable' = durable \cup pending

Discard ==
  /\ depth' = 0
  /\ pending' = {}
  /\ UNCHANGED durable

InTransaction == Dialect = "oracle" \/ depth > 0

\* COMMIT ends the transaction; COMMIT TRAN only the innermost level.
CommitSession ==
  IF depth > 1 THEN depth' = depth - 1 /\ UNCHANGED <<pending, durable>>
               ELSE MakeDurable

-----------------------------------------------------------------------------
(* Requests.                                                               *)

\* begin_transaction: the driver call, then the entry.
Begin(t) ==
  /\ status[t] = "unborn"
  /\ CanBegin
  /\ BeginSession
  /\ txs' = txs \cup {t}
  /\ status' = [status EXCEPT ![t] = "active"]
  /\ UNCHANGED <<taken, author>>

\* take_tx: the first half of every request on a transaction.
Take(t, job) ==
  /\ t \in txs
  /\ txs' = txs \ {t}
  /\ taken' = [taken EXCEPT ![t] = job]
  /\ UNCHANGED <<status, session, author>>

\* Mutant of ExecuteInTx: an error returns before the entry is put back.
ExecuteInTxForgets(t, w) ==
  /\ taken[t] = "execute"
  /\ \/ /\ author[w] = Nobody
        /\ RunStatement(w)
        /\ author' = [author EXCEPT ![w] = t]
        /\ txs' = txs \cup {t}
     \/ UNCHANGED <<session, author, txs>>
  /\ taken' = [taken EXCEPT ![t] = "no"]
  /\ UNCHANGED status

\* execute_in_tx; then the guard puts the entry back.
ExecuteInTx(t, w) ==
  /\ taken[t] = "execute"
  /\ \/ /\ author[w] = Nobody
        /\ RunStatement(w)
        /\ author' = [author EXCEPT ![w] = t]
     \/ UNCHANGED <<session, author>>       \* the statement fails
  /\ taken' = [taken EXCEPT ![t] = "no"]
  /\ txs' = txs \cup {t}
  /\ UNCHANGED status

\* execute, which takes no notice of the registry.
Execute(w) ==
  /\ author[w] = Nobody
  /\ RunStatement(w)
  /\ author' = [author EXCEPT ![w] = Plain]
  /\ UNCHANGED <<txs, taken, status>>

\* The entry is not put back whatever the driver answers.
Ended(t, outcome) ==
  /\ status' = [status EXCEPT ![t] = outcome]
  /\ taken' = [taken EXCEPT ![t] = "no"]
  /\ UNCHANGED <<txs, author>>

\* commit.  It fails when no transaction is open, and it can fail and leave
\* the transaction open (in sqlite on a deferred constraint).
Commit(t) ==
  /\ taken[t] = "commit"
  /\ \/ InTransaction /\ CommitSession /\ Ended(t, "committed")
     \/ UNCHANGED session /\ Ended(t, "failed")

Rollback(t) ==
  /\ taken[t] = "rollback"
  /\ IF InTransaction THEN Discard /\ Ended(t, "rolled_back")
                      ELSE UNCHANGED session /\ Ended(t, "failed")

\* Mutant of Disconnect: closing the session commits what it has open.
DisconnectCommits ==
  /\ \A t \in Txns : taken[t] = "no"
  /\ MakeDurable
  /\ txs' = {}
  /\ status' = [t \in Txns |-> IF t \in txs THEN "dropped" ELSE status[t]]
  /\ UNCHANGED <<taken, author>>

\* disconnect, and a new session at the next use.  While a request has the
\* session in hand it lives on; the steps of a disconnect are RustAppCore's.
Disconnect ==
  /\ \A t \in Txns : taken[t] = "no"
  /\ Discard
  /\ txs' = {}
  /\ status' = [t \in Txns |-> IF t \in txs THEN "dropped" ELSE status[t]]
  /\ UNCHANGED <<taken, author>>

Next ==
  \/ \E t \in Txns : Begin(t) \/ Commit(t) \/ Rollback(t)
  \/ \E t \in Txns, job \in Jobs : Take(t, job)
  \/ \E t \in Txns, w \in Writes : ExecuteInTx(t, w)
  \/ \E w \in Writes : Execute(w)
  \/ Disconnect

Spec == Init /\ [][Next]_vars

-----------------------------------------------------------------------------
(* Properties.                                                             *)

\* "Several transactions of one connection can be concurrent; the driver's
\* pool or session isolates them" (behavior.md 10.2): what was acknowledged
\* in a transaction whose commit was acknowledged is in the database.
CommittedIsDurable ==
  \A w \in Writes :
    author[w] \in Txns /\ status[author[w]] = "committed" => w \in durable

\* And what was acknowledged in one whose rollback was acknowledged is not.
RolledBackIsGone ==
  \A w \in Writes :
    author[w] \in Txns /\ status[author[w]] = "rolled_back" =>
      w \notin durable \cup pending

\* The isolation itself: a write of a transaction becomes permanent in the
\* step that commits this transaction, never because of somebody else.
OwnCommitOnly ==
  [][\A w \in Writes :
       author[w] \in Txns /\ w \in durable' \ durable =>
         taken[author[w]] = "commit" /\ status'[author[w]] = "committed"]_vars

\* What two transactions of one session have to promise each other at least:
\* the end of one does not undo what was acknowledged in the other after the
\* other's commit was acknowledged too.
CommittedIsKept ==
  \A w \in Writes :
    author[w] \in Txns /\ status[author[w]] = "committed" =>
      w \in durable \cup pending

\* "commit or rollback fails: the server discards the transaction"
\* (behavior.md 10.3): the session is in a transaction only as long as the
\* server still knows of one.
FailedIsDiscarded ==
  depth > 0 => \E t \in Txns : status[t] = "active"
=============================================================================
