--------------------------- MODULE QueryRegistry ---------------------------
(***************************************************************************)
(* Cancelling and timing out a query over REST: executeQuery and           *)
(* cancelQuery of the two servers (rust/crates/server/src/lib.rs,          *)
(* go/pkg/server/server.go).  A handler registers its query id, runs the   *)
(* statement in a task of its own and waits for that task, a cancellation  *)
(* or a deadline, whichever it sees first.  Nothing can interrupt the      *)
(* statement itself (comment in both handlers): it may run for ever.       *)
(*                                                                         *)
(* The servers differ in three ways.  The Rust handler waits for the       *)
(* cancellation, the Go handler only for the statement that its context    *)
(* should have stopped; the Rust handler is dropped when its client hangs  *)
(* up; the Go handler cancels its own context before it returns.           *)
(*                                                                         *)
(* Handlers and statements of the Rust server are tasks that share a fixed *)
(* number of threads.  A driver that awaits its database lets go of the    *)
(* thread meanwhile; sqlite's execute is synchronous and holds it, and     *)
(* once such statements hold every thread nothing else runs.  The Go       *)
(* runtime starts a thread for each blocking call.                         *)
(***************************************************************************)
EXTENDS Naturals, FiniteSets

CONSTANTS
  Requests,  \* query requests
  QueryIds,  \* the ids their clients give them, not always a new one
  Backends,  \* the servers to be modelled
  Threads,   \* how many threads run the tasks of the Rust server
  None       \* no entry

ASSUME BackendsAssumption == Backends \subseteq {"rust", "go"}

ASSUME ThreadsAssumption == Threads \in Nat \ {0}

VARIABLES
  backend,   \* the server that is running
  registry,  \* registry[q]: the request a cancel of q is delivered to
  pc,        \* what each handler does next
  qid,       \* qid[r]: the id of request r
  deadline,  \* deadline[r]: "none", or whether it is still "ahead" or "over"
  worker,    \* worker[r]: what the task that executes r is doing
  cancelled, \* cancelled[r]: the permit of its Notify, or ctx.Err() # nil
  outcome,   \* outcome[r]: what r is answered
  acked      \* acked[r]: a cancel was answered 204 on account of r

vars == <<backend, registry, pc, qid, deadline, worker, cancelled, outcome,
          acked>>

Labels == {"idle", "spawn", "select", "unregister", "done", "gone"}

Outcomes == {"result", "error", "cancelled", "timed_out"}

WorkerStates == {"none", "queued", "running", "blocking", "ok", "failed"}

ASSUME NoneAssumption ==
  /\ None \notin Requests
  /\ None \notin QueryIds
  /\ None \notin Outcomes

TypeOK ==
  /\ backend \in Backends
  /\ registry \in [QueryIds -> Requests \cup {None}]
  /\ pc \in [Requests -> Labels]
  /\ qid \in [Requests -> QueryIds \cup {None}]
  /\ deadline \in [Requests -> {"none", "ahead", "over"}]
  /\ worker \in [Requests -> WorkerStates]
  /\ cancelled \in [Requests -> BOOLEAN]
  /\ outcome \in [Requests -> Outcomes \cup {None}]
  /\ acked \in [Requests -> BOOLEAN]
  /\ \A r \in Requests :
       /\ pc[r] = "idle" <=> qid[r] = None
       /\ pc[r] \in {"idle", "spawn"} <=> worker[r] = "none"
       /\ worker[r] = "blocking" => backend = "rust"
       /\ pc[r] \in {"unregister", "done"} <=> outcome[r] # None
  /\ \A q \in QueryIds : registry[q] # None => qid[registry[q]] = q

Init ==
  /\ backend \in Backends
  /\ registry = [q \in QueryIds |-> None]
  /\ pc = [r \in Requests |-> "idle"]
  /\ qid = [r \in Requests |-> None]
  /\ deadline = [r \in Requests |-> "none"]
  /\ worker = [r \in Requests |-> "none"]
  /\ cancelled = [r \in Requests |-> FALSE]
  /\ outcome = [r \in Requests |-> None]
  /\ acked = [r \in Requests |-> FALSE]

Goto(r, label) == pc' = [pc EXCEPT ![r] = label]

\* A thread is free to run the next task that is ready.
Scheduled ==
  \/ backend = "go"
  \/ Cardinality({r \in Requests : worker[r] = "blocking"}) < Threads

-----------------------------------------------------------------------------
\* A request arrives: the entry of its id is set, or overwritten.
Register(r, q, d) ==
  /\ Scheduled
  /\ pc[r] = "idle"
  /\ registry' = [registry EXCEPT ![q] = r]
  /\ qid' = [qid EXCEPT ![r] = q]
  /\ deadline' = [deadline EXCEPT ![r] = d]
  /\ Goto(r, "spawn")
  /\ UNCHANGED <<backend, worker, cancelled, outcome, acked>>

Spawn(r) ==
  /\ Scheduled
  /\ pc[r] = "spawn"
  /\ worker' = [worker EXCEPT ![r] = "queued"]
  /\ Goto(r, "select")
  /\ UNCHANGED <<backend, registry, qid, deadline, cancelled, outcome, acked>>

\* The task of the statement gets a thread, which a driver of the Rust server
\* may hold until the statement ends.
Begin(r) ==
  /\ Scheduled
  /\ worker[r] = "queued"
  /\ \E w \in {"running"} \cup IF backend = "rust" THEN {"blocking"} ELSE {} :
       worker' = [worker EXCEPT ![r] = w]
  /\ UNCHANGED <<backend, registry, pc, qid, deadline, cancelled, outcome,
                 acked>>

\* The statement ends, whether or not anybody still waits for it.  A task that
\* awaits it needs a thread to see that.
WorkerEnds(r) ==
  /\ worker[r] \in {"running", "blocking"}
  /\ worker[r] = "running" => Scheduled
  /\ \E e \in {"ok", "failed"} : worker' = [worker EXCEPT ![r] = e]
  /\ UNCHANGED <<backend, registry, pc, qid, deadline, cancelled, outcome,
                 acked>>

\* A deadline passes with time, whether or not a thread is there to see it.
\*
\* Mutant of Expire: the deadline is one of the context.
ExpireCancels(r) ==
  /\ pc[r] = "select"
  /\ deadline[r] = "ahead"
  /\ deadline' = [deadline EXCEPT ![r] = "over"]
  /\ cancelled' = [cancelled EXCEPT ![r] = TRUE]
  /\ UNCHANGED <<backend, registry, pc, qid, worker, outcome, acked>>

\* Mutant of Expire: the timer answers by itself, beside the handler.
ExpireAnswers(r) ==
  /\ pc[r] = "select"
  /\ deadline[r] = "ahead"
  /\ deadline' = [deadline EXCEPT ![r] = "over"]
  /\ outcome' = [outcome EXCEPT ![r] = "timed_out"]
  /\ UNCHANGED <<backend, registry, pc, qid, worker, cancelled, acked>>

Expire(r) ==
  /\ pc[r] = "select"
  /\ deadline[r] = "ahead"
  /\ deadline' = [deadline EXCEPT ![r] = "over"]
  /\ UNCHANGED <<backend, registry, pc, qid, worker, cancelled, outcome,
                 acked>>

\* What the task's end is answered.  Only the Go handler looks at its context.
Answer(r) ==
  CASE worker[r] = "ok" -> "result"
    [] worker[r] = "failed" /\ backend = "go" /\ cancelled[r] -> "cancelled"
    [] OTHER -> "error"

\* Mutant of Ready: a deadline that is over is seen only if the statement has
\* ended, the clock being read after it.
ReadyLate(r) ==
  (IF worker[r] \in {"ok", "failed"}
     THEN {IF deadline[r] = "over" THEN "timed_out" ELSE Answer(r)} ELSE {})
    \cup (IF backend = "rust" /\ cancelled[r] THEN {"cancelled"} ELSE {})

\* The outcomes whose branch of the select is ready.
Ready(r) ==
  (IF worker[r] \in {"ok", "failed"} THEN {Answer(r)} ELSE {})
    \cup (IF backend = "rust" /\ cancelled[r] THEN {"cancelled"} ELSE {})
    \cup (IF deadline[r] = "over" THEN {"timed_out"} ELSE {})

\* Any of them may be taken.
Select(r) ==
  /\ Scheduled
  /\ pc[r] = "select"
  /\ \E o \in Ready(r) : outcome' = [outcome EXCEPT ![r] = o]
  /\ Goto(r, "unregister")
  /\ UNCHANGED <<backend, registry, qid, deadline, worker, cancelled, acked>>

\* Mutant of Unregister: the error path of a timeout returns before it.
UnregisterUnlessTimedOut(r) ==
  /\ Scheduled
  /\ pc[r] = "unregister"
  /\ registry' = [registry EXCEPT
                    ![qid[r]] = IF outcome[r] = "timed_out" THEN @ ELSE None]
  /\ cancelled' = [cancelled EXCEPT ![r] = @ \/ backend = "go"]
  /\ Goto(r, "done")
  /\ UNCHANGED <<backend, qid, deadline, worker, outcome, acked>>

\* The entry of the id goes, even if another request has overwritten it.
Unregister(r) ==
  /\ Scheduled
  /\ pc[r] = "unregister"
  /\ registry' = [registry EXCEPT ![qid[r]] = None]
  /\ cancelled' = [cancelled EXCEPT ![r] = @ \/ backend = "go"]
  /\ Goto(r, "done")
  /\ UNCHANGED <<backend, qid, deadline, worker, outcome, acked>>

\* The client hangs up while the handler waits: the Rust handler is dropped
\* with its entry in the registry, the Go handler goes on.
HangUp(r) ==
  /\ backend = "rust"
  /\ Scheduled
  /\ pc[r] = "select"
  /\ Goto(r, "gone")
  /\ UNCHANGED <<backend, registry, qid, deadline, worker, cancelled, outcome,
                 acked>>

\* Mutant of Cancel: notify_waiters, of which nothing is kept for a handler
\* that is not waiting yet.
CancelWaiters(q) ==
  /\ Scheduled
  /\ registry[q] # None
  /\ cancelled' = [cancelled EXCEPT
                     ![registry[q]] = @ \/ pc[registry[q]] = "select"]
  /\ acked' = [acked EXCEPT ![registry[q]] = TRUE]
  /\ registry' = [registry EXCEPT ![q] = None]
  /\ UNCHANGED <<backend, pc, qid, deadline, worker, outcome>>

\* A cancel that finds an entry is answered 204; any other, 404, changes
\* nothing.
Cancel(q) ==
  /\ Scheduled
  /\ registry[q] # None
  /\ cancelled' = [cancelled EXCEPT ![registry[q]] = TRUE]
  /\ acked' = [acked EXCEPT ![registry[q]] = TRUE]
  /\ registry' = [registry EXCEPT ![q] = None]
  /\ UNCHANGED <<backend, pc, qid, deadline, worker, outcome>>

-----------------------------------------------------------------------------
Next ==
  \/ \E r \in Requests :
       \/ \E q \in QueryIds, d \in {"none", "ahead"} : Register(r, q, d)
       \/ Spawn(r) \/ Begin(r) \/ WorkerEnds(r)
       \/ Expire(r) \/ Select(r) \/ Unregister(r)
       \/ HangUp(r)
  \/ \E q \in QueryIds : Cancel(q)

\* The clock goes on, and the scheduler runs every task that is ready as long
\* as it has a thread for it; the database is not bound to finish a statement,
\* and so a thread that one holds need never be free again.
Fairness ==
  \A r \in Requests :
    WF_vars(Spawn(r)) /\ WF_vars(Begin(r)) /\ WF_vars(Expire(r))
      /\ WF_vars(Select(r)) /\ WF_vars(Unregister(r))

Spec == Init /\ [][Next]_vars /\ Fairness

-----------------------------------------------------------------------------
(* Properties.                                                             *)

\* A query that is executing can be cancelled (behavior.md 2.1), provided its
\* id is its own: unless it has been told already, a cancel of the id would
\* reach it and no other.
Cancellable ==
  \A r \in Requests :
    /\ pc[r] \in {"spawn", "select"}
    /\ \A s \in Requests \ {r} : qid[s] # qid[r]
    => registry[qid[r]] = r \/ cancelled[r]

\* Nobody is told that a query was cancelled that no cancel was answered 204
\* for: neither a deadline nor a failing statement looks like one.
CancelledWasAsked ==
  \A r \in Requests : outcome[r] = "cancelled" => acked[r]

\* A cancel of a query that has been answered is itself answered 404.
NoCancelAfterAnswer ==
  [][\A r \in Requests : pc[r] = "done" => acked'[r] = acked[r]]_vars

Ended(r) == pc[r] \in {"done", "gone"}

\* A query with a deadline is answered, even if its statement and others never
\* end, unless those that hold their threads for ever leave none to the Rust
\* server's handlers and timers.
DeadlineMet ==
  <>[]Scheduled => \A r \in Requests : deadline[r] # "none" ~> Ended(r)

\* A cancelled query of the Rust server is answered, even if its statement
\* never ends, under the same proviso.
RustCancelEnds ==
  <>[]Scheduled =>
    \A r \in Requests : acked[r] /\ backend = "rust" ~> Ended(r)

\* "A successful cancel returns 204; the query ends at once" (behavior.md 2.1),
\* which the Go handler leaves to the statement.
CancelEnds == \A r \in Requests : acked[r] ~> Ended(r)
=============================================================================
