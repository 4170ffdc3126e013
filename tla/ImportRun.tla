----------------------------- MODULE ImportRun -----------------------------
(***************************************************************************)
(* Running an import in the web client: web/src/components/ImportModal.tsx *)
(* (runImport, cancel, close, retry, the file queue and the steps of the   *)
(* wizard).  A file's rows become statements, run one by one inside one    *)
(* transaction of the server; the outcome is written to the history.       *)
(*                                                                         *)
(* Every file has the statements Rows.  The closed modal is gone (a new    *)
(* one starts afresh); the loop of its run goes on without it.             *)
(***************************************************************************)
EXTENDS Naturals, Sequences, FiniteSets, Functions, Ordered

CONSTANTS
    Files,              \* files
    Rows,               \* 1..n, the statements of a file
    MaxRuns,            \* bound: imports started
    None

\* Where the loop of runImport is, and what it keeps.
Ats == {"begin", "head", "exec", "cancelled", "failed", "commit", "abort"}
Failure == [row : Rows, idx : Nat]
Run == [sql : BOOLEAN, todo : Seq(Rows), skip : BOOLEAN, retried : BOOLEAN,
        at : Ats, n : Nat, bad : SUBSET Failure]

\* What the constants have to satisfy.
ImportAssumption ==
    /\ IsFiniteSet(Rows) /\ Rows = 1..Cardinality(Rows) /\ MaxRuns \in Nat
    /\ None \notin Files /\ None \notin Run /\ \A rs \in SUBSET Rows : rs # None

Steps == <<"input", "table", "map", "preview", "done">>
At(s) == CHOOSE i \in DOMAIN Steps : Steps[i] = s

VARIABLES
    sqlFiles,   \* those of Files that are SQL statements; no step changes it
    open, step,
    queue,      \* the files enqueued and not yet loaded
    reading,    \* files being read, or None
    text,       \* the file whose text is in the editor
    parsed,     \* the file parse is of (never one of sqlFiles)
    ready,      \* a table is selected and a column mapped
    skipFailed, \* opts.skipFailed
    retry,      \* retryIndices, or None
    failed,     \* failedRows: [row, idx]
    busy, cancel, txRef,
    run,        \* the loop of runImport in flight, or None
    history,    \* the newest entry of the history, with what it is about
    tx,         \* server: rows of the run's open transaction, or None
    kept,       \* server: rows the last import committed
    undoing,    \* a rollback sent by closing is on its way
    lost,       \* history of the run: requests done with the answer lost, a lost
                \* rollback, "abort": a failed statement aborted the transaction
    runs

vars == <<sqlFiles, open, step, queue, reading, text, parsed, ready, skipFailed, retry,
          failed, busy, cancel, txRef, run, history, tx, kept, undoing, lost, runs>>

input == <<queue, reading, text, parsed>>
choice == <<ready, skipFailed, retry>>
server == <<tx, kept, undoing, lost>>

Init ==
    /\ sqlFiles \in SUBSET Files
    /\ open = TRUE /\ step = "input"
    /\ queue = <<>> /\ reading = None /\ text = None /\ parsed = None
    /\ ready = FALSE /\ skipFailed = FALSE /\ retry = None /\ failed = {}
    /\ busy = FALSE /\ cancel = FALSE /\ txRef = FALSE /\ run = None /\ history = None
    /\ tx = None /\ kept = {} /\ undoing = FALSE /\ lost = {} /\ runs = 0

-----------------------------------------------------------------------------
(* Input and the steps.                                                    *)

Enqueue(fs) ==
    /\ open /\ step = "input" /\ queue' = fs
    /\ UNCHANGED <<open, step, reading, text, parsed, choice, failed, busy, cancel, txRef, run, history, server, runs>>

\* handleFile up to its await.
PickFile(f) ==
    /\ open /\ step = "input" /\ reading' = f
    /\ UNCHANGED <<open, step, queue, text, parsed, choice, failed, busy, cancel, txRef, run, history, server, runs>>

\* "Load the next file" of the done step.
LoadQueueNext ==
    /\ open /\ step = "done" /\ queue # <<>>
    /\ reading' = Head(queue) /\ queue' = Tail(queue) /\ step' = "input"
    /\ UNCHANGED <<open, text, parsed, choice, failed, busy, cancel, txRef, run, history, server, runs>>

FileRead ==
    /\ open /\ reading # None
    /\ text' = reading /\ reading' = None
    /\ UNCHANGED <<open, step, queue, parsed, choice, failed, busy, cancel, txRef, run, history, server, runs>>

\* The debounced parse; a text of SQL has none.
AutoParse ==
    /\ open /\ text # None
    /\ parsed' = IF text \in sqlFiles THEN None ELSE text
    /\ parsed' # parsed
    /\ UNCHANGED <<open, step, queue, reading, text, choice, failed, busy, cancel, txRef, run, history, server, runs>>

HandleParse ==
    /\ open /\ step = "input" /\ text # None
    /\ step' = IF text \in sqlFiles THEN "preview" ELSE "table"
    /\ UNCHANGED <<open, input, choice, failed, busy, cancel, txRef, run, history, server, runs>>

\* Step badges, Ctrl+Alt+1..4 and [ ], and the buttons of the steps: back
\* always, forward if what the step needs is there.  None of them asks busy.
Goto(s) ==
    /\ open /\ s # step /\ s # "done"
    /\ At(s) > At(step) =>
         /\ s # "input" => parsed # None
         /\ s \in {"map", "preview"} => ready
    /\ step' = s
    /\ UNCHANGED <<open, input, choice, failed, busy, cancel, txRef, run, history, server, runs>>

Choose ==
    /\ open /\ step \in {"table", "map"} /\ ~ready /\ ready' = TRUE
    /\ UNCHANGED <<open, step, input, skipFailed, retry, failed, busy, cancel, txRef, run, history, server, runs>>

\* Its box in the preview, or a preset that is applied or restored.
SetSkipFailed(b) ==
    /\ open /\ step \in {"table", "map", "preview"} /\ b # skipFailed /\ skipFailed' = b
    /\ UNCHANGED <<open, step, input, ready, retry, failed, busy, cancel, txRef, run, history, server, runs>>

\* The retry buttons of the failed rows: for rows they also go back to input.
RetryRows(fs) ==
    /\ open /\ step = "preview" /\ fs # {} /\ fs \subseteq failed
    /\ retry' = {f.idx : f \in fs}
    /\ IF text \in sqlFiles THEN Cardinality(fs) = 1 /\ UNCHANGED step
                            ELSE step' = "input"
    /\ UNCHANGED <<open, input, ready, skipFailed, failed, busy, cancel, txRef, run, history, server, runs>>

-----------------------------------------------------------------------------
(* runImport.                                                              *)

Current == IF text \in sqlFiles THEN text ELSE parsed

\* The rows that are left out of a retry leave the others in their order.
Effective == InOrder(IF retry = None THEN Rows ELSE Rows \cap retry)

\* A transaction that an earlier run left on the server does nothing more.
RunImport ==
    /\ open /\ step = "preview" /\ ~busy /\ Current # None
    /\ text \in sqlFiles \/ ready
    /\ runs < MaxRuns /\ runs' = runs + 1
    /\ busy' = TRUE /\ cancel' = FALSE /\ failed' = {}
    /\ run' = [sql |-> text \in sqlFiles, todo |-> Effective, skip |-> skipFailed,
               retried |-> retry # None, at |-> "begin", n |-> 0, bad |-> {}]
    /\ kept' = {} /\ history' = None /\ lost' = {} /\ tx' = None
    /\ UNCHANGED <<open, step, input, choice, txRef, undoing>>

\* What every end of runImport does: the entry, the step, busy.
Ends(status, s) ==
    /\ history' = [status |-> status, todo |-> Range(run.todo), skip |-> run.skip,
                   bad |-> {f.row : f \in run.bad}]
    /\ step' = s /\ busy' = FALSE /\ txRef' = FALSE /\ run' = None
    /\ UNCHANGED <<open, input, ready, skipFailed, cancel, runs>>

Begun ==
    /\ run # None /\ run.at = "begin"
    /\ run' = [run EXCEPT !.at = "head"] /\ txRef' = TRUE /\ tx' = {}
    /\ UNCHANGED <<open, step, input, choice, failed, busy, cancel, history, kept, undoing, lost, runs>>

\* catch with no id: nothing is rolled back, even if the server has begun.
BeginFails(done) ==
    /\ run # None /\ run.at = "begin" /\ Ends("failed", "preview")
    /\ tx' = IF done THEN {} ELSE tx
    /\ lost' = IF done THEN lost \cup {"begin"} ELSE lost
    /\ UNCHANGED <<retry, failed, kept, undoing>>

\* Mutant of LoopHead: the failures of a run are not looked at.
LoopHeadBlind ==
    /\ run # None /\ run.at = "head"
    /\ LET more == run.n < Len(run.todo)
       IN run' = [run EXCEPT !.at = CASE more /\ cancel -> "cancelled"
                                      [] more -> "exec"
                                      [] OTHER -> "commit"]
    /\ failed' = IF run'.at = "exec" THEN failed ELSE run.bad
    /\ UNCHANGED <<open, step, input, choice, busy, cancel, txRef, history, server, runs>>

\* The head of the loop: a cancel is noticed here and only here.
LoopHead ==
    /\ run # None /\ run.at = "head"
    /\ LET broken == run.bad # {} /\ ~run.skip
           more == run.n < Len(run.todo) /\ ~broken
       IN run' = [run EXCEPT !.at = CASE more /\ cancel -> "cancelled"
                                      [] more -> "exec"
                                      [] broken -> "failed"
                                      [] OTHER -> "commit"]
    /\ failed' = IF run'.at = "exec" THEN failed ELSE run.bad
    /\ UNCHANGED <<open, step, input, choice, busy, cancel, txRef, history, server, runs>>

\* The answer of a statement: no row affected is a failure of a row import.
\* An error may abort the transaction (in Postgres each does): what it did is
\* gone, every later statement fails, and its commit is answered like any other.
\* A statement may be done with the answer lost.
Answer(a) ==
    /\ run # None /\ run.at = "exec"
    /\ tx = None \/ "abort" \in lost => a = "error"
    /\ LET row == run.todo[run.n + 1]
           good == a = "ok" \/ (a = "zero" /\ run.sql)
       IN /\ run' = [run EXCEPT !.at = "head", !.n = @ + 1,
                                !.bad = IF good THEN @ ELSE @ \cup {[row |-> row, idx |-> run.n + 1]}]
          /\ tx' = CASE good \/ a = "lost" -> tx \cup {row}
                     [] a = "abort" -> {}
                     [] OTHER -> tx
    /\ lost' = IF a \in {"abort", "lost"} THEN lost \cup {IF a = "abort" THEN a ELSE "execute"} ELSE lost
    /\ UNCHANGED <<open, step, input, choice, failed, busy, cancel, txRef, history, kept, undoing, runs>>

\* The rollback of a cancelled, a failed or an aborted run; a lost one is
\* ignored and the transaction stays.
RolledBack(reaches) ==
    /\ run # None /\ run.at \in {"cancelled", "failed", "abort"}
    /\ tx' = IF reaches THEN None ELSE tx
    /\ lost' = IF reaches THEN lost ELSE lost \cup {"rollback"}
    /\ Ends(IF run.at = "cancelled" THEN "cancelled" ELSE "failed", "preview")
    /\ UNCHANGED <<retry, failed, kept, undoing>>

Committed ==
    /\ run # None /\ run.at = "commit" /\ tx # None
    /\ kept' = tx /\ tx' = None
    /\ Ends(IF run.bad # {} THEN "partial" ELSE "success", "done")
    /\ retry' = IF run.retried THEN None ELSE retry
    /\ UNCHANGED <<failed, undoing, lost>>

\* Mutant of CommitThrows: the catch block does not roll back.
CommitThrowsAway(done) ==
    /\ run # None /\ run.at = "commit" /\ ~done
    /\ Ends("failed", "preview")
    /\ UNCHANGED <<retry, failed, server>>

\* Refused, or done with the answer lost: both go to the catch block.
CommitThrows(done) ==
    /\ run # None /\ run.at = "commit"
    /\ done => tx # None
    /\ kept' = IF done THEN tx ELSE kept
    /\ tx' = IF done THEN None ELSE tx
    /\ lost' = IF done THEN lost \cup {"commit"} ELSE lost
    /\ run' = [run EXCEPT !.at = "abort"]
    /\ UNCHANGED <<open, step, input, choice, failed, busy, cancel, txRef, history, undoing, runs>>

-----------------------------------------------------------------------------
(* Cancel and close.                                                       *)

HandleCancelImport ==
    /\ open /\ step = "preview" /\ busy /\ ~cancel
    /\ cancel' = TRUE
    /\ UNCHANGED <<open, step, input, choice, failed, busy, txRef, run, history, server, runs>>

CancelQueue ==
    /\ open /\ step = "input" /\ queue # <<>>
    /\ cancel' = TRUE /\ queue' = <<>>
    /\ UNCHANGED <<open, step, reading, text, parsed, choice, failed, busy, txRef, run, history, server, runs>>

\* finishAndClose and the cleanup of the modal: a rollback is sent if an id
\* is known.  During begin none is, and the run goes on to its commit.
FinishAndClose ==
    /\ open /\ open' = FALSE
    /\ undoing' = txRef /\ txRef' = FALSE
    /\ UNCHANGED <<step, input, choice, failed, busy, cancel, run, history, tx, kept, lost, runs>>

UndoArrives(reaches) ==
    /\ undoing /\ undoing' = FALSE
    /\ tx' = IF reaches THEN None ELSE tx
    /\ lost' = IF reaches THEN lost ELSE lost \cup {"rollback"}
    /\ UNCHANGED <<open, step, input, choice, failed, busy, cancel, txRef, run, history, kept, runs>>

Step ==
    \/ \E f \in Files : Enqueue(<<f>>) \/ PickFile(f)
    \/ LoadQueueNext \/ FileRead \/ AutoParse \/ HandleParse \/ Choose
    \/ \E s \in Range(Steps) : Goto(s)
    \/ \E b \in BOOLEAN : SetSkipFailed(b)
    \/ \E fs \in SUBSET failed : RetryRows(fs)
    \/ RunImport \/ Begun \/ LoopHead
    \/ \E a \in {"ok", "zero", "error", "abort", "lost"} : Answer(a)
    \/ \E b \in BOOLEAN : BeginFails(b) \/ RolledBack(b) \/ CommitThrows(b) \/ UndoArrives(b)
    \/ Committed \/ HandleCancelImport \/ CancelQueue \/ FinishAndClose

Next == Step /\ UNCHANGED sqlFiles

Spec == Init /\ [][Next]_vars

-----------------------------------------------------------------------------
(* Properties.                                                             *)

TypeOK ==
    /\ sqlFiles \subseteq Files
    /\ open \in BOOLEAN /\ step \in Range(Steps) /\ queue \in Seq(Files)
    /\ {reading, text} \subseteq Files \cup {None} /\ parsed \in (Files \ sqlFiles) \cup {None}
    /\ {ready, skipFailed, busy, cancel, txRef, undoing} \subseteq BOOLEAN
    /\ retry \in (SUBSET Rows) \cup {None} /\ failed \subseteq Failure
    /\ run \in Run \cup {None} /\ (run # None => run.n <= Len(run.todo))
    /\ tx \in (SUBSET Rows) \cup {None} /\ kept \subseteq Rows
    /\ lost \subseteq {"begin", "execute", "abort", "commit", "rollback"} /\ runs \in 0..MaxRuns

\* The history tells the truth: an import recorded as a success kept every
\* row, one recorded as partial skips failures and kept every row it does not
\* list as failed, and a cancelled or failed one kept nothing (unless the answer
\* of its commit was lost).  One exception: after a statement that aborted the
\* transaction the commit is a rollback, and an import recorded as partial has
\* kept nothing at all.
HistoryIsTrue ==
    history # None =>
        /\ history.status = "success" => history.todo \subseteq kept /\ history.bad = {}
        /\ history.status = "partial" =>
             /\ history.skip
             /\ IF "abort" \in lost THEN kept = {} ELSE history.todo \ history.bad \subseteq kept
        /\ history.status = "cancelled" => kept = {}
        /\ history.status = "failed" /\ "commit" \notin lost => kept = {}

\* However a run ends and whenever the modal is closed, no transaction of it
\* stays open on the server, with two exceptions: a rollback was lost on the
\* way, or the begin was done and its answer lost, which leaves the page no id
\* to roll back.
NoTxLeft ==
    tx # None => run # None \/ undoing \/ lost \intersect {"begin", "rollback"} # {}
=============================================================================
