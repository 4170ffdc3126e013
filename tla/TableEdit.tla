----------------------------- MODULE TableEdit -----------------------------
(***************************************************************************)
(* Editing a table in the web client's grid: web/src/components/           *)
(* TableDataView.tsx over the queue of web/src/lib/changes.ts.  Edits wait  *)
(* in the queue; a commit turns it into statements, runs them in one       *)
(* transaction and checks how many rows each one touched.                  *)
(*                                                                         *)
(* A row has its key, which nobody edits here, and a cell per column.  A    *)
(* page of the grid is a set of rows.  The server runs one transaction at  *)
(* a time; somebody else may change the table between them.                *)
(***************************************************************************)
EXTENDS Naturals, Sequences, FiniteSets, Ordered

CONSTANTS
    Rows,       \* rows of the table, by key
    NewRows,    \* names for rows the user adds: __new_1, ...
    Columns, Cells,
    Pages,      \* what offset, order and filter may select: sets of rows
    MaxEdits,   \* bound: edits and commits of the user
    MaxLoads,   \* bound: requests for a page, those after commits aside
    None

Row == [Columns -> Cells]
View == [rows : [Rows -> Row \cup {None}], added : Seq(Row), open : BOOLEAN]

\* What the constants have to satisfy.
EditAssumption ==
    /\ Pages \subseteq SUBSET Rows /\ Rows \cap NewRows = {}
    /\ None \notin Cells /\ None \notin View /\ MaxLoads \in Nat \ {0}

VARIABLES
    table,      \* the server: [rows, added, open], open if in a transaction
    page,       \* the page chosen: what a load of this render asks for
    result,     \* the page on display: [page, rows], or None
    loads,      \* requests in flight: [seq, page]
    reqSeq,     \* the number of the last one
    latest,     \* for the properties: its page, and whether a commit made it
    queue,      \* ChangeQueue.changes, by sequence number
    undoStack,
    review,     \* the panel with the statements is open
    commits,    \* calls of doCommit in flight
    committing, \* the flag that disables the buttons
    edits

vars == <<table, page, result, loads, reqSeq, latest, queue, undoStack, review,
          commits, committing, edits>>

NoRow == [r \in Rows |-> None]

Init ==
    /\ \E row \in Row : table = [rows |-> [r \in Rows |-> row], added |-> << >>, open |-> FALSE]
    /\ page \in Pages
    /\ result = None /\ loads = {[seq |-> 1, page |-> page]} /\ reqSeq = 1
    /\ latest = [page |-> page, reload |-> FALSE]
    /\ queue = << >> /\ undoStack = << >>
    /\ review = FALSE /\ commits = << >> /\ committing = FALSE /\ edits = 0

-----------------------------------------------------------------------------
(* The queue.                                                              *)

Change(r, type, cells) == [row |-> r, type |-> type, cells |-> cells]
Is(ch, r, type) == ch.row = r /\ ch.type = type
Has(q, r, type) == \E i \in DOMAIN q : Is(q[i], r, type)
At(q, r, type) == CHOOSE i \in DOMAIN q : Is(q[i], r, type)
Without(q, r, type) == Keeping(q, {i \in DOMAIN q : ~Is(q[i], r, type)})

\* A change of the same row and type is replaced by one at the end.
Put(q, ch) == Append(Without(q, ch.row, ch.type), ch)

Drop(cells, c) == [k \in (DOMAIN cells) \ {c} |-> cells[k]]
With(cells, c, v) == [k \in (DOMAIN cells) \cup {c} |-> IF k = c THEN v ELSE cells[k]]
Over(row, cells) == [c \in Columns |-> IF c \in DOMAIN cells THEN cells[c] ELSE row[c]]

\* An update that has lost its last cell leaves the queue.
SetCells(q, i, cells) ==
    IF q[i].type = "update" /\ DOMAIN cells = {} THEN RemoveAt(q, i)
    ELSE [q EXCEPT ![i].cells = cells]

Loaded == IF result = None THEN {} ELSE {r \in result.page : result.rows[r] # None}
MayEdit == result # None /\ edits < MaxEdits

\* get prefers the update to the delete.
Deleted(r) == Has(queue, r, "delete") /\ ~Has(queue, r, "update")

\* displayValue, for a row of the page.
Shown(r) ==
    IF Has(queue, r, "update")
    THEN Over(result.rows[r], queue[At(queue, r, "update")].cells)
    ELSE IF Deleted(r) THEN None ELSE result.rows[r]

Queued(q, op) ==
    /\ MayEdit /\ edits' = edits + 1
    /\ queue' = q
    /\ undoStack' = Append(undoStack, op)
    /\ UNCHANGED <<table, page, result, loads, reqSeq, latest, review, commits, committing>>

CellOp(r, c) == [kind |-> "cell", row |-> r, type |-> "update", column |-> c]
RowOp(r, type) == [kind |-> "row", row |-> r, type |-> type, column |-> None]

\* commitEdit on a row of the page: addCellChange.  A value that is the loaded
\* one again takes the cell out.
EditCell(r, c, v) ==
    /\ r \in Loaded /\ ~Deleted(r) /\ v # Shown(r)[c]
    /\ LET q == IF Has(queue, r, "update") THEN queue
                ELSE Append(queue, Change(r, "update", << >>))
           i == At(q, r, "update")
       IN  Queued(SetCells(q, i, IF v = result.rows[r][c] THEN Drop(q[i].cells, c)
                                 ELSE With(q[i].cells, c, v)),
                  CellOp(r, c))

\* The same on a row that was added: its values are replaced, and undoing
\* the edit will take the whole row away.
EditNewCell(r, c, v) ==
    /\ Has(queue, r, "insert")
    /\ LET i == At(queue, r, "insert") IN
        /\ v # queue[i].cells[c]
        /\ Queued(SetCells(queue, i, With(queue[i].cells, c, v)), RowOp(r, "insert"))

\* addNewRow: a row of NULLs.
AddNewRow(r) ==
    /\ ~Has(queue, r, "insert")
    /\ \E v \in Cells : Queued(Put(queue, Change(r, "insert", [c \in Columns |-> v])), RowOp(r, "insert"))

DeleteRow(r) ==
    /\ r \in Loaded /\ ~Deleted(r)
    /\ Queued(Put(queue, Change(r, "delete", << >>)), RowOp(r, "delete"))

\* Ctrl+Z.  The stack may name a change that is gone.
Undone(op) ==
    IF ~Has(queue, op.row, op.type) THEN queue
    ELSE IF op.kind = "row" THEN Without(queue, op.row, op.type)
    ELSE LET i == At(queue, op.row, op.type)
         IN  SetCells(queue, i, Drop(queue[i].cells, op.column))

Undo ==
    /\ undoStack # << >>
    /\ queue' = Undone(undoStack[Len(undoStack)])
    /\ undoStack' = SubSeq(undoStack, 1, Len(undoStack) - 1)
    /\ UNCHANGED <<table, page, result, loads, reqSeq, latest, review, commits, committing, edits>>

\* The button of a deleted or an added row; the undo stack keeps its entries.
DiscardRow(r) ==
    /\ (r \in Loaded /\ Deleted(r)) \/ Has(queue, r, "insert")
    /\ queue' = Keeping(queue, {i \in DOMAIN queue : queue[i].row # r})
    /\ UNCHANGED <<table, page, result, loads, reqSeq, latest, undoStack, review, commits, committing, edits>>

Clear == queue' = << >> /\ undoStack' = << >>

\* doRevert
Revert ==
    /\ queue # << >> /\ Clear
    /\ UNCHANGED <<table, page, result, loads, reqSeq, latest, review, commits, committing, edits>>

-----------------------------------------------------------------------------
(* Loading a page: only the answer to the last request counts.             *)

Load(p, reload) ==
    /\ reqSeq' = reqSeq + 1
    /\ loads' = loads \cup {[seq |-> reqSeq + 1, page |-> p]}
    /\ latest' = [page |-> p, reload |-> reload]

\* Turning the page, sorting, reloading and clearing the filter ask before
\* they drop the queue; editing a condition keeps it.
ChangePage(p, guarded) ==
    /\ reqSeq < MaxLoads
    /\ page' = p /\ Load(p, FALSE)
    /\ IF guarded THEN Clear ELSE UNCHANGED <<queue, undoStack>>
    /\ UNCHANGED <<table, result, review, commits, committing, edits>>

Fetched(p) == [page |-> p, rows |-> [r \in Rows |-> IF r \in p THEN table.rows[r] ELSE None]]

\* Mutant of LoadAnswer: every answer counts.
LoadAnyAnswer(l, ok) ==
    /\ loads' = loads \ {l}
    /\ result' = IF ok THEN Fetched(l.page) ELSE None
    /\ UNCHANGED <<table, page, reqSeq, latest, queue, undoStack, review, commits, committing, edits>>

LoadAnswer(l, ok) ==
    /\ loads' = loads \ {l}
    /\ result' = IF l.seq # reqSeq THEN result ELSE IF ok THEN Fetched(l.page) ELSE None
    /\ UNCHANGED <<table, page, reqSeq, latest, queue, undoStack, review, commits, committing, edits>>

-----------------------------------------------------------------------------
(* Committing.  A call of doCommit: the statements, how many have run, the  *)
(* transaction's view of the table, the page of the render that was        *)
(* clicked, and, for the properties, the rows as they were loaded and      *)
(* shown at the click.                                                     *)

\* The button of the panel is not disabled by a commit in flight.
DoCommit ==
    /\ queue # << >> /\ Len(commits) < 2
    /\ ~committing \/ review
    /\ edits < MaxEdits /\ edits' = edits + 1
    /\ commits' = Append(commits,
            [stmts |-> queue, done |-> 0, view |-> None, page |-> page,
             both |-> {r \in Rows : Has(queue, r, "update") /\ Has(queue, r, "delete")},
             loaded |-> IF result = None THEN NoRow ELSE result.rows,
             shown |-> [r \in Rows |-> IF r \in Loaded THEN Shown(r) ELSE None]])
    /\ committing' = TRUE /\ review' = FALSE
    /\ UNCHANGED <<table, page, result, loads, reqSeq, latest, queue, undoStack>>

OpenReview ==
    /\ queue # << >> /\ ~review /\ review' = TRUE
    /\ UNCHANGED <<table, page, result, loads, reqSeq, latest, queue, undoStack, commits, committing, edits>>

Begin(k) ==
    /\ commits[k].view = None /\ ~table.open
    /\ table' = [table EXCEPT !.open = TRUE]
    /\ commits' = [commits EXCEPT ![k].view = table]
    /\ UNCHANGED <<page, result, loads, reqSeq, latest, queue, undoStack, review, committing, edits>>

\* One generated statement on the transaction's view, and the rows it touched.
Affected(view, ch) == IF ch.type = "insert" \/ view.rows[ch.row] # None THEN 1 ELSE 0
Applied(view, ch) ==
    IF ch.type = "insert" THEN [view EXCEPT !.added = Append(@, ch.cells)]
    ELSE IF view.rows[ch.row] = None THEN view
    ELSE [view EXCEPT !.rows[ch.row] = IF ch.type = "delete" THEN None ELSE Over(@, ch.cells)]

\* The call ends.  Success empties the queue, whatever it holds by now, and
\* calls the load of the render that was clicked: it asks for the page of then,
\* even if another has been chosen since.  Failure keeps the queue.
Ends(k, ok) ==
    /\ commits' = RemoveAt(commits, k) /\ committing' = FALSE
    /\ IF ok THEN Clear /\ review' = FALSE /\ Load(commits[k].page, TRUE)
             ELSE UNCHANGED <<queue, undoStack, review, loads, reqSeq, latest>>
    /\ UNCHANGED <<page, result, edits>>

Expected(ch, n) == n = 1 \/ ch.type = "update"

ExecInTx(k) ==
    LET c == commits[k]  ch == c.stmts[c.done + 1] IN
    /\ c.view # None /\ c.done < Len(c.stmts)
    /\ IF Expected(ch, Affected(c.view, ch))
         THEN /\ commits' = [commits EXCEPT ![k].done = @ + 1, ![k].view = Applied(@, ch)]
              /\ UNCHANGED <<table, page, result, loads, reqSeq, latest, queue, undoStack, review, committing, edits>>
         ELSE table' = [table EXCEPT !.open = FALSE] /\ Ends(k, FALSE)

\* begin, a statement or the commit fails: the transaction is rolled back.
Fails(k) ==
    /\ table' = IF commits[k].view = None THEN table ELSE [table EXCEPT !.open = FALSE]
    /\ Ends(k, FALSE)

\* Mutant of Commit: the last statement is left out.
CommitEarly(k, answered) ==
    /\ commits[k].view # None /\ commits[k].done + 1 >= Len(commits[k].stmts)
    /\ table' = [commits[k].view EXCEPT !.open = FALSE]
    /\ Ends(k, answered)

\* The commit; its answer may be lost, which doCommit takes for a failure.
Commit(k, answered) ==
    /\ commits[k].view # None /\ commits[k].done = Len(commits[k].stmts)
    /\ table' = [commits[k].view EXCEPT !.open = FALSE]
    /\ Ends(k, answered)

\* Somebody else writes the table.
Outside(r) ==
    /\ ~table.open /\ table.rows[r] # None
    /\ table' = [table EXCEPT !.rows[r] = None]
    /\ UNCHANGED <<page, result, loads, reqSeq, latest, queue, undoStack, review, commits, committing, edits>>

Next ==
    \/ \E r \in Rows, c \in Columns, v \in Cells : EditCell(r, c, v)
    \/ \E r \in NewRows, c \in Columns, v \in Cells : EditNewCell(r, c, v)
    \/ \E r \in NewRows : AddNewRow(r)
    \/ \E r \in Rows : DeleteRow(r) \/ Outside(r)
    \/ \E r \in Rows \cup NewRows : DiscardRow(r)
    \/ Undo \/ Revert \/ DoCommit \/ OpenReview
    \/ \E p \in Pages, guarded \in BOOLEAN : ChangePage(p, guarded)
    \/ \E l \in loads, ok \in BOOLEAN : LoadAnswer(l, ok)
    \/ \E k \in DOMAIN commits :
         Begin(k) \/ ExecInTx(k) \/ Fails(k) \/ \E answered \in BOOLEAN : Commit(k, answered)

Spec == Init /\ [][Next]_vars

-----------------------------------------------------------------------------
TypeOK ==
    /\ page \in Pages /\ reqSeq \in Nat \ {0}
    /\ review \in BOOLEAN /\ committing \in BOOLEAN
    /\ table \in View /\ latest \in [page : Pages, reload : BOOLEAN]
    /\ \A i \in DOMAIN queue :
         /\ queue[i].type = "update" => DOMAIN queue[i].cells # {}
         /\ \A j \in DOMAIN queue : Is(queue[i], queue[j].row, queue[j].type) => i = j

\* The rows on display, once nothing is loading, are those of the page asked
\* for last, in whatever order the answers come.  It is the page chosen, unless
\* a commit asked last, which does so for the page of its click.
LastLoadWins ==
    result # None /\ {l \in loads : l.seq = reqSeq} = {} =>
      /\ result.page = latest.page
      /\ result.page = page \/ latest.reload

\* A commit leaves each row the grid showed at the click as it was shown
\* there, if nobody changed the row since it was loaded, and adds exactly
\* the new rows; however edits were repeated, collapsed, undone or discarded.
\* A row with both an update and a delete queued is the exception: it is
\* shown updated, and deleted.
CommittedIsShownStep ==
    \A k \in DOMAIN commits :
       LET c == commits[k] IN
       Commit(k, TRUE) \/ Commit(k, FALSE) =>
         /\ \A r \in Rows \ c.both :
              table.rows[r] = c.loaded[r] /\ table.rows[r] # None => table'.rows[r] = c.shown[r]
         /\ Len(table'.added) = Len(table.added)
              + Cardinality({i \in DOMAIN c.stmts : c.stmts[i].type = "insert"})
CommittedIsShown == [][CommittedIsShownStep]_vars
=============================================================================
