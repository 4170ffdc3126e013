--------------------------- MODULE StructureEdit ---------------------------
(***************************************************************************)
(* The structure editor of a table (TableStructureEditor.tsx): the one DDL *)
(* statement lib/alterSql.ts makes of the form, refused where the dialect  *)
(* cannot do it, and its run in a transaction of its own.                  *)
(*                                                                         *)
(* A structure is a set of parts: columns, indexes and foreign keys, by    *)
(* name.  The database is external: it may refuse a statement, lose an     *)
(* answer, and in MySQL and Oracle a DDL statement commits by itself.      *)
(***************************************************************************)
EXTENDS Naturals, FiniteSets

CONSTANTS
    Names,          \* names of parts
    AutoName,       \* the name made up for an index or a foreign key
    Parts,          \* the parts of the table at first
    Dialects,       \* the dialects the connection may be of
    None,
    MaxRuns,        \* bound: runs
    MaxEdits        \* bound: choices and edits of the form

VARIABLES
    dialect,
    op,         \* the operation chosen
    names,      \* operation -> the name filled in or chosen for it
    column,     \* colNullable, colPk, and whether colDefault is given
    listed,     \* columns, indexes, fks: the parts as last loaded
    loading,    \* onApplied has asked for them again
    parts,      \* the parts the server holds
    open,       \* what the open transaction of the run will do: {} or {sql}
    at,         \* how far run has come
    sql,        \* the statement run captured
    msg,        \* the message shown
    lost,       \* history: requests done with the answer lost, failed rollbacks
    before,     \* history: the parts when run began
    runs, edits

form == <<op, names, column, listed, loading, edits>>
vars == <<dialect, form, parts, open, at, sql, msg, lost, before, runs>>

\* CAPS: what ALTER TABLE can do; bare is a NOT NULL without a default.
Caps == [
    sqlite   |-> [pk |-> FALSE, bare |-> FALSE, nullClause |-> FALSE, addFk |-> FALSE, dropFk |-> TRUE],
    postgres |-> [pk |-> TRUE,  bare |-> TRUE,  nullClause |-> FALSE, addFk |-> TRUE,  dropFk |-> TRUE],
    mysql    |-> [pk |-> TRUE,  bare |-> TRUE,  nullClause |-> TRUE,  addFk |-> TRUE,  dropFk |-> TRUE],
    mssql    |-> [pk |-> TRUE,  bare |-> TRUE,  nullClause |-> TRUE,  addFk |-> TRUE,  dropFk |-> TRUE],
    oracle   |-> [pk |-> TRUE,  bare |-> TRUE,  nullClause |-> TRUE,  addFk |-> TRUE,  dropFk |-> FALSE]]

Kinds == {"column", "index", "fk"}
Part == [kind : Kinds, name : Names, null : BOOLEAN, pk : BOOLEAN]
Ops == {"add", "drop"} \X Kinds
Column == [null : BOOLEAN, pk : BOOLEAN, default : BOOLEAN]
AutoCommits == {"mysql", "oracle"}
Unsupported == [op |-> "unsupported"]

\* What the constants have to satisfy.
EditAssumption ==
    /\ None \notin Names /\ AutoName \in Names /\ {MaxRuns, MaxEdits} \subseteq Nat
    /\ Parts \subseteq Part /\ Dialects \subseteq DOMAIN Caps

Init ==
    /\ dialect \in Dialects /\ op = <<"add", "column">>
    /\ names = [o \in Ops |-> None]
    /\ column = [null |-> TRUE, pk |-> FALSE, default |-> FALSE]
    /\ parts = Parts /\ listed = Parts /\ loading = FALSE
    /\ open = None /\ at = "idle" /\ sql = None /\ msg = "none"
    /\ lost = {} /\ before = Parts /\ runs = 0 /\ edits = 0

-----------------------------------------------------------------------------
(* lib/alterSql.ts                                                         *)

\* addColumnSql.  Without a null clause the statement does not say NOT NULL.
AddColumn(d, name, c) ==
    IF \/ name = None
       \/ c.pk /\ ~Caps[d].pk
       \/ ~c.null /\ ~c.default /\ ~c.pk /\ ~Caps[d].bare
    THEN Unsupported
    ELSE [op |-> "add", kind |-> "column", name |-> name, pk |-> c.pk,
          null |-> ~c.pk /\ (Caps[d].nullClause => c.null)]

\* addIndexSql, addForeignKeySql; the form makes up a name.
AddOther(d, kind, name) ==
    IF kind = "fk" /\ ~Caps[d].addFk THEN Unsupported
    ELSE [op |-> "add", kind |-> kind, pk |-> FALSE, null |-> TRUE,
          name |-> IF name = None THEN AutoName ELSE name]

\* dropColumnSql, dropIndexSql, dropForeignKeySql; nothing chosen makes a
\* statement too, of an empty name.
Drop(d, kind, name) ==
    IF kind = "fk" /\ ~Caps[d].dropFk THEN Unsupported
    ELSE [op |-> "drop", kind |-> kind, name |-> name, pk |-> FALSE, null |-> TRUE]

Statement ==
    CASE op[1] = "drop"             -> Drop(dialect, op[2], names[op])
      [] op = <<"add", "column">>   -> AddColumn(dialect, names[op], column)
      [] OTHER                      -> AddOther(dialect, op[2], names[op])

\* External: what the database makes of a statement it accepts.
Named(ps, s) == {p \in ps : p.kind = s.kind /\ p.name = s.name}
Accepted(ps, s) == s.name # None /\ (s.op = "add" <=> Named(ps, s) = {})
Result(ps, s) ==
    IF s.op = "drop" THEN ps \ Named(ps, s)
    ELSE ps \union {[kind |-> s.kind, name |-> s.name, null |-> s.null, pk |-> s.pk]}

-----------------------------------------------------------------------------
(* The form.                                                               *)

Edited ==
    /\ edits < MaxEdits /\ edits' = edits + 1
    /\ UNCHANGED <<dialect, listed, loading, parts, open, at, sql, lost, before, runs>>

\* Choosing an operation clears the message; the fields stay.
Choose(o) == Edited /\ op' = o /\ msg' = "none" /\ UNCHANGED <<names, column>>

\* Typed for an addition, chosen from the list for a removal.
FillName(n) ==
    /\ n # names[op] /\ Edited
    /\ op[1] = "drop" /\ n # None => \E p \in listed : p.kind = op[2] /\ p.name = n
    /\ names' = [names EXCEPT ![op] = n]
    /\ UNCHANGED <<op, column, msg>>

FillColumn(c) ==
    /\ op = <<"add", "column">> /\ c # column /\ Edited
    /\ column' = c /\ UNCHANGED <<op, names, msg>>

\* The structure loaded again; a failure leaves the old lists.
Reloaded(ok) ==
    /\ loading /\ loading' = FALSE
    /\ listed' = IF ok THEN parts ELSE listed
    /\ UNCHANGED <<dialect, op, names, column, edits, parts, open, at, sql, msg, lost, before, runs>>

-----------------------------------------------------------------------------
(* The run.                                                                *)

\* A transaction that an earlier run left on the server does nothing more.
Run ==
    /\ at = "idle" /\ Statement # Unsupported
    /\ runs < MaxRuns /\ runs' = runs + 1
    /\ sql' = Statement /\ at' = "begin" /\ msg' = "none"
    /\ before' = parts /\ lost' = {} /\ open' = None
    /\ UNCHANGED <<dialect, form, parts>>

\* With no transaction there is nothing to roll back.
Ends(m) == at' = "idle" /\ msg' = m

\* A request that failed, or was done with its answer lost.
Unanswered(request, was) == lost' = IF was THEN lost \union {request} ELSE lost

Begun ==
    /\ at = "begin" /\ at' = "execute" /\ open' = {}
    /\ UNCHANGED <<dialect, form, parts, sql, msg, lost, before, runs>>

\* catch, with no transaction that the page knows of: nothing is rolled back.
BeginFails(done) ==
    /\ at = "begin" /\ Ends("failed")
    /\ open' = IF done THEN {} ELSE None
    /\ Unanswered("begin", done)
    /\ UNCHANGED <<dialect, form, parts, sql, before, runs>>

\* The statement on the server: at once, or when the transaction commits.
Takes ==
    /\ Accepted(parts, sql)
    /\ IF dialect \in AutoCommits
       THEN parts' = Result(parts, sql) /\ UNCHANGED open
       ELSE open' = {sql} /\ UNCHANGED parts

Executed ==
    /\ at = "execute" /\ Takes /\ at' = "commit"
    /\ UNCHANGED <<dialect, form, sql, msg, lost, before, runs>>

\* Mutant of RollsBack: the failure is reported and the transaction left as it is.
LeavesOpen == Ends("failed")

\* catch, with a transaction: it is rolled back before the message is shown.
RollsBack == at' = "rollback" /\ UNCHANGED msg

ExecuteFails(done) ==
    /\ at = "execute" /\ RollsBack
    /\ IF done THEN Takes ELSE UNCHANGED <<parts, open>>
    /\ Unanswered("execute", done)
    /\ UNCHANGED <<dialect, form, sql, before, runs>>

Carried == parts' = IF open = {} THEN parts ELSE Result(parts, sql)

\* onApplied has the structure loaded again.
Committed ==
    /\ at = "commit" /\ Ends("ok") /\ open' = None /\ Carried
    /\ loading' = TRUE
    /\ UNCHANGED <<dialect, op, names, column, listed, edits, sql, lost, before, runs>>

CommitFails(done) ==
    /\ at = "commit" /\ RollsBack
    /\ IF done THEN open' = None /\ Carried ELSE UNCHANGED <<parts, open>>
    /\ Unanswered("commit", done)
    /\ UNCHANGED <<dialect, form, sql, before, runs>>

\* Its own failure is swallowed.
RolledBack(ok) ==
    /\ at = "rollback" /\ Ends("failed")
    /\ open' = IF ok THEN None ELSE open
    /\ Unanswered("rollback", ~ok)
    /\ UNCHANGED <<dialect, form, parts, sql, before, runs>>

Next ==
    \/ \E o \in Ops : Choose(o)
    \/ \E n \in Names \union {None} : FillName(n)
    \/ \E c \in Column : FillColumn(c)
    \/ Run \/ Begun \/ Executed \/ Committed
    \/ \E b \in BOOLEAN : BeginFails(b) \/ ExecuteFails(b) \/ CommitFails(b)
    \/ \E b \in BOOLEAN : RolledBack(b) \/ Reloaded(b)

Spec == Init /\ [][Next]_vars

-----------------------------------------------------------------------------
(* Properties.                                                             *)

TypeOK ==
    /\ dialect \in DOMAIN Caps /\ op \in Ops /\ column \in Column
    /\ names \in [Ops -> Names \union {None}]
    /\ parts \subseteq Part /\ listed \subseteq Part
    /\ at \in {"idle", "begin", "execute", "commit", "rollback"}
    /\ msg \in {"none", "ok", "failed"}
    /\ lost \subseteq {"begin", "execute", "commit", "rollback"}

\* The message tells the truth. After success the table is what the statement
\* makes of it. After a failure, which says it was rolled back, the table is as
\* before and no transaction of the run stays open, whichever request failed,
\* with three exceptions: the commit was done and its answer lost; the begin
\* was done and its answer lost, or the rollback failed; and a database that
\* commits by itself has kept the statement, with nothing lost at all if it is
\* the commit that fails.
MessageIsTrue ==
    at = "idle" =>
        /\ msg = "ok" => parts = Result(before, sql)
        /\ msg = "failed" =>
             /\ \/ parts = before
                \/ parts = Result(before, sql) /\ ("commit" \in lost \/ dialect \in AutoCommits)
             /\ open = None \/ lost \intersect {"begin", "rollback"} # {}

=============================================================================
