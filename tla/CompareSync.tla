---------------------------- MODULE CompareSync ----------------------------
(***************************************************************************)
(* The compare-and-sync wizard of the web client: web/src/components/      *)
(* CompareSyncWizard.tsx over web/src/lib/compareSync.ts.  Two connections *)
(* are compared, some differences selected, the server writes a script and *)
(* its rollback, and the wizard runs either, with cancel.  The wizard      *)
(* keeps its state while it is closed.                                     *)
(*                                                                         *)
(* What the comparison finds and the shape of the script are choices of    *)
(* the server.  Statement j of the rollback takes back statement j.        *)
(***************************************************************************)
EXTENDS Naturals, Sequences, FiniteSets

CONSTANTS
    Conns,
    Entries,        \* ids of differences
    Plans,          \* what a comparison may find: sets of entries
    Destructive,    \* those the server does not select
    Rebuilds,       \* those that rebuild their table
    TableOf,        \* [Entries -> tables]
    Statements,     \* statements of a script's body, as numbers 1..n
    MaxRequests,    \* bound: comparisons, scripts and runs
    None

\* A script, the loop of runScript over its statements, and what comes of it.
Script == {sc \in [pragmas : BOOLEAN, inTx : BOOLEAN] : sc.pragmas => sc.inTx}
Run == [kind : {"apply", "rollback"}, conn : Conns, steps : Seq([what : Nat, inTx : BOOLEAN]),
        at : Nat, tx : BOOLEAN, failed : BOOLEAN, rolledBack : BOOLEAN,
        wait : {"begin", "execute", "commit", "rollback", "end"}]
Outcome == [ran : Nat, failed : BOOLEAN, rolledBack : BOOLEAN]

\* What the constants have to satisfy.
SyncAssumption ==
    /\ None \notin Conns /\ \A ss \in SUBSET Statements : ss # None
    /\ None \notin Script /\ None \notin Run /\ None \notin Outcome
    /\ IsFiniteSet(Statements)
    /\ Destructive \cup Rebuilds \subseteq Entries /\ Plans \subseteq SUBSET Entries
    /\ Statements = 1..Cardinality(Statements) /\ MaxRequests \in Nat

Steps == <<"source", "target", "review", "apply">>

VARIABLES
    open,       \* the wizard is on display
    step, source, target,
    entries,    \* the differences of the last comparison, or None
    sel,        \* those selected
    script,     \* [pragmas, inTx], or None
    busy,       \* "", "diff", "ddl", "apply", "rollback"
    applied,    \* the script has run
    outcome,    \* [ran, failed, rolledBack] of the last run, or None
    asking,     \* the rollback's confirmation is on display
    cancel,     \* cancelRef
    txId,       \* txIdRef: TRUE if it holds an id
    run,        \* the loop of runScript in flight, or None
    schema,     \* server: [Conns -> the statements in effect]
    work,       \* server: the same as the open transaction sees it, or None
    ranOn,      \* where the last run went, and the schema it found
    requests    \* comparisons, scripts and runs so far

vars == <<open, step, source, target, entries, sel, script, busy, applied, outcome,
          asking, cancel, txId, run, schema, work, ranOn, requests>>

wizard == <<open, step, source, target>>
plan == <<entries, sel, script>>
server == <<schema, work>>

Init ==
    /\ open = TRUE /\ step = "source" /\ source = None /\ target = None
    /\ entries = None /\ sel = {} /\ script = None /\ busy = "" /\ applied = FALSE
    /\ outcome = None /\ asking = FALSE /\ cancel = FALSE /\ txId = FALSE /\ run = None
    /\ schema = [c \in Conns |-> {}] /\ work = None
    /\ ranOn = None /\ requests = 0

-----------------------------------------------------------------------------
(* The steps of the wizard.                                                *)

At(s) == CHOOSE i \in DOMAIN Steps : Steps[i] = s

Guard(s) ==
    CASE s = "source" -> source # None
      [] s = "target" -> target # None /\ entries # None
      [] s = "review" -> entries # None /\ sel # {}
      [] s = "apply"  -> script # None

\* Back always; forward past the guards of every step before s.
Goto(s) ==
    /\ open /\ s # step
    /\ At(s) > At(step) => Guard(s) /\ \A i \in 1..(At(s) - 1) : Guard(Steps[i])
    /\ step' = s
    /\ UNCHANGED <<open, source, target, plan, busy, applied, outcome, asking, cancel, txId, run, server, ranOn, requests>>

\* Another connection drops neither the comparison nor the script.
ChooseSource(c) ==
    /\ open /\ step \in {"source", "target"} /\ c # source
    /\ source' = c /\ target' = None
    /\ UNCHANGED <<open, step, plan, busy, applied, outcome, asking, cancel, txId, run, server, ranOn, requests>>

ChooseTarget(c) ==
    /\ open /\ step \in {"source", "target"} /\ source # None /\ c # target
    /\ target' = c
    /\ UNCHANGED <<open, step, source, plan, busy, applied, outcome, asking, cancel, txId, run, server, ranOn, requests>>

\* finishAndClose: a transaction that could not be rolled back is tried again.
RollBackOpen == work' = IF txId THEN None ELSE work

Close ==
    /\ open /\ busy = ""
    /\ open' = FALSE /\ txId' = FALSE /\ RollBackOpen
    /\ UNCHANGED <<step, source, target, plan, busy, applied, outcome, asking, cancel, run, schema, ranOn, requests>>

\* Opened again, perhaps for a connection of the object tree.
Reopen(c) ==
    /\ ~open /\ open' = TRUE
    /\ IF c = None THEN UNCHANGED <<step, source>> ELSE source' = c /\ step' = "source"
    /\ UNCHANGED <<target, plan, busy, applied, outcome, asking, cancel, txId, run, server, ranOn, requests>>

Request == requests < MaxRequests /\ requests' = requests + 1

-----------------------------------------------------------------------------
(* Comparing, selecting, and the script.                                   *)

RunDiff ==
    /\ open /\ step # "apply" /\ busy = "" /\ source # None /\ target # None
    /\ busy' = "diff"
    /\ Request
    /\ UNCHANGED <<wizard, plan, applied, outcome, asking, cancel, txId, run, server, ranOn>>

\* defaultSelection; a new comparison forgets the script and what was applied.
DiffAnswer(found) ==
    /\ busy = "diff" /\ busy' = ""
    /\ entries' = found /\ sel' = found \ Destructive
    /\ script' = None /\ applied' = FALSE /\ outcome' = None
    /\ step' = IF found = {} THEN step ELSE "review"
    /\ UNCHANGED <<open, source, target, asking, cancel, txId, run, server, ranOn, requests>>

RequestFails ==
    /\ busy \in {"diff", "ddl"} /\ busy' = ""
    /\ UNCHANGED <<wizard, plan, applied, outcome, asking, cancel, txId, run, server, ranOn, requests>>

\* groupGaps: tables to be rebuilt of which some entry is not selected.
Gaps(s) ==
    {e \in entries \ s : \E r \in s \cap Rebuilds : TableOf[r] = TableOf[e]}

Selections ==
    {entries \ Destructive, entries, {}, sel \cup Gaps(sel)}
        \cup {sel \cup {e} : e \in entries} \cup {sel \ {e} : e \in entries}

Select(s) ==
    /\ open /\ step = "review" /\ entries # None /\ s # sel
    /\ sel' = s
    /\ UNCHANGED <<wizard, entries, script, busy, applied, outcome, asking, cancel, txId, run, server, ranOn, requests>>

Generate ==
    /\ open /\ step = "review" /\ busy = "" /\ entries # None /\ sel # {}
    /\ source # None /\ target # None
    /\ busy' = "ddl"
    /\ Request
    /\ UNCHANGED <<wizard, plan, applied, outcome, asking, cancel, txId, run, server, ranOn>>

\* The server refuses a selection with gaps.  A script with a rebuild has a
\* PRAGMA at either end, to be run outside the transaction.
DdlAnswer(sc) ==
    /\ busy = "ddl" /\ busy' = "" /\ entries # None /\ Gaps(sel) = {}
    /\ script' = sc /\ applied' = FALSE /\ outcome' = None /\ step' = "apply"
    /\ UNCHANGED <<open, source, target, entries, sel, asking, cancel, txId, run, server, ranOn, requests>>

-----------------------------------------------------------------------------
(* runScript.                                                              *)

Step(what, inTx) == [what |-> what, inTx |-> inTx]

\* planExecution: what runs, in order, and whether in the transaction.
Planned(sc, kind) ==
    LET n == Cardinality(Statements)
        body == [j \in 1..n |-> Step(IF kind = "apply" THEN j ELSE n + 1 - j, sc.inTx)]
    IN  IF sc.pragmas THEN <<Step(0, FALSE)>> \o body \o <<Step(n + 1, FALSE)>> ELSE body

\* What the loop waits for next.  A cancel is seen before a statement.
Wait(r) ==
    IF ~r.failed /\ r.at <= Len(r.steps)
    THEN IF r.steps[r.at].inTx /\ ~r.tx THEN "begin"
         ELSE IF ~r.steps[r.at].inTx /\ r.tx THEN "commit"
         ELSE "execute"
    ELSE IF ~r.tx THEN "end" ELSE IF r.failed THEN "rollback" ELSE "commit"

\* Mutant of Checked: a cancel ends the loop but is no failure.
CheckedAsDone(r) ==
    IF ~r.failed /\ r.at <= Len(r.steps) /\ cancel' THEN [r EXCEPT !.at = Len(r.steps) + 1] ELSE r

Checked(r) == IF ~r.failed /\ r.at <= Len(r.steps) /\ cancel' THEN [r EXCEPT !.failed = TRUE] ELSE r

\* The run goes on to its next wait, or ends: doApply, doRollback.
Goes(r) ==
    LET w == Wait(r) IN
    IF w = "end"
    THEN /\ run' = None /\ busy' = ""
         /\ outcome' = [ran |-> r.at - 1, failed |-> r.failed, rolledBack |-> r.rolledBack]
         /\ applied' = IF r.kind = "apply" THEN ~r.failed ELSE applied /\ r.failed
    ELSE /\ run' = [r EXCEPT !.wait = w]
         /\ UNCHANGED <<busy, outcome, applied>>

Starts(kind) ==
    /\ Request
    /\ open /\ step = "apply" /\ script # None /\ source # None /\ busy = ""
    /\ busy' = kind /\ cancel' = FALSE
    /\ LET r == [kind |-> kind, conn |-> source, steps |-> Planned(script, kind), at |-> 1,
                 tx |-> FALSE, failed |-> FALSE, rolledBack |-> FALSE, wait |-> "end"]
       IN  run' = [r EXCEPT !.wait = Wait(r)]
    /\ ranOn' = [conn |-> source, found |-> schema[source]]
    /\ UNCHANGED <<wizard, plan, applied, outcome, txId, server>>

DoApply == sel # {} /\ Starts("apply") /\ UNCHANGED asking

\* The rollback of a script that was applied, once the name of the source is
\* typed in.
AskRollback ==
    /\ open /\ step = "apply" /\ applied /\ busy = "" /\ ~asking
    /\ asking' = TRUE
    /\ UNCHANGED <<wizard, plan, busy, applied, outcome, cancel, txId, run, server, ranOn, requests>>

Dismiss ==
    /\ asking /\ asking' = FALSE
    /\ UNCHANGED <<wizard, plan, busy, applied, outcome, cancel, txId, run, server, ranOn, requests>>

DoRollback == asking /\ applied /\ Starts("rollback") /\ asking' = FALSE

CancelRest ==
    /\ open /\ step = "apply" /\ busy = "apply" /\ ~cancel
    /\ cancel' = TRUE
    /\ UNCHANGED <<wizard, plan, busy, applied, outcome, asking, txId, run, server, ranOn, requests>>

Waiting(w) ==
    /\ run # None /\ run.wait = w
    /\ UNCHANGED <<wizard, plan, asking, cancel, ranOn, requests>>

Failed == [run EXCEPT !.failed = TRUE]

Begun ==
    /\ Waiting("begin") /\ work = None
    /\ work' = schema[run.conn] /\ txId' = TRUE
    /\ Goes([run EXCEPT !.tx = TRUE])
    /\ UNCHANGED schema

\* Statement j of the script, its counterpart in the rollback, or a PRAGMA.
Effect(j, found) ==
    IF j \notin Statements THEN found ELSE IF run.kind = "apply" THEN found \cup {j} ELSE found \ {j}

Takes ==
    LET s == run.steps[run.at] IN
    IF s.inTx THEN work' = Effect(s.what, work) /\ UNCHANGED schema
    ELSE schema' = [schema EXCEPT ![run.conn] = Effect(s.what, @)] /\ UNCHANGED work

Executed ==
    /\ Waiting("execute") /\ Takes
    /\ Goes(Checked([run EXCEPT !.at = @ + 1]))
    /\ UNCHANGED txId

\* The answer to a statement is lost.
ExecuteLost ==
    /\ Waiting("execute") /\ Takes
    /\ Goes(Failed)
    /\ UNCHANGED txId

\* A commit before the closing PRAGMA, or at the end.
Committed ==
    /\ Waiting("commit") /\ work # None
    /\ schema' = [schema EXCEPT ![run.conn] = work] /\ work' = None /\ txId' = FALSE
    /\ Goes([run EXCEPT !.tx = FALSE])

\* The answer to a commit is lost.  The last commit of a run is not followed
\* by a rollback.
CommitLost ==
    /\ Waiting("commit") /\ work # None
    /\ schema' = [schema EXCEPT ![run.conn] = work] /\ work' = None
    /\ Goes([Failed EXCEPT !.tx = (run.at <= Len(run.steps))])
    /\ UNCHANGED txId

\* A begin whose answer is lost is like one that was refused: nobody knows of
\* the transaction, and it does nothing.
Refused ==
    /\ \E w \in {"begin", "execute", "commit"} : Waiting(w)
    /\ Goes([Failed EXCEPT !.tx = @ /\ ~(run.wait = "commit" /\ run.at > Len(run.steps))])
    /\ UNCHANGED <<server, txId>>

\* A rollback that fails, because the transaction is gone or for another
\* reason, leaves the id for finishAndClose.
RolledBack ==
    /\ Waiting("rollback") /\ work # None
    /\ work' = None /\ txId' = FALSE
    /\ Goes([run EXCEPT !.tx = FALSE, !.rolledBack = TRUE])
    /\ UNCHANGED schema

\* Mutant of RollbackFails: the failed rollback counts as done.
RollbackCounts ==
    /\ Waiting("rollback")
    /\ Goes([run EXCEPT !.tx = FALSE, !.rolledBack = TRUE])
    /\ UNCHANGED <<server, txId>>

RollbackFails ==
    /\ Waiting("rollback")
    /\ Goes([run EXCEPT !.tx = FALSE])
    /\ UNCHANGED <<server, txId>>

Next ==
    \/ \E i \in DOMAIN Steps : Goto(Steps[i])
    \/ \E c \in Conns : ChooseSource(c) \/ ChooseTarget(c) \/ Reopen(c)
    \/ Close \/ Reopen(None) \/ RunDiff \/ RequestFails \/ Generate
    \/ \E found \in Plans : DiffAnswer(found)
    \/ entries # None /\ \E s \in Selections : Select(s)
    \/ \E sc \in Script : DdlAnswer(sc)
    \/ DoApply \/ AskRollback \/ Dismiss \/ DoRollback \/ CancelRest
    \/ Begun \/ Executed \/ ExecuteLost \/ Committed \/ CommitLost \/ Refused \/ RolledBack \/ RollbackFails

Spec == Init /\ [][Next]_vars

-----------------------------------------------------------------------------
TypeOK ==
    /\ At(step) \in 1..4 /\ {source, target} \subseteq Conns \cup {None}
    /\ sel \subseteq Entries /\ (busy \in {"apply", "rollback"}) = (run # None)
    /\ schema \in [Conns -> SUBSET Statements]
    /\ run # None => (run.wait = "rollback" => run.failed)

\* A script that counts as applied is in effect as a whole where it was run,
\* whatever was cancelled, refused or lost; a rollback that failed half way
\* leaves it counted as applied, too.
AppliedIsWhole ==
    applied /\ run = None /\ ~outcome.failed => schema[ranOn.conn] = Statements

\* When the wizard says that a failed run was rolled back, the schema is the
\* one the run found.
RolledBackIsClean ==
    run = None /\ outcome # None /\ outcome.rolledBack => schema[ranOn.conn] = ranOn.found
=============================================================================
