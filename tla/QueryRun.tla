------------------------------ MODULE QueryRun ------------------------------
(***************************************************************************)
(* How the web client runs the text of the SQL editor:                     *)
(* web/src/components/QueryWorkspace.tsx, with the connection switch and    *)
(* the log pick of web/src/App.tsx.  One component instance serves every   *)
(* connection: only its connId prop changes.                               *)
(*                                                                         *)
(* A text is the number of its statements.  A step is an event handler,    *)
(* with the renders and effects that follow it, or the arrival of an       *)
(* answer with the continuation up to the next wait.  What a statement     *)
(* answers is a choice; so is whether the socket is connected already.     *)
(***************************************************************************)
EXTENDS Naturals, Sequences, FiniteSetsExt

CONSTANTS
    Conns,          \* connection ids
    MaxStatements,  \* bound: statements of one text
    MaxSends,       \* bound: statements sent
    None

Channels == {"http", "ws"}
Handlers == {"shortcut", "palette"}     \* the closures that are kept over renders
Outcomes == {"ok", "err", "cancelled"}
Statuses == Outcomes \cup {"pending", "running", "skipped"}

\* A run has its kind, conn and chan, the statements it is for, those still to
\* do, the one in flight with its phase, its own copy of the entries and the
\* entries of the render it was started from.
RunRecord ==
    [kind : {"single", "multi", "rerun"}, conn : Conns, chan : Channels, stmts : SUBSET Nat,
     todo : SUBSET Nat, at : Nat, phase : {"connecting", "sent"}, own : Seq(Statuses),
     from : Seq(Statuses)]

\* What the constants have to satisfy.
RunAssumption ==
    MaxStatements \in Nat /\ MaxSends \in Nat /\ None \notin Conns /\ None \notin RunRecord

VARIABLES
    conn,       \* the connection on display
    transport,  \* the channel selected in the tool bar
    held,       \* [Handlers -> the conn and transport a kept closure has seen]
    run,        \* the run in flight, a record, or None; busy is run # None
    entries,    \* multiResults: the status of each statement; << >> if null
    shown,      \* the result pane: the statement and its outcome
    cancelled,  \* multiCancelledRef
    liveId,     \* multiWsQueryIdRef: TRUE if it holds the statement's id
    queryId,    \* TRUE if the id of a single WS query is set
    asked,      \* TRUE if a cancel of the statement reached the server
    sends,      \* statements sent so far
    last        \* the last one: its number, where it went, what was on display

vars == <<conn, transport, held, run, entries, shown, cancelled, liveId,
          queryId, asked, sends, last>>

busy == run # None
Nothing == [stmt |-> 0, out |-> "none"]

Init ==
    /\ conn \in Conns
    /\ transport \in Channels
    /\ held = [h \in Handlers |-> [conn |-> conn, chan |-> transport]]
    /\ run = None /\ entries = << >> /\ shown = Nothing
    /\ cancelled = FALSE /\ liveId = FALSE /\ queryId = FALSE /\ asked = FALSE
    /\ sends = 0 /\ last = [stmt |-> 0, conn |-> conn, on |-> conn]

\* The effect that registers the palette's commands runs again when the
\* result, the query id or the transport has changed; not for connId.
Reregister ==
    held' = IF shown' # shown \/ queryId' # queryId \/ transport' # transport
            THEN [held EXCEPT !.palette = [conn |-> conn', chan |-> transport']]
            ELSE held

-----------------------------------------------------------------------------
(* Sending.                                                                *)

NewRun(kind, c, chan, stmts, own) ==
    [kind |-> kind, conn |-> c, chan |-> chan, stmts |-> stmts, todo |-> stmts,
     at |-> 0, phase |-> "sent", own |-> own, from |-> IF kind = "rerun" THEN entries ELSE << >>]

\* Sends the next statement of r.  A socket that is not open yet holds it
\* back; a run with several statements notes the id before it is sent.
Send(r) ==
    \E i \in r.todo, phase \in IF r.chan = "ws" THEN {"connecting", "sent"} ELSE {"sent"} :
        LET own == IF r.kind = "single" THEN << >> ELSE [r.own EXCEPT ![i] = "running"]
        IN  /\ \A j \in r.todo : i <= j
            /\ run' = [r EXCEPT !.at = i, !.todo = r.todo \ {i}, !.phase = phase, !.own = own]
            /\ entries' = own
            /\ liveId' = (r.kind # "single")
            /\ queryId' = IF r.kind = "single" /\ r.chan = "ws" /\ phase = "sent"
                          THEN TRUE ELSE queryId
            /\ asked' = FALSE
            /\ sends' = sends + 1
            /\ last' = [stmt |-> i, conn |-> r.conn, on |-> conn']

\* runHttp and runWs: one statement.  HTTP leaves the old result on display.
StartSingle(c, chan) ==
    /\ shown' = IF chan = "ws" THEN Nothing ELSE shown
    /\ Send(NewRun("single", c, chan, {1}, << >>))
    /\ UNCHANGED cancelled

\* runMulti: every statement in turn, each with an entry of its own.
StartMulti(c, chan, k) ==
    /\ cancelled' = FALSE
    /\ shown' = Nothing
    /\ Send(NewRun("multi", c, chan, 1..k, [i \in 1..k |-> "pending"]))

MayStart == ~busy /\ sends < MaxSends

Start(c, chan, k) ==
    \/ k = 1 /\ StartSingle(c, chan)
    \/ k > 1 /\ StartMulti(c, chan, k)

\* run(), from the button: the closure of the last render.
Run(k) ==
    /\ MayStart
    /\ UNCHANGED <<conn, transport>>
    /\ Start(conn, transport, k)
    /\ Reregister

\* run(), from Ctrl+Enter in the editor or from the command palette: the
\* closure that was registered when the editor was mounted, or by the effect.
RunHeld(h, k) ==
    /\ MayStart
    /\ UNCHANGED <<conn, transport>>
    /\ Start(held[h].conn, held[h].chan, k)
    /\ Reregister

\* The preview of a finished import is run on its own token, over HTTP.
RunPreview ==
    /\ MayStart
    /\ UNCHANGED <<conn, transport>>
    /\ StartSingle(conn, "http")
    /\ Reregister

\* Mutant of Failed: everything is run again.
AllAgain == DOMAIN entries

\* rerunFailed, from its button: the entries that ended in an error.
Failed == {i \in DOMAIN entries : entries[i] = "err"}

RerunFailed ==
    /\ MayStart /\ Len(entries) > 1 /\ Failed # {}
    /\ cancelled' = FALSE
    /\ UNCHANGED <<conn, transport, shown, held>>
    /\ Send(NewRun("rerun", conn, transport, Failed, entries))

-----------------------------------------------------------------------------
(* Answers.                                                                *)

\* The socket of the statement has opened, and the query is sent on it.  In
\* a run with several statements the id is noted again, also after a cancel.
Connected ==
    /\ busy /\ run.phase = "connecting"
    /\ run' = [run EXCEPT !.phase = "sent"]
    /\ liveId' = (run.kind # "single")
    /\ queryId' = IF run.kind = "single" THEN TRUE ELSE queryId
    /\ UNCHANGED <<conn, transport, entries, shown, cancelled, asked, sends, last>>
    /\ Reregister

\* The pane after a run: the first failure, or the last statement.
\* rerunFailed takes it from the entries of the render it was started from.
Verdict(own) ==
    LET bad == {j \in run.stmts : own[j] \in {"err", "cancelled"}}
        i == IF bad # {} THEN Min(bad) ELSE Max(run.stmts)
    IN  [stmt |-> i, out |-> IF run.kind = "rerun" THEN run.from[i] ELSE own[i]]

\* Mutant of Skipped: the statements left are not marked.
LeftAsTheyAre(own, rest) == own

Skipped(own, rest) ==
    [j \in DOMAIN own |-> IF j \in rest THEN "skipped" ELSE own[j]]

\* Mutant of GoesOn: a cancel is not looked at between two statements.
GoesOnRegardless(rest) == rest # {}

GoesOn(rest) == rest # {} /\ ~cancelled

\* The statement in flight has ended.  The next one is sent, or, once the
\* run is cancelled, those left are skipped.
Settle(out) ==
    LET rest == run.todo
        now == [run.own EXCEPT ![run.at] = out]
    IN  /\ UNCHANGED <<conn, transport, cancelled>>
        /\ IF run.kind = "single"
             THEN /\ shown' = [stmt |-> 1, out |-> out]
                  /\ queryId' = IF run.chan = "ws" THEN FALSE ELSE queryId
                  /\ run' = None
                  /\ UNCHANGED <<entries, liveId, asked, sends, last>>
           ELSE IF GoesOn(rest)
             THEN UNCHANGED shown /\ Send([run EXCEPT !.own = now])
           ELSE   /\ entries' = Skipped(now, rest)
                  /\ shown' = Verdict(entries')
                  /\ run' = None /\ liveId' = FALSE
                  /\ UNCHANGED <<queryId, asked, sends, last>>
        /\ Reregister

\* The server answers, with an error also for a cancel over HTTP; or the
\* socket is gone, or could not be opened.
Answer(out) ==
    /\ busy
    /\ out = "cancelled" => run.chan = "ws" /\ run.phase = "sent" /\ asked
    /\ out = "ok" => run.phase = "sent"
    /\ Settle(IF out = "cancelled" /\ run.kind # "single" /\ ~cancelled THEN "err" ELSE out)

\* The timer of an HTTP statement sees the cancel and stops waiting for the
\* server.
Poll ==
    /\ busy /\ run.kind # "single" /\ run.chan = "http" /\ cancelled
    /\ Settle("cancelled")

-----------------------------------------------------------------------------
(* Cancelling.                                                             *)

\* cancelMulti, from the list's button, or from Ctrl+Esc with the transport
\* of the editor's mount: whatever run is in flight.  The WS cancel is lost
\* unless the query is on the socket; the HTTP one, unless it went over HTTP.
CancelMulti(chan) ==
    /\ busy
    /\ cancelled' = TRUE
    /\ liveId' = FALSE
    /\ asked' = (asked \/ (liveId /\ run.chan = chan /\ run.phase = "sent"))
    /\ UNCHANGED <<conn, transport, held, run, entries, shown, queryId, sends, last>>

CancelButton == entries # << >> /\ CancelMulti(transport)
CancelKey == CancelMulti(held["shortcut"].chan)

\* handleCancel: only a single WS query whose id is known.
HandleCancel ==
    /\ busy /\ queryId
    /\ asked' = TRUE
    /\ UNCHANGED <<conn, transport, held, run, entries, shown, cancelled, liveId,
                   queryId, sends, last>>

-----------------------------------------------------------------------------
(* The rest of the page.                                                   *)

\* The effects of a new connId: everything about the last run is cleared,
\* except the run itself.
SwitchConn(c) ==
    /\ c # conn
    /\ conn' = c
    /\ entries' = << >> /\ shown' = Nothing /\ queryId' = FALSE
    /\ UNCHANGED <<transport, run, cancelled, liveId, asked, sends, last>>
    /\ Reregister

\* The palette's command; the list of entries stays.
ClearResult ==
    /\ shown # Nothing /\ shown' = Nothing /\ queryId' = FALSE
    /\ UNCHANGED <<conn, transport, run, entries, cancelled, liveId, asked, sends, last>>
    /\ Reregister

\* applyActiveMulti: an entry of the list is put on display.
ShowEntry(i) ==
    /\ i \in DOMAIN entries /\ shown' = [stmt |-> i, out |-> entries[i]]
    /\ UNCHANGED <<conn, transport, run, entries, cancelled, liveId, queryId, asked, sends, last>>
    /\ Reregister

SetTransport(t) ==
    /\ t # transport
    /\ transport' = t
    /\ UNCHANGED <<conn, run, entries, shown, cancelled, liveId, queryId, asked,
                   sends, last>>
    /\ Reregister

\* handleLogPick: a statement of the query log, logged on connection c, is
\* run at once.  A connection of the list is selected in the same render; one
\* that is not in it is fetched first, and the run does not wait for it.
LogPick(c, listed) ==
    /\ MayStart
    /\ conn' = IF listed THEN c ELSE conn
    /\ UNCHANGED transport
    /\ StartSingle(conn', "http")
    /\ Reregister

Next ==
    \/ \E k \in 1..MaxStatements : Run(k) \/ \E h \in Handlers : RunHeld(h, k)
    \/ RunPreview \/ RerunFailed \/ Connected \/ Poll
    \/ \E out \in Outcomes : Answer(out)
    \/ CancelButton \/ CancelKey \/ HandleCancel
    \/ \E c \in Conns : SwitchConn(c) \/ \E listed \in BOOLEAN : LogPick(c, listed)
    \/ \E t \in Channels : SetTransport(t)
    \/ ClearResult \/ \E i \in 1..MaxStatements : ShowEntry(i)

Spec == Init /\ [][Next]_vars

-----------------------------------------------------------------------------
TypeOK ==
    /\ conn \in Conns /\ transport \in Channels
    /\ held \in [Handlers -> [conn : Conns, chan : Channels]]
    /\ busy => /\ run \in RunRecord
               /\ run.at \in run.stmts /\ run.todo \subseteq run.stmts \ {run.at}
    /\ entries \in Seq(Statuses)
    /\ {cancelled, liveId, queryId, asked} \subseteq BOOLEAN

\* Once a run has ended no entry on display is waiting or running, whatever
\* was cancelled, rerun or switched meanwhile.
SettledWhenIdle ==
    ~busy => \A i \in DOMAIN entries : entries[i] \in Outcomes \cup {"skipped"}

\* The statements of a run go to one connection, one after the other: each
\* is sent when the one before it has an outcome, never out of turn and never
\* after a cancel.
SendsInOrderStep ==
    sends' # sends /\ busy =>
       /\ ~cancelled
       /\ last'.conn = last.conn /\ last'.stmt > last.stmt
       /\ run'.own[last.stmt] \in Outcomes
SendsInOrder == [][SendsInOrderStep]_vars

\* Rerunning the failures of a batch never repeats a statement that succeeded.
OkIsNotRepeatedStep ==
    sends' # sends /\ run'.kind = "rerun" =>
       /\ run'.from[last'.stmt] = "err"
       /\ \A i \in DOMAIN run'.from : run'.from[i] = "ok" => run'.own[i] = "ok"
OkIsNotRepeated == [][OkIsNotRepeatedStep]_vars

\* Ctrl+Enter and the palette do what the run button says it does: the text
\* runs on the connection on display.
RunsOnDisplayedStep ==
    sends' # sends /\ ~busy => last'.conn = last'.on
RunsOnDisplayed == [][RunsOnDisplayedStep]_vars
=============================================================================
