------------------------------- MODULE Shell --------------------------------
(***************************************************************************)
(* The frame of the web client: the connection that is selected (App.tsx),   *)
(* the list it is selected from (ConnectionList.tsx), the heartbeat of the   *)
(* server and of the connection, and SQL that is sent to the workbench from  *)
(* the query log or from a table (QueryWorkspace.tsx, App.tsx).              *)
(***************************************************************************)
EXTENDS Naturals, Sequences, FiniteSets

CONSTANTS
    Conns, Redis,   \* the connections, and those without a workbench
    None,
    MaxSteps,       \* bound: steps of the user
    MaxPings        \* bound: heartbeats sent

\* None is no connection without a workbench and no number, so a workbench
\* that has fired no token is told from one that is not there.
ShellAssumption == None \notin Nat /\ None \notin Redis /\ MaxSteps \in Nat

VARIABLES
    stored,     \* the connections the server has
    sidebar,    \* ConnectionList: conns
    listed,     \* App: connections
    conn,       \* App: conn
    serverOk,   \* TRUE, FALSE or None
    health,     \* connHealth: the connection that answered and how, or None
    pings,      \* pings on their way: [n, conn, alive]
    pinged,
    removing,   \* deletions on their way: [conn, selected], selected as of the click
    context,    \* context.sql, or None
    token,      \* autoRunToken
    fired,      \* lastFiredTokenRef of the workbench; None while there is none
    busy,       \* the SQL the workbench is running, or None
    fetching,   \* getConnection calls of handleLogPick
    picks,      \* history: what each token asked for: [sql, conn, known]
    runs,       \* history: what was run unasked: [token, sql, conn]
    steps

shellVars == <<stored, sidebar, listed, conn, serverOk, health, pings, pinged, removing,
               context, token, fired, busy, fetching, picks, runs, steps>>
beatVars == <<health, pings, pinged>>
benchVars == <<fired, busy, runs>>
pickVars == <<context, token, fetching, picks>>
listVars == <<stored, sidebar, listed, removing>>

HasBench(c) == c # None /\ c \notin Redis

Init ==
    /\ stored = Conns /\ sidebar = {} /\ listed = {} /\ conn = None /\ serverOk = None
    /\ health = None /\ pings = {} /\ pinged = 0 /\ removing = {}
    /\ context = None /\ token = 0 /\ fired = None /\ busy = None /\ fetching = {}
    /\ picks = <<>> /\ runs = {} /\ steps = 0

Acts == steps < MaxSteps /\ steps' = steps + 1

-----------------------------------------------------------------------------
(* The effects of a render.                                                 *)

\* Mutant of Beats: an answer that was on its way is not told that it is late.
BeatsOn(c, ok) ==
    /\ health' = None
    /\ IF c # None /\ ok = TRUE /\ pinged < MaxPings
       THEN pings' = pings \union {[n |-> pinged, conn |-> c, alive |-> TRUE]} /\ pinged' = pinged + 1
       ELSE UNCHANGED <<pings, pinged>>

\* The heartbeat starts again when the connection or the server's state changes.
Beats(c, ok) ==
    LET old == {[p EXCEPT !.alive = FALSE] : p \in pings} IN
    /\ health' = None
    /\ IF c # None /\ ok = TRUE /\ pinged < MaxPings
       THEN pings' = old \union {[n |-> pinged, conn |-> c, alive |-> TRUE]} /\ pinged' = pinged + 1
       ELSE pings' = old /\ pinged' = pinged

\* The effect on autoRunToken, which also runs when the workbench appears.
AutoRun(c, sql, t, last, now) ==
    IF t > last /\ sql # None /\ now = None
    THEN fired' = t /\ busy' = sql /\ runs' = runs \union {[token |-> t, sql |-> sql, conn |-> c]}
    ELSE fired' = last /\ busy' = now /\ UNCHANGED runs

\* The workbench of a connection: it stays from one SQL connection to the next.
Renders(c, sql, t) ==
    IF ~HasBench(c) THEN fired' = None /\ busy' = None /\ UNCHANGED runs
    ELSE IF fired = None THEN AutoRun(c, sql, t, 0, None)
    ELSE IF t # token THEN AutoRun(c, sql, t, fired, busy)
    ELSE UNCHANGED benchVars

ChangeTo(c) ==
    /\ conn' = c
    /\ IF c = conn THEN UNCHANGED beatVars ELSE Beats(c, serverOk)

-----------------------------------------------------------------------------
(* Selecting.                                                               *)

\* handleSelect, the palette, the start screen, the quick switcher.
SelectConn(c) ==
    /\ ChangeTo(c) /\ context' = None /\ Renders(c, None, token)
    /\ UNCHANGED <<token, fetching, picks>>

ClickRow(c) ==
    /\ Acts /\ c \in sidebar /\ SelectConn(IF c = conn THEN None ELSE c)
    /\ UNCHANGED <<listVars, serverOk>>

PickFromPalette(c) ==
    /\ Acts /\ c \in listed /\ SelectConn(c)
    /\ UNCHANGED <<listVars, serverOk>>

-----------------------------------------------------------------------------
(* The list of connections.                                                 *)

CheckHealth(ok) ==
    /\ serverOk # ok /\ serverOk' = ok /\ Acts
    /\ listed' = IF ok THEN stored ELSE listed
    /\ sidebar' = IF ok THEN stored ELSE sidebar
    /\ Beats(conn, ok)
    /\ UNCHANGED <<stored, removing, conn, pickVars, benchVars>>

\* Every 15 seconds, or the command that refreshes the list.
RefreshConnections ==
    /\ serverOk = TRUE /\ listed # stored /\ listed' = stored
    /\ UNCHANGED <<stored, sidebar, removing, conn, serverOk, beatVars, pickVars, benchVars, steps>>

Remove(c) ==
    /\ Acts /\ c \in sidebar /\ removing' = removing \union {[conn |-> c, selected |-> conn = c]}
    /\ UNCHANGED <<stored, sidebar, listed, conn, serverOk, beatVars, pickVars, benchVars>>

Removed(r) ==
    /\ removing' = removing \ {r} /\ stored' = stored \ {r.conn} /\ sidebar' = stored'
    /\ IF r.selected THEN SelectConn(None) ELSE UNCHANGED <<conn, beatVars, pickVars, benchVars>>
    /\ UNCHANGED <<listed, serverOk, steps>>

\* save: a new connection is selected at once.
Create(c) ==
    /\ Acts /\ serverOk = TRUE /\ c \notin stored
    /\ stored' = stored \union {c} /\ sidebar' = stored' /\ SelectConn(c)
    /\ UNCHANGED <<listed, removing, serverOk>>

-----------------------------------------------------------------------------
(* Heartbeats.                                                              *)

PingAgain ==
    /\ HasBench(conn) \/ conn \in Redis
    /\ serverOk = TRUE /\ pinged < MaxPings
    /\ pings' = pings \union {[n |-> pinged, conn |-> conn, alive |-> TRUE]} /\ pinged' = pinged + 1
    /\ UNCHANGED <<listVars, conn, serverOk, health, pickVars, benchVars, steps>>

PingAnswer(p, ok) ==
    /\ pings' = pings \ {p}
    /\ health' = IF p.alive THEN [of |-> p.conn, ok |-> ok] ELSE health
    /\ UNCHANGED <<listVars, conn, serverOk, pinged, pickVars, benchVars, steps>>

-----------------------------------------------------------------------------
(* SQL for the workbench.                                                   *)

\* handleOpenInQuery: shown, not run.
OpenInQuery(sql) ==
    /\ Acts /\ HasBench(conn) /\ context' = sql
    /\ UNCHANGED <<listVars, conn, serverOk, beatVars, token, fetching, picks, benchVars>>

ClearContext ==
    /\ Acts /\ context # None /\ context' = None
    /\ UNCHANGED <<listVars, conn, serverOk, beatVars, token, fetching, picks, benchVars>>

\* Mutant of LogPick: the log entry is run again where the last one was.
PicksInPlace(sql, c) ==
    /\ Acts /\ HasBench(c) /\ context' = sql /\ token' = token + 1
    /\ picks' = Append(picks, [sql |-> sql, conn |-> c, known |-> c \in listed \union {conn}])
    /\ fetching' = IF c = conn THEN fetching ELSE fetching \union {c}
    /\ conn' = conn /\ UNCHANGED beatVars /\ Renders(conn, sql, token')
    /\ UNCHANGED <<listVars, serverOk>>

\* handleLogPick: a connection that is not in the list is asked for first,
\* and the workbench of the one that is selected does not wait for it.
LogPick(sql, c) ==
    /\ Acts /\ HasBench(c) /\ context' = sql /\ token' = token + 1
    /\ picks' = Append(picks, [sql |-> sql, conn |-> c, known |-> c \in listed \union {conn}])
    /\ fetching' = IF c \in listed \union {conn} THEN fetching ELSE fetching \union {c}
    /\ LET next == IF c \in listed \union {conn} THEN c ELSE conn
       IN  ChangeTo(next) /\ Renders(next, sql, token')
    /\ UNCHANGED <<listVars, serverOk>>

Fetched(c) ==
    /\ fetching' = fetching \ {c}
    /\ IF c \in stored THEN ChangeTo(c) /\ Renders(c, context, token)
       ELSE UNCHANGED <<conn, beatVars, benchVars>>
    /\ UNCHANGED <<listVars, serverOk, context, token, picks, steps>>

RunEnds ==
    /\ busy # None /\ busy' = None
    /\ UNCHANGED <<listVars, conn, serverOk, beatVars, pickVars, fired, runs, steps>>

-----------------------------------------------------------------------------

Texts == {"a", "b"}

Next ==
    \/ RefreshConnections \/ PingAgain \/ ClearContext \/ RunEnds
    \/ \E ok \in BOOLEAN : CheckHealth(ok)
    \/ \E c \in Conns : ClickRow(c) \/ PickFromPalette(c) \/ Remove(c) \/ Create(c)
    \/ \E r \in removing : Removed(r)
    \/ \E p \in pings, ok \in BOOLEAN : PingAnswer(p, ok)
    \/ \E sql \in Texts : OpenInQuery(sql) \/ \E c \in Conns : LogPick(sql, c)
    \/ \E c \in fetching : Fetched(c)

Spec == Init /\ [][Next]_shellVars

-----------------------------------------------------------------------------

TypeOK ==
    /\ stored \subseteq Conns /\ sidebar \subseteq Conns /\ listed \subseteq Conns
    /\ conn \in Conns \union {None} /\ serverOk \in BOOLEAN \union {None}
    /\ health = None \/ health \in [of : Conns, ok : BOOLEAN]
    /\ \A p \in pings : p.conn \in Conns /\ p.alive \in BOOLEAN
    /\ context \in Texts \union {None} /\ busy \in Texts \union {None}
    /\ token = Len(picks) /\ fired \in (0..token) \union {None}
    /\ fetching \subseteq Conns /\ steps \in 0..MaxSteps

\* The light beside the name is that of the connection that is selected.
HealthIsOfConnection == health # None => health.of = conn /\ serverOk = TRUE

\* What runs unasked was picked in the log, runs once, and, when its
\* connection was known, on that connection.
RunsWhatWasPicked ==
    \A r, q \in runs :
        /\ r.token \in DOMAIN picks /\ r.sql = picks[r.token].sql
        /\ picks[r.token].known => r.conn = picks[r.token].conn
        /\ r.token = q.token => r = q
=============================================================================
