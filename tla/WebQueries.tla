----------------------------- MODULE WebQueries -----------------------------
(***************************************************************************)
(* The machines of the web client that run queries and keep what belongs   *)
(* to them: the socket, the runs of the workspace, the tabs, the whitelist *)
(* of risky statements and the shell that hands statements to the          *)
(* workspace.                                                              *)
(***************************************************************************)
EXTENDS WebVars

CONSTANTS
    Queries,        \* the socket: calls of query()
    Sockets,        \*   WebSocket objects
    MaxStatements,  \* the runs of the workspace: bound: statements of a text
    MaxSends,       \*   bound: statements sent
    TabTexts,       \* the editor tabs: contents of a tab
    Default,        \*   the content of a new one
    MaxTabs,        \*   bound: tabs made
    ObjectTables,   \* the object tabs: tables that can be opened
    Workbench,      \*   the tab of the workbench
    ShellConns,     \* the shell: connections
    Redis,          \*   those without a workbench
    ShellSteps,     \*   bound: steps
    MaxPings,       \*   bound: heartbeats
    RiskKeys,       \* the risk whitelist: keys, as numbers
    TTL,            \*   WHITELIST_TTL_MS
    MaxDays         \*   bound: steps of time

-----------------------------------------------------------------------------
(* The variables by the names that the modules of the machines give them:  *)
(* INSTANCE puts these in the place of the variables of a module.          *)

client == v1
transport == v1
tabs == v1
closedFlag == v2
connOf == v4
coming == v4
sidebar == v5
list == v5
active == v6
panel == v6
prevOf == v7
shown == v7
armed == v7
serverOk == v7
byAge == v7
cancelled == v8
made == v8
health == v8
days == v8
hello == v9
liveId == v9
pings == v9
pc == v10
queryId == v10
answers == v11
sends == v11
pinged == v11
received == v12
last == v12
removing == v12
stops == v13
context == v13
token == v14
fired == v15
fetching == v16
picks == v17

-----------------------------------------------------------------------------
(* The machines.                                                           *)

WS == INSTANCE WsClient

QR == INSTANCE QueryRun

ET == INSTANCE EditorTabs WITH
    Texts <- TabTexts

OT == INSTANCE ObjectTabs WITH
    Tables <- ObjectTables

SH == INSTANCE Shell WITH
    Conns <- ShellConns, MaxSteps <- ShellSteps

WL == INSTANCE RiskWhitelist WITH
    Keys <- RiskKeys, NoEntry <- None

ASSUME QueriesAssumption ==
    /\ WS!WsAssumption
    /\ QR!RunAssumption
    /\ ET!TabsAssumption
    /\ OT!ObjectTabsAssumption
    /\ SH!ShellAssumption
    /\ WL!WhitelistAssumption
=============================================================================
