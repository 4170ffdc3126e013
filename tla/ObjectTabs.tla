----------------------------- MODULE ObjectTabs -----------------------------
(***************************************************************************)
(* The object tabs of the web client: web/src/lib/openTabs.ts, the strip   *)
(* web/src/components/ObjectTabStrip.tsx and their owner web/src/App.tsx.   *)
(* The workbench is always there; every open table has one tab, which may  *)
(* carry a filter preset until its data view takes it.                     *)
(*                                                                         *)
(* A new connection is taken over in two tasks, as in EditorTabs.          *)
(***************************************************************************)
EXTENDS Naturals, Functions, Ordered

CONSTANTS
    Conns,          \* connection ids
    Tables,         \* tables, the same names in every connection
    Workbench,      \* WORKBENCH_ID
    None

\* What the constants have to satisfy.
ObjectTabsAssumption == Workbench \notin Tables

VARIABLES
    conn,       \* the connection on display
    open,       \* openState: tabs, the active one, those with a preset
    coming,     \* the state the next render will bring, in a set, or none
    store       \* localStorage: [Conns -> a state, or None]

vars == <<conn, open, coming, store>>

InitialState == [tabs |-> <<Workbench>>, active |-> Workbench, preset |-> {}]

\* loadOpenTabs: the workbench comes first, an unknown active tab is dropped.
LoadOpenTabs(c) ==
    IF store[c] = None THEN InitialState
    ELSE [store[c] EXCEPT
            !.tabs = <<Workbench>> \o Keeping(@, {i \in DOMAIN @ : @[i] # Workbench}),
            !.active = IF Contains(store[c].tabs, @) THEN @ ELSE Workbench]

Init ==
    /\ conn \in Conns
    /\ open = InitialState /\ coming = {}
    /\ store = [c \in Conns |-> IF c = conn THEN InitialState ELSE None]

\* mutateOpenTabs, and the effect that stores the result.
Mutate(s) ==
    /\ coming = {}
    /\ open' = s
    /\ store' = [store EXCEPT ![conn] = s]
    /\ UNCHANGED <<conn, coming>>

\* openTableTab: a table that is open gets the focus, and the new preset.
OpenTableTab(t, filtered) ==
    Mutate([tabs |-> IF Contains(open.tabs, t) THEN open.tabs ELSE Append(open.tabs, t),
            active |-> t,
            preset |-> IF filtered THEN open.preset \cup {t} ELSE open.preset])

\* clearTableTabPreset, called by the data view of the active tab.
PresetConsumed ==
    /\ open.active \in open.preset
    /\ Mutate([open EXCEPT !.preset = @ \ {open.active}])

SelectTab(i) == Mutate([open EXCEPT !.active = open.tabs[i]])

Keep(kept, active) ==
    Mutate([tabs |-> Keeping(open.tabs, {i \in DOMAIN open.tabs : open.tabs[i] \in kept}),
            active |-> active, preset |-> open.preset \cap kept])

\* closeOpenTab: the active tab's left neighbour takes its place.
CloseOpenTab(i) ==
    /\ i > 1
    /\ Keep(Range(open.tabs) \ {open.tabs[i]},
            IF open.active = open.tabs[i] THEN open.tabs[i - 1] ELSE open.active)

\* closeOthers; its menu entry needs another table to close.
CloseOthers(i) ==
    /\ i > 1 /\ Len(open.tabs) > 2
    /\ Keep({Workbench, open.tabs[i]},
            IF open.active \in {Workbench, open.tabs[i]} THEN open.active ELSE open.tabs[i])

CloseAllTables ==
    /\ Len(open.tabs) > 1
    /\ Keep({Workbench}, Workbench)

\* handleOpenInQuery: the workbench gets the focus.
OpenInQuery == Mutate([open EXCEPT !.active = Workbench])

\* The two effects of a new connId: the first asks for the stored state, the
\* second stores the old state under the new id until the next render.
SwitchConn(c, s) ==
    /\ c # conn /\ coming = {}
    /\ conn' = c
    /\ open' = s
    /\ coming' = {LoadOpenTabs(c)}
    /\ store' = [store EXCEPT ![c] = s]

\* handleLogPick asks for the workbench and for the connection in one render.
Switch(c) == SwitchConn(c, open) \/ SwitchConn(c, [open EXCEPT !.active = Workbench])

Rendered ==
    /\ open' \in coming /\ coming' = {}
    /\ store' = [store EXCEPT ![conn] = open']
    /\ UNCHANGED conn

Next ==
    \/ \E t \in Tables, filtered \in BOOLEAN : OpenTableTab(t, filtered)
    \/ PresetConsumed \/ CloseAllTables \/ OpenInQuery \/ Rendered
    \/ \E i \in DOMAIN open.tabs : SelectTab(i) \/ CloseOpenTab(i) \/ CloseOthers(i)
    \/ \E c \in Conns : Switch(c)

Spec == Init /\ [][Next]_vars

-----------------------------------------------------------------------------
WellFormed(s) ==
    /\ s.tabs # << >> /\ Head(s.tabs) = Workbench /\ IsInjective(s.tabs)
    /\ Range(Tail(s.tabs)) \subseteq Tables
    /\ Contains(s.tabs, s.active)
    /\ s.preset \subseteq Range(Tail(s.tabs))

TypeOK ==
    /\ conn \in Conns /\ WellFormed(open)
    /\ \A s \in coming : WellFormed(s)
    /\ \A c \in Conns : store[c] # None => WellFormed(store[c])

\* The tabs shown are the ones stored, whichever effects of a switch have run.
ShownIsStored == coming = {} => store[conn] = open

\* No step changes the stored tabs of a connection that is not on display
\* before or after it.
OthersUntouchedStep ==
    \A c \in Conns : c # conn' => store'[c] = store[c]
OthersUntouched == [][OthersUntouchedStep]_vars
=============================================================================
