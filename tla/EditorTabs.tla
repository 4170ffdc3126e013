----------------------------- MODULE EditorTabs -----------------------------
(***************************************************************************)
(* The query tabs of the SQL editor: web/src/components/QueryWorkspace.tsx *)
(* keeps them per connection in localStorage through web/src/lib/          *)
(* tabStore.ts.  The editor's text is written to the active tab by a timer *)
(* that every change of the text or of the active tab starts again.        *)
(*                                                                         *)
(* A new connId is taken over in two tasks: the effects load its tabs and  *)
(* set the refs, and the render they ask for brings the text.  Timers may  *)
(* fire between the two.                                                   *)
(***************************************************************************)
EXTENDS Naturals, Functions, Ordered

CONSTANTS
    Conns,      \* connection ids
    Texts,      \* contents of a tab
    Default,    \* the content of a new tab
    MaxTabs,    \* bound: tabs ever made, over all connections
    None

\* What the constants have to satisfy.
TabsAssumption == Default \in Texts /\ None \notin Texts /\ MaxTabs \in Nat \ {0}

VARIABLES
    conn,       \* the connection on display
    tabs,       \* tabsRef: a sequence of [id, text]
    active,     \* activeIdRef
    text,       \* the text in the editor, sqlRef
    armed,      \* TRUE if the timer that saves is running
    coming,     \* the text the next render will bring, or None
    made,       \* tabs made so far; ids are 1..made
    store       \* localStorage: [Conns -> [tabs, active] or None]

vars == <<conn, tabs, active, text, armed, coming, made, store>>

IndexOf(ts, id) == CHOOSE i \in DOMAIN ts : ts[i].id = id
TextOf(ts, id) == ts[IndexOf(ts, id)].text
WithText(ts, id, t) == [ts EXCEPT ![IndexOf(ts, id)].text = t]
Saved(ts, id) == [tabs |-> ts, active |-> id]

Init ==
    /\ conn \in Conns
    /\ tabs = <<[id |-> 1, text |-> Default]>> /\ active = 1 /\ made = 1
    /\ text = Default /\ armed = TRUE /\ coming = None
    /\ store = [c \in Conns |-> IF c = conn THEN Saved(tabs, 1) ELSE None]

\* saveTabState
SaveTabState(ts, id) == store' = [store EXCEPT ![conn'] = Saved(ts, id)]

\* Mutant of Loaded: the new tab is stored under the connection
\* that was on display.
LoadedUnderOld(c) ==
    IF store[c] # None
    THEN /\ tabs' = store[c].tabs /\ active' = store[c].active
         /\ coming' = TextOf(tabs', active')
         /\ UNCHANGED <<made, store>>
    ELSE /\ made < MaxTabs
         /\ made' = made + 1
         /\ coming' \in Texts
         /\ tabs' = <<[id |-> made', text |-> coming']>> /\ active' = made'
         /\ store' = [store EXCEPT ![conn] = Saved(tabs', active')]

\* loadTabState: what is stored, or one new tab, which is stored at once.  Its
\* text may come from the single-text storage of older versions.
Loaded(c) ==
    IF store[c] # None
    THEN /\ tabs' = store[c].tabs /\ active' = store[c].active
         /\ coming' = TextOf(tabs', active')
         /\ UNCHANGED <<made, store>>
    ELSE /\ made < MaxTabs
         /\ made' = made + 1
         /\ coming' \in Texts
         /\ tabs' = <<[id |-> made', text |-> coming']>> /\ active' = made'
         /\ store' = [store EXCEPT ![c] = Saved(tabs', active')]

\* The effects of a new connId.  The old text is still in sqlRef, and the
\* timer of the old connection may still be running.
SwitchConn(c) ==
    /\ c # conn /\ coming = None
    /\ conn' = c
    /\ Loaded(c)
    /\ UNCHANGED <<text, armed>>

\* The render that the effects asked for; its own effect restarts the timer.
Rendered ==
    /\ coming # None
    /\ text' = coming /\ coming' = None /\ armed' = TRUE
    /\ UNCHANGED <<conn, tabs, active, made, store>>

\* The page is loaded again: what the timer has not saved is gone.
Reload(c) ==
    /\ conn' = c
    /\ Loaded(c)
    /\ text' = Default /\ armed' = FALSE

\* The timer: the text goes to the tab that is active by then.
Save ==
    /\ armed /\ armed' = FALSE
    /\ tabs' = WithText(tabs, active, text)
    /\ UNCHANGED <<conn, active, text, coming, made>>
    /\ SaveTabState(tabs', active)

Type(t) ==
    /\ coming = None /\ t # text
    /\ text' = t /\ armed' = TRUE
    /\ UNCHANGED <<conn, tabs, active, coming, made, store>>

\* What switchToTab, addTab and closeTab have in common: the text of the tab
\* that becomes active is shown, and the list is stored as it is, without
\* the text the timer has not saved.
Activate(ts, id) ==
    /\ tabs' = ts /\ active' = id
    /\ text' = IF id = active THEN text ELSE TextOf(ts, id)
    /\ armed' = (armed \/ id # active)
    /\ UNCHANGED <<conn, coming>>
    /\ SaveTabState(ts, id)

SwitchToTab(id) ==
    /\ coming = None /\ id # active
    /\ Activate(tabs, id)
    /\ UNCHANGED made

AddTab ==
    /\ coming = None /\ made < MaxTabs
    /\ made' = made + 1
    /\ Activate(Append(tabs, [id |-> made', text |-> Default]), made')

\* The last tab stays.  The tab that takes the place of the active one, or
\* the last, becomes active.
CloseTab(i) ==
    /\ coming = None /\ Len(tabs) > 1
    /\ LET next == RemoveAt(tabs, i)
           at == IF i <= Len(next) THEN i ELSE Len(next)
       IN  Activate(next, IF tabs[i].id = active THEN next[at].id ELSE active)
    /\ UNCHANGED made

\* renameTab: only the title changes, but the list is stored.
RenameTab ==
    /\ coming = None
    /\ UNCHANGED <<conn, tabs, active, text, armed, coming, made>>
    /\ SaveTabState(tabs, active)

\* Mutant of CycleTab: the next tab is shown without the timer.
CycleQuietly ==
    /\ coming = None /\ Len(tabs) > 1
    /\ active' = tabs[(IndexOf(tabs, active) % Len(tabs)) + 1].id
    /\ text' = TextOf(tabs, active')
    /\ UNCHANGED <<conn, tabs, armed, coming, made, store>>

\* The palette's command shows the next tab and leaves storing to the timer.
CycleTab ==
    /\ coming = None /\ Len(tabs) > 1
    /\ active' = tabs[(IndexOf(tabs, active) % Len(tabs)) + 1].id
    /\ text' = TextOf(tabs, active') /\ armed' = TRUE
    /\ UNCHANGED <<conn, tabs, coming, made, store>>

Next ==
    \/ Rendered \/ Save \/ AddTab \/ RenameTab \/ CycleTab
    \/ \E c \in Conns : SwitchConn(c) \/ Reload(c)
    \/ \E t \in Texts : Type(t)
    \/ \E i \in DOMAIN tabs : SwitchToTab(tabs[i].id) \/ CloseTab(i)

Spec == Init /\ [][Next]_vars

-----------------------------------------------------------------------------
WellFormed(s) ==
    /\ s.tabs # << >> /\ IsInjective([i \in DOMAIN s.tabs |-> s.tabs[i].id])
    /\ \A i \in DOMAIN s.tabs : s.tabs[i].id \in 1..made /\ s.tabs[i].text \in Texts
    /\ \E i \in DOMAIN s.tabs : s.tabs[i].id = s.active

TypeOK ==
    /\ conn \in Conns /\ text \in Texts /\ armed \in BOOLEAN
    /\ coming \in Texts \cup {None}
    /\ WellFormed(Saved(tabs, active))
    /\ \A c \in Conns : store[c] # None => WellFormed(store[c])

\* When no save is due, what is stored for the connection on display is what
\* the page shows: its tabs, the active one, and in it the editor's text.
QuietIsSaved ==
    ~armed /\ coming = None =>
        store[conn] = Saved(WithText(tabs, active, text), active)

\* No step changes the stored tabs of a connection that is not on display
\* before or after it, and switching leaves those of the old one alone.
OthersUntouchedStep ==
    \A c \in Conns : c # conn' => store'[c] = store[c]
OthersUntouched == [][OthersUntouchedStep]_vars
=============================================================================
