------------------------------ MODULE Catalog -------------------------------
(***************************************************************************)
(* What the web client shows of the catalog of a connection: the tree of     *)
(* schemas and tables (SchemaBrowser.tsx), the details of the table whose    *)
(* tab is open (TableTab.tsx) and the search for a table                     *)
(* (QuickSwitcher.tsx).  Each list is loaded when it is needed, and the      *)
(* connection may change before it arrives.                                 *)
(*                                                                         *)
(* A list that is shown is the connection it was read from.                 *)
(***************************************************************************)
EXTENDS Naturals, FiniteSets

CONSTANTS
    Conns,
    SchemasOf,      \* [Conns -> the schemas of each]
    First,          \* [Conns -> the one that comes first]
    None,
    MaxSteps        \* bound: steps of the user

\* What the constants have to satisfy.
CatalogAssumption ==
    /\ Conns # {} /\ MaxSteps \in Nat
    /\ \A c \in Conns : First[c] \in SchemasOf[c]

Schemas == UNION {SchemasOf[c] : c \in Conns}
Tabs == {"t", "u"}

VARIABLES
    conn,
    schemas,        \* the connection whose schemas the tree lists, or None
    selSchema,
    tables,         \* tablesBySchema: [Schemas -> the connection, or None]
    tab,            \* the table of the tab, or None
    detail,         \* [conn, table] the details are of, or None
    error,          \* error of the tab
    open,           \* the search is open
    found,          \* the connection whose tables it offers, or None
    failed,         \* loadError of the search
    cached,         \* tableCache: the connections in it
    calls,          \* on their way: [n, kind, conn, arg, alive]
    unhurried,      \* the connection never changed while a list was awaited
    steps

catalogVars == <<conn, schemas, selSchema, tables, tab, detail, error, open, found, failed,
                 cached, calls, unhurried, steps>>
treeVars == <<schemas, selSchema, tables>>
tabVars == <<tab, detail, error>>
searchVars == <<open, found, failed, cached>>

Call(kind, c, arg) == [n |-> steps + 1, kind |-> kind, conn |-> c, arg |-> arg, alive |-> TRUE]
Cancelled(kind, cs) == {IF r.kind = kind THEN [r EXCEPT !.alive = FALSE] ELSE r : r \in cs}
Awaited(kind) == \E r \in calls : r.kind = kind /\ r.alive

Init ==
    /\ conn = (CHOOSE c \in Conns : TRUE) /\ schemas = None /\ selSchema = None
    /\ tables = [s \in Schemas |-> None] /\ tab = None /\ detail = None /\ error = FALSE
    /\ open = FALSE /\ found = None /\ failed = FALSE /\ cached = {}
    /\ calls = {[n |-> 0, kind |-> "schemas", conn |-> conn, arg |-> None, alive |-> TRUE]}
    /\ unhurried = TRUE /\ steps = 0

Acts == steps < MaxSteps /\ steps' = steps + 1

-----------------------------------------------------------------------------
(* The requests that the effects send.                                      *)

\* Mutant of ListsTables: the list of tables that was asked for before is not called off.
ListsTablesToo(cs, c, s, ts) ==
    cs \union (IF s = None \/ ts[s] # None THEN {} ELSE {Call("tables", c, s)})

\* The effect on connId, selSchema and tablesBySchema.
ListsTables(cs, c, s, ts) ==
    Cancelled("tables", cs) \union (IF s = None \/ ts[s] # None THEN {} ELSE {Call("tables", c, s)})

\* useTableDetail: the effect on the connection, the table and reloadSeq.
LoadsDetail(cs, c, t) ==
    Cancelled("detail", cs) \union (IF t = None THEN {} ELSE {Call("detail", c, t)})

\* The effect of the search on open and conn; loadTables.
Searches(cs, c) == cs \union (IF c \in cached THEN {} ELSE {Call("search", c, None)})

-----------------------------------------------------------------------------

\* The tree forgets everything.  The tab stays if the new connection has one
\* for the table of the same name, and keeps its details until they come anew.
SwitchTo(c) ==
    /\ Acts /\ c # conn /\ conn' = c
    /\ unhurried' = (unhurried /\ calls = {})
    /\ schemas' = None /\ selSchema' = None /\ tables' = [s \in Schemas |-> None]
    /\ \E t \in {tab, None} :
         LET cs == LoadsDetail(ListsTables(calls, c, None, tables'), c, t)
                     \union {Call("schemas", c, None)}
         IN  /\ tab' = t /\ detail' = (IF t = None THEN None ELSE detail) /\ error' = FALSE
             /\ calls' = IF open THEN Searches(cs, c) ELSE cs
    /\ found' = IF open /\ c \in cached THEN c ELSE found
    /\ failed' = FALSE /\ UNCHANGED <<open, cached>>

Reload ==
    /\ Acts /\ tables' = [s \in Schemas |-> None]
    /\ calls' = ListsTables(calls, conn, selSchema, tables') \union {Call("schemas", conn, None)}
    /\ UNCHANGED <<conn, schemas, selSchema, tabVars, searchVars, unhurried>>

SchemasArrive(r) ==
    /\ schemas' = r.conn
    /\ selSchema' = IF selSchema \in SchemasOf[r.conn] THEN selSchema ELSE First[r.conn]
    /\ calls' = IF selSchema' = selSchema THEN calls \ {r}
                ELSE ListsTables(calls \ {r}, conn, selSchema', tables)
    /\ UNCHANGED <<conn, tables, tabVars, searchVars, unhurried, steps>>

OpenSchema(s) ==
    /\ Acts /\ schemas # None /\ s \in SchemasOf[schemas] /\ s # selSchema
    /\ selSchema' = s /\ calls' = ListsTables(calls, conn, s, tables)
    /\ UNCHANGED <<conn, schemas, tables, tabVars, searchVars, unhurried>>

TablesArrive(r) ==
    /\ tables' = IF r.alive THEN [tables EXCEPT ![r.arg] = r.conn] ELSE tables
    /\ calls' = IF r.alive THEN ListsTables(calls \ {r}, conn, selSchema, tables') ELSE calls \ {r}
    /\ UNCHANGED <<conn, schemas, selSchema, tabVars, searchVars, unhurried, steps>>

-----------------------------------------------------------------------------

OpenTab(t) ==
    /\ Acts /\ t # tab /\ tab' = t /\ detail' = None /\ error' = FALSE
    /\ calls' = LoadsDetail(calls, conn, t)
    /\ UNCHANGED <<conn, treeVars, searchVars, unhurried>>

RefreshTab ==
    /\ Acts /\ tab # None /\ error' = FALSE /\ calls' = LoadsDetail(calls, conn, tab)
    /\ UNCHANGED <<conn, treeVars, tab, detail, searchVars, unhurried>>

DetailArrives(r) ==
    /\ detail' = IF r.alive THEN [conn |-> r.conn, table |-> r.arg] ELSE detail
    /\ calls' = calls \ {r}
    /\ UNCHANGED <<conn, treeVars, tab, error, searchVars, unhurried, steps>>

-----------------------------------------------------------------------------

OpenSearch ==
    /\ Acts /\ ~open /\ open' = TRUE /\ failed' = FALSE
    /\ found' = IF conn \in cached THEN conn ELSE found
    /\ calls' = Searches(calls, conn)
    /\ UNCHANGED <<conn, treeVars, tabVars, cached, unhurried>>

CloseSearch ==
    /\ open /\ open' = FALSE
    /\ UNCHANGED <<conn, treeVars, tabVars, found, failed, cached, calls, unhurried, steps>>

FoundArrives(r) ==
    /\ found' = r.conn /\ cached' = cached \union {r.conn} /\ calls' = calls \ {r}
    /\ UNCHANGED <<conn, treeVars, tabVars, open, failed, unhurried, steps>>

\* CACHE_TTL_MS.
Expire ==
    /\ cached # {} /\ cached' = {}
    /\ UNCHANGED <<conn, treeVars, tabVars, open, found, failed, calls, unhurried, steps>>

Fails(r) ==
    /\ calls' = calls \ {r}
    /\ error' = (error \/ (r.kind = "detail" /\ r.alive))
    /\ failed' = (failed \/ r.kind = "search")
    /\ UNCHANGED <<conn, treeVars, tab, detail, open, found, cached, unhurried, steps>>

-----------------------------------------------------------------------------

Arrives(r) ==
    \/ r.kind = "schemas" /\ SchemasArrive(r)
    \/ r.kind = "tables" /\ TablesArrive(r)
    \/ r.kind = "detail" /\ DetailArrives(r)
    \/ r.kind = "search" /\ FoundArrives(r)

Next ==
    \/ Reload \/ RefreshTab \/ OpenSearch \/ CloseSearch \/ Expire
    \/ \E c \in Conns : SwitchTo(c)
    \/ \E s \in Schemas : OpenSchema(s)
    \/ \E t \in Tabs : OpenTab(t)
    \/ \E r \in calls : Arrives(r) \/ Fails(r)

Spec == Init /\ [][Next]_catalogVars

-----------------------------------------------------------------------------

TypeOK ==
    /\ conn \in Conns /\ schemas \in Conns \union {None} /\ selSchema \in Schemas \union {None}
    /\ tables \in [Schemas -> Conns \union {None}] /\ tab \in Tabs \union {None}
    /\ detail = None \/ detail \in [conn : Conns, table : Tabs]
    /\ found \in Conns \union {None} /\ cached \subseteq Conns
    /\ \A r \in calls : r.kind \in {"schemas", "tables", "detail", "search"}
    /\ steps \in 0..MaxSteps

\* However the answers are delayed, the tables under a schema are those of
\* the connection, and details that are shown as loaded are those of the tab.
\* The list of schemas and the tables the search offers are of the connection
\* too, once all answers are there, if it did not change while one was awaited.
CatalogIsOfConnection ==
    /\ \A s \in Schemas : tables[s] \in {conn, None}
    /\ detail # None /\ ~Awaited("detail") /\ ~error => detail = [conn |-> conn, table |-> tab]
    /\ unhurried =>
         /\ schemas \in {conn, None}
         /\ open /\ calls = {} /\ ~failed => found = conn
=============================================================================
