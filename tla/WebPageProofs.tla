--------------------------- MODULE WebPageProofs ----------------------------
(***************************************************************************)
(* What TLAPS proves of the machines of WebPages, for any connections,     *)
(* databases, changes and scripts: each has an invariant, from which       *)
(* WebProofs gets the properties of Web.                                   *)
(***************************************************************************)
EXTENDS WebPages, Sequences, FiniteSetTheorems, SequenceTheorems, TLAPS

LEMMA EntriesOf ==
    ASSUME NEW S, NEW s \in Seq(S)
    PROVE  Len(s) \in Nat /\ DOMAIN s = 1..Len(s) /\ \A i \in DOMAIN s : s[i] \in S
BY LenProperties, ElementOfSeq

-----------------------------------------------------------------------------
(* The catalog.                                                            *)

ListCall == [n : Nat, kind : {"schemas", "tables", "detail", "search"}, conn : Conns,
             arg : CA!Schemas \cup CA!Tabs \cup {None}, alive : BOOLEAN]

\* What a request on its way is for, as long as its answer counts, and what is
\* shown once it is there.
CatalogInv ==
    /\ conn \in Conns /\ steps \in Nat /\ calls \subseteq ListCall
    /\ selSchema \in CA!Schemas \cup {None} /\ tab \in CA!Tabs \cup {None}
    /\ tables \in [CA!Schemas -> {conn, None}]
    /\ \A r \in calls : r.kind = "tables" /\ r.alive => r.conn = conn
    /\ \A r \in calls : r.kind = "detail" /\ r.alive => r.conn = conn /\ r.arg = tab /\ tab # None
    /\ detail # None /\ ~CA!Awaited("detail") /\ ~error => detail = [conn |-> conn, table |-> tab]
    /\ unhurried =>
         /\ \A r \in calls : r.conn = conn
         /\ schemas \in {conn, None}
         /\ open /\ ~failed /\ (\A r \in calls : r.kind # "search") => found = conn

LEMMA CatalogStarts == CA!CatalogAssumption /\ CA!Init => CatalogInv
<1> SUFFICES ASSUME CA!CatalogAssumption, CA!Init
             PROVE  CatalogInv
  OBVIOUS
<1>1. conn \in Conns
  BY DEF CA!CatalogAssumption, CA!Init
<1>2. calls = {[n |-> 0, kind |-> "schemas", conn |-> conn, arg |-> None, alive |-> TRUE]}
  BY DEF CA!Init
<1>3. calls \subseteq ListCall /\ \A r \in calls : r.kind = "schemas" /\ r.conn = conn
  BY <1>1, <1>2 DEF ListCall
<1>4. QED
  BY <1>1, <1>3 DEF CA!Init, CatalogInv

LEMMA ACall ==
    ASSUME steps \in Nat, NEW kind \in {"schemas", "tables", "detail", "search"}, NEW c \in Conns,
           NEW a \in CA!Schemas \cup CA!Tabs \cup {None}
    PROVE  /\ CA!Call(kind, c, a) \in ListCall /\ CA!Call(kind, c, a).kind = kind
           /\ CA!Call(kind, c, a).conn = c /\ CA!Call(kind, c, a).arg = a /\ CA!Call(kind, c, a).alive
BY DEF CA!Call, ListCall

\* Calling off leaves every request of another kind as it is.
LEMMA CalledOff ==
    ASSUME NEW cs \in SUBSET ListCall, NEW kind
    PROVE  /\ CA!Cancelled(kind, cs) \subseteq ListCall
           /\ \A r \in CA!Cancelled(kind, cs) :
                \E q \in cs : /\ r.kind = q.kind /\ r.conn = q.conn /\ r.arg = q.arg
                              /\ IF r.kind = kind THEN ~r.alive ELSE r = q
           /\ \A q \in cs : q.kind # kind => q \in CA!Cancelled(kind, cs)
           /\ \A q \in cs : \E r \in CA!Cancelled(kind, cs) : r.kind = q.kind
<1>1. ASSUME NEW q \in cs
      PROVE  LET r == IF q.kind = kind THEN [q EXCEPT !.alive = FALSE] ELSE q IN
             /\ r \in ListCall /\ r.kind = q.kind /\ r.conn = q.conn /\ r.arg = q.arg
             /\ IF r.kind = kind THEN ~r.alive ELSE r = q
  BY DEF ListCall
<1>2. QED
  BY <1>1 DEF CA!Cancelled

\* The effect that lists tables: only tables of the connection count from now.
LEMMA TablesListed ==
    ASSUME steps \in Nat, NEW cs \in SUBSET ListCall, NEW c \in Conns,
           NEW s \in CA!Schemas \cup {None}, NEW ts
    PROVE  LET ls == CA!ListsTables(cs, c, s, ts) IN
           /\ ls \subseteq ListCall
           /\ \A r \in ls : r.kind = "tables" /\ r.alive => r.conn = c
           /\ \A r \in ls : r.kind # "tables" => r \in cs
           /\ \A r \in cs : r.kind # "tables" => r \in ls
           /\ \A r \in ls : r.conn = c \/ \E q \in cs : r.conn = q.conn
<1> DEFINE new == IF s = None \/ ts[s] # None THEN {} ELSE {CA!Call("tables", c, s)}
           off == CA!Cancelled("tables", cs)
<1>1. CA!ListsTables(cs, c, s, ts) = off \cup new
  BY DEF CA!ListsTables
<1>2. new \subseteq ListCall /\ \A r \in new : r.kind = "tables" /\ r.conn = c
  BY ACall
<1> HIDE DEF new, off
<1>3. QED
  BY <1>1, <1>2, CalledOff DEF off

LEMMA DetailsLoaded ==
    ASSUME steps \in Nat, NEW cs \in SUBSET ListCall, NEW c \in Conns,
           NEW t \in CA!Tabs \cup {None}
    PROVE  LET ls == CA!LoadsDetail(cs, c, t) IN
           /\ ls \subseteq ListCall
           /\ \A r \in ls : r.kind = "detail" /\ r.alive => r.conn = c /\ r.arg = t /\ t # None
           /\ t # None => \E r \in ls : r.kind = "detail" /\ r.alive
           /\ \A r \in ls : r.kind # "detail" => r \in cs
           /\ \A r \in cs : r.kind # "detail" => r \in ls
           /\ \A r \in ls : r.conn = c \/ \E q \in cs : r.conn = q.conn
<1> DEFINE new == IF t = None THEN {} ELSE {CA!Call("detail", c, t)}
           off == CA!Cancelled("detail", cs)
<1>1. CA!LoadsDetail(cs, c, t) = off \cup new
  BY DEF CA!LoadsDetail
<1>2. /\ new \subseteq ListCall
      /\ \A r \in new : r.kind = "detail" /\ r.conn = c /\ r.arg = t /\ t # None /\ r.alive
      /\ t # None => new # {}
  BY ACall
<1> HIDE DEF new, off
<1>3. QED
  BY <1>1, <1>2, CalledOff DEF off

\* A step on the connection on display: no request that counts gets lost but
\* by its answer or an error that is shown.
LEMMA CatalogKeeps ==
    ASSUME CatalogInv, UNCHANGED <<conn, tab, detail, unhurried>>, steps' \in Nat,
           selSchema' \in CA!Schemas \cup {None}, tables' \in [CA!Schemas -> {conn, None}],
           calls' \subseteq ListCall,
           \A r \in calls' : r.kind = "tables" /\ r.alive => r.conn = conn,
           \A r \in calls' : r.kind = "detail" /\ r.alive => r \in calls,
           \A r \in calls' : r.conn = conn \/ \E q \in calls : r.conn = q.conn,
           \A r \in calls : r.kind = "detail" /\ r.alive => r \in calls' \/ error', error' \/ ~error,
           unhurried => schemas' \in {conn, None},
           unhurried => \A r \in calls : r.kind = "search" => r \in calls' \/ failed' \/ found' = conn,
           unhurried /\ open' /\ ~failed' =>
             \/ open /\ ~failed /\ found' \in {found, conn}
             \/ found' = conn \/ \E r \in calls' : r.kind = "search"
    PROVE  CatalogInv'
<1>1. detail' # None /\ ~CA!Awaited("detail")' /\ ~error' => detail' = [conn |-> conn', table |-> tab']
  BY DEF CatalogInv, CA!Awaited
<1>2. ASSUME unhurried
      PROVE  /\ \A r \in calls' : r.conn = conn
             /\ open' /\ ~failed' /\ (\A r \in calls' : r.kind # "search") => found' = conn
  BY <1>2 DEF CatalogInv
<1>3. QED
  BY <1>1, <1>2 DEF CatalogInv

LEMMA CatalogGoes ==
    ASSUME CA!CatalogAssumption, CatalogInv, [CA!Next]_(CA!catalogVars)
    PROVE  CatalogInv'
<1>0. /\ conn \in Conns /\ steps \in Nat /\ calls \subseteq ListCall
      /\ selSchema \in CA!Schemas \cup {None} /\ tab \in CA!Tabs \cup {None}
      /\ tables \in [CA!Schemas -> {conn, None}]
  BY DEF CatalogInv
<1>1. ASSUME NEW c \in Conns, CA!SwitchTo(c)
      PROVE  CatalogInv'
  <2>1. PICK t \in {tab, None} :
            LET cs == CA!LoadsDetail(CA!ListsTables(calls, c, None, tables'), c, t)
                        \union {CA!Call("schemas", c, None)}
            IN  /\ tab' = t /\ detail' = (IF t = None THEN None ELSE detail) /\ error' = FALSE
                /\ calls' = IF open THEN CA!Searches(cs, c) ELSE cs
    BY <1>1 DEF CA!SwitchTo
  <2> DEFINE ls == CA!ListsTables(calls, c, None, tables')
             ds == CA!LoadsDetail(ls, c, t)
             call == CA!Call("schemas", c, None)
             search == CA!Call("search", c, None)
             more == IF open /\ c \notin cached THEN {search} ELSE {}
  <2>2. /\ conn' = c /\ steps' = steps + 1 /\ unhurried' = (unhurried /\ calls = {})
        /\ schemas' = None /\ selSchema' = None /\ tables' = [s \in CA!Schemas |-> None]
        /\ found' = (IF open /\ c \in cached THEN c ELSE found) /\ UNCHANGED <<open, cached>>
    BY <1>1 DEF CA!SwitchTo, CA!Acts
  <2>3. calls' = ds \cup {call} \cup more
    BY <2>1 DEF CA!Searches
  <2>4. /\ call \in ListCall /\ call.kind = "schemas" /\ call.conn = c
        /\ search \in ListCall /\ search.kind = "search" /\ search.conn = c
    BY <1>0, ACall
  <2>5. /\ ls \subseteq ListCall /\ \A r \in ls : r.kind = "tables" /\ r.alive => r.conn = c
        /\ \A r \in ls : r.conn = c \/ \E q \in calls : r.conn = q.conn
    BY <1>0, TablesListed
  <2> HIDE DEF ls
  <2>6. /\ ds \subseteq ListCall
        /\ \A r \in ds : r.kind = "detail" /\ r.alive => r.conn = c /\ r.arg = t /\ t # None
        /\ t # None => \E r \in ds : r.kind = "detail" /\ r.alive
        /\ \A r \in ds : r.kind # "detail" => r \in ls
        /\ \A r \in ds : r.conn = c \/ \E q \in ls : r.conn = q.conn
    BY <1>0, <2>5, DetailsLoaded
  <2> HIDE DEF ds, call, search
  <2>7. /\ \A r \in calls' : r \in ds \/ r = call \/ (r = search /\ open /\ c \notin cached)
        /\ ds \subseteq calls' /\ (open /\ c \notin cached => search \in calls')
    BY <2>3
  <2>8. calls' \subseteq ListCall
    BY <2>4, <2>6, <2>7
  <2>9. \A r \in calls' : r.kind = "tables" /\ r.alive => r.conn = c
    BY <2>4, <2>5, <2>6, <2>7
  <2>10. \A r \in calls' : r.kind = "detail" /\ r.alive => r.conn = c /\ r.arg = t /\ t # None
    BY <2>4, <2>6, <2>7
  <2>11. detail' # None /\ ~CA!Awaited("detail")' => FALSE
    BY <2>1, <2>6, <2>7 DEF CA!Awaited
  <2>12. ASSUME unhurried' PROVE \A r \in calls' : r.conn = c
    BY <2>2, <2>4, <2>5, <2>6, <2>7, <2>12
  <2>13. open' /\ (\A r \in calls' : r.kind # "search") => found' = c
    BY <2>2, <2>4, <2>7
  <2>14. /\ conn' \in Conns /\ steps' \in Nat /\ selSchema' = None /\ schemas' = None
         /\ tables' \in [CA!Schemas -> {c, None}]
         /\ conn' = c /\ tab' = t /\ t \in CA!Tabs \cup {None}
    BY <1>0, <2>1, <2>2
  <2>15. QED
    BY <2>8, <2>9, <2>10, <2>11, <2>12, <2>13, <2>14 DEF CatalogInv
<1>2. ASSUME selSchema' \in CA!Schemas \cup {None}, tables' \in [CA!Schemas -> {conn, None}], NEW gone,
             gone = {} \/ \E r \in calls : gone = {r} /\ r.kind \in {"schemas", "tables"},
             NEW more \in SUBSET ListCall, \A r \in more : r.kind = "schemas" /\ r.conn = conn,
             NEW cs, calls' = cs \cup more,
             cs = calls \ gone \/ cs = CA!ListsTables(calls \ gone, conn, selSchema', tables'),
             unhurried => schemas' \in {conn, None},
             UNCHANGED <<conn, tab, detail, error, open, found, failed, unhurried>>, steps' \in Nat
      PROVE  CatalogInv'
  <2>1. /\ cs \subseteq ListCall /\ \A r \in cs : r.kind = "tables" /\ r.alive => r.conn = conn
        /\ \A r \in cs : r.kind # "tables" => r \in calls
        /\ \A r \in calls \ gone : r.kind # "tables" => r \in cs
        /\ \A r \in cs : r.conn = conn \/ \E q \in calls : r.conn = q.conn
    <3>1. CASE cs = calls \ gone
      BY <1>0, <3>1 DEF CatalogInv
    <3>2. CASE cs = CA!ListsTables(calls \ gone, conn, selSchema', tables')
      BY <1>0, <1>2, <3>2, TablesListed
    <3>3. QED
      BY <1>2, <3>1, <3>2
  <2>2. calls' \subseteq ListCall /\ \A r \in calls' : r.kind = "tables" /\ r.alive => r.conn = conn
    BY <1>2, <2>1
  <2>3. \A r \in calls' : r.kind = "detail" /\ r.alive => r \in calls
    BY <1>2, <2>1
  <2>4. \A r \in calls : r.kind \in {"detail", "search"} => r \in calls'
    BY <1>2, <2>1
  <2>5. \A r \in calls' : r.conn = conn \/ \E q \in calls : r.conn = q.conn
    BY <1>2, <2>1
  <2>6. QED
    BY <1>2, <2>2, <2>3, <2>4, <2>5, CatalogKeeps
<1>3. CASE CA!Reload
  <2> DEFINE more == {CA!Call("schemas", conn, None)}
             cs == CA!ListsTables(calls \ {}, conn, selSchema', tables')
  <2>1. more \in SUBSET ListCall /\ \A r \in more : r.kind = "schemas" /\ r.conn = conn
    BY <1>0, ACall
  <2>2. /\ calls \ {} = calls
        /\ selSchema' = selSchema /\ tables' = [s \in CA!Schemas |-> None] /\ schemas' = schemas
        /\ steps' \in Nat
        /\ UNCHANGED <<conn, tab, detail, error, open, found, failed, unhurried>>
    BY <1>0, <1>3 DEF CA!Reload, CA!Acts, CA!tabVars, CA!searchVars, CA!treeVars
  <2>3. calls' = cs \cup more
    BY <1>3, <2>2 DEF CA!Reload
  <2>4. unhurried => schemas' \in {conn, None}
    BY <2>2 DEF CatalogInv
  <2>5. tables' \in [CA!Schemas -> {conn, None}]
    BY <2>2
  <2> HIDE DEF more
  <2>6. cs = CA!ListsTables(calls \ {}, conn, selSchema', tables')
    OBVIOUS
  <2> HIDE DEF cs
  <2>7. QED
    BY <1>0, <1>2, <2>1, <2>2, <2>3, <2>4, <2>5, <2>6
<1>4. ASSUME NEW r \in calls, r.kind = "schemas", CA!SchemasArrive(r)
      PROVE  CatalogInv'
  <2>1. /\ schemas' = r.conn /\ r.conn \in Conns
        /\ selSchema' = (IF selSchema \in SchemasOf[r.conn] THEN selSchema ELSE MainSchema[r.conn])
        /\ calls' = (IF selSchema' = selSchema THEN calls \ {r}
                     ELSE CA!ListsTables(calls \ {r}, conn, selSchema', tables))
        /\ UNCHANGED <<conn, tables, tab, detail, error, open, found, failed, unhurried, steps>>
    BY <1>0, <1>4 DEF CA!SchemasArrive, CA!tabVars, CA!searchVars, ListCall
  <2>2. selSchema' \in CA!Schemas
    BY <2>1 DEF CA!CatalogAssumption, CA!Schemas
  <2>3. unhurried => schemas' \in {conn, None}
    BY <2>1 DEF CatalogInv
  <2>4. calls' = calls' \cup {} /\ {r} = {r}
    OBVIOUS
  <2>5. QED
    BY <1>0, <1>2, <1>4, <2>1, <2>2, <2>3, <2>4
<1>5. ASSUME NEW s \in CA!Schemas, CA!OpenSchema(s)
      PROVE  CatalogInv'
  <2>1. /\ selSchema' = s /\ calls' = CA!ListsTables(calls, conn, s, tables) /\ steps' \in Nat
        /\ UNCHANGED <<conn, schemas, tables, tab, detail, error, open, found, failed, unhurried>>
    BY <1>0, <1>5 DEF CA!OpenSchema, CA!Acts, CA!tabVars, CA!searchVars
  <2>2. calls' = calls' \cup {} /\ calls = calls \ {} /\ (unhurried => schemas' \in {conn, None})
    BY <2>1 DEF CatalogInv
  <2>3. QED
    BY <1>0, <1>2, <2>1, <2>2
<1>6. ASSUME NEW r \in calls, r.kind = "tables", CA!TablesArrive(r)
      PROVE  CatalogInv'
  <2>1. /\ tables' = (IF r.alive THEN [tables EXCEPT ![r.arg] = r.conn] ELSE tables)
        /\ calls' = (IF r.alive THEN CA!ListsTables(calls \ {r}, conn, selSchema, tables')
                     ELSE calls \ {r})
        /\ UNCHANGED <<conn, schemas, selSchema, tab, detail, error, open, found, failed, unhurried, steps>>
    BY <1>6 DEF CA!TablesArrive, CA!tabVars, CA!searchVars
  <2>2. r.alive => r.conn = conn
    BY <1>6 DEF CatalogInv
  <2>3. tables' \in [CA!Schemas -> {conn, None}]
    BY <1>0, <2>1, <2>2
  <2>4. calls' = calls' \cup {} /\ (unhurried => schemas' \in {conn, None})
    BY <2>1 DEF CatalogInv
  <2>5. QED
    BY <1>0, <1>2, <1>6, <2>1, <2>3, <2>4
<1>7. ASSUME tab' \in CA!Tabs \cup {None}, detail' \in {detail, None}, tab' # None \/ detail' = None,
             calls' = CA!LoadsDetail(calls, conn, tab'), error' = FALSE, steps' \in Nat,
             UNCHANGED <<conn, schemas, selSchema, tables, open, found, failed, unhurried>>
      PROVE  CatalogInv'
  <2> DEFINE ls == CA!LoadsDetail(calls, conn, tab')
  <2>1. /\ ls \subseteq ListCall
        /\ \A r \in ls : r.kind = "detail" /\ r.alive => r.conn = conn /\ r.arg = tab' /\ tab' # None
        /\ tab' # None => \E r \in ls : r.kind = "detail" /\ r.alive
        /\ \A r \in ls : r.kind # "detail" => r \in calls
        /\ \A r \in calls : r.kind # "detail" => r \in ls
        /\ \A r \in ls : r.conn = conn \/ \E q \in calls : r.conn = q.conn
    BY <1>0, <1>7, DetailsLoaded
  <2> HIDE DEF ls
  <2>2. calls' = ls
    BY <1>7 DEF ls
  <2>3. detail' # None => CA!Awaited("detail")'
    BY <1>7, <2>1, <2>2 DEF CA!Awaited
  <2>4. QED
    BY <1>0, <1>7, <2>1, <2>2, <2>3 DEF CatalogInv
<1>8. ASSUME CA!RefreshTab \/ \E t \in CA!Tabs : CA!OpenTab(t)
      PROVE  CatalogInv'
  <2>1. /\ tab' \in CA!Tabs \cup {None} /\ detail' \in {detail, None} /\ (tab' # None \/ detail' = None)
        /\ calls' = CA!LoadsDetail(calls, conn, tab') /\ error' = FALSE /\ steps' \in Nat
        /\ UNCHANGED <<conn, schemas, selSchema, tables, open, found, failed, unhurried>>
    BY <1>0, <1>8 DEF CA!RefreshTab, CA!OpenTab, CA!Acts, CA!treeVars, CA!searchVars
  <2>2. QED
    BY <1>7, <2>1
<1>9. ASSUME NEW r \in calls, r.kind = "detail", CA!DetailArrives(r)
      PROVE  CatalogInv'
  <2>1. /\ detail' = (IF r.alive THEN [conn |-> r.conn, table |-> r.arg] ELSE detail)
        /\ calls' = calls \ {r}
        /\ UNCHANGED <<conn, schemas, selSchema, tables, tab, error, open, found, failed, unhurried, steps>>
    BY <1>9 DEF CA!DetailArrives, CA!treeVars, CA!searchVars
  <2>2. r.alive => detail' = [conn |-> conn, table |-> tab]
    BY <1>9, <2>1 DEF CatalogInv
  <2>3. ~r.alive /\ CA!Awaited("detail") => CA!Awaited("detail")'
    BY <2>1 DEF CA!Awaited
  <2>4. QED
    BY <1>9, <2>1, <2>2, <2>3 DEF CatalogInv
<1>10. CASE CA!OpenSearch
  <2>1. CA!Call("search", conn, None) \in ListCall /\ CA!Call("search", conn, None).kind = "search"
        /\ CA!Call("search", conn, None).conn = conn
    BY <1>0, ACall
  <2> DEFINE more == IF conn \in cached THEN {} ELSE {CA!Call("search", conn, None)}
  <2>2. /\ more \subseteq ListCall /\ \A r \in more : r.kind = "search" /\ r.conn = conn
        /\ conn \notin cached => more # {}
    BY <2>1
  <2>3. /\ calls' = calls \cup more /\ found' = (IF conn \in cached THEN conn ELSE found)
        /\ failed' = FALSE /\ steps' \in Nat
        /\ UNCHANGED <<conn, schemas, selSchema, tables, tab, detail, error, unhurried>>
    BY <1>0, <1>10 DEF CA!OpenSearch, CA!Searches, CA!Acts, CA!treeVars, CA!tabVars
  <2> HIDE DEF more
  <2>4. /\ calls' \subseteq ListCall /\ calls \subseteq calls'
        /\ \A r \in calls' : r \in calls \/ (r.kind = "search" /\ r.conn = conn)
        /\ found' = conn \/ \E r \in calls' : r.kind = "search"
    BY <1>0, <2>2, <2>3
  <2>5. \A r \in calls' : r.kind = "tables" /\ r.alive => r.conn = conn
    BY <2>4 DEF CatalogInv
  <2>6. unhurried => schemas' \in {conn, None}
    BY <2>3 DEF CatalogInv
  <2>7. QED
    BY <1>0, <2>3, <2>4, <2>5, <2>6, CatalogKeeps
<1>11. CASE CA!CloseSearch \/ CA!Expire \/ UNCHANGED CA!catalogVars
  <2>1. /\ open' => open
        /\ UNCHANGED <<conn, schemas, selSchema, tables, tab, detail, error, found, failed, calls,
                       unhurried, steps>>
    BY <1>11 DEF CA!CloseSearch, CA!Expire, CA!treeVars, CA!tabVars, CA!catalogVars
  <2>2. CA!Awaited("detail")' = CA!Awaited("detail")
    BY <2>1 DEF CA!Awaited
  <2>3. QED
    BY <2>1, <2>2 DEF CatalogInv
<1>12. ASSUME NEW r \in calls, \/ r.kind = "search" /\ CA!FoundArrives(r)
                               \/ CA!Fails(r)
       PROVE  CatalogInv'
  <2>1. /\ calls' = calls \ {r} /\ open' = open
        /\ UNCHANGED <<conn, schemas, selSchema, tables, tab, detail, unhurried, steps>>
        /\ \/ r.kind = "search" /\ found' = r.conn /\ UNCHANGED <<error, failed>>
           \/ /\ error' = (error \/ (r.kind = "detail" /\ r.alive))
              /\ failed' = (failed \/ r.kind = "search") /\ found' = found
              /\ r.kind = "search" => failed'
    BY <1>12 DEF CA!FoundArrives, CA!Fails, CA!treeVars, CA!tabVars
  <2>2. \A q \in calls : r = q \/ q \in calls'
    BY <2>1
  <2>3. \A q \in calls : q.kind = "detail" /\ q.alive => q \in calls' \/ error'
    BY <2>1, <2>2
  <2>4. unhurried => \A q \in calls : q.kind = "search" => q \in calls' \/ failed' \/ found' = conn
    BY <2>1, <2>2 DEF CatalogInv
  <2>5. unhurried => r.conn = conn /\ schemas' \in {conn, None}
    BY <2>1 DEF CatalogInv
  <2>6. \A q \in calls' : q.kind = "tables" /\ q.alive => q.conn = conn
    BY <2>1 DEF CatalogInv
  <2>7. unhurried /\ open' /\ ~failed' => open /\ ~failed /\ found' \in {found, conn}
    BY <2>1, <2>5
  <2>8. error' \/ ~error
    BY <2>1
  <2>9. QED
    BY <1>0, <2>1, <2>3, <2>4, <2>5, <2>6, <2>7, <2>8, CatalogKeeps
<1>13. QED
  BY <1>1, <1>3, <1>4, <1>5, <1>6, <1>8, <1>9, <1>10, <1>11, <1>12 DEF CA!Next, CA!Arrives
LEMMA CatalogIsRight == CatalogInv => CA!CatalogIsOfConnection
<1> SUFFICES ASSUME CatalogInv
             PROVE  CA!CatalogIsOfConnection
  OBVIOUS
<1>1. calls = {} => \A r \in calls : r.kind # "search"
  OBVIOUS
<1>2. QED
  BY <1>1 DEF CatalogInv, CA!CatalogIsOfConnection

-----------------------------------------------------------------------------
(* The Redis panel.                                                        *)

Places == [conn : Conns, db : Dbs, key : RP!AllKeys]
SavedTexts == (Places \X Nat) \cup {None}

\* The answer that empties the panel is there; a save is not read back yet;
\* the list of keys or the database has yet to come.
Switched == \E r \in done : r.kind = "select" /\ r.ok
Unread == (\E r \in done : r.kind = "set" /\ r.ok) \/ \E r \in calls \cup done : r.kind = "readback"
Relisting == \E r \in calls \cup done : r.kind \in {"scan", "select"}

ListOk ==
    /\ conn \in Conns /\ pattern \in RP!Patterns /\ cursor \in Nat /\ acts \in Nat
    /\ keys \in Seq(Places)
    /\ \A i \in DOMAIN keys : keys[i].conn = conn /\ (Switched \/ keys[i].db = session[conn])
    /\ db = session[conn] \/ error \/ Relisting

ValueOk ==
    /\ selKey \in RP!AllKeys \cup {None}
    /\ value # None =>
         /\ value.place \in Places
         /\ Switched \/ value.place = RP!Place(conn, session[conn], selKey)
         /\ Switched \/ Unread \/ value.text = stored[conn][session[conn]][selKey]
    /\ editing /\ value # None => draft \in Places \X Nat /\ draft[1] = value.place

StoreOk ==
    /\ session \in [Conns -> Dbs] /\ stored \in [Conns -> [Dbs -> [RP!AllKeys -> SavedTexts]]]
    /\ \A c \in Conns, d \in Dbs, k \in RP!AllKeys :
         stored[c][d][k] # None => stored[c][d][k][1] = RP!Place(c, d, k)

ConsoleOk ==
    /\ entries \in Seq([cmd : Nat, reply : Nat \cup {None}])
    /\ \A i \in DOMAIN entries : entries[i].reply \in {entries[i].cmd, None}

\* A request is about what is on display, and so is its answer.
CallOk(r) ==
    /\ r.conn = conn
    /\ r.kind = "scan" => r.arg[1] \in RP!Patterns /\ r.arg[2] \in Nat
    /\ r.kind = "select" => r.arg \in Dbs
    /\ r.kind \in {"get", "readback"} => r.arg = selKey /\ selKey \in RP!AllKeys
    /\ r.kind = "get" => ~editing /\ value = None
    /\ r.kind \in {"set", "readback"} => value # None
    /\ r.kind = "set" => r.arg.key = selKey /\ selKey \in RP!AllKeys
    /\ r.kind = "exec" => entries # <<>> /\ r.arg = entries[Len(entries)].cmd

SetOk(r) ==
    r.kind = "set" => /\ r.arg.text \in Places \X Nat
                      /\ r.arg.text[1] = RP!Place(conn, session[conn], r.arg.key)

AnswerOk(r) ==
    /\ r.ok /\ r.kind = "scan" =>
         /\ r.out.db = session[conn] /\ r.out.next \in Nat /\ r.out.keys \in Seq(Places)
         /\ \A i \in DOMAIN r.out.keys : /\ r.out.keys[i].conn = conn
                                         /\ r.out.keys[i].db = session[conn]
    /\ r.ok /\ r.kind \in {"get", "readback"} =>
         /\ r.out.place = RP!Place(conn, session[conn], selKey)
         /\ r.out.text = stored[conn][session[conn]][selKey]

\* Whoever waits for each answer has one request on its way, or one answer.
PanelOk ==
    /\ ListOk /\ ValueOk /\ StoreOk /\ ConsoleOk
    /\ \A q, r \in calls \cup done : q = r
    /\ calls = {} \/ done = {}
    /\ \A r \in calls \cup done : CallOk(r)
    /\ \A r \in calls : SetOk(r)
    /\ \A r \in done : AnswerOk(r)

RedisInv == calm => PanelOk

LEMMA RedisStarts == RP!PanelAssumption /\ RP!Init => RedisInv
<1> SUFFICES ASSUME RP!PanelAssumption, RP!Init
             PROVE  PanelOk
  BY DEF RedisInv
<1>1. conn \in Conns /\ db \in Dbs /\ pattern \in RP!Patterns
  BY DEF RP!PanelAssumption, RP!Init
<1>2. session \in [Conns -> Dbs] /\ session[conn] = db
  BY <1>1 DEF RP!Init
<1>3. \A c \in Conns, d \in Dbs, k \in RP!AllKeys : stored[c][d][k] = None
  BY DEF RP!Init
<1>4. stored \in [Conns -> [Dbs -> [RP!AllKeys -> SavedTexts]]]
  BY DEF RP!Init, SavedTexts
<1>5. ListOk /\ ValueOk /\ StoreOk /\ ConsoleOk
  BY <1>1, <1>2, <1>3, <1>4 DEF RP!Init, ListOk, ValueOk, StoreOk, ConsoleOk
<1>6. /\ \A r \in calls \cup done : r.kind = "scan" /\ r.conn = conn /\ r.arg = <<pattern, 1>>
      /\ done = {} /\ \A q, r \in calls \cup done : q = r
  BY DEF RP!Init
<1>7. \A r \in calls \cup done : CallOk(r) /\ SetOk(r)
  BY <1>1, <1>6 DEF CallOk, SetOk
<1>8. QED
  BY <1>5, <1>6, <1>7 DEF PanelOk

LEMMA RedisIsRight == RedisInv => RP!RightWhenUnhurried
<1> SUFFICES ASSUME PanelOk, calm
             PROVE  RP!RightWhenUnhurried
  BY DEF RedisInv, RP!RightWhenUnhurried
<1>1. ASSUME ~RP!Waiting, ~error
      PROVE  /\ db = session[conn]
             /\ \A i \in DOMAIN keys : keys[i].conn = conn /\ keys[i].db = db
             /\ value # None => /\ value.place = RP!Place(conn, db, selKey)
                                /\ value.text = stored[conn][db][selKey]
  <2>1. ~Switched /\ ~Unread /\ ~Relisting
    BY <1>1 DEF RP!Waiting, Switched, Unread, Relisting
  <2>2. QED
    BY <1>1, <2>1 DEF PanelOk, ListOk, ValueOk
<1>2. QED
  BY <1>1 DEF RP!RightWhenUnhurried, PanelOk, StoreOk, ConsoleOk

\* Whoever asks while nothing is awaited is alone with what was asked.
LEMMA AskedAlone ==
    ASSUME RedisInv, NEW call, RP!Ask(call), done' = done, calm'
    PROVE  /\ calm /\ PanelOk /\ calls = {} /\ done = {} /\ calls' = {call} /\ done' = {}
           /\ ~Switched /\ ~Unread /\ ~Relisting /\ ~Switched'
           /\ call.kind \in {"scan", "select"} => Relisting'
           /\ (\A r \in calls' : CallOk(r)' /\ SetOk(r)') /\ ListOk' /\ ValueOk' /\ StoreOk' /\ ConsoleOk'
              => PanelOk'
<1>1. calm /\ calls = {} /\ done = {}
  BY DEF RP!Ask, RP!Waiting
<1>2. calls' = {call} /\ done' = {}
  BY <1>1 DEF RP!Ask
<1>3. PanelOk
  BY <1>1 DEF RedisInv
<1>4. ~Switched /\ ~Unread /\ ~Relisting /\ ~Switched' /\ (call.kind \in {"scan", "select"} => Relisting')
  BY <1>1, <1>2 DEF Switched, Unread, Relisting
<1>5. ASSUME \A r \in calls' : CallOk(r)' /\ SetOk(r)', ListOk', ValueOk', StoreOk', ConsoleOk'
      PROVE  PanelOk'
  BY <1>2, <1>5 DEF PanelOk
<1>6. QED
  BY <1>1, <1>2, <1>3, <1>4, <1>5

LEMMA ScanKeeps ==
    ASSUME RP!PanelAssumption, RedisInv, RP!Scan \/ RP!LoadMore, calm'
    PROVE  PanelOk'
<1>1. PICK n \in {1, cursor} : RP!Ask(RP!Call("scan", conn, <<pattern, n>>))
  BY DEF RP!Scan, RP!LoadMore, RP!Rescans
<1> DEFINE call == RP!Call("scan", conn, <<pattern, n>>)
<1>2. /\ acts' = acts + 1 /\ done' = done
      /\ UNCHANGED <<conn, pattern, db, keys, cursor, selKey, value, editing, draft, entries,
                     session, stored>>
  BY DEF RP!Scan, RP!LoadMore, RP!Rescans, RP!Acts, RP!listVars, RP!valueVars, RP!serverVars
<1>3. call.kind = "scan" /\ call.conn = conn /\ call.arg = <<pattern, n>>
  BY DEF RP!Call
<1> HIDE DEF call
<1>4. /\ PanelOk /\ ~Switched /\ ~Unread /\ Relisting'
      /\ calls' = {call}
      /\ (\A r \in calls' : CallOk(r)' /\ SetOk(r)') /\ ListOk' /\ ValueOk' /\ StoreOk' /\ ConsoleOk'
         => PanelOk'
  BY <1>1, <1>2, <1>3, AskedAlone DEF call
<1>5. ListOk' /\ ValueOk' /\ StoreOk' /\ ConsoleOk'
  BY <1>2, <1>4 DEF PanelOk, ListOk, ValueOk, StoreOk, ConsoleOk
<1>6. \A r \in calls' : CallOk(r)' /\ SetOk(r)'
  BY <1>2, <1>3, <1>4 DEF PanelOk, ListOk, CallOk, SetOk
<1>7. QED
  BY <1>4, <1>5, <1>6

LEMMA ResetKeeps ==
    ASSUME RedisInv, NEW c \in Conns, NEW p \in RP!Patterns, RP!Acts, RP!Reset(c, p), calm'
    PROVE  PanelOk'
<1> DEFINE call == RP!Call("scan", c, <<p, 1>>)
<1>1. /\ RP!Ask(call) /\ acts' = acts + 1 /\ done' = done
      /\ conn' = c /\ pattern' = p /\ keys' = <<>> /\ selKey' = None /\ value' = None
      /\ UNCHANGED <<db, cursor, editing, draft, entries, session, stored>>
  BY DEF RP!Reset, RP!Acts, RP!Rescans, RP!serverVars
<1>2. call.kind = "scan" /\ call.conn = c /\ call.arg = <<p, 1>>
  BY DEF RP!Call
<1> HIDE DEF call
<1>3. /\ PanelOk /\ Relisting'
      /\ calls' = {call}
      /\ (\A r \in calls' : CallOk(r)' /\ SetOk(r)') /\ ListOk' /\ ValueOk' /\ StoreOk' /\ ConsoleOk'
         => PanelOk'
  BY <1>1, <1>2, AskedAlone
<1>4. ListOk' /\ ValueOk' /\ StoreOk' /\ ConsoleOk'
  BY <1>1, <1>3 DEF PanelOk, ListOk, ValueOk, StoreOk, ConsoleOk
<1>5. \A r \in calls' : CallOk(r)' /\ SetOk(r)'
  BY <1>1, <1>2, <1>3 DEF CallOk, SetOk
<1>6. QED
  BY <1>3, <1>4, <1>5

LEMMA ChangeDbKeeps ==
    ASSUME RedisInv, NEW d \in Dbs, RP!ChangeDb(d), calm'
    PROVE  PanelOk'
<1> DEFINE call == RP!Call("select", conn, d)
<1>1. /\ RP!Ask(call) /\ acts' = acts + 1 /\ done' = done
      /\ UNCHANGED <<conn, pattern, keys, cursor, selKey, value, editing, draft, entries, session, stored>>
  BY DEF RP!ChangeDb, RP!Acts, RP!valueVars, RP!serverVars
<1>2. call.kind = "select" /\ call.conn = conn /\ call.arg = d
  BY DEF RP!Call
<1> HIDE DEF call
<1>3. /\ PanelOk /\ ~Switched /\ ~Unread /\ Relisting'
      /\ calls' = {call}
      /\ (\A r \in calls' : CallOk(r)' /\ SetOk(r)') /\ ListOk' /\ ValueOk' /\ StoreOk' /\ ConsoleOk'
         => PanelOk'
  BY <1>1, <1>2, AskedAlone
<1>4. ListOk' /\ ValueOk' /\ StoreOk' /\ ConsoleOk'
  BY <1>1, <1>3 DEF PanelOk, ListOk, ValueOk, StoreOk, ConsoleOk
<1>5. \A r \in calls' : CallOk(r)' /\ SetOk(r)'
  BY <1>1, <1>2, <1>3 DEF CallOk, SetOk
<1>6. QED
  BY <1>3, <1>4, <1>5

LEMMA OpenKeyKeeps ==
    ASSUME RedisInv, NEW k \in {keys[i].key : i \in DOMAIN keys}, RP!OpenKey(k), calm'
    PROVE  PanelOk'
<1> DEFINE call == RP!Call("get", conn, k)
<1>1. /\ RP!Ask(call) /\ acts' = acts + 1 /\ done' = done
      /\ selKey' = k /\ value' = None /\ editing' = FALSE
      /\ UNCHANGED <<conn, pattern, db, keys, cursor, draft, error, entries, session, stored>>
  BY DEF RP!OpenKey, RP!Acts, RP!listVars, RP!serverVars
<1>2. call.kind = "get" /\ call.conn = conn /\ call.arg = k
  BY DEF RP!Call
<1> HIDE DEF call
<1>3. /\ PanelOk /\ ~Switched /\ ~Relisting
      /\ calls' = {call}
      /\ (\A r \in calls' : CallOk(r)' /\ SetOk(r)') /\ ListOk' /\ ValueOk' /\ StoreOk' /\ ConsoleOk'
         => PanelOk'
  BY <1>1, <1>2, AskedAlone
<1>4. k \in RP!AllKeys
  <2>1. keys \in Seq(Places)
    BY <1>3 DEF PanelOk, ListOk
  <2>2. \A i \in DOMAIN keys : keys[i] \in Places
    BY <2>1, EntriesOf
  <2>3. QED
    BY <2>2 DEF Places
<1>5. ListOk' /\ ValueOk' /\ StoreOk' /\ ConsoleOk'
  BY <1>1, <1>3, <1>4 DEF PanelOk, ListOk, ValueOk, StoreOk, ConsoleOk
<1>6. \A r \in calls' : CallOk(r)' /\ SetOk(r)'
  BY <1>1, <1>2, <1>3, <1>4 DEF CallOk, SetOk
<1>7. QED
  BY <1>3, <1>5, <1>6

LEMMA CommitKeeps ==
    ASSUME RP!PanelAssumption, RedisInv, RP!CommitEdit, calm'
    PROVE  PanelOk'
<1> DEFINE call == RP!Call("set", conn, [key |-> selKey, text |-> draft])
<1>1. /\ RP!Ask(call) /\ acts' = acts + 1 /\ done' = done
      /\ editing /\ value # None /\ selKey # None
      /\ UNCHANGED <<conn, pattern, db, keys, cursor, selKey, value, editing, draft, error, entries,
                     session, stored>>
  BY DEF RP!CommitEdit, RP!Acts, RP!listVars, RP!serverVars
<1>2. /\ call.kind = "set" /\ call.conn = conn /\ call.arg.key = selKey
      /\ call.arg.text = draft
  BY DEF RP!Call
<1> HIDE DEF call
<1>3. /\ PanelOk /\ ~Switched /\ ~Unread /\ ~Relisting
      /\ calls' = {call}
      /\ (\A r \in calls' : CallOk(r)' /\ SetOk(r)') /\ ListOk' /\ ValueOk' /\ StoreOk' /\ ConsoleOk'
         => PanelOk'
  BY <1>1, <1>2, AskedAlone
<1>4. ListOk' /\ ValueOk' /\ StoreOk' /\ ConsoleOk'
  BY <1>1, <1>3 DEF PanelOk, ListOk, ValueOk, StoreOk, ConsoleOk
<1>5. \A r \in calls' : CallOk(r)' /\ SetOk(r)'
  BY <1>1, <1>2, <1>3 DEF PanelOk, ValueOk, CallOk, SetOk
<1>6. QED
  BY <1>3, <1>4, <1>5

LEMMA CommandKeeps ==
    ASSUME RedisInv, RP!RunCommand, calm'
    PROVE  PanelOk'
<1> DEFINE call == RP!Call("exec", conn, acts')
           entry == [cmd |-> acts', reply |-> None]
<1>1. /\ RP!Ask(call) /\ acts' = acts + 1 /\ done' = done
      /\ entries' = Append(entries, entry)
      /\ UNCHANGED <<conn, pattern, db, keys, cursor, selKey, value, editing, draft, error,
                     session, stored>>
  BY DEF RP!RunCommand, RP!Acts, RP!listVars, RP!valueVars, RP!serverVars
<1>2. call.kind = "exec" /\ call.conn = conn /\ call.arg = acts'
  BY DEF RP!Call
<1> HIDE DEF call
<1>3. /\ PanelOk /\ ~Switched /\ ~Unread /\ ~Relisting
      /\ calls' = {call}
      /\ (\A r \in calls' : CallOk(r)' /\ SetOk(r)') /\ ListOk' /\ ValueOk' /\ StoreOk' /\ ConsoleOk'
         => PanelOk'
  BY <1>1, <1>2, AskedAlone
<1>4. ListOk' /\ ValueOk' /\ StoreOk'
  BY <1>1, <1>3 DEF PanelOk, ListOk, ValueOk, StoreOk
<1>5. /\ entries \in Seq([cmd : Nat, reply : Nat \cup {None}]) /\ acts' \in Nat
      /\ entry \in [cmd : Nat, reply : Nat \cup {None}] /\ entry.cmd = acts' /\ entry.reply = None
      /\ \A i \in DOMAIN entries : entries[i].reply \in {entries[i].cmd, None}
  BY <1>1, <1>3 DEF PanelOk, ListOk, ConsoleOk
<1> HIDE DEF entry
<1>6. /\ entries' \in Seq([cmd : Nat, reply : Nat \cup {None}]) /\ Len(entries') = Len(entries) + 1
      /\ entries'[Len(entries) + 1] = entry /\ entries' # <<>>
      /\ \A i \in DOMAIN entries' : \/ i \in DOMAIN entries /\ entries'[i] = entries[i]
                                \/ entries'[i] = entry
  BY <1>1, <1>5, AppendProperties, LenProperties
<1>7. ConsoleOk'
  BY <1>5, <1>6 DEF ConsoleOk
<1>8. entries'[Len(entries')].cmd = acts'
  BY <1>5, <1>6
<1>9. \A r \in calls' : CallOk(r)' /\ SetOk(r)'
  BY <1>1, <1>2, <1>3, <1>6, <1>8 DEF CallOk, SetOk
<1>10. QED
  BY <1>3, <1>4, <1>7, <1>9

LEMMA Lonely ==
    ASSUME PanelOk
    PROVE  /\ \A r \in calls : calls = {r} /\ done = {} /\ CallOk(r) /\ SetOk(r)
           /\ \A r \in done : done = {r} /\ calls = {} /\ CallOk(r) /\ AnswerOk(r)
BY DEF PanelOk

\* The page of a scan lists places of the session.
LEMMA PageListed ==
    ASSUME RP!PanelAssumption, PanelOk, NEW r \in calls, r.kind = "scan"
    PROVE  /\ RP!Scanned(r).db = session[conn] /\ RP!Scanned(r).next \in Nat
           /\ RP!Scanned(r).keys \in Seq(Places)
           /\ \A i \in DOMAIN RP!Scanned(r).keys : /\ RP!Scanned(r).keys[i].conn = conn
                                                   /\ RP!Scanned(r).keys[i].db = session[conn]
<1> DEFINE pages == RedisPages[r.arg[1]]
           pg == IF r.arg[2] \in DOMAIN pages THEN pages[r.arg[2]] ELSE <<>>
           places == [i \in DOMAIN pg |-> RP!Place(r.conn, session[r.conn], pg[i])]
           nxt == IF r.arg[2] < Len(pages) THEN r.arg[2] + 1 ELSE 0
<1>1. RP!Scanned(r) = [db |-> session[r.conn], next |-> nxt, keys |-> places]
  BY DEF RP!Scanned
<1>2. r.conn = conn /\ r.arg[1] \in RP!Patterns /\ r.arg[2] \in Nat /\ conn \in Conns /\ session[conn] \in Dbs
  BY Lonely DEF PanelOk, ListOk, StoreOk, CallOk
<1>3. pages \in Seq(Seq(RP!AllKeys))
  BY <1>2 DEF RP!PanelAssumption
<1> HIDE DEF pages
<1>4. pg \in Seq(RP!AllKeys)
  BY <1>3, EntriesOf
<1>5. nxt \in Nat
  BY <1>2
<1> HIDE DEF pg, nxt
<1>6. DOMAIN pg = 1..Len(pg) /\ Len(pg) \in Nat /\ \A i \in DOMAIN pg : pg[i] \in RP!AllKeys
  BY <1>4, EntriesOf
<1>7. places \in [1..Len(pg) -> Places]
  BY <1>2, <1>6 DEF RP!Place, Places
<1>8. \A i \in DOMAIN places : places[i].conn = conn /\ places[i].db = session[conn]
  BY <1>2, <1>6 DEF RP!Place
<1> HIDE DEF places
<1>9. places \in Seq(Places)
  BY <1>6, <1>7
<1>10. QED
  BY <1>1, <1>2, <1>5, <1>8, <1>9

LEMMA ServeKeeps ==
    ASSUME RP!PanelAssumption, PanelOk, NEW r \in calls, RP!Serve(r)
    PROVE  PanelOk'
<1>1. PICK a : /\ a.kind = r.kind /\ a.conn = r.conn /\ a.arg = r.arg /\ a.ok
               /\ r.kind = "scan" => a.out = RP!Scanned(r)
               /\ r.kind \in {"get", "readback"} => a.out = RP!Read(r)
               /\ calls' = calls \ {r} /\ done' = done \cup {a}
  <2> DEFINE a == [id |-> r.id, kind |-> r.kind, conn |-> r.conn, arg |-> r.arg, ok |-> TRUE, out |->
                   CASE r.kind = "scan" -> RP!Scanned(r)
                     [] r.kind \in {"get", "readback"} -> RP!Read(r)
                     [] OTHER -> r.arg]
  <2>1. calls' = calls \ {r} /\ done' = done \cup {a}
    BY DEF RP!Serve
  <2>2. /\ a.kind = r.kind /\ a.conn = r.conn /\ a.arg = r.arg /\ a.ok
        /\ r.kind = "scan" => a.out = RP!Scanned(r)
        /\ r.kind \in {"get", "readback"} => a.out = RP!Read(r)
    OBVIOUS
  <2> HIDE DEF a
  <2>3. QED
    BY <2>1, <2>2
<1>2. /\ r.conn = conn /\ calls' = {} /\ done' = {a} /\ CallOk(r) /\ SetOk(r)
      /\ ~Switched /\ (Unread => r.kind = "readback") /\ (Relisting => r.kind \in {"scan", "select"})
  BY <1>1, Lonely DEF CallOk, Switched, Unread, Relisting
<1>3. /\ UNCHANGED <<conn, pattern, db, keys, cursor, selKey, value, editing, draft, error, entries, acts>>
      /\ session' = (IF r.kind = "select" THEN [session EXCEPT ![conn] = r.arg] ELSE session)
      /\ stored' = (IF r.kind = "set"
                    THEN [stored EXCEPT ![conn][session[conn]][r.arg.key] = r.arg.text] ELSE stored)
  BY <1>2 DEF RP!Serve, RP!listVars, RP!valueVars
<1>4. /\ Switched' <=> r.kind = "select"
      /\ r.kind \in {"set", "readback"} => Unread'
      /\ r.kind \in {"scan", "select"} => Relisting'
  BY <1>1, <1>2 DEF Switched, Unread, Relisting
<1>5. ListOk'
  BY <1>2, <1>3, <1>4 DEF PanelOk, ListOk
<1>6. ConsoleOk'
  BY <1>3 DEF PanelOk, ConsoleOk
<1>7. conn \in Conns /\ session[conn] \in Dbs /\ (r.kind = "set" => selKey \in RP!AllKeys)
  BY <1>2 DEF PanelOk, ListOk, StoreOk, CallOk
<1>8. StoreOk'
  <2>1. session' \in [Conns -> Dbs]
    BY <1>2, <1>3, <1>7 DEF PanelOk, StoreOk, CallOk
  <2>2. CASE r.kind = "set"
    <3>1. /\ r.arg.key = selKey /\ r.arg.text \in SavedTexts
          /\ r.arg.text[1] = RP!Place(conn, session[conn], selKey)
      BY <1>2, <2>2 DEF CallOk, SetOk, SavedTexts
    <3>2. /\ stored' \in [Conns -> [Dbs -> [RP!AllKeys -> SavedTexts]]]
          /\ \A c \in Conns, d \in Dbs, k \in RP!AllKeys :
               stored'[c][d][k] = IF c = conn /\ d = session[conn] /\ k = selKey THEN r.arg.text
                                  ELSE stored[c][d][k]
      BY <1>3, <1>7, <2>2, <3>1 DEF PanelOk, StoreOk
    <3>3. ASSUME NEW c \in Conns, NEW d \in Dbs, NEW k \in RP!AllKeys, stored'[c][d][k] # None
          PROVE  stored'[c][d][k][1] = RP!Place(c, d, k)
      <4>1. CASE c = conn /\ d = session[conn] /\ k = selKey
        BY <3>1, <3>2, <4>1
      <4>2. CASE ~(c = conn /\ d = session[conn] /\ k = selKey)
        <5>1. stored'[c][d][k] = stored[c][d][k]
          BY <3>2, <4>2
        <5>2. QED
          BY <3>3, <5>1 DEF PanelOk, StoreOk
      <4>3. QED
        BY <4>1, <4>2
    <3>4. QED
      BY <2>1, <3>2, <3>3 DEF StoreOk
  <2>3. CASE r.kind # "set"
    BY <1>3, <2>1, <2>3 DEF PanelOk, StoreOk
  <2>4. QED
    BY <2>2, <2>3
<1>9. ValueOk'
  BY <1>2, <1>3, <1>4 DEF PanelOk, ValueOk
<1>10. CallOk(r)' /\ CallOk(a)'
  BY <1>1, <1>2, <1>3 DEF CallOk
<1>11. AnswerOk(a)'
  <2>1. CASE r.kind = "scan"
    BY <1>1, <1>3, <2>1, PageListed DEF AnswerOk
  <2>2. CASE r.kind \in {"get", "readback"}
    BY <1>1, <1>2, <1>3, <2>2 DEF AnswerOk, CallOk, RP!Read
  <2>3. CASE r.kind \notin {"scan", "get", "readback"}
    BY <1>1, <2>3 DEF AnswerOk
  <2>4. QED
    BY <2>1, <2>2, <2>3
<1>12. QED
  BY <1>2, <1>5, <1>6, <1>8, <1>9, <1>10, <1>11 DEF PanelOk

LEMMA RefuseKeeps ==
    ASSUME PanelOk, NEW r \in calls, RP!Refuse(r)
    PROVE  PanelOk'
<1>1. PICK a : /\ a.kind = r.kind /\ a.conn = r.conn /\ a.arg = r.arg /\ ~a.ok
               /\ calls' = calls \ {r} /\ done' = done \cup {a}
  BY DEF RP!Refuse
<1>2. /\ calls' = {} /\ done' = {a} /\ CallOk(r) /\ ~Switched /\ (Unread => r.kind = "readback")
      /\ (Relisting => r.kind \in {"scan", "select"})
  BY <1>1, Lonely DEF Switched, Unread, Relisting
<1>3. UNCHANGED <<conn, pattern, db, keys, cursor, selKey, value, editing, draft, error, entries,
                  session, stored, acts>>
  BY DEF RP!Refuse, RP!listVars, RP!valueVars, RP!serverVars
<1>4. ~Switched' /\ (Unread => Unread') /\ (Relisting => Relisting')
  BY <1>1, <1>2 DEF Switched, Unread, Relisting
<1>5. ListOk' /\ ValueOk' /\ StoreOk' /\ ConsoleOk'
  BY <1>2, <1>3, <1>4 DEF PanelOk, ListOk, ValueOk, StoreOk, ConsoleOk
<1>6. CallOk(a)' /\ AnswerOk(a)'
  BY <1>1, <1>2, <1>3 DEF CallOk, AnswerOk
<1>7. QED
  BY <1>2, <1>5, <1>6 DEF PanelOk

\* An answer that nothing is asked upon leaves the panel to its user.
LEMMA AnsweredAlone ==
    ASSUME PanelOk, NEW r \in done, done' = done \ {r}, calls' = calls
    PROVE  /\ calls' = {} /\ done' = {} /\ done = {r} /\ calls = {} /\ CallOk(r) /\ AnswerOk(r)
           /\ ~Switched' /\ ~Unread' /\ ~Relisting'
           /\ Switched => r.kind = "select" /\ r.ok
           /\ Unread => r.kind = "readback" \/ (r.kind = "set" /\ r.ok)
           /\ Relisting => r.kind \in {"scan", "select"}
           /\ ListOk' /\ ValueOk' /\ StoreOk' /\ ConsoleOk' => PanelOk'
<1>1. calls' = {} /\ done' = {} /\ done = {r} /\ calls = {} /\ CallOk(r) /\ AnswerOk(r)
  BY Lonely
<1>2. ~Switched' /\ ~Unread' /\ ~Relisting'
  BY <1>1 DEF Switched, Unread, Relisting
<1>3. /\ Switched => r.kind = "select" /\ r.ok
      /\ Unread => r.kind = "readback" \/ (r.kind = "set" /\ r.ok)
      /\ Relisting => r.kind \in {"scan", "select"}
  BY <1>1 DEF Switched, Unread, Relisting
<1>4. QED
  BY <1>1, <1>2, <1>3 DEF PanelOk

LEMMA KeysKeep ==
    ASSUME PanelOk, NEW r \in RP!Ok("scan"), RP!KeysArrive(r)
    PROVE  PanelOk'
<1>1. r \in done /\ r.kind = "scan" /\ r.ok
  BY DEF RP!Ok
<1>2. /\ done' = done \ {r} /\ calls' = calls /\ db' = r.out.db /\ cursor' = r.out.next
      /\ keys' = (IF r.arg[2] = 1 THEN r.out.keys ELSE keys \o r.out.keys)
      /\ UNCHANGED <<conn, pattern, selKey, value, editing, draft, error, entries, session, stored, acts>>
  BY DEF RP!KeysArrive, RP!valueVars, RP!serverVars
<1>3. /\ AnswerOk(r) /\ ~Switched' /\ ~Switched /\ ~Unread
      /\ ListOk' /\ ValueOk' /\ StoreOk' /\ ConsoleOk' => PanelOk'
  BY <1>1, <1>2, AnsweredAlone
<1>4. /\ r.out.keys \in Seq(Places) /\ keys \in Seq(Places)
      /\ \A i \in DOMAIN r.out.keys : r.out.keys[i].conn = conn /\ r.out.keys[i].db = session[conn]
      /\ \A i \in DOMAIN keys : keys[i].conn = conn /\ keys[i].db = session[conn]
      /\ r.out.db = session[conn] /\ r.out.next \in Nat
  BY <1>1, <1>3 DEF PanelOk, ListOk, AnswerOk
<1>5. keys' \in Seq(Places) /\ \A i \in DOMAIN keys' : keys'[i].conn = conn /\ keys'[i].db = session[conn]
  <2>1. keys \o r.out.keys \in Seq(Places)
    BY <1>4, ConcatProperties
  <2>2. ASSUME NEW i \in DOMAIN (keys \o r.out.keys)
        PROVE  /\ (keys \o r.out.keys)[i].conn = conn /\ (keys \o r.out.keys)[i].db = session[conn]
    <3>1. i \in 1..(Len(keys) + Len(r.out.keys)) /\ Len(keys) \in Nat /\ Len(r.out.keys) \in Nat
          /\ (keys \o r.out.keys)[i] = IF i <= Len(keys) THEN keys[i] ELSE r.out.keys[i - Len(keys)]
      BY <1>4, <2>2, ConcatProperties, LenProperties
    <3>2. CASE i <= Len(keys)
      BY <1>4, <3>1, <3>2, LenProperties
    <3>3. CASE i > Len(keys)
      <4>1. i - Len(keys) \in DOMAIN r.out.keys
        BY <1>4, <3>1, <3>3, LenProperties
      <4>2. QED
        BY <1>4, <3>1, <3>3, <4>1
    <3>4. QED
      BY <3>1, <3>2, <3>3
  <2>3. QED
    BY <1>2, <1>4, <2>1, <2>2
<1>6. ListOk' /\ ValueOk' /\ StoreOk' /\ ConsoleOk'
  BY <1>2, <1>3, <1>4, <1>5 DEF PanelOk, ListOk, ValueOk, StoreOk, ConsoleOk
<1>7. QED
  BY <1>3, <1>6

\* The answer is followed by a request for more.
LEMMA FollowedAlone ==
    ASSUME PanelOk, NEW r \in done, NEW call, done' = done \ {r}, calls' = calls \cup {call}
    PROVE  /\ calls' = {call} /\ done' = {} /\ CallOk(r) /\ AnswerOk(r) /\ ~Switched'
           /\ call.kind = "readback" => Unread'
           /\ call.kind \in {"scan", "select"} => Relisting'
           /\ (\A q \in calls' : CallOk(q)' /\ SetOk(q)') /\ ListOk' /\ ValueOk' /\ StoreOk' /\ ConsoleOk'
              => PanelOk'
<1>1. calls' = {call} /\ done' = {} /\ CallOk(r) /\ AnswerOk(r)
  BY Lonely
<1>2. /\ ~Switched' /\ (call.kind = "readback" => Unread')
      /\ call.kind \in {"scan", "select"} => Relisting'
  BY <1>1 DEF Switched, Unread, Relisting
<1>3. QED
  BY <1>1, <1>2 DEF PanelOk

LEMMA SelectedKeeps ==
    ASSUME PanelOk, NEW r \in RP!Ok("select"), RP!DbSelected(r)
    PROVE  PanelOk'
<1> DEFINE call == [id |-> r.id, kind |-> "scan", conn |-> r.conn, arg |-> <<pattern, 1>>]
<1>1. /\ r \in done /\ done' = done \ {r} /\ calls' = calls \cup {call}
      /\ keys' = <<>> /\ selKey' = None /\ value' = None
      /\ UNCHANGED <<conn, pattern, db, cursor, editing, draft, entries, session, stored, acts>>
  BY DEF RP!DbSelected, RP!serverVars, RP!Ok
<1>2. call.kind = "scan" /\ call.conn = r.conn /\ call.arg = <<pattern, 1>>
  OBVIOUS
<1> HIDE DEF call
<1>3. /\ calls' = {call} /\ CallOk(r) /\ Relisting'
      /\ (\A q \in calls' : CallOk(q)' /\ SetOk(q)') /\ ListOk' /\ ValueOk' /\ StoreOk' /\ ConsoleOk'
         => PanelOk'
  BY <1>1, <1>2, FollowedAlone
<1>4. ListOk' /\ ValueOk' /\ StoreOk' /\ ConsoleOk'
  BY <1>1, <1>3 DEF PanelOk, ListOk, ValueOk, StoreOk, ConsoleOk
<1>5. \A q \in calls' : CallOk(q)' /\ SetOk(q)'
  BY <1>1, <1>2, <1>3 DEF CallOk, SetOk, PanelOk, ListOk
<1>6. QED
  BY <1>3, <1>4, <1>5

LEMMA WrittenKeeps ==
    ASSUME PanelOk, NEW r \in RP!Ok("set"), RP!Written(r)
    PROVE  PanelOk'
<1> DEFINE call == [id |-> r.id, kind |-> "readback", conn |-> r.conn, arg |-> r.arg.key]
<1>1. /\ r \in done /\ r.kind = "set" /\ done' = done \ {r} /\ calls' = calls \cup {call} /\ editing' = FALSE
      /\ UNCHANGED <<conn, pattern, db, keys, cursor, selKey, value, draft, error, entries, session,
                     stored, acts>>
  BY DEF RP!Written, RP!listVars, RP!serverVars, RP!Ok
<1>2. call.kind = "readback" /\ call.conn = r.conn /\ call.arg = r.arg.key
  OBVIOUS
<1> HIDE DEF call
<1>3. /\ calls' = {call} /\ CallOk(r) /\ Unread' /\ ~Switched'
      /\ (\A q \in calls' : CallOk(q)' /\ SetOk(q)') /\ ListOk' /\ ValueOk' /\ StoreOk' /\ ConsoleOk'
         => PanelOk'
  BY <1>1, <1>2, FollowedAlone
<1>4. ~Switched /\ ~Relisting
  BY <1>1, Lonely DEF Switched, Relisting
<1>5. ListOk' /\ ValueOk' /\ StoreOk' /\ ConsoleOk'
  BY <1>1, <1>3, <1>4 DEF PanelOk, ListOk, ValueOk, StoreOk, ConsoleOk
<1>6. \A q \in calls' : CallOk(q)' /\ SetOk(q)'
  BY <1>1, <1>2, <1>3 DEF CallOk, SetOk
<1>7. QED
  BY <1>3, <1>5, <1>6

LEMMA ValueKeeps ==
    ASSUME PanelOk, NEW r \in RP!Ok("get") \cup RP!Ok("readback"), RP!ValueArrives(r)
    PROVE  PanelOk'
<1>1. r \in done /\ r.kind \in {"get", "readback"} /\ r.ok
  BY DEF RP!Ok
<1>2. /\ done' = done \ {r} /\ calls' = calls /\ value' = r.out
      /\ UNCHANGED <<conn, pattern, db, keys, cursor, selKey, editing, draft, error, entries, session,
                     stored, acts>>
  BY DEF RP!ValueArrives, RP!listVars, RP!serverVars
<1>3. /\ CallOk(r) /\ AnswerOk(r) /\ ~Switched /\ ~Relisting
      /\ ListOk' /\ ValueOk' /\ StoreOk' /\ ConsoleOk' => PanelOk'
  BY <1>1, <1>2, AnsweredAlone
<1>4. /\ value'.place = RP!Place(conn, session[conn], selKey) /\ value'.place \in Places
      /\ value'.text = stored[conn][session[conn]][selKey]
  BY <1>1, <1>2, <1>3 DEF PanelOk, ListOk, StoreOk, CallOk, AnswerOk, RP!Place, Places
<1>5. editing => value # None
  BY <1>1, <1>3 DEF CallOk
<1>6. editing => draft \in Places \X Nat /\ draft[1] = value'.place
  BY <1>3, <1>4, <1>5 DEF PanelOk, ValueOk
<1>7. ListOk' /\ StoreOk' /\ ConsoleOk'
  BY <1>2, <1>3 DEF PanelOk, ListOk, StoreOk, ConsoleOk
<1>8. ValueOk'
  BY <1>2, <1>3, <1>4, <1>6 DEF PanelOk, ValueOk
<1>9. QED
  BY <1>3, <1>7, <1>8

LEMMA RepliedKeeps ==
    ASSUME PanelOk, NEW r \in done, r.kind = "exec", RP!Replied(r)
    PROVE  PanelOk'
<1>1. /\ done' = done \ {r} /\ calls' = calls
      /\ entries' = [entries EXCEPT ![Len(entries)].reply = r.arg]
      /\ UNCHANGED <<conn, pattern, db, keys, cursor, selKey, value, editing, draft, error, session,
                     stored, acts>>
  BY DEF RP!Replied, RP!listVars, RP!valueVars, RP!serverVars
<1>2. /\ CallOk(r) /\ ~Switched /\ ~Unread /\ ~Relisting
      /\ ListOk' /\ ValueOk' /\ StoreOk' /\ ConsoleOk' => PanelOk'
  BY <1>1, AnsweredAlone
<1>3. ListOk' /\ ValueOk' /\ StoreOk'
  BY <1>1, <1>2 DEF PanelOk, ListOk, ValueOk, StoreOk
<1> DEFINE latest == Len(entries)
           Entry == [cmd : Nat, reply : Nat \cup {None}]
<1>4. /\ entries \in Seq(Entry) /\ entries # <<>> /\ r.arg = entries[latest].cmd
      /\ \A i \in DOMAIN entries : entries[i].reply \in {entries[i].cmd, None}
  BY <1>2 DEF PanelOk, ConsoleOk, CallOk
<1> HIDE DEF Entry
<1>5. latest \in Nat /\ latest \in DOMAIN entries /\ DOMAIN entries = 1..latest
      /\ \A i \in DOMAIN entries : entries[i] \in Entry
  <2>1. /\ latest \in Nat /\ DOMAIN entries = 1..latest
        /\ \A i \in DOMAIN entries : entries[i] \in Entry
    BY <1>4, EntriesOf
  <2>2. latest # 0
    BY <1>4, EmptySeq
  <2>3. QED
    BY <2>1, <2>2
<1> HIDE DEF latest
<1>6. entries' = [entries EXCEPT ![latest] = [entries[latest] EXCEPT !.reply = r.arg]]
  BY <1>1 DEF latest
<1> DEFINE new == [entries[latest] EXCEPT !.reply = r.arg]
<1>7. new \in Entry /\ new.reply = new.cmd
  BY <1>4, <1>5 DEF Entry
<1> HIDE DEF new
<1>8. /\ DOMAIN entries' = 1..latest
      /\ \A i \in 1..latest : entries'[i] = IF i = latest THEN new ELSE entries[i]
  BY <1>4, <1>5, <1>6 DEF new
<1>9. entries' \in [1..latest -> Entry]
  BY <1>5, <1>7, <1>6 DEF new
<1>10. entries' \in Seq(Entry)
  BY <1>5, <1>9
<1>11. ConsoleOk'
  BY <1>4, <1>5, <1>7, <1>8, <1>10 DEF ConsoleOk, Entry
<1>12. QED
  BY <1>2, <1>3, <1>11

LEMMA FailedKeeps ==
    ASSUME PanelOk, NEW r \in done, ~r.ok, r.kind # "exec", RP!Failed(r), calm'
    PROVE  PanelOk'
<1>1. /\ done' = done \ {r} /\ calls' = calls /\ r.kind # "readback"
      /\ error \/ r.kind \in {"scan", "select"} => error'
      /\ UNCHANGED <<conn, pattern, db, keys, cursor, selKey, value, editing, draft, entries, session,
                     stored, acts>>
  BY DEF RP!Failed, RP!listVars, RP!serverVars
<1>2. /\ ~Switched /\ ~Unread /\ (Relisting => error')
      /\ ListOk' /\ ValueOk' /\ StoreOk' /\ ConsoleOk' => PanelOk'
  BY <1>1, AnsweredAlone
<1>3. ListOk' /\ ValueOk' /\ StoreOk' /\ ConsoleOk'
  BY <1>1, <1>2 DEF PanelOk, ListOk, ValueOk, StoreOk, ConsoleOk
<1>4. QED
  BY <1>2, <1>3

LEMMA EditKeeps ==
    ASSUME PanelOk, RP!StartEdit \/ RP!CancelEdit
    PROVE  PanelOk'
<1>1. UNCHANGED <<conn, pattern, db, keys, cursor, selKey, value, error, entries, session, stored,
                  calls, done, calm>> /\ acts' = acts + 1
  BY DEF RP!StartEdit, RP!CancelEdit, RP!Acts, RP!listVars, RP!serverVars
<1>2. Switched' = Switched /\ Unread' = Unread /\ Relisting' = Relisting
  BY <1>1 DEF Switched, Unread, Relisting
<1>3. ListOk' /\ StoreOk' /\ ConsoleOk'
  BY <1>1, <1>2 DEF PanelOk, ListOk, StoreOk, ConsoleOk
<1>4. \/ ~editing'
      \/ value # None /\ draft' = <<value.place, acts'>> /\ editing' = TRUE
  BY DEF RP!StartEdit, RP!CancelEdit
<1>5. acts' \in Nat
  BY <1>1 DEF PanelOk, ListOk
<1>6. ValueOk'
  BY <1>1, <1>2, <1>4, <1>5 DEF PanelOk, ValueOk
<1>7. \A r \in calls' \cup done' : CallOk(r)'
  BY <1>1, <1>4 DEF PanelOk, CallOk
<1>8. (\A r \in calls' : SetOk(r)') /\ \A r \in done' : AnswerOk(r)'
  BY <1>1 DEF PanelOk, SetOk, AnswerOk
<1>9. QED
  BY <1>1, <1>3, <1>6, <1>7, <1>8 DEF PanelOk

LEMMA RedisGoes ==
    ASSUME RP!PanelAssumption, RedisInv, [RP!Next]_(RP!redisVars)
    PROVE  RedisInv'
<1> SUFFICES ASSUME calm'
             PROVE  PanelOk'
  BY DEF RedisInv
<1>1. CASE UNCHANGED RP!redisVars
  <2>1. UNCHANGED <<conn, pattern, db, keys, cursor, selKey, value, editing, draft, error, entries,
                    session, stored, calls, done, calm, acts>>
    BY <1>1 DEF RP!redisVars
  <2>2. PanelOk
    BY <2>1 DEF RedisInv
  <2>3. QED
    BY <2>1, <2>2 DEF PanelOk, ListOk, ValueOk, StoreOk, ConsoleOk, CallOk, SetOk, AnswerOk, Switched,
                      Unread, Relisting
<1>2. CASE RP!Scan \/ RP!LoadMore
  BY <1>2, ScanKeeps
<1>3. CASE RP!CommitEdit
  BY <1>3, CommitKeeps
<1>4. CASE RP!RunCommand
  BY <1>4, CommandKeeps
<1>5. ASSUME NEW p \in RP!Patterns, RP!TypePattern(p)
      PROVE  PanelOk'
  <2>1. conn \in Conns
    BY <1>5, AskedAlone DEF RP!TypePattern, RP!Reset, RP!Rescans, PanelOk, ListOk
  <2>2. QED
    BY <1>5, <2>1, ResetKeeps DEF RP!TypePattern
<1>6. ASSUME NEW c \in Conns, RP!SwitchConnection(c)
      PROVE  PanelOk'
  <2>1. pattern \in RP!Patterns
    BY <1>6, AskedAlone DEF RP!SwitchConnection, RP!Reset, RP!Rescans, PanelOk, ListOk
  <2>2. QED
    BY <1>6, <2>1, ResetKeeps DEF RP!SwitchConnection
<1>7. ASSUME NEW d \in Dbs, RP!ChangeDb(d)
      PROVE  PanelOk'
  BY <1>7, ChangeDbKeeps
<1>8. ASSUME NEW k \in {keys[i].key : i \in DOMAIN keys}, RP!OpenKey(k)
      PROVE  PanelOk'
  BY <1>8, OpenKeyKeeps
<1>9. ASSUME NEW r \in calls, RP!Serve(r) \/ RP!Refuse(r)
      PROVE  PanelOk'
  BY <1>9, ServeKeeps, RefuseKeeps DEF RP!Serve, RP!Refuse, RedisInv
<1>10. CASE RP!StartEdit \/ RP!CancelEdit
  <2>1. calm
    BY <1>10 DEF RP!StartEdit, RP!CancelEdit
  <2>2. QED
    BY <1>10, <2>1, EditKeeps DEF RedisInv
<1>11. ASSUME NEW r \in RP!Ok("scan"), RP!KeysArrive(r)
       PROVE  PanelOk'
  BY <1>11, KeysKeep DEF RP!KeysArrive, RedisInv
<1>12. ASSUME NEW r \in RP!Ok("select"), RP!DbSelected(r)
       PROVE  PanelOk'
  BY <1>12, SelectedKeeps DEF RP!DbSelected, RedisInv
<1>13. ASSUME NEW r \in RP!Ok("get") \cup RP!Ok("readback"), RP!ValueArrives(r)
       PROVE  PanelOk'
  BY <1>13, ValueKeeps DEF RP!ValueArrives, RedisInv
<1>14. ASSUME NEW r \in RP!Ok("set"), RP!Written(r)
       PROVE  PanelOk'
  BY <1>14, WrittenKeeps DEF RP!Written, RedisInv
<1>15. ASSUME NEW r \in done, r.kind = "exec", RP!Replied(r)
       PROVE  PanelOk'
  BY <1>15, RepliedKeeps DEF RP!Replied, RedisInv
<1>16. ASSUME NEW r \in done, ~r.ok, r.kind # "exec", RP!Failed(r)
       PROVE  PanelOk'
  <2>1. calm
    BY <1>16 DEF RP!Failed
  <2>2. QED
    BY <1>16, <2>1, FailedKeeps DEF RedisInv
<1>17. QED
  BY <1>1, <1>2, <1>3, <1>4, <1>5, <1>6, <1>7, <1>8, <1>9, <1>10, <1>11, <1>12, <1>13, <1>14, <1>15,
     <1>16 DEF RP!Next

-----------------------------------------------------------------------------
(* The structure editor.                                                   *)

\* What is known at each await of run: nothing was done before the statement,
\* and after it the database has either done it or holds it back.
Kept == parts = SE!Result(before, sql) /\ ("commit" \in lost \/ dialect \in SE!AutoCommits)

ChangeKnows ==
    /\ at = "begin" => parts = before
    /\ at = "execute" => parts = before /\ open = {}
    /\ at = "commit" =>
         \/ dialect \in SE!AutoCommits /\ open = {} /\ parts = SE!Result(before, sql)
         \/ dialect \notin SE!AutoCommits /\ open = {sql} /\ parts = before
    /\ at = "rollback" => parts = before \/ Kept

StructureInv == ChangeKnows /\ SE!MessageIsTrue

LEMMA StructureStarts == SE!Init => StructureInv
BY DEF SE!Init, StructureInv, ChangeKnows, SE!MessageIsTrue

\* Editing the form and loading the structure do not touch the run; choosing
\* an operation only takes the message away.
LEMMA FormKeeps ==
    ASSUME StructureInv, UNCHANGED <<dialect, parts, open, at, sql, lost, before>>,
           msg' \in {msg, "none"}
    PROVE  StructureInv'
BY DEF StructureInv, ChangeKnows, Kept, SE!MessageIsTrue, SE!Result, SE!Named

LEMMA StructureSteps ==
    ASSUME StructureInv, [SE!Next]_(SE!vars)
    PROVE  StructureInv'
<1> USE DEF StructureInv, ChangeKnows, SE!MessageIsTrue
<1>1. CASE \/ \E o \in SE!Ops : SE!Choose(o)
           \/ \E n \in PartNames \union {None} : SE!FillName(n)
           \/ \E c \in SE!Column : SE!FillColumn(c)
           \/ \E b \in BOOLEAN : SE!Reloaded(b)
           \/ UNCHANGED SE!vars
  <2>1. UNCHANGED <<dialect, parts, open, at, sql, lost, before>> /\ msg' \in {msg, "none"}
    BY <1>1 DEF SE!Choose, SE!FillName, SE!FillColumn, SE!Reloaded, SE!Edited, SE!vars
  <2>2. QED
    BY <2>1, FormKeeps
<1>2. CASE SE!Run
  BY <1>2 DEF SE!Run
<1>3. CASE SE!Begun
  BY <1>3 DEF SE!Begun
<1>4. ASSUME NEW given \in BOOLEAN, SE!BeginFails(given)
      PROVE  StructureInv'
  BY <1>4 DEF SE!BeginFails, SE!Ends, SE!Unanswered
<1>a. ASSUME at = "execute", SE!Takes
      PROVE  /\ dialect \in SE!AutoCommits => open' = {} /\ parts' = SE!Result(before, sql)
             /\ dialect \notin SE!AutoCommits => open' = {sql} /\ parts' = before
  BY <1>a DEF SE!Takes
<1>b. UNCHANGED <<before, sql>> => SE!Result(before, sql)' = SE!Result(before, sql)
  BY DEF SE!Result, SE!Named
<1>5. CASE SE!Executed
  <2>1. at = "execute" /\ SE!Takes /\ at' = "commit" /\ UNCHANGED <<dialect, before, sql>>
    BY <1>5 DEF SE!Executed
  <2>2. QED
    BY <1>a, <1>b, <2>1
<1>6. ASSUME NEW given \in BOOLEAN, SE!ExecuteFails(given)
      PROVE  StructureInv'
  <2>1. /\ at = "execute" /\ at' = "rollback" /\ UNCHANGED <<dialect, before, sql>>
        /\ IF given THEN SE!Takes ELSE UNCHANGED <<parts, open>>
    BY <1>6 DEF SE!ExecuteFails, SE!RollsBack
  <2>2. QED
    BY <1>a, <1>b, <2>1 DEF Kept
<1>7. CASE SE!Committed
  <2>1. at' = "idle" /\ msg' = "ok" /\ UNCHANGED <<before, sql>>
    BY <1>7 DEF SE!Committed, SE!Ends
  <2>2. parts' = SE!Result(before, sql)
    <3>1. CASE open = {}
      BY <1>7, <3>1 DEF SE!Committed, SE!Carried
    <3>2. CASE open # {}
      BY <1>7, <3>2 DEF SE!Committed, SE!Carried
    <3>3. QED
      BY <3>1, <3>2
  <2>3. QED
    BY <2>1, <2>2 DEF SE!Result, SE!Named
<1>8. ASSUME NEW given \in BOOLEAN, SE!CommitFails(given)
      PROVE  StructureInv'
  <2>1. at = "commit" /\ at' = "rollback" /\ UNCHANGED <<before, dialect, sql>>
    BY <1>8 DEF SE!CommitFails, SE!RollsBack
  <2>2. CASE given
    <3>1. "commit" \in lost' /\ parts' = SE!Result(before, sql)
      BY <1>8, <2>1, <2>2 DEF SE!CommitFails, SE!Carried, SE!Unanswered
    <3>2. QED
      BY <1>b, <2>1, <3>1 DEF Kept
  <2>3. CASE ~given
    <3>1. UNCHANGED parts
      BY <1>8, <2>3 DEF SE!CommitFails
    <3>2. QED
      BY <1>b, <2>1, <3>1 DEF Kept
  <2>4. QED
    BY <2>2, <2>3
<1>9. ASSUME NEW ok \in BOOLEAN, SE!RolledBack(ok)
      PROVE  StructureInv'
  <2>1. /\ at = "rollback" /\ at' = "idle" /\ msg' = "failed"
        /\ UNCHANGED <<parts, before, dialect, sql>> /\ lost \subseteq lost'
        /\ open' = None \/ "rollback" \in lost'
    BY <1>9 DEF SE!RolledBack, SE!Ends, SE!Unanswered
  <2>2. QED
    BY <1>b, <2>1 DEF Kept
<1>10. QED
  BY <1>1, <1>2, <1>3, <1>4, <1>5, <1>6, <1>7, <1>8, <1>9 DEF SE!Next

-----------------------------------------------------------------------------
(* The sync of two schemas.                                                *)

\* The statements of the script are all there, and where the transaction
\* begins none has been passed.
Shaped(s) ==
    /\ \A j \in SyncStatements : \E i \in 1..Len(s) : s[i].what = j
    /\ \A i \in 1..Len(s) : s[i].inTx /\ (i > 1 => ~s[i - 1].inTx) =>
         \A k \in 1..(i - 1) : s[k].what \notin SyncStatements

LEMMA PlanIsShaped ==
    ASSUME CS!SyncAssumption, NEW sc \in CS!Script, NEW kind \in {"apply", "rollback"}
    PROVE  /\ CS!Planned(sc, kind) \in Seq([what : Nat, inTx : BOOLEAN])
           /\ Shaped(CS!Planned(sc, kind))
<1> DEFINE n == CS!Cardinality(SyncStatements)
           body == [j \in 1..n |-> CS!Step(IF kind = "apply" THEN j ELSE n + 1 - j, sc.inTx)]
           S == [what : Nat, inTx : BOOLEAN]
<1>1. n \in Nat /\ SyncStatements = 1..n
  <2>1. n = Cardinality(SyncStatements) /\ CS!IsFiniteSet(SyncStatements) = IsFiniteSet(SyncStatements)
    BY Zenon DEF CS!Cardinality, Cardinality, CS!IsFiniteSet, IsFiniteSet
  <2>2. QED
    BY <2>1, FS_CardinalityType DEF CS!SyncAssumption
<1>2. body \in Seq(S) /\ Len(body) = n
  <2>1. \A j \in 1..n : body[j] \in S
    BY <1>1 DEF CS!Step, CS!Script
  <2>2. body \in [1..n -> S]
    BY <2>1
  <2> HIDE DEF n, body, S
  <2>3. QED
    BY <1>1, <2>2
<1>3. \A j \in 1..n : \E i \in 1..n : body[i].what = j
  <2> SUFFICES ASSUME NEW j \in 1..n
               PROVE  \E i \in 1..n : body[i].what = j
    OBVIOUS
  <2>1. CASE kind = "apply"
    BY <2>1 DEF CS!Step
  <2>2. CASE kind = "rollback"
    <3>1. n + 1 - j \in 1..n /\ n + 1 - (n + 1 - j) = j
      BY <1>1
    <3>2. body[n + 1 - j].what = j
      BY <2>2, <3>1 DEF CS!Step
    <3>3. QED
      BY <3>1, <3>2
  <2>3. QED
    BY <2>1, <2>2
<1>4. \A i \in 1..n : body[i].inTx = sc.inTx
  BY DEF CS!Step
<1>5. CASE ~sc.pragmas
  <2>1. CS!Planned(sc, kind) = body
    BY <1>5 DEF CS!Planned
  <2> HIDE DEF n, body
  <2>2. Shaped(body)
    <3>1. \A i \in 1..n : i > 1 => i - 1 \in 1..n /\ body[i - 1].inTx = body[i].inTx
      BY <1>1, <1>4
    <3>2. \A i \in 1..n : body[i].inTx /\ (i > 1 => ~body[i - 1].inTx) => i = 1
      BY <1>1, <3>1
    <3>3. \A i \in 1..Len(body) : body[i].inTx /\ (i > 1 => ~body[i - 1].inTx) =>
            \A k \in 1..(i - 1) : body[k].what \notin SyncStatements
      <4> SUFFICES ASSUME NEW i \in 1..Len(body), body[i].inTx, i > 1 => ~body[i - 1].inTx,
                          NEW k \in 1..(i - 1)
                   PROVE  FALSE
        OBVIOUS
      <4>1. i \in 1..n
        BY <1>2
      <4>2. QED
        BY <1>1, <3>2, <4>1
    <3>4. QED
      BY <1>1, <1>2, <1>3, <3>3 DEF Shaped
  <2>3. QED
    BY <1>2, <2>1, <2>2
<1>6. CASE sc.pragmas
  <2> DEFINE first == CS!Step(0, FALSE)
             ending == CS!Step(n + 1, FALSE)
             s == <<first>> \o body \o <<ending>>
  <2>1. CS!Planned(sc, kind) = s
    BY <1>6 DEF CS!Planned
  <2>2. first \in S /\ ending \in S /\ ~first.inTx /\ ~ending.inTx /\ first.what = 0
    BY <1>1 DEF CS!Step
  <2> HIDE DEF n, body, first, ending
  <2>3. <<first>> \o body \in Seq(S) /\ Len(<<first>> \o body) = n + 1
        /\ \A i \in 1..(n + 1) : (<<first>> \o body)[i] = IF i = 1 THEN first ELSE body[i - 1]
    BY <1>1, <1>2, <2>2, ConcatProperties
  <2>4. s \in Seq(S) /\ Len(s) = n + 2 /\ s[1] = first
        /\ (\A i \in 1..(n + 2) : i = n + 2 => s[i] = ending)
        /\ \A i \in 1..n : s[i + 1] = body[i]
    <3> DEFINE head == <<first>> \o body
               tail == <<ending>>
    <3>1. tail \in Seq(S) /\ Len(tail) = 1 /\ tail[1] = ending
      BY <2>2
    <3> HIDE DEF head, tail
    <3>2. head \o tail \in Seq(S) /\ Len(head \o tail) = n + 2
          /\ \A i \in 1..(n + 2) : (head \o tail)[i] = IF i <= n + 1 THEN head[i] ELSE tail[i - (n + 1)]
      <4>1. head \in Seq(S) /\ Len(head) = n + 1
        BY <2>3 DEF head
      <4>2. n + 1 + 1 = n + 2
        BY <1>1
      <4>3. Len(head) + Len(tail) = n + 2
        BY <3>1, <4>1, <4>2
      <4>4. /\ head \o tail \in Seq(S) /\ Len(head \o tail) = Len(head) + Len(tail)
            /\ \A i \in 1..(Len(head) + Len(tail)) :
                 (head \o tail)[i] = IF i <= Len(head) THEN head[i] ELSE tail[i - Len(head)]
        BY <3>1, <4>1, ConcatProperties
      <4>5. QED
        BY <4>1, <4>3, <4>4
    <3>3. head[1] = first /\ \A i \in 1..n : head[i + 1] = body[i]
      BY <1>1, <2>3 DEF head
    <3>4. \A i \in 1..n : i + 1 \in 1..(n + 2) /\ i + 1 <= n + 1
      BY <1>1
    <3>5. s = head \o tail
      BY DEF head, tail
    <3>6. 1 \in 1..(n + 2) /\ 1 <= n + 1 /\ n + 2 \in 1..(n + 2) /\ ~(n + 2 <= n + 1)
          /\ n + 2 - (n + 1) = 1
      BY <1>1
    <3>7. /\ (head \o tail)[1] = first
          /\ \A i \in 1..(n + 2) : i = n + 2 => (head \o tail)[i] = ending
      <4>1. (head \o tail)[1] = head[1]
        BY <3>2, <3>6
      <4>2. ASSUME NEW i \in 1..(n + 2), i = n + 2
            PROVE  (head \o tail)[i] = tail[1]
        <5>1. ~(i <= n + 1) /\ i - (n + 1) = 1
          BY <1>1, <4>2
        <5>2. QED
          BY <3>2, <5>1
      <4>3. QED
        BY <3>1, <3>3, <4>1, <4>2
    <3>8. \A i \in 1..n : (head \o tail)[i + 1] = body[i]
      BY <3>2, <3>3, <3>4
    <3>9. QED
      BY <3>2, <3>5, <3>7, <3>8
  <2> HIDE DEF s
  <2>5. \A j \in SyncStatements : \E i \in 1..Len(s) : s[i].what = j
    <3> SUFFICES ASSUME NEW j \in SyncStatements
                 PROVE  \E i \in 1..Len(s) : s[i].what = j
      OBVIOUS
    <3>1. PICK i \in 1..n : body[i].what = j
      BY <1>1, <1>3
    <3>2. s[i + 1] = body[i]
      BY <2>4
    <3>3. i + 1 \in 1..(n + 2)
      BY <1>1
    <3>4. i + 1 \in 1..Len(s)
      BY <2>4, <3>3
    <3>5. s[i + 1].what = j
      BY <3>1, <3>2
    <3>6. QED
      BY <3>4, <3>5
  <2>6. ASSUME NEW i \in 1..Len(s), s[i].inTx, i > 1 => ~s[i - 1].inTx
        PROVE  \A k \in 1..(i - 1) : s[k].what \notin SyncStatements
    <3>1. sc.inTx /\ i \in 2..(n + 1)
      BY <1>1, <1>6, <2>2, <2>4, <2>6 DEF CS!Script
    <3>2. i = 2
      <4>1. i > 2 => s[i - 1] = body[i - 2] /\ i - 2 \in 1..n
        BY <1>1, <2>4, <3>1
      <4>2. i > 2 => s[i - 1].inTx
        BY <1>1, <1>4, <3>1, <4>1
      <4>3. QED
        BY <1>1, <2>6, <3>1, <4>2
    <3>3. QED
      BY <1>1, <2>2, <2>4, <3>2
  <2>7. QED
    BY <2>1, <2>4, <2>5, <2>6 DEF Shaped
<1>7. QED
  BY <1>5, <1>6

-----------------------------------------------------------------------------
(* What a run knows.                                                       *)

\* The statements that a run has passed, and the schema they make.
Passed(r) == {r.steps[k].what : k \in 1..(r.at - 1)} \cap SyncStatements
Made(r, plan) == IF r.kind = "apply" THEN plan \cup Passed(r) ELSE plan \ Passed(r)

\* A run that has not failed sees what its statements make of the schema it
\* found, in its transaction or outside; a transaction it can still roll back
\* has left the schema as it was found.
Knows(r, sch, wk, on) ==
    /\ on \in [conn : Conns, found : SUBSET SyncStatements] /\ r.conn = on.conn
    /\ Shaped(r.steps) /\ r.at \in 1..(Len(r.steps) + 1)
    /\ ~r.failed =>
         /\ r.tx => wk # None
         /\ (IF r.tx THEN wk ELSE sch[r.conn]) = Made(r, on.found)
         /\ ~r.tx /\ r.at <= Len(r.steps) /\ r.steps[r.at].inTx =>
              \A k \in 1..(r.at - 1) : r.steps[k].what \notin SyncStatements
    /\ r.tx /\ wk # None => sch[r.conn] = on.found
    /\ r.rolledBack => r.failed /\ ~r.tx /\ sch[r.conn] = on.found

SyncTyped ==
    /\ source \in Conns \cup {None} /\ script \in CS!Script \cup {None}
    /\ schema \in [Conns -> SUBSET SyncStatements] /\ work \in (SUBSET SyncStatements) \cup {None}
    /\ run \in CS!Run \cup {None}
    /\ run # None <=> busy \in {"apply", "rollback"}

RunKnows ==
    run # None => Knows(run, schema, work, ranOn) /\ ~run.rolledBack /\ run.wait = CS!Wait(run)

CompareInv == SyncTyped /\ RunKnows /\ CS!AppliedIsWhole /\ CS!RolledBackIsClean

LEMMA CompareStarts == CS!Init => CompareInv
BY DEF CS!Init, CompareInv, SyncTyped, RunKnows, CS!AppliedIsWhole, CS!RolledBackIsClean

\* The steps of the wizard that leave the run and the schema alone.
LEMMA WizardKeeps ==
    ASSUME CompareInv, source' \in Conns \cup {None}, script' \in CS!Script \cup {None},
           work' \in {work, None}, run # None => work' = work,
           UNCHANGED <<schema, run, ranOn, outcome, applied>>,
           run = None => busy' \notin {"apply", "rollback"}, run # None => busy' = busy
    PROVE  CompareInv'
BY DEF CompareInv, SyncTyped, RunKnows, CS!AppliedIsWhole, CS!RolledBackIsClean

\* A run that knows goes on, and then still knows, or ends, and then what it
\* says is true.
LEMMA GoesWell ==
    ASSUME CompareInv, NEW r \in CS!Run, Knows(r, schema', work', ranOn), CS!Goes(r),
           run # None, r.kind = run.kind, CS!SyncAssumption,
           schema' \in [Conns -> SUBSET SyncStatements], work' \in (SUBSET SyncStatements) \cup {None},
           UNCHANGED <<source, script, ranOn>>
    PROVE  CompareInv'
<1> DEFINE w == CS!Wait(r)
<1>0. /\ run.kind \in {"apply", "rollback"} /\ (run # None <=> busy \in {"apply", "rollback"})
      /\ source \in Conns \cup {None} /\ script \in CS!Script \cup {None}
  BY DEF CompareInv, SyncTyped, CS!Run
<1>1. CASE w = "end"
  <2>0. ~r.tx /\ (r.failed \/ ~(r.at <= Len(r.steps)))
    BY <1>1 DEF CS!Wait
  <2>1. /\ run' = None /\ busy' = ""
        /\ outcome'.failed = r.failed /\ outcome'.rolledBack = r.rolledBack
        /\ applied' = IF r.kind = "apply" THEN ~r.failed ELSE applied /\ r.failed
    <3>1. /\ run' = None /\ busy' = ""
          /\ outcome' = [ran |-> r.at - 1, failed |-> r.failed, rolledBack |-> r.rolledBack]
          /\ applied' = IF r.kind = "apply" THEN ~r.failed ELSE applied /\ r.failed
      BY <1>1, Zenon DEF CS!Goes
    <3>2. QED
      BY <3>1
  <2>2. CS!RolledBackIsClean'
    BY <2>0, <2>1 DEF Knows, CS!RolledBackIsClean
  <2>3. CS!AppliedIsWhole'
    <3> SUFFICES ASSUME applied', ~r.failed
                 PROVE  schema'[ranOn.conn] = SyncStatements
      BY <2>1 DEF CS!AppliedIsWhole
    <3>1. r.kind = "apply"
      BY <2>1
    <3>2. r.at = Len(r.steps) + 1 /\ Len(r.steps) \in Nat
      <4>1. Len(r.steps) \in Nat /\ r.at \in 1..(Len(r.steps) + 1)
        BY LenProperties DEF Knows, CS!Run
      <4>2. QED
        BY <2>0, <4>1
    <3>3. SyncStatements \subseteq Passed(r)
      <4>1. \A j \in SyncStatements : \E i \in 1..Len(r.steps) : r.steps[i].what = j
        BY DEF Knows, Shaped
      <4>2. QED
        BY <3>2, <4>1 DEF Passed
    <3>4. schema'[ranOn.conn] = ranOn.found \cup Passed(r) /\ ranOn.found \subseteq SyncStatements
      BY <2>0, <3>1 DEF Knows, Made
    <3>5. QED
      BY <3>3, <3>4 DEF Passed
  <2>4. QED
    BY <1>0, <2>1, <2>2, <2>3 DEF CompareInv, SyncTyped, RunKnows
<1>2. CASE w # "end"
  <2>1. run' = [r EXCEPT !.wait = w] /\ UNCHANGED <<busy, outcome, applied>>
    BY <1>2 DEF CS!Goes
  <2>2. w \in {"begin", "execute", "commit", "rollback"}
    BY <1>2 DEF CS!Wait
  <2>3. /\ run' \in CS!Run /\ run'.wait = w /\ run'.steps = r.steps /\ run'.at = r.at
        /\ run'.tx = r.tx /\ run'.failed = r.failed /\ run'.rolledBack = r.rolledBack
        /\ run'.conn = r.conn /\ run'.kind = r.kind
    BY <2>1, <2>2 DEF CS!Run
  <2>4. run'.wait = CS!Wait(run')
    BY <2>3 DEF CS!Wait
  <2>5. Knows(run', schema', work', ranOn')
    <3>1. Passed(run') = Passed(r) /\ \A f : Made(run', f) = Made(r, f)
      BY <2>3 DEF Passed, Made
    <3>2. QED
      BY <2>3, <3>1 DEF Knows
  <2>6. ~run'.rolledBack
    BY <1>2, <2>3 DEF Knows, CS!Wait
  <2>7. run' # None
    BY <2>3 DEF CS!SyncAssumption
  <2>8. QED
    BY <1>0, <2>1, <2>3, <2>4, <2>5, <2>6, <2>7
       DEF CompareInv, SyncTyped, RunKnows, CS!AppliedIsWhole, CS!RolledBackIsClean
<1>3. QED
  BY <1>1, <1>2

LEMMA CompareSteps ==
    ASSUME CS!SyncAssumption, CompareInv, [CS!Next]_(CS!vars)
    PROVE  CompareInv'
<1>0. /\ source \in Conns \cup {None} /\ script \in CS!Script \cup {None}
      /\ schema \in [Conns -> SUBSET SyncStatements] /\ work \in (SUBSET SyncStatements) \cup {None}
      /\ run \in CS!Run \cup {None} /\ (run # None <=> busy \in {"apply", "rollback"})
      /\ None \notin CS!Run /\ None \notin SUBSET SyncStatements /\ None \notin CS!Script
      /\ None \notin Conns
  BY DEF CompareInv, SyncTyped, CS!SyncAssumption
<1>a. run # None => /\ run \in CS!Run /\ Knows(run, schema, work, ranOn) /\ ~run.rolledBack
                    /\ run.wait = CS!Wait(run) /\ run.conn \in Conns
  BY <1>0 DEF CompareInv, RunKnows, CS!Run
<1>1. CASE \/ \E i \in DOMAIN CS!Steps : CS!Goto(CS!Steps[i])
           \/ \E c \in Conns : CS!ChooseSource(c) \/ CS!ChooseTarget(c) \/ CS!Reopen(c)
           \/ CS!Reopen(None)
  BY <1>0, <1>1, WizardKeeps
     DEF CS!Goto, CS!ChooseSource, CS!ChooseTarget, CS!Reopen, CS!plan, CS!server
<1>2. CASE CS!Close
  <2>1. /\ busy = "" /\ work' \in {work, None}
        /\ UNCHANGED <<source, script, busy, applied, outcome, run, schema, ranOn>>
    BY <1>2 DEF CS!Close, CS!RollBackOpen, CS!plan
  <2>2. QED
    BY <1>0, <2>1, WizardKeeps
<1>3. CASE CS!RunDiff \/ CS!Generate \/ CS!RequestFails
  <2>1. /\ busy \in {"", "diff", "ddl"} /\ busy' \in {"", "diff", "ddl"}
        /\ UNCHANGED <<source, script, applied, outcome, run, schema, work, ranOn>>
    BY <1>3 DEF CS!RunDiff, CS!Generate, CS!RequestFails, CS!wizard, CS!plan, CS!server
  <2>2. QED
    BY <1>0, <2>1, WizardKeeps
<1>4. CASE \/ entries # None /\ \E s \in CS!Selections : CS!Select(s)
           \/ CS!AskRollback \/ CS!Dismiss \/ CS!CancelRest
  BY <1>0, <1>4, WizardKeeps
     DEF CS!Select, CS!AskRollback, CS!Dismiss, CS!CancelRest, CS!wizard, CS!plan, CS!server
<1>5. CASE \/ \E plan \in Plans : CS!DiffAnswer(plan)
           \/ \E sc \in CS!Script : CS!DdlAnswer(sc)
  <2>1. /\ busy \in {"diff", "ddl"} /\ busy' = "" /\ applied' = FALSE /\ outcome' = None
        /\ script' \in CS!Script \cup {None} /\ UNCHANGED <<source, run, schema, work, ranOn>>
    BY <1>5 DEF CS!DiffAnswer, CS!DdlAnswer, CS!server
  <2>2. QED
    BY <1>0, <2>1
       DEF CompareInv, SyncTyped, RunKnows, CS!AppliedIsWhole, CS!RolledBackIsClean
<1>6. ASSUME NEW kind \in {"apply", "rollback"}, CS!Starts(kind)
      PROVE  CompareInv'
  <2> DEFINE todo == CS!Planned(script, kind)
             r == [kind |-> kind, conn |-> source, steps |-> todo, at |-> 1,
                   tx |-> FALSE, failed |-> FALSE, rolledBack |-> FALSE, wait |-> "end"]
             w == CS!Wait(r)
  <2>1. /\ script # None /\ source # None /\ busy = "" /\ busy' = kind
        /\ run' = [r EXCEPT !.wait = w]
        /\ ranOn' = [conn |-> source, found |-> schema[source]]
        /\ UNCHANGED <<source, script, applied, outcome, schema, work>>
    BY <1>6 DEF CS!Starts, CS!wizard, CS!plan, CS!server
  <2>2. todo \in Seq([what : Nat, inTx : BOOLEAN]) /\ Shaped(todo) /\ Len(todo) \in Nat
    BY <1>0, <2>1, PlanIsShaped, LenProperties
  <2>3. w \in {"begin", "execute", "commit", "rollback", "end"}
    BY DEF CS!Wait
  <2> HIDE DEF todo, w
  <2>4. /\ run' \in CS!Run /\ run'.wait = w /\ run'.steps = todo /\ run'.at = 1
        /\ ~run'.tx /\ ~run'.failed /\ ~run'.rolledBack /\ run'.conn = source /\ run'.kind = kind
    BY <1>0, <2>1, <2>2, <2>3 DEF CS!Run
  <2>5. run'.wait = CS!Wait(run')
    BY <2>4 DEF CS!Wait, w
  <2>6. Passed(run') = {} /\ Made(run', schema[source]) = schema[source]
    BY <2>4 DEF Passed, Made
  <2>7. /\ ranOn' \in [conn : Conns, found : SUBSET SyncStatements]
        /\ ranOn'.conn = source /\ ranOn'.found = schema[source]
    BY <1>0, <2>1
  <2>8. 1 \in 1..(Len(todo) + 1) /\ 1..(1 - 1) = {}
    BY <2>2
  <2>9. Knows(run', schema', work', ranOn')
    BY <2>1, <2>2, <2>4, <2>6, <2>7, <2>8 DEF Knows
  <2>10. CompareInv'
    BY <1>0, <2>1, <2>4, <2>5, <2>9
       DEF CompareInv, SyncTyped, RunKnows, CS!AppliedIsWhole, CS!RolledBackIsClean
  <2>11. QED
    BY <2>10
<1>7. CASE CS!Begun
  <2> DEFINE r == [run EXCEPT !.tx = TRUE]
  <2>1. /\ run # None /\ run.wait = "begin" /\ work = None /\ work' = schema[run.conn]
        /\ CS!Goes(r) /\ UNCHANGED <<source, script, ranOn, schema>>
    BY <1>7 DEF CS!Begun, CS!Waiting, CS!wizard, CS!plan
  <2>2. ~run.failed /\ run.at <= Len(run.steps) /\ run.steps[run.at].inTx /\ ~run.tx
    BY <1>a, <2>1 DEF CS!Wait
  <2>3. /\ r \in CS!Run /\ r.steps = run.steps /\ r.at = run.at /\ r.kind = run.kind /\ r.tx
        /\ r.conn = run.conn /\ r.failed = run.failed /\ r.rolledBack = run.rolledBack
    BY <1>a, <2>1 DEF CS!Run
  <2>4. Passed(run) = {} /\ Passed(r) = {}
    BY <1>a, <2>1, <2>2, <2>3 DEF Knows, Passed
  <2>5. Made(run, ranOn.found) = ranOn.found /\ Made(r, ranOn.found) = ranOn.found
    BY <2>4 DEF Made
  <2>6. schema[run.conn] = ranOn.found /\ schema[run.conn] \in SUBSET SyncStatements
    BY <1>0, <1>a, <2>1, <2>2, <2>5 DEF Knows
  <2> HIDE DEF r
  <2>7. Knows(r, schema', work', ranOn)
    BY <1>0, <1>a, <2>1, <2>2, <2>3, <2>5, <2>6 DEF Knows
  <2>8. QED
    BY <1>0, <2>1, <2>3, <2>6, <2>7, GoesWell
<1>8. CASE CS!Executed
  <2> DEFINE s == run.steps[run.at]
             e == [run EXCEPT !.at = @ + 1]
             r == CS!Checked(e)
  <2>1. /\ run # None /\ run.wait = "execute" /\ CS!Goes(r)
        /\ IF s.inTx THEN work' = CS!Effect(s.what, work) /\ UNCHANGED schema
           ELSE schema' = [schema EXCEPT ![run.conn] = CS!Effect(s.what, @)] /\ UNCHANGED work
        /\ UNCHANGED <<source, script, ranOn>>
    BY <1>8 DEF CS!Executed, CS!Takes, CS!Waiting, CS!wizard, CS!plan
  <2>s. /\ run.steps \in Seq([what : Nat, inTx : BOOLEAN]) /\ Len(run.steps) \in Nat
        /\ run.at <= Len(run.steps) =>
             run.at \in 1..Len(run.steps) /\ s \in [what : Nat, inTx : BOOLEAN]
    <3>1. run.steps \in Seq([what : Nat, inTx : BOOLEAN])
      BY <1>a, <2>1 DEF CS!Run
    <3>2. run.at \in 1..(Len(run.steps) + 1) /\ Len(run.steps) \in Nat
      BY <1>a, <2>1, <3>1, LenProperties DEF Knows
    <3>3. run.at <= Len(run.steps) => run.at \in 1..Len(run.steps)
      BY <3>2
    <3>4. QED
      BY <3>1, <3>2, <3>3, ElementOfSeq
  <2>2. ~run.failed /\ run.at <= Len(run.steps) /\ run.steps[run.at].inTx = run.tx
    <3>1. ~run.failed /\ run.at <= Len(run.steps)
          /\ ~(s.inTx /\ ~run.tx) /\ ~(~s.inTx /\ run.tx)
      BY <1>a, <2>1 DEF CS!Wait
    <3>2. s \in [what : Nat, inTx : BOOLEAN] /\ run.tx \in BOOLEAN
      BY <1>a, <2>1, <2>s, <3>1 DEF CS!Run
    <3>3. QED
      BY <3>1, <3>2
  <2>3. /\ run.steps \in Seq([what : Nat, inTx : BOOLEAN]) /\ Len(run.steps) \in Nat
        /\ run.at \in 1..Len(run.steps) /\ s.what \in Nat
    BY <2>2, <2>s
  <2>4. /\ r \in CS!Run /\ r.steps = run.steps /\ r.at = run.at + 1 /\ r.kind = run.kind
        /\ r.tx = run.tx /\ r.conn = run.conn /\ r.rolledBack = run.rolledBack
    <3>1. /\ e \in CS!Run /\ e.steps = run.steps /\ e.at = run.at + 1 /\ e.kind = run.kind
          /\ e.tx = run.tx /\ e.conn = run.conn /\ e.rolledBack = run.rolledBack
      BY <1>a, <2>1, <2>3 DEF CS!Run
    <3>2. r = e \/ r = [e EXCEPT !.failed = TRUE]
      BY DEF CS!Checked
    <3> HIDE DEF e, r
    <3>3. QED
      BY <3>1, <3>2 DEF CS!Run
  <2>5. Passed(r) = Passed(run) \cup ({s.what} \cap SyncStatements)
    <3>1. run.at + 1 - 1 = run.at /\ 1..run.at = 1..(run.at - 1) \cup {run.at}
      BY <2>3
    <3>2. QED
      BY <2>4, <3>1 DEF Passed
  <2>6. \A f : CS!Effect(s.what, Made(run, f)) = Made(r, f)
    <3>1. run.kind \in {"apply", "rollback"}
      BY <1>a, <2>1 DEF CS!Run
    <3>2. QED
      BY <2>4, <2>5, <3>1 DEF Made, CS!Effect
  <2> DEFINE now == IF run.tx THEN work ELSE schema[run.conn]
  <2>7. now = Made(run, ranOn.found) /\ (run.tx => work # None) /\ now \in SUBSET SyncStatements
    BY <1>0, <1>a, <2>1, <2>2 DEF Knows
  <2>8. CS!Effect(s.what, now) \in SUBSET SyncStatements
    BY <2>7 DEF CS!Effect
  <2>9. /\ schema' \in [Conns -> SUBSET SyncStatements] /\ work' \in (SUBSET SyncStatements) \cup {None}
        /\ (IF run.tx THEN work' ELSE schema'[run.conn]) = CS!Effect(s.what, now)
        /\ run.tx => work' # None /\ schema' = schema
    BY <1>0, <1>a, <2>1, <2>2, <2>8
  <2> HIDE DEF r, s
  <2>10. ~r.tx /\ r.at <= Len(r.steps) /\ r.steps[r.at].inTx =>
           \A k \in 1..(r.at - 1) : r.steps[k].what \notin SyncStatements
    <3> SUFFICES ASSUME ~r.tx, r.at <= Len(r.steps), r.steps[r.at].inTx
                 PROVE  \A k \in 1..(r.at - 1) : r.steps[k].what \notin SyncStatements
      OBVIOUS
    <3>1. r.at \in 1..Len(r.steps) /\ r.at - 1 = run.at
      BY <2>3, <2>4
    <3>2. ~r.steps[r.at - 1].inTx
      BY <2>2, <2>4, <3>1
    <3>3. QED
      BY <1>a, <2>1, <2>4, <3>1, <3>2 DEF Knows, Shaped
  <2>11. Knows(r, schema', work', ranOn)
    <3>1. r.at \in 1..(Len(r.steps) + 1)
      BY <2>3, <2>4
    <3>2. r.tx => schema'[r.conn] = ranOn.found
      BY <1>a, <2>1, <2>4, <2>7, <2>9 DEF Knows
    <3>3. (IF r.tx THEN work' ELSE schema'[r.conn]) = Made(r, ranOn.found)
      BY <2>4, <2>6, <2>7, <2>9
    <3>4. QED
      BY <1>a, <2>1, <2>4, <2>9, <2>10, <3>1, <3>2, <3>3 DEF Knows
  <2>12. QED
    BY <1>0, <2>1, <2>4, <2>9, <2>11, GoesWell
<1>b. CASE CS!ExecuteLost
  <2> DEFINE s == run.steps[run.at]
             r == CS!Failed
  <2>1. /\ run # None /\ run.wait = "execute" /\ CS!Goes(r)
        /\ IF s.inTx THEN work' = CS!Effect(s.what, work) /\ UNCHANGED schema
           ELSE schema' = [schema EXCEPT ![run.conn] = CS!Effect(s.what, @)] /\ UNCHANGED work
        /\ UNCHANGED <<source, script, ranOn>>
    BY <1>b DEF CS!ExecuteLost, CS!Takes, CS!Waiting, CS!wizard, CS!plan
  <2>2. s.inTx => run.tx
    BY <1>a, <2>1 DEF CS!Wait
  <2>3. ~s.inTx => ~run.tx
    BY <1>a, <2>1 DEF CS!Wait
  <2>4. /\ r \in CS!Run /\ r.steps = run.steps /\ r.at = run.at /\ r.kind = run.kind
        /\ r.conn = run.conn /\ r.failed /\ ~r.rolledBack /\ r.tx = run.tx
    BY <1>a, <2>1 DEF CS!Run, CS!Failed
  <2>5. run.tx => work # None
    BY <1>a, <2>1 DEF Knows, CS!Wait
  <2>6. \A some \in SUBSET SyncStatements : CS!Effect(s.what, some) \in SUBSET SyncStatements
    BY DEF CS!Effect
  <2>7. /\ schema' \in [Conns -> SUBSET SyncStatements]
        /\ work' \in (SUBSET SyncStatements) \cup {None}
        /\ run.tx => schema' = schema
    <3>1. CASE s.inTx
      BY <1>0, <2>1, <2>2, <2>5, <2>6, <3>1
    <3>2. CASE ~s.inTx
      BY <1>0, <1>a, <2>1, <2>3, <2>6, <3>2
    <3>3. QED
      BY <3>1, <3>2
  <2> HIDE DEF r, s
  <2>8. Knows(r, schema', work', ranOn)
    BY <1>a, <2>1, <2>4, <2>5, <2>7 DEF Knows
  <2>9. QED
    BY <1>0, <2>1, <2>4, <2>7, <2>8, GoesWell
<1>9. CASE CS!Committed
  <2> DEFINE r == [run EXCEPT !.tx = FALSE]
  <2>1. /\ run # None /\ run.wait = "commit" /\ CS!Goes(r) /\ work # None /\ work' = None
        /\ schema' = [schema EXCEPT ![run.conn] = work] /\ UNCHANGED <<source, script, ranOn>>
    BY <1>9 DEF CS!Committed, CS!Waiting, CS!wizard, CS!plan
  <2>2. ~run.failed /\ run.tx /\ (run.at <= Len(run.steps) => ~run.steps[run.at].inTx)
    BY <1>a, <2>1 DEF CS!Wait
  <2>3. /\ r \in CS!Run /\ r.steps = run.steps /\ r.at = run.at /\ r.kind = run.kind /\ ~r.tx
        /\ r.conn = run.conn /\ r.failed = run.failed /\ r.rolledBack = run.rolledBack
    BY <1>a, <2>1 DEF CS!Run
  <2>4. schema' \in [Conns -> SUBSET SyncStatements] /\ schema'[run.conn] = work
    BY <1>0, <1>a, <2>1
  <2>5. Made(r, ranOn.found) = Made(run, ranOn.found)
    BY <2>3 DEF Made, Passed
  <2> HIDE DEF r
  <2>6. Knows(r, schema', work', ranOn)
    BY <1>a, <2>1, <2>2, <2>3, <2>4, <2>5 DEF Knows
  <2>7. QED
    BY <1>0, <2>1, <2>3, <2>4, <2>6, GoesWell
<1>10. CASE CS!CommitLost
  <2> DEFINE r == [CS!Failed EXCEPT !.tx = (run.at <= Len(run.steps))]
  <2>1. /\ run # None /\ run.wait = "commit" /\ CS!Goes(r) /\ work # None /\ work' = None
        /\ schema' = [schema EXCEPT ![run.conn] = work] /\ UNCHANGED <<source, script, ranOn>>
    BY <1>10 DEF CS!CommitLost, CS!Waiting, CS!wizard, CS!plan
  <2>2. /\ r \in CS!Run /\ r.steps = run.steps /\ r.at = run.at /\ r.kind = run.kind
        /\ r.conn = run.conn /\ r.failed /\ ~r.rolledBack
    <3>1. (run.at <= Len(run.steps)) \in BOOLEAN
      OBVIOUS
    <3>2. /\ CS!Failed \in CS!Run /\ CS!Failed.steps = run.steps /\ CS!Failed.at = run.at
          /\ CS!Failed.kind = run.kind /\ CS!Failed.conn = run.conn /\ CS!Failed.failed
          /\ ~CS!Failed.rolledBack
      BY <1>a, <2>1 DEF CS!Run, CS!Failed
    <3>3. ASSUME NEW x \in BOOLEAN
          PROVE  LET q == [CS!Failed EXCEPT !.tx = x] IN
                 /\ q \in CS!Run /\ q.steps = run.steps /\ q.at = run.at /\ q.kind = run.kind
                 /\ q.conn = run.conn /\ q.failed /\ ~q.rolledBack
      BY <3>2 DEF CS!Run
    <3>4. QED
      BY <3>1, <3>3
  <2>3. schema' \in [Conns -> SUBSET SyncStatements]
    BY <1>0, <1>a, <2>1
  <2> HIDE DEF r
  <2>4. Knows(r, schema', work', ranOn)
    BY <1>a, <2>1, <2>2 DEF Knows
  <2>5. QED
    BY <1>0, <2>1, <2>2, <2>3, <2>4, GoesWell
<1>11. CASE CS!Refused
  <2> DEFINE r == [CS!Failed EXCEPT !.tx = @ /\ ~(run.wait = "commit" /\ run.at > Len(run.steps))]
  <2>1. /\ run # None /\ CS!Goes(r) /\ UNCHANGED <<source, script, ranOn, schema, work>>
    BY <1>11 DEF CS!Refused, CS!Waiting, CS!wizard, CS!plan, CS!server
  <2>2. /\ r \in CS!Run /\ r.steps = run.steps /\ r.at = run.at /\ r.kind = run.kind
        /\ r.conn = run.conn /\ r.failed /\ ~r.rolledBack /\ (r.tx => run.tx)
    BY <1>a, <2>1 DEF CS!Run, CS!Failed
  <2> HIDE DEF r
  <2>3. Knows(r, schema', work', ranOn)
    BY <1>a, <2>1, <2>2 DEF Knows
  <2>4. QED
    BY <1>0, <2>1, <2>2, <2>3, GoesWell
<1>12. CASE CS!RolledBack
  <2> DEFINE r == [run EXCEPT !.tx = FALSE, !.rolledBack = TRUE]
  <2>1. /\ run # None /\ run.wait = "rollback" /\ CS!Goes(r) /\ work # None /\ work' = None
        /\ UNCHANGED <<source, script, ranOn, schema>>
    BY <1>12 DEF CS!RolledBack, CS!Waiting, CS!wizard, CS!plan
  <2>2. run.failed /\ run.tx
    BY <1>a, <2>1 DEF CS!Wait
  <2>3. /\ r \in CS!Run /\ r.steps = run.steps /\ r.at = run.at /\ r.kind = run.kind
        /\ r.conn = run.conn /\ r.failed = run.failed /\ ~r.tx
    BY <1>a, <2>1 DEF CS!Run
  <2> HIDE DEF r
  <2>4. Knows(r, schema', work', ranOn)
    BY <1>a, <2>1, <2>2, <2>3 DEF Knows
  <2>5. QED
    BY <1>0, <2>1, <2>3, <2>4, GoesWell
<1>13. CASE CS!RollbackFails
  <2> DEFINE r == [run EXCEPT !.tx = FALSE]
  <2>1. /\ run # None /\ run.wait = "rollback" /\ CS!Goes(r)
        /\ UNCHANGED <<source, script, ranOn, schema, work>>
    BY <1>13 DEF CS!RollbackFails, CS!Waiting, CS!wizard, CS!plan, CS!server
  <2>2. run.failed
    BY <1>a, <2>1 DEF CS!Wait
  <2>3. /\ r \in CS!Run /\ r.steps = run.steps /\ r.at = run.at /\ r.kind = run.kind
        /\ r.conn = run.conn /\ r.failed = run.failed /\ ~r.tx /\ ~r.rolledBack
    BY <1>a, <2>1 DEF CS!Run
  <2> HIDE DEF r
  <2>4. Knows(r, schema', work', ranOn)
    BY <1>a, <2>1, <2>2, <2>3 DEF Knows
  <2>5. QED
    BY <1>0, <2>1, <2>3, <2>4, GoesWell
<1>14. CASE UNCHANGED CS!vars
  BY <1>14 DEF CS!vars, CompareInv, SyncTyped, RunKnows, CS!AppliedIsWhole, CS!RolledBackIsClean
<1>15. CASE CS!DoApply \/ CS!DoRollback
  BY <1>6, <1>15 DEF CS!DoApply, CS!DoRollback
<1>16. QED
  BY <1>1, <1>2, <1>3, <1>4, <1>5, <1>7, <1>8, <1>9, <1>b, <1>10, <1>11, <1>12, <1>13, <1>14, <1>15
     DEF CS!Next

-----------------------------------------------------------------------------
(* The fixes of the options.                                               *)

FixTyped ==
    /\ opts \in FH!Options /\ undo \in Seq(FH!Options) /\ redo \in Seq(FH!Options)
    /\ before \in Seq(FH!Options) /\ redone \in BOOLEAN
    /\ Len(undo) <= MaxHistory

\* As long as redo was not used the undo stack is the newest part of the
\* options before the fixes: what the cap has cut off is at the other end.
UndoIsNewest ==
    ~redone => /\ Len(undo) <= Len(before)
               /\ \A i \in 1..Len(undo) : undo[i] = before[i]

FixInv == FixTyped /\ UndoIsNewest

\* The first entries of a stack that is cut off to the cap.
LEMMA CappedFacts ==
    ASSUME FH!HistoryAssumption, NEW s \in Seq(FH!Options)
    PROVE  /\ FH!Capped(s) \in Seq(FH!Options) /\ Len(FH!Capped(s)) <= Len(s)
           /\ Len(FH!Capped(s)) = FH!Smaller(Len(s), MaxHistory) /\ Len(FH!Capped(s)) <= MaxHistory
           /\ \A i \in 1..Len(FH!Capped(s)) : FH!Capped(s)[i] = s[i]
BY DEF FH!HistoryAssumption, FH!Capped, FH!Smaller

LEMMA NoOptions == <<>> \in Seq(FH!Options) /\ Len(<<>>) = 0
OBVIOUS

LEMMA FixStarts == FH!HistoryAssumption /\ FH!Init => FixInv
<1> SUFFICES ASSUME FH!HistoryAssumption, FH!Init
             PROVE  FixInv
  OBVIOUS
<1>1. opts \in FH!Options
  BY DEF FH!Init, FH!Options, FH!Modes, FH!Rules
<1>2. undo = <<>> /\ redo = <<>> /\ before = <<>> /\ redone = FALSE
  BY DEF FH!Init
<1>3. undo \in Seq(FH!Options) /\ Len(undo) = 0 /\ redo \in Seq(FH!Options) /\ before \in Seq(FH!Options)
      /\ Len(before) = 0
  BY <1>2, NoOptions
<1>4. UndoIsNewest
  BY <1>3 DEF UndoIsNewest
<1>5. redone \in BOOLEAN
  BY <1>2
<1>6. 0 <= MaxHistory
  BY DEF FH!HistoryAssumption
<1>7. QED
  BY <1>1, <1>3, <1>4, <1>5, <1>6 DEF FixInv, FixTyped

\* A fix puts the options it found on both histories.
LEMMA PushKeeps ==
    ASSUME FH!HistoryAssumption, FixInv, opts' \in FH!Options, FH!PushFix(opts)
    PROVE  FixInv' /\ FH!UndoGoesBackStep
<1> DEFINE s == <<opts>> \o undo
           b == <<opts>> \o before
<1>1. undo' = FH!Capped(s) /\ redo' = <<>> /\ before' = b /\ redone' = redone
  BY DEF FH!PushFix
<1>2. /\ s \in Seq(FH!Options) /\ b \in Seq(FH!Options)
      /\ Len(s) = Len(undo) + 1 /\ Len(b) = Len(before) + 1
      /\ s[1] = opts /\ b[1] = opts
      /\ \A i \in 2..Len(s) : s[i] = undo[i - 1]
      /\ \A i \in 2..Len(b) : b[i] = before[i - 1]
  BY DEF FixInv, FixTyped
<1> HIDE DEF s, b
<1>3. /\ FH!Capped(s) \in Seq(FH!Options) /\ Len(FH!Capped(s)) <= Len(s) /\ Len(FH!Capped(s)) <= MaxHistory
      /\ \A i \in 1..Len(FH!Capped(s)) : FH!Capped(s)[i] = s[i]
  BY <1>2, CappedFacts
<1>4. FixTyped'
  BY <1>1, <1>2, <1>3 DEF FixInv, FixTyped
<1>5. UndoIsNewest'
  <2> SUFFICES ASSUME ~redone'
               PROVE  /\ Len(undo') <= Len(before')
                      /\ \A i \in 1..Len(undo') : undo'[i] = before'[i]
    BY DEF UndoIsNewest
  <2>1. Len(undo) <= Len(before) /\ \A i \in 1..Len(undo) : undo[i] = before[i]
    BY <1>1 DEF FixInv, UndoIsNewest
  <2>2. ASSUME NEW i \in 1..Len(s)
        PROVE  s[i] = b[i]
    <3>1. CASE i = 1
      BY <1>2, <3>1
    <3>2. CASE i # 1
      BY <1>2, <2>1, <3>2 DEF FixInv, FixTyped
    <3>3. QED
      BY <3>1, <3>2
  <2>3. Len(s) \in Nat /\ Len(b) \in Nat /\ Len(FH!Capped(s)) \in Nat /\ Len(s) <= Len(b)
    <3>1. Len(undo) \in Nat /\ Len(before) \in Nat
      BY DEF FixInv, FixTyped
    <3>2. QED
      BY <1>2, <1>3, <2>1, <3>1
  <2>4. Len(FH!Capped(s)) <= Len(b) /\ \A i \in 1..Len(FH!Capped(s)) : FH!Capped(s)[i] = b[i]
    BY <1>3, <2>2, <2>3
  <2>5. QED
    BY <1>1, <2>4
<1>6. QED
  BY <1>1, <1>4, <1>5 DEF FixInv, FH!UndoGoesBackStep

\* Undoing n fixes takes as many entries off both histories.
LEMMA UndoKeeps ==
    ASSUME FH!HistoryAssumption, FixInv, NEW n \in 1..MaxHistory, FH!UndoFixN(n)
    PROVE  FixInv' /\ FH!UndoGoesBackStep
<1> DEFINE k == FH!Smaller(n, Len(undo))
           back == FH!Reversed(SubSeq(undo, 1, k)) \o redo
<1>1. /\ undo # <<>> /\ opts' = undo[k] /\ redo' = FH!Capped(back) /\ redone' = redone
      /\ undo' = SubSeq(undo, k + 1, Len(undo))
      /\ before' = SubSeq(before, k + 1, Len(before))
  BY DEF FH!UndoFixN
<1>2. k \in Nat /\ 1 <= k /\ k <= Len(undo)
  BY <1>1 DEF FixInv, FixTyped, FH!HistoryAssumption, FH!Smaller
<1>3. undo[k] \in FH!Options /\ back \in Seq(FH!Options)
  <2>1. SubSeq(undo, 1, k) \in Seq(FH!Options)
    BY <1>2 DEF FixInv, FixTyped
  <2>2. FH!Reversed(SubSeq(undo, 1, k)) \in Seq(FH!Options)
    <3> DEFINE q == SubSeq(undo, 1, k)
    <3>1. q \in Seq(FH!Options)
      BY <2>1
    <3> HIDE DEF q
    <3>2. FH!Reversed(q) \in [1..Len(q) -> FH!Options]
      BY <3>1 DEF FH!Reversed
    <3>3. FH!Reversed(q) \in Seq(FH!Options)
      BY <3>1, <3>2
    <3>4. QED
      BY <3>3 DEF q
  <2>3. QED
    BY <1>2, <2>2 DEF FixInv, FixTyped
<1> HIDE DEF k, back
<1>4. FH!Capped(back) \in Seq(FH!Options)
  BY <1>3, CappedFacts
<1>5. /\ undo' \in Seq(FH!Options) /\ Len(undo') = Len(undo) - k
      /\ \A i \in 1..Len(undo') : undo'[i] = undo[i + k]
  BY <1>1, <1>2 DEF FixInv, FixTyped
<1>6. before' \in Seq(FH!Options)
  BY <1>1, <1>2 DEF FixInv, FixTyped
<1>7. FixTyped'
  BY <1>1, <1>2, <1>3, <1>4, <1>5, <1>6 DEF FixInv, FixTyped, FH!HistoryAssumption
<1>8. CASE redone
  BY <1>1, <1>7, <1>8 DEF FixInv, UndoIsNewest, FH!UndoGoesBackStep
<1>9. CASE ~redone
  <2>1. Len(undo) <= Len(before) /\ \A i \in 1..Len(undo) : undo[i] = before[i]
    BY <1>9 DEF FixInv, UndoIsNewest
  <2>2. /\ Len(before') = Len(before) - k
        /\ \A i \in 1..Len(before') : before'[i] = before[i + k]
    BY <1>1, <1>2, <2>1 DEF FixInv, FixTyped
  <2>3. UndoIsNewest'
    <3>1. Len(undo') <= Len(before')
      BY <1>2, <1>5, <2>1, <2>2 DEF FixInv, FixTyped
    <3>2. ASSUME NEW i \in 1..Len(undo')
          PROVE  undo'[i] = before'[i]
      <4>1. i \in Nat /\ i + k \in 1..Len(undo) /\ i \in 1..Len(before')
        BY <1>2, <1>5, <1>6, <3>1 DEF FixInv, FixTyped
      <4>2. QED
        BY <1>5, <2>1, <2>2, <4>1
    <3>3. QED
      BY <3>1, <3>2 DEF UndoIsNewest
  <2>4. opts' = before[Len(undo) - Len(undo')]
    BY <1>1, <1>2, <1>5, <2>1 DEF FixInv, FixTyped
  <2>5. QED
    BY <1>7, <2>3, <2>4 DEF FixInv, FH!UndoGoesBackStep
<1>10. QED
  BY <1>8, <1>9

\* Redo never makes the undo stack shorter.
LEMMA RedoKeeps ==
    ASSUME FH!HistoryAssumption, FixInv, NEW n \in 1..MaxHistory, FH!RedoFixN(n)
    PROVE  FixInv' /\ FH!UndoGoesBackStep
<1> DEFINE k == FH!Smaller(n, Len(redo))
           turn == <<opts>> \o SubSeq(redo, 1, k)
           s == SubSeq(turn, 1, k) \o undo
<1>1. /\ redo # <<>> /\ opts' = turn[k + 1] /\ undo' = FH!Capped(s) /\ redone'
      /\ redo' = SubSeq(redo, k + 1, Len(redo)) /\ before' = before
  BY DEF FH!RedoFixN
<1>2. k \in Nat /\ 1 <= k /\ k <= Len(redo)
  BY <1>1 DEF FixInv, FixTyped, FH!HistoryAssumption, FH!Smaller
<1>3. turn \in Seq(FH!Options) /\ Len(turn) = k + 1
  BY <1>2 DEF FixInv, FixTyped
<1> HIDE DEF k, turn
<1>4. s \in Seq(FH!Options) /\ Len(s) >= Len(undo) /\ turn[k + 1] \in FH!Options
  BY <1>2, <1>3 DEF FixInv, FixTyped
<1> HIDE DEF s
<1>5. /\ FH!Capped(s) \in Seq(FH!Options) /\ Len(FH!Capped(s)) <= MaxHistory
      /\ Len(FH!Capped(s)) = FH!Smaller(Len(s), MaxHistory)
  BY <1>4, CappedFacts
<1>6. redo' \in Seq(FH!Options)
  BY <1>1, <1>2 DEF FixInv, FixTyped
<1>7. FixTyped' /\ UndoIsNewest'
  BY <1>1, <1>4, <1>5, <1>6 DEF FixInv, FixTyped, UndoIsNewest
<1>8. ~(Len(undo') < Len(undo))
  BY <1>1, <1>4, <1>5 DEF FixInv, FixTyped, FH!Smaller, FH!HistoryAssumption
<1>9. QED
  BY <1>7, <1>8 DEF FixInv, FH!UndoGoesBackStep

LEMMA FixesGo ==
    ASSUME FH!HistoryAssumption, FixInv, [FH!Next]_(FH!vars)
    PROVE  FixInv' /\ FH!UndoGoesBackStep
<1>1. ASSUME opts' \in FH!Options, FH!PushFix(opts)
      PROVE  FixInv' /\ FH!UndoGoesBackStep
  BY <1>1, PushKeeps
<1>2. ASSUME opts' \in FH!Options, UNCHANGED <<undo, redo, before, redone>>
      PROVE  FixInv' /\ FH!UndoGoesBackStep
  BY <1>2 DEF FixInv, FixTyped, UndoIsNewest, FH!UndoGoesBackStep
<1>3. CASE FH!FixDuplicates \/ FH!FixValidation
  <2>1. opts' \in FH!Options
    BY <1>3 DEF FH!FixDuplicates, FH!FixValidation, FixInv, FixTyped, FH!Options, FH!Modes
  <2>2. QED
    BY <1>1, <1>3, <2>1 DEF FH!FixDuplicates, FH!FixValidation
<1>4. ASSUME NEW some \in BOOLEAN, FH!OneClickOptimize(some)
      PROVE  FixInv' /\ FH!UndoGoesBackStep
  <2>1. opts' \in FH!Options
    BY <1>4 DEF FH!OneClickOptimize, FixInv, FixTyped, FH!Options, FH!Rules
  <2>2. QED
    BY <1>1, <1>2, <1>4, <2>1 DEF FH!OneClickOptimize
<1>5. ASSUME NEW n \in 1..MaxHistory, NEW f \in {"mode", "strict"}, FH!SingleItemUndo(f, n)
      PROVE  FixInv' /\ FH!UndoGoesBackStep
  <2> DEFINE was == undo[FH!Smaller(n, Len(undo))]
  <2>1. was \in FH!Options
    BY <1>5 DEF FH!SingleItemUndo, FixInv, FixTyped, FH!Smaller, FH!HistoryAssumption
  <2>2. opts' = [opts EXCEPT ![f] = was[f]]
    BY <1>5 DEF FH!SingleItemUndo
  <2> HIDE DEF was
  <2>3. opts' \in FH!Options
    BY <2>1, <2>2 DEF FixInv, FixTyped, FH!Options
  <2>4. QED
    BY <1>1, <1>5, <2>3 DEF FH!SingleItemUndo
<1>6. CASE FH!ClearStacks
  <2>1. undo' = <<>> /\ redo' = <<>> /\ before' = <<>> /\ redone' = FALSE /\ opts' = opts
    BY <1>6 DEF FH!ClearStacks
  <2>2. undo' \in Seq(FH!Options) /\ Len(undo') = 0 /\ redo' \in Seq(FH!Options)
        /\ before' \in Seq(FH!Options) /\ Len(before') = 0
    BY <2>1, NoOptions
  <2>3. UndoIsNewest' /\ FH!UndoGoesBackStep
    BY <2>1, <2>2 DEF UndoIsNewest, FH!UndoGoesBackStep
  <2>4. redone' \in BOOLEAN
    BY <2>1
  <2>5. 0 <= MaxHistory
    BY DEF FH!HistoryAssumption
  <2>6. QED
    BY <2>1, <2>2, <2>3, <2>4, <2>5 DEF FixInv, FixTyped
<1>7. CASE FH!ToggleDiff \/ \E o \in FH!Options : FH!Edit(o)
  BY <1>2, <1>7 DEF FH!ToggleDiff, FH!Edit, FixInv, FixTyped
<1>8. CASE UNCHANGED FH!vars
  BY <1>2, <1>8 DEF FH!vars, FixInv, FixTyped
<1>9. QED
  BY <1>3, <1>4, <1>5, <1>6, <1>7, <1>8, UndoKeeps, RedoKeeps DEF FH!Next

-----------------------------------------------------------------------------
(* The preview of a backup.                                                *)

\* What the undo would bring back is what was there before the last apply.
\* What is ticked in a preview though it is risky was ticked by hand.
BackupInv ==
    /\ undo # None => undo = before
    /\ pending # None =>
         \A k \in Keys : k \in selected /\ (k \in Foreign \/ audit[k] = "dead") => k \in picked

LEMMA BackupStarts == BP!Init => BackupInv
BY DEF BP!Init, BackupInv

\* Ticking and unticking by hand.
LEMMA TickKeeps ==
    ASSUME BackupInv, NEW ks, BP!Pick(ks)
    PROVE  BackupInv' /\ BP!RiskyIsPickedStep /\ BP!UndoIsExactStep
BY DEF BackupInv, BP!Pick, BP!RiskyIsPickedStep, BP!UndoIsExactStep, BP!Open

\* A step that changes neither the preview, its ticks and verdicts nor the
\* store, except that ticks may go, and the undo may run out.
LEMMA LeftAlone ==
    ASSUME BackupInv, UNCHANGED <<pending, audit, before, store>>, undo' \in {undo, None},
           NEW ks, selected' = selected \ ks, picked' = picked \ ks
    PROVE  BackupInv' /\ BP!RiskyIsPickedStep /\ BP!UndoIsExactStep
BY DEF BackupInv, BP!RiskyIsPickedStep, BP!UndoIsExactStep, BP!Open

LEMMA FileReadKeeps ==
    ASSUME BackupInv, BP!FileRead
    PROVE  BackupInv' /\ BP!RiskyIsPickedStep /\ BP!UndoIsExactStep
<1>1. UNCHANGED <<store, undo, before>>
  BY DEF BP!FileRead
<1>2. \/ UNCHANGED <<pending, selected, audit, picked>>
      \/ /\ \A k \in selected' : k \notin Foreign
         /\ audit' = BP!Unaudited
  BY DEF BP!FileRead
<1>3. BackupInv'
  BY <1>1, <1>2 DEF BackupInv, BP!Unaudited
<1>4. QED
  BY <1>1, <1>3 DEF BP!RiskyIsPickedStep, BP!UndoIsExactStep

LEMMA AuditKeeps ==
    ASSUME BackupInv, NEW ks, BP!AuditAnswer(ks)
    PROVE  BackupInv' /\ BP!RiskyIsPickedStep /\ BP!UndoIsExactStep
<1>1. UNCHANGED <<pending, store, undo, before>>
  BY DEF BP!AuditAnswer
<1>2. PICK dead \in SUBSET ks : BP!Verdicts(ks, dead)
  BY DEF BP!AuditAnswer
<1> DEFINE gone == IF BP!Open THEN {k \in Keys : audit'[k] = "dead"} ELSE {}
<1>3. selected' = selected \ gone /\ picked' = picked \ gone
  BY <1>2 DEF BP!Verdicts
<1>4. BackupInv'
  BY <1>1, <1>3 DEF BackupInv, BP!Open
<1>5. QED
  BY <1>1, <1>4 DEF BP!RiskyIsPickedStep, BP!UndoIsExactStep

\* An apply writes what is ticked, and notes what was there before.
LEMMA ApplyKeeps ==
    ASSUME BP!BackupAssumption, BackupInv, BP!DoApply
    PROVE  BackupInv' /\ BP!RiskyIsPickedStep /\ BP!UndoIsExactStep
<1>1. CASE UNCHANGED <<store, before, undo, left, pending, selected, audit, picked, view>>
  BY <1>1 DEF BackupInv, BP!RiskyIsPickedStep, BP!UndoIsExactStep
<1>2. CASE BP!Applied /\ BP!Reset
  <2>1. /\ pending # None /\ pending' = None /\ undo' = store /\ before' = store
        /\ left' = UndoSeconds /\ store' = [i \in BP!Items |-> BP!Written(i)]
    BY <1>2 DEF BP!DoApply, BP!Open, BP!Applied, BP!Reset
  <2>2. BackupInv'
    BY <2>1 DEF BackupInv
  <2>3. \A i \in BP!Items : store'[i] # store[i] => BP!Key(i) \in selected
    BY <2>1 DEF BP!Written, BP!Chosen
  <2>4. \A i \in BP!Items : BP!Key(i) \in Keys
    BY DEF BP!Items, BP!Key
  <2>5. BP!RiskyIsPickedStep
    BY <2>1, <2>3, <2>4 DEF BackupInv, BP!RiskyIsPickedStep, BP!Dead
  <2>6. BP!UndoIsExactStep
    BY <2>1 DEF BP!UndoIsExactStep, BP!BackupAssumption
  <2>7. QED
    BY <2>2, <2>5, <2>6
<1>3. QED
  BY <1>1, <1>2 DEF BP!DoApply

LEMMA BackupGoes ==
    ASSUME BP!BackupAssumption, BackupInv, [BP!Next]_(BP!vars)
    PROVE  BackupInv' /\ BP!RiskyIsPickedStep /\ BP!UndoIsExactStep
<1>1. CASE \/ \E i \in BP!Items : BP!Toggle(i)
           \/ BP!SelectMatched \/ BP!InvertMatched \/ BP!SelectAll \/ BP!SelectNone
           \/ BP!InvertAll \/ BP!SelectSafe \/ BP!DropRisky
  <2>1. \E ks : BP!Pick(ks)
    BY <1>1 DEF BP!Toggle, BP!SelectMatched, BP!InvertMatched, BP!SelectAll, BP!SelectNone,
       BP!InvertAll, BP!SelectSafe, BP!DropRisky
  <2>2. QED
    BY <2>1, TickKeeps
<1>2. CASE \/ \E f \in BackupFiles : BP!ChooseFile(f)
           \/ BP!ReAudit \/ BP!ResetView \/ \E v \in BP!Views : BP!SetView(v)
           \/ BP!ConfirmApply \/ BP!CloseConfirm \/ BP!Tick \/ UNCHANGED BP!vars
           \/ \E ks \in SUBSET Keys : BP!MergeWhitelist(ks) \/ BP!RemoveFromWhitelist(ks)
  <2>1. UNCHANGED <<pending, audit, before, store, selected, picked>> /\ undo' \in {undo, None}
    BY <1>2 DEF BP!ChooseFile, BP!ReAudit, BP!ResetView, BP!SetView, BP!ConfirmApply,
       BP!CloseConfirm, BP!Tick, BP!MergeWhitelist, BP!RemoveFromWhitelist, BP!Whitelisted,
       BP!vars
  <2>2. selected' = selected \ {} /\ picked' = picked \ {}
    BY <2>1
  <2>3. QED
    BY <2>1, <2>2, LeftAlone
<1>3. CASE BP!BatchAdd \/ \E k \in Keys : BP!AddToWhitelist(k)
  <2>1. /\ UNCHANGED <<pending, audit, before, store>> /\ undo' \in {undo, None}
        /\ \E gone : selected' = selected \ gone /\ picked' = picked \ gone
    BY <1>3 DEF BP!BatchAdd, BP!AddToWhitelist, BP!Whitelisted
  <2>2. QED
    BY <2>1, LeftAlone
<1>4. CASE BP!CancelBackup \/ BP!Undo \/ \E k \in Keys : BP!DeleteListed(k)
  <2>1. CASE BP!CancelBackup
    BY <2>1 DEF BP!CancelBackup, BP!Reset, BackupInv, BP!RiskyIsPickedStep, BP!UndoIsExactStep
  <2>2. CASE BP!Undo
    BY <2>2 DEF BP!Undo, BackupInv, BP!RiskyIsPickedStep, BP!UndoIsExactStep, BP!Open
  <2>3. ASSUME NEW k \in Keys, BP!DeleteListed(k)
        PROVE  BackupInv' /\ BP!RiskyIsPickedStep /\ BP!UndoIsExactStep
    BY <2>3 DEF BP!DeleteListed, BackupInv, BP!RiskyIsPickedStep, BP!UndoIsExactStep, BP!Open
  <2>4. QED
    BY <1>4, <2>1, <2>2, <2>3
<1>5. QED
  BY <1>1, <1>2, <1>3, <1>4, FileReadKeeps, AuditKeeps, ApplyKeeps DEF BP!Next

-----------------------------------------------------------------------------
(* The types of the machines.                                               *)

\* What the catalog shows was read from some connection.
LEMMA CatalogIsTyped ==
    ASSUME CA!CatalogAssumption, CatalogInv, CatalogInv', CA!TypeOK, [CA!Next]_(CA!catalogVars)
    PROVE  CA!TypeOK'
<1> DEFINE Read ==
             /\ schemas \in Conns \union {None} /\ found \in Conns \union {None} /\ cached \subseteq Conns
             /\ detail = None \/ detail \in [conn : Conns, table : CA!Tabs]
           Steps == steps \in 0..CatalogSteps
<1>1. /\ Read /\ Steps /\ conn \in Conns
      /\ \A r \in calls : r.conn \in Conns /\ (r.kind = "detail" /\ r.alive => r.arg \in CA!Tabs)
  <2>1. \A r \in calls : r.kind = "detail" /\ r.alive => r.arg \in CA!Tabs
    BY DEF CatalogInv
  <2>2. QED
    BY <2>1 DEF CA!TypeOK, CatalogInv, ListCall
<1>2. SUFFICES (Read /\ Steps)'
  BY DEF CA!TypeOK, CatalogInv, ListCall
<1>3. CA!Acts \/ steps' = steps => Steps'
  BY <1>1 DEF CA!Acts, CA!CatalogAssumption
<1>4. ASSUME NEW c \in Conns, CA!SwitchTo(c)
      PROVE  (Read /\ Steps)'
  <2>1. CA!Acts /\ schemas' = None /\ found' \in {c, found} /\ cached' = cached
        /\ detail' \in {None, detail}
    BY <1>4 DEF CA!SwitchTo
  <2>2. QED
    BY <1>1, <1>3, <2>1
<1>5. ASSUME NEW r \in calls, CA!Arrives(r) \/ CA!Fails(r)
      PROVE  (Read /\ Steps)'
  <2>1. /\ steps' = steps /\ schemas' \in {schemas, r.conn} /\ found' \in {found, r.conn}
        /\ cached' \subseteq cached \union {r.conn}
        /\ \/ detail' = detail
           \/ r.kind = "detail" /\ r.alive /\ detail' = [conn |-> r.conn, table |-> r.arg]
    BY <1>5 DEF CA!Arrives, CA!Fails, CA!SchemasArrive, CA!TablesArrive, CA!DetailArrives,
                CA!FoundArrives, CA!treeVars, CA!tabVars, CA!searchVars
  <2>2. Read'
    BY <1>1, <2>1
  <2>3. Steps'
    BY <1>3, <2>1
  <2>4. QED
    BY <2>2, <2>3
<1>6. ASSUME NEW s, NEW t,
             \/ CA!Reload \/ CA!RefreshTab \/ CA!OpenSearch \/ CA!CloseSearch \/ CA!Expire
             \/ CA!OpenSchema(s) \/ CA!OpenTab(t)
      PROVE  (Read /\ Steps)'
  <2>1. /\ CA!Acts \/ steps' = steps
        /\ schemas' = schemas /\ found' \in {found, conn} /\ cached' \in {cached, {}}
        /\ detail' \in {detail, None}
    BY <1>6 DEF CA!Reload, CA!RefreshTab, CA!OpenSearch, CA!CloseSearch, CA!Expire, CA!OpenSchema,
                CA!OpenTab, CA!treeVars, CA!tabVars, CA!searchVars
  <2>2. Read'
    BY <1>1, <2>1
  <2>3. QED
    BY <1>3, <2>1, <2>2
<1>7. CASE UNCHANGED CA!catalogVars
  BY <1>1, <1>7 DEF CA!catalogVars
<1> HIDE DEF Read, Steps
<1>8. QED
  BY <1>4, <1>5, <1>6, <1>7 DEF CA!Next

\* What a request asks for, whoever waits for it, and what the server sends.
RedisAsked(r) ==
    /\ r.kind \in {"scan", "select", "get", "set", "readback", "exec"} /\ r.conn \in Conns
    /\ r.kind = "scan" => r.arg[1] \in RP!Patterns /\ r.arg[2] \in Nat
    /\ r.kind = "select" => r.arg \in Dbs
RedisAnswered(r) ==
    r.kind = "scan" /\ r.ok => r.out.db \in Dbs /\ r.out.next \in Nat /\ r.out.keys \in Seq(Places)
RedisFlags ==
    /\ editing \in BOOLEAN /\ saving \in BOOLEAN /\ error \in BOOLEAN /\ failed \in BOOLEAN
    /\ calm \in BOOLEAN
RedisShown ==
    /\ conn \in Conns /\ db \in Dbs /\ pattern \in RP!Patterns
    /\ keys \in Seq(Places) /\ cursor \in Nat /\ selKey \in RP!AllKeys \union {None}
    /\ session \in [Conns -> Dbs] /\ acts \in 0..RedisActs
RedisWires ==
    /\ \A r \in calls : RedisAsked(r)
    /\ \A r \in done : RedisAsked(r) /\ RedisAnswered(r)
RedisTyped == RedisFlags /\ RedisShown /\ RedisWires

LEMMA RedisStartsTyped ==
    ASSUME RP!PanelAssumption, RP!Init
    PROVE  RedisTyped
<1>1. conn \in Conns /\ db \in Dbs /\ pattern \in RP!Patterns
  BY DEF RP!PanelAssumption, RP!Init
<1>2. RedisFlags
  BY DEF RP!Init, RedisFlags
<1>3. RedisShown
  BY <1>1 DEF RP!Init, RedisShown, RP!PanelAssumption
<1>4. RedisWires
  BY <1>1 DEF RP!Init, RedisWires, RedisAsked, RedisAnswered
<1>5. QED
  BY <1>2, <1>3, <1>4 DEF RedisTyped

\* The flags.
LEMMA RedisFlagsKeep ==
    ASSUME RedisFlags, [RP!Next]_(RP!redisVars)
    PROVE  RedisFlags'
<1> USE DEF RedisFlags
<1>1. ASSUME NEW call, RP!Ask(call)
      PROVE  calm' \in BOOLEAN
  BY <1>1 DEF RP!Ask
<1>2. ASSUME NEW c, NEW p, RP!Reset(c, p)
      PROVE  RedisFlags'
  BY <1>1, <1>2 DEF RP!Reset, RP!Rescans
<1>3. CASE RP!Scan \/ RP!LoadMore
  BY <1>1, <1>3 DEF RP!Scan, RP!LoadMore, RP!Rescans, RP!valueVars
<1>4. ASSUME NEW d, RP!ChangeDb(d)
      PROVE  RedisFlags'
  BY <1>1, <1>4 DEF RP!ChangeDb, RP!valueVars
<1>5. ASSUME NEW c, RP!Serve(c) \/ RP!Refuse(c)
      PROVE  RedisFlags'
  BY <1>5 DEF RP!Serve, RP!Refuse, RP!valueVars
<1>6. ASSUME NEW r, RP!KeysArrive(r) \/ RP!DbSelected(r) \/ RP!Written(r) \/ RP!Replied(r)
      PROVE  RedisFlags'
  BY <1>6 DEF RP!KeysArrive, RP!DbSelected, RP!Written, RP!Replied, RP!valueVars
<1>7. ASSUME NEW r, RP!ValueArrives(r)
      PROVE  RedisFlags'
  BY <1>7 DEF RP!ValueArrives
<1>8. ASSUME NEW r, RP!Failed(r)
      PROVE  RedisFlags'
  BY <1>8 DEF RP!Failed
<1>9. ASSUME NEW k, RP!OpenKey(k)
      PROVE  RedisFlags'
  BY <1>1, <1>9 DEF RP!OpenKey
<1>10. CASE RP!StartEdit \/ RP!CancelEdit
  BY <1>10 DEF RP!StartEdit, RP!CancelEdit
<1>11. CASE RP!CommitEdit
  BY <1>1, <1>11 DEF RP!CommitEdit
<1>12. CASE RP!RunCommand
  BY <1>1, <1>12 DEF RP!RunCommand, RP!valueVars
<1>13. CASE UNCHANGED RP!redisVars
  BY <1>13 DEF RP!redisVars
<1> USE DEF RP!TypePattern, RP!SwitchConnection
<1>14. QED
  BY <1>2, <1>3, <1>4, <1>5, <1>6, <1>7, <1>8, <1>9, <1>10, <1>11, <1>12, <1>13 DEF RP!Next

\* The page of a scan lists places of the session.
LEMMA PageRead ==
    ASSUME RP!PanelAssumption, NEW r, r.conn \in Conns, r.arg[1] \in RP!Patterns, r.arg[2] \in Nat,
           session[r.conn] \in Dbs
    PROVE  /\ RP!Scanned(r).db = session[r.conn] /\ RP!Scanned(r).next \in Nat
           /\ RP!Scanned(r).keys \in Seq(Places)
           /\ \A i \in DOMAIN RP!Scanned(r).keys : /\ RP!Scanned(r).keys[i].conn = r.conn
                                                   /\ RP!Scanned(r).keys[i].db = session[r.conn]
<1> DEFINE pages == RedisPages[r.arg[1]]
           pg == IF r.arg[2] \in DOMAIN pages THEN pages[r.arg[2]] ELSE <<>>
           places == [i \in DOMAIN pg |-> RP!Place(r.conn, session[r.conn], pg[i])]
           nxt == IF r.arg[2] < Len(pages) THEN r.arg[2] + 1 ELSE 0
<1>1. RP!Scanned(r) = [db |-> session[r.conn], next |-> nxt, keys |-> places]
  BY DEF RP!Scanned
<1>3. pages \in Seq(Seq(RP!AllKeys))
  BY DEF RP!PanelAssumption
<1> HIDE DEF pages
<1>4. pg \in Seq(RP!AllKeys)
  BY <1>3, EntriesOf
<1>5. nxt \in Nat
  OBVIOUS
<1> HIDE DEF pg, nxt
<1>6. DOMAIN pg = 1..Len(pg) /\ Len(pg) \in Nat /\ \A i \in DOMAIN pg : pg[i] \in RP!AllKeys
  BY <1>4, EntriesOf
<1>7. places \in [1..Len(pg) -> Places]
  BY <1>6 DEF RP!Place, Places
<1>8. \A i \in DOMAIN places : places[i].conn = r.conn /\ places[i].db = session[r.conn]
  BY <1>6 DEF RP!Place
<1> HIDE DEF places
<1>9. places \in Seq(Places)
  BY <1>6, <1>7
<1>10. QED
  BY <1>1, <1>5, <1>8, <1>9

\* What is shown, and what is on the wires.
LEMMA RedisWiresKeep ==
    ASSUME RP!PanelAssumption, RedisShown, RedisWires, [RP!Next]_(RP!redisVars)
    PROVE  RedisShown' /\ RedisWires'
<1> USE DEF RedisShown
<1>1. ASSUME NEW call, RP!Ask(call), RedisAsked(call), done' = done
      PROVE  RedisWires'
  BY <1>1 DEF RP!Ask, RedisWires, RedisAsked, RedisAnswered
<1>2. RP!Acts \/ acts' = acts => acts' \in 0..RedisActs
  BY DEF RP!Acts, RP!PanelAssumption
<1>3. ASSUME NEW c \in Conns, NEW p \in RP!Patterns, RP!Acts, RP!Reset(c, p)
      PROVE  RedisShown' /\ RedisWires'
  <2> DEFINE call == RP!Call("scan", c, <<p, 1>>)
  <2>1. RP!Ask(call) /\ done' = done
    BY <1>3 DEF RP!Reset, RP!Rescans
  <2>2. RedisAsked(call)
    BY DEF RedisAsked, RP!Call
  <2> HIDE DEF call
  <2>3. RedisWires'
    BY <1>1, <2>1, <2>2
  <2>4. conn' = c /\ pattern' = p /\ keys' = <<>> /\ selKey' = None /\ UNCHANGED <<db, cursor, session>>
    BY <1>3 DEF RP!Reset, RP!serverVars
  <2>5. RedisShown'
    BY <1>2, <1>3, <2>4
  <2>6. QED
    BY <2>3, <2>5
<1>4. CASE RP!Scan \/ RP!LoadMore
  <2>1. PICK n \in {1, cursor} : RP!Ask(RP!Call("scan", conn, <<pattern, n>>))
    BY <1>4 DEF RP!Scan, RP!LoadMore, RP!Rescans
  <2> DEFINE call == RP!Call("scan", conn, <<pattern, n>>)
  <2>2. RedisAsked(call)
    BY DEF RedisAsked, RP!Call
  <2>3. RP!Acts /\ done' = done /\ UNCHANGED <<conn, pattern, db, keys, cursor, selKey, session>>
    BY <1>4 DEF RP!Scan, RP!LoadMore, RP!listVars, RP!valueVars, RP!serverVars
  <2> HIDE DEF call
  <2>4. RedisWires'
    BY <1>1, <2>1, <2>2, <2>3 DEF call
  <2>5. RedisShown'
    BY <1>2, <2>3
  <2>6. QED
    BY <2>4, <2>5
<1>5. ASSUME NEW d \in Dbs, RP!ChangeDb(d)
      PROVE  RedisShown' /\ RedisWires'
  <2> DEFINE call == RP!Call("select", conn, d)
  <2>1. RedisAsked(call)
    BY DEF RedisAsked, RP!Call
  <2>2. RP!Acts /\ RP!Ask(call) /\ done' = done /\ db' = d
        /\ UNCHANGED <<conn, pattern, keys, cursor, selKey, session>>
    BY <1>5 DEF RP!ChangeDb, RP!valueVars, RP!serverVars
  <2> HIDE DEF call
  <2>3. QED
    BY <1>1, <1>2, <2>1, <2>2
<1>6. ASSUME NEW k \in {keys[i].key : i \in DOMAIN keys}, RP!OpenKey(k)
      PROVE  RedisShown' /\ RedisWires'
  <2> DEFINE call == RP!Call("get", conn, k)
  <2>1. RedisAsked(call)
    BY DEF RedisAsked, RP!Call
  <2>2. RP!Acts /\ RP!Ask(call) /\ done' = done /\ selKey' = k
        /\ UNCHANGED <<conn, pattern, db, keys, cursor, session>>
    BY <1>6 DEF RP!OpenKey, RP!listVars, RP!serverVars
  <2>3. k \in RP!AllKeys
    <3>1. PICK i \in DOMAIN keys : k = keys[i].key
      OBVIOUS
    <3>2. keys[i] \in Places
      BY EntriesOf
    <3>3. QED
      BY <3>1, <3>2 DEF Places
  <2> HIDE DEF call
  <2>4. QED
    BY <1>1, <1>2, <2>1, <2>2, <2>3
<1>7. CASE RP!CommitEdit
  <2> DEFINE call == RP!Call("set", conn, [key |-> selKey, text |-> draft])
  <2>1. RedisAsked(call)
    BY DEF RedisAsked, RP!Call
  <2>2. RP!Acts /\ RP!Ask(call) /\ done' = done
        /\ UNCHANGED <<conn, pattern, db, keys, cursor, selKey, session>>
    BY <1>7 DEF RP!CommitEdit, RP!listVars, RP!serverVars
  <2> HIDE DEF call
  <2>3. QED
    BY <1>1, <1>2, <2>1, <2>2
<1>8. CASE RP!RunCommand
  <2> DEFINE call == RP!Call("exec", conn, acts')
  <2>1. RedisAsked(call)
    BY DEF RedisAsked, RP!Call
  <2>2. RP!Acts /\ RP!Ask(call) /\ done' = done
        /\ UNCHANGED <<conn, pattern, db, keys, cursor, selKey, session>>
    BY <1>8 DEF RP!RunCommand, RP!listVars, RP!valueVars, RP!serverVars
  <2> HIDE DEF call
  <2>3. QED
    BY <1>1, <1>2, <2>1, <2>2
<1>9. CASE RP!StartEdit \/ RP!CancelEdit
  <2>1. RP!Acts /\ UNCHANGED <<conn, pattern, db, keys, cursor, selKey, session, calls, done>>
    BY <1>9 DEF RP!StartEdit, RP!CancelEdit, RP!listVars, RP!serverVars
  <2>2. QED
    BY <1>2, <2>1 DEF RedisWires, RedisAsked, RedisAnswered
<1>10. ASSUME NEW r \in calls, RP!Serve(r)
       PROVE  RedisShown' /\ RedisWires'
  <2>1. PICK a : /\ a.kind = r.kind /\ a.conn = r.conn /\ a.arg = r.arg
                 /\ r.kind = "scan" => a.out = RP!Scanned(r)
                 /\ calls' = calls \ {r} /\ done' = done \cup {a}
    <3> DEFINE a == [id |-> r.id, kind |-> r.kind, conn |-> r.conn, arg |-> r.arg, ok |-> TRUE, out |->
                     CASE r.kind = "scan" -> RP!Scanned(r)
                       [] r.kind \in {"get", "readback"} -> RP!Read(r)
                       [] OTHER -> r.arg]
    <3>1. calls' = calls \ {r} /\ done' = done \cup {a}
      BY <1>10 DEF RP!Serve
    <3>2. /\ a.kind = r.kind /\ a.conn = r.conn /\ a.arg = r.arg
          /\ r.kind = "scan" => a.out = RP!Scanned(r)
      OBVIOUS
    <3> HIDE DEF a
    <3>3. QED
      BY <3>1, <3>2
  <2>2. RedisAsked(r) /\ RedisAsked(a)
    BY <2>1 DEF RedisWires, RedisAsked
  <2>3. RedisAnswered(a)
    <3>1. CASE r.kind = "scan"
      <4>1. r.conn \in Conns /\ r.arg[1] \in RP!Patterns /\ r.arg[2] \in Nat /\ session[r.conn] \in Dbs
        BY <2>2, <3>1 DEF RedisAsked
      <4>2. RP!Scanned(r).db \in Dbs /\ RP!Scanned(r).next \in Nat /\ RP!Scanned(r).keys \in Seq(Places)
        BY <4>1, PageRead
      <4>3. QED
        BY <2>1, <3>1, <4>2 DEF RedisAnswered
    <3>2. CASE r.kind # "scan"
      BY <2>1, <3>2 DEF RedisAnswered
    <3>3. QED
      BY <3>1, <3>2
  <2>4. RedisWires'
    BY <2>1, <2>2, <2>3 DEF RedisWires, RedisAsked, RedisAnswered
  <2>5. /\ session' = (IF r.kind = "select" THEN [session EXCEPT ![r.conn] = r.arg] ELSE session)
        /\ UNCHANGED <<conn, pattern, db, keys, cursor, selKey, acts>>
    BY <1>10 DEF RP!Serve, RP!listVars, RP!valueVars
  <2>6. RedisShown'
    BY <2>2, <2>5 DEF RedisAsked
  <2>7. QED
    BY <2>4, <2>6
<1>11. ASSUME NEW r \in calls, RP!Refuse(r)
       PROVE  RedisShown' /\ RedisWires'
  <2> DEFINE a == [id |-> r.id, kind |-> r.kind, conn |-> r.conn, arg |-> r.arg, ok |-> FALSE, out |-> None]
  <2>1. /\ calls' = calls \ {r} /\ done' = done \union {a}
        /\ UNCHANGED <<conn, pattern, db, keys, cursor, selKey, session, acts>>
    BY <1>11 DEF RP!Refuse, RP!listVars, RP!valueVars, RP!serverVars
  <2>2. RedisAsked(a) /\ RedisAnswered(a)
    BY DEF RedisWires, RedisAsked, RedisAnswered
  <2> HIDE DEF a
  <2>3. RedisWires'
    BY <2>1, <2>2 DEF RedisWires, RedisAsked, RedisAnswered
  <2>4. QED
    BY <2>1, <2>3
<1>12. ASSUME NEW r \in RP!Ok("scan"), RP!KeysArrive(r)
       PROVE  RedisShown' /\ RedisWires'
  <2>1. r \in done /\ r.kind = "scan" /\ r.ok /\ RedisAnswered(r)
    BY DEF RP!Ok, RedisWires
  <2>2. /\ done' = done \ {r} /\ db' = r.out.db /\ cursor' = r.out.next
        /\ keys' \in {r.out.keys, keys \o r.out.keys}
        /\ UNCHANGED <<conn, pattern, selKey, session, calls, acts>>
    BY <1>12 DEF RP!KeysArrive, RP!valueVars, RP!serverVars
  <2>3. keys' \in Seq(Places)
    BY <2>1, <2>2, ConcatProperties DEF RedisAnswered
  <2>4. RedisShown'
    BY <2>1, <2>2, <2>3 DEF RedisAnswered
  <2>5. RedisWires'
    BY <2>2 DEF RedisWires, RedisAsked, RedisAnswered
  <2>6. QED
    BY <2>4, <2>5
<1>13. ASSUME NEW r \in done, RP!DbSelected(r) \/ RP!Written(r)
       PROVE  RedisShown' /\ RedisWires'
  <2> DEFINE again == [id |-> r.id, kind |-> "scan", conn |-> r.conn, arg |-> <<pattern, 1>>]
             reread == [id |-> r.id, kind |-> "readback", conn |-> r.conn, arg |-> r.arg.key]
  <2>1. done' = done \ {r} /\ \E c \in {again, reread} : calls' = calls \union {c}
    BY <1>13 DEF RP!DbSelected, RP!Written
  <2>2. RedisAsked(again) /\ RedisAsked(reread)
    BY DEF RedisAsked, RedisWires, RedisShown
  <2> HIDE DEF again, reread
  <2>3. RedisWires'
    <3>1. done' \subseteq done /\ \A c \in calls' : c \in calls \/ c \in {again, reread}
      BY <2>1
    <3>2. QED
      BY <3>1, <2>2 DEF RedisWires, RedisAsked, RedisAnswered
  <2>4. keys' \in {keys, <<>>} /\ selKey' \in {selKey, None} /\ UNCHANGED <<conn, pattern, db, cursor, session, acts>>
    BY <1>13 DEF RP!DbSelected, RP!Written, RP!listVars, RP!serverVars
  <2>5. <<>> \in Seq(Places)
    OBVIOUS
  <2>6. RedisShown'
    BY <2>4, <2>5
  <2>7. QED
    BY <2>3, <2>6
<1>14. ASSUME NEW r, RP!ValueArrives(r) \/ RP!Replied(r) \/ RP!Failed(r)
       PROVE  RedisShown' /\ RedisWires'
  <2>1. done' = done \ {r} /\ UNCHANGED <<conn, pattern, db, keys, cursor, selKey, session, calls, acts>>
    BY <1>14 DEF RP!ValueArrives, RP!Replied, RP!Failed, RP!listVars, RP!valueVars, RP!serverVars
  <2>2. QED
    BY <2>1 DEF RedisWires, RedisAsked, RedisAnswered
<1>15. CASE UNCHANGED RP!redisVars
  <2>1. UNCHANGED <<conn, pattern, db, keys, cursor, selKey, session, calls, done, acts>>
    BY <1>15 DEF RP!redisVars
  <2>2. QED
    BY <2>1 DEF RedisWires, RedisAsked, RedisAnswered
<1>16. ASSUME NEW r, r \in RP!Ok("select") \union RP!Ok("set")
       PROVE  r \in done
  BY <1>16 DEF RP!Ok
<1> USE DEF RP!TypePattern, RP!SwitchConnection
<1> HIDE DEF RedisShown
<1>17. ASSUME NEW c \in Conns, RP!SwitchConnection(c)
       PROVE  RedisShown' /\ RedisWires'
  BY <1>3, <1>17 DEF RedisShown
<1>18. ASSUME NEW p \in RP!Patterns, RP!TypePattern(p)
       PROVE  RedisShown' /\ RedisWires'
  BY <1>3, <1>18 DEF RedisShown
<1> HIDE DEF RP!TypePattern, RP!SwitchConnection
<1>19. QED
  BY <1>4, <1>5, <1>6, <1>7, <1>8, <1>9, <1>10, <1>11, <1>12, <1>13, <1>14, <1>15, <1>16, <1>17, <1>18
     DEF RP!Next

LEMMA RedisTypes == RedisTyped => RP!TypeOK
BY EntriesOf DEF RedisTyped, RedisFlags, RedisShown, RedisWires, RedisAsked, RP!TypeOK, Places

\* The statement that is run has the kinds and names of parts.
StatementTyped(s) ==
    /\ s.kind \in SE!Kinds /\ s.name \in PartNames \union {None}
    /\ s.null \in BOOLEAN /\ s.pk \in BOOLEAN
FormTyped ==
    /\ dialect \in DOMAIN SE!Caps /\ op \in SE!Ops /\ column \in SE!Column
    /\ names \in [SE!Ops -> PartNames \union {None}]
ChangeTyped ==
    /\ at \in {"idle", "begin", "execute", "commit", "rollback"} /\ msg \in {"none", "ok", "failed"}
    /\ at \in {"begin", "execute", "commit"} => StatementTyped(sql)
    /\ at = "commit" => sql.name # None
    /\ parts \subseteq SE!Part /\ listed \subseteq SE!Part
    /\ lost \subseteq {"begin", "execute", "commit", "rollback"}

LEMMA StructureStartsTyped ==
    ASSUME SE!EditAssumption, SE!Init
    PROVE  FormTyped /\ ChangeTyped
<1>1. FormTyped
  BY DEF SE!EditAssumption, SE!Init, FormTyped, SE!Ops, SE!Kinds, SE!Column
<1>2. ChangeTyped
  BY DEF SE!EditAssumption, SE!Init, ChangeTyped
<1>3. QED
  BY <1>1, <1>2

\* What the form makes of its fields, and the database of the statement.
LEMMA StatementIsTyped ==
    ASSUME SE!EditAssumption, FormTyped, SE!Statement # SE!Unsupported
    PROVE  StatementTyped(SE!Statement)
<1>1. /\ op[1] \in {"add", "drop"} /\ op[2] \in SE!Kinds /\ op = <<op[1], op[2]>>
      /\ names[op] \in PartNames \union {None}
      /\ column.null \in BOOLEAN /\ column.pk \in BOOLEAN /\ column.default \in BOOLEAN
  BY DEF FormTyped, SE!Ops, SE!Column
<1>2. CASE op[1] = "drop"
  <2>1. SE!Statement = SE!Drop(dialect, op[2], names[op])
    BY <1>2 DEF SE!Statement
  <2>2. QED
    BY <1>1, <2>1 DEF SE!Drop, StatementTyped
<1>3. CASE op[1] # "drop" /\ op = <<"add", "column">>
  <2>1. SE!Statement = SE!AddColumn(dialect, names[op], column)
    BY <1>3 DEF SE!Statement
  <2>2. PICK null, pk : /\ SE!Statement = [op |-> "add", kind |-> "column", name |-> names[op],
                                            pk |-> pk, null |-> null]
                        /\ pk = column.pk /\ null \in BOOLEAN
    BY <2>1 DEF SE!AddColumn
  <2>3. "column" \in SE!Kinds
    BY DEF SE!Kinds
  <2>4. QED
    BY <1>1, <2>2, <2>3 DEF StatementTyped
<1>4. CASE op[1] # "drop" /\ op # <<"add", "column">>
  <2>1. SE!Statement = SE!AddOther(dialect, op[2], names[op])
    BY <1>4 DEF SE!Statement
  <2>2. QED
    BY <1>1, <2>1 DEF SE!AddOther, StatementTyped, SE!EditAssumption
<1>5. QED
  BY <1>2, <1>3, <1>4

LEMMA ResultIsTyped ==
    ASSUME NEW ps \in SUBSET SE!Part, NEW s, StatementTyped(s), s.name # None
    PROVE  SE!Result(ps, s) \subseteq SE!Part
<1>1. [kind |-> s.kind, name |-> s.name, null |-> s.null, pk |-> s.pk] \in SE!Part
  BY DEF StatementTyped, SE!Part
<1>2. QED
  BY <1>1 DEF SE!Result

LEMMA StructureIsTyped ==
    ASSUME SE!EditAssumption, FormTyped, ChangeTyped, [SE!Next]_(SE!vars)
    PROVE  FormTyped' /\ ChangeTyped'
<1>1. ASSUME NEW o \in SE!Ops, SE!Choose(o)
      PROVE  FormTyped' /\ ChangeTyped'
  BY <1>1 DEF SE!Choose, SE!Edited, FormTyped, ChangeTyped, StatementTyped
<1>2. ASSUME NEW n \in PartNames \union {None}, SE!FillName(n)
      PROVE  FormTyped' /\ ChangeTyped'
  BY <1>2 DEF SE!FillName, SE!Edited, FormTyped, ChangeTyped, StatementTyped
<1>3. ASSUME NEW c \in SE!Column, SE!FillColumn(c)
      PROVE  FormTyped' /\ ChangeTyped'
  BY <1>3 DEF SE!FillColumn, SE!Edited, FormTyped, ChangeTyped, StatementTyped
<1>4. ASSUME NEW ok, SE!Reloaded(ok)
      PROVE  FormTyped' /\ ChangeTyped'
  BY <1>4 DEF SE!Reloaded, FormTyped, ChangeTyped, StatementTyped
<1>5. CASE SE!Run
  <2>1. StatementTyped(sql')
    BY <1>5, StatementIsTyped DEF SE!Run
  <2>2. QED
    BY <1>5, <2>1 DEF SE!Run, SE!form, FormTyped, ChangeTyped, StatementTyped
<1>6. CASE SE!Begun \/ \E b \in BOOLEAN : SE!BeginFails(b) \/ SE!RolledBack(b)
  BY <1>6 DEF SE!Begun, SE!BeginFails, SE!RolledBack, SE!Ends, SE!Unanswered, SE!form,
              FormTyped, ChangeTyped, StatementTyped
<1>a. ASSUME at = "execute", SE!Takes
      PROVE  StatementTyped(sql) /\ sql.name # None /\ parts' \subseteq SE!Part
  <2>1. StatementTyped(sql) /\ sql.name # None
    BY <1>a DEF SE!Takes, SE!Accepted, ChangeTyped
  <2>2. QED
    BY <1>a, <2>1, ResultIsTyped DEF SE!Takes, ChangeTyped
<1>7. CASE SE!Executed
  <2>1. StatementTyped(sql) /\ sql.name # None /\ parts' \subseteq SE!Part
    BY <1>7, <1>a DEF SE!Executed
  <2>2. QED
    BY <1>7, <2>1 DEF SE!Executed, SE!form, FormTyped, ChangeTyped, StatementTyped
<1>b. ASSUME NEW b, SE!ExecuteFails(b)
      PROVE  FormTyped' /\ ChangeTyped'
  <2>1. parts' \subseteq SE!Part
    <3>1. CASE b
      BY <1>a, <1>b, <3>1 DEF SE!ExecuteFails
    <3>2. CASE ~b
      BY <1>b, <3>2 DEF SE!ExecuteFails, ChangeTyped
    <3>3. QED
      BY <3>1, <3>2
  <2>2. QED
    BY <1>b, <2>1 DEF SE!ExecuteFails, SE!RollsBack, SE!Unanswered, SE!form, FormTyped, ChangeTyped
<1>8. ASSUME NEW done_, SE!Committed \/ SE!CommitFails(done_)
      PROVE  FormTyped' /\ ChangeTyped'
  <2>1. StatementTyped(sql) /\ sql.name # None
    BY <1>8 DEF SE!Committed, SE!CommitFails, ChangeTyped
  <2>2. parts' \in {parts, SE!Result(parts, sql)} /\ at' \in {"idle", "rollback"} /\ msg' \in {msg, "ok"}
        /\ UNCHANGED <<dialect, op, names, column, listed>>
        /\ lost' \subseteq lost \cup {"commit"}
    BY <1>8 DEF SE!Committed, SE!CommitFails, SE!Carried, SE!RollsBack, SE!Unanswered, SE!Ends, SE!form
  <2>3. parts' \subseteq SE!Part
    BY <2>1, <2>2, ResultIsTyped DEF ChangeTyped
  <2>4. QED
    BY <2>2, <2>3 DEF FormTyped, ChangeTyped
<1>9. CASE UNCHANGED SE!vars
  BY <1>9 DEF SE!vars, SE!form, FormTyped, ChangeTyped, StatementTyped
<1>10. QED
  BY <1>1, <1>2, <1>3, <1>4, <1>5, <1>6, <1>7, <1>8, <1>9, <1>b DEF SE!Next

LEMMA StructureTypes == FormTyped /\ ChangeTyped => SE!TypeOK
BY DEF FormTyped, ChangeTyped, SE!TypeOK

-----------------------------------------------------------------------------
(* The types of the compare wizard.                                        *)

WizardTyped ==
    /\ step \in {"source", "target", "review", "apply"} /\ target \in Conns \cup {None}
    /\ sel \subseteq Differences /\ (entries # None => entries \subseteq Differences)

LEMMA WizardStartsTyped == CS!Init => WizardTyped
BY DEF CS!Init, WizardTyped

LEMMA StepsAre == \A i \in DOMAIN CS!Steps : CS!Steps[i] \in {"source", "target", "review", "apply"}
<1>1. DOMAIN CS!Steps = 1..4
  BY DEF CS!Steps
<1>2. QED
  BY <1>1 DEF CS!Steps

LEMMA WizardIsTyped ==
    ASSUME CS!SyncAssumption, WizardTyped, [CS!Next]_(CS!vars)
    PROVE  WizardTyped'
<1>1. CASE \E i \in DOMAIN CS!Steps : CS!Goto(CS!Steps[i])
  BY <1>1, StepsAre DEF CS!Goto, CS!plan, WizardTyped
<1>2. CASE \/ \E c \in Conns : CS!ChooseSource(c) \/ CS!ChooseTarget(c) \/ CS!Reopen(c)
           \/ CS!Reopen(None)
  BY <1>2 DEF CS!ChooseSource, CS!ChooseTarget, CS!Reopen, CS!plan, WizardTyped
<1>3. CASE \/ CS!Close \/ CS!RunDiff \/ CS!RequestFails \/ CS!Generate \/ CS!AskRollback
           \/ CS!Dismiss \/ CS!CancelRest
  BY <1>3 DEF CS!Close, CS!RunDiff, CS!RequestFails, CS!Generate, CS!AskRollback, CS!Dismiss,
              CS!CancelRest, CS!wizard, CS!plan, WizardTyped
<1>4. ASSUME NEW found_ \in Plans, CS!DiffAnswer(found_)
      PROVE  WizardTyped'
  BY <1>4 DEF CS!DiffAnswer, CS!SyncAssumption, WizardTyped
<1>5. ASSUME entries # None, NEW s \in CS!Selections, CS!Select(s)
      PROVE  WizardTyped'
  <2>1. s \subseteq Differences
    BY <1>5 DEF CS!Selections, CS!Gaps, WizardTyped
  <2>2. QED
    BY <1>5, <2>1 DEF CS!Select, CS!wizard, WizardTyped
<1>6. ASSUME NEW sc \in CS!Script, CS!DdlAnswer(sc)
      PROVE  WizardTyped'
  BY <1>6 DEF CS!DdlAnswer, WizardTyped
<1>7. CASE CS!DoApply \/ CS!DoRollback
  BY <1>7 DEF CS!DoApply, CS!DoRollback, CS!Starts, CS!wizard, CS!plan, WizardTyped
<1>8. CASE \/ CS!Begun \/ CS!Executed \/ CS!ExecuteLost \/ CS!Committed \/ CS!CommitLost \/ CS!Refused
           \/ CS!RolledBack \/ CS!RollbackFails
  <2>1. UNCHANGED <<step, target, sel, entries>>
    BY <1>8 DEF CS!Begun, CS!Executed, CS!ExecuteLost, CS!Committed, CS!CommitLost, CS!Refused, CS!RolledBack,
                CS!RollbackFails, CS!Waiting, CS!wizard, CS!plan
  <2>2. QED
    BY <2>1 DEF WizardTyped
<1>9. CASE UNCHANGED CS!vars
  BY <1>9 DEF CS!vars, WizardTyped
<1>10. QED
  BY <1>1, <1>2, <1>3, <1>4, <1>5, <1>6, <1>7, <1>8, <1>9 DEF CS!Next

LEMMA CompareTypes == CompareInv /\ WizardTyped => CS!TypeOK
<1> SUFFICES ASSUME CompareInv, WizardTyped
             PROVE  CS!TypeOK
  OBVIOUS
<1>1. CS!At(step) \in 1..4
  <2>1. \E i \in DOMAIN CS!Steps : CS!Steps[i] = step
    <3>1. DOMAIN CS!Steps = 1..4
      BY DEF CS!Steps
    <3>2. step \in {CS!Steps[1], CS!Steps[2], CS!Steps[3], CS!Steps[4]}
      BY DEF WizardTyped, CS!Steps
    <3>3. QED
      BY <3>1, <3>2
  <2>2. CS!At(step) \in DOMAIN CS!Steps
    BY <2>1 DEF CS!At
  <2>3. QED
    BY <2>2 DEF CS!Steps
<1>2. (busy \in {"apply", "rollback"}) = (run # None)
  <2>1. run # None <=> busy \in {"apply", "rollback"}
    BY DEF CompareInv, SyncTyped
  <2>2. CASE run = None
    BY <2>1, <2>2
  <2>3. CASE run # None
    BY <2>1, <2>3
  <2>4. QED
    BY <2>2, <2>3
<1>3. run # None => (run.wait = "rollback" => run.failed)
  BY DEF CompareInv, RunKnows, CS!Wait
<1>4. QED
  BY <1>1, <1>2, <1>3 DEF CompareInv, SyncTyped, WizardTyped, CS!TypeOK

-----------------------------------------------------------------------------
(* The types of the stacks of fixes.                                       *)

StacksTyped ==
    /\ redo \in Seq(FH!Options) /\ Len(redo) <= MaxHistory
    /\ diffOpen \in BOOLEAN /\ fixes \in 0..MaxFixes

LEMMA StacksStartTyped ==
    ASSUME FH!HistoryAssumption, FH!Init
    PROVE  StacksTyped
<1>1. redo = <<>> /\ diffOpen = FALSE /\ fixes = 0
  BY DEF FH!Init
<1>2. redo \in Seq(FH!Options) /\ Len(redo) = 0
  BY <1>1, NoOptions
<1>3. diffOpen \in BOOLEAN
  BY <1>1
<1>4. fixes \in 0..MaxFixes /\ 0 <= MaxHistory
  BY <1>1 DEF FH!HistoryAssumption
<1>5. QED
  BY <1>2, <1>3, <1>4 DEF StacksTyped

LEMMA StacksAreTyped ==
    ASSUME FH!HistoryAssumption, FixInv, FixInv', StacksTyped, [FH!Next]_(FH!vars)
    PROVE  StacksTyped'
<1>0. /\ redo' \in Seq(FH!Options) /\ Len(redo) \in Nat /\ MaxHistory \in Nat
      /\ Len(<<>>) = 0
  BY DEF FixInv, FixTyped, FH!HistoryAssumption
<1>1. CASE FH!FixDuplicates \/ FH!FixValidation \/ FH!ClearStacks
           \/ \E f \in {"mode", "strict"}, n \in 1..MaxHistory : FH!SingleItemUndo(f, n)
  <2>1. redo' = <<>> /\ diffOpen' \in BOOLEAN /\ fixes' \in {fixes, fixes + 1} 
        /\ (fixes' = fixes \/ fixes < MaxFixes)
    BY <1>1 DEF FH!FixDuplicates, FH!FixValidation, FH!ClearStacks, FH!SingleItemUndo, FH!PushFix,
                FH!Counted
  <2>2. Len(redo') <= MaxHistory
    BY <1>0, <2>1
  <2>3. QED
    BY <1>0, <2>1, <2>2 DEF StacksTyped, FH!HistoryAssumption
<1>2. CASE FH!ToggleDiff \/ (\E o \in FH!Options : FH!Edit(o)) \/ UNCHANGED FH!vars
  <2>1. redo' = redo /\ diffOpen' \in {diffOpen, ~diffOpen}
        /\ (fixes' = fixes \/ (fixes' = fixes + 1 /\ fixes < MaxFixes))
    BY <1>2 DEF FH!ToggleDiff, FH!Edit, FH!Counted, FH!vars
  <2>2. fixes' \in 0..MaxFixes
    BY <2>1 DEF StacksTyped, FH!HistoryAssumption
  <2>3. diffOpen' \in BOOLEAN
    BY <2>1 DEF StacksTyped
  <2>4. QED
    BY <2>1, <2>2, <2>3 DEF StacksTyped
<1>3. ASSUME NEW some \in BOOLEAN, FH!OneClickOptimize(some)
      PROVE  StacksTyped'
  <2>1. /\ redo' \in {redo, <<>>} /\ diffOpen' \in {diffOpen, TRUE} /\ fixes' = fixes + 1
        /\ fixes < MaxFixes
    BY <1>3 DEF FH!OneClickOptimize, FH!PushFix, FH!Counted
  <2>2. Len(redo') <= MaxHistory
    BY <1>0, <2>1 DEF StacksTyped
  <2>3. fixes' \in 0..MaxFixes
    BY <2>1 DEF StacksTyped, FH!HistoryAssumption
  <2>4. diffOpen' \in BOOLEAN
    BY <2>1 DEF StacksTyped
  <2>5. QED
    BY <1>0, <2>2, <2>3, <2>4 DEF StacksTyped
<1>4. ASSUME NEW n \in 1..MaxHistory, FH!UndoFixN(n)
      PROVE  StacksTyped'
  <2> DEFINE k == FH!Smaller(n, Len(undo))
             back == FH!Reversed(SubSeq(undo, 1, k)) \o redo
  <2>1. redo' = FH!Capped(back) /\ UNCHANGED <<diffOpen, fixes>> /\ undo # <<>>
    BY <1>4 DEF FH!UndoFixN
  <2>2. k \in Nat /\ 1 <= k /\ k <= Len(undo)
    BY <2>1 DEF FixInv, FixTyped, FH!HistoryAssumption, FH!Smaller
  <2>3. back \in Seq(FH!Options)
    <3>1. SubSeq(undo, 1, k) \in Seq(FH!Options)
      BY <2>2 DEF FixInv, FixTyped
    <3> DEFINE q == SubSeq(undo, 1, k)
    <3>2. q \in Seq(FH!Options)
      BY <3>1
    <3> HIDE DEF q
    <3>3. FH!Reversed(q) \in [1..Len(q) -> FH!Options]
      BY <3>2 DEF FH!Reversed
    <3>4. FH!Reversed(q) \in Seq(FH!Options)
      BY <3>2, <3>3
    <3>5. FH!Reversed(q) \o redo \in Seq(FH!Options)
      BY <3>4 DEF StacksTyped
    <3>6. QED
      BY <3>5 DEF q
  <2> HIDE DEF k, back
  <2>4. Len(FH!Capped(back)) <= MaxHistory
    BY <2>3, CappedFacts
  <2>5. QED
    BY <1>0, <2>1, <2>4 DEF StacksTyped
<1>5. ASSUME NEW n \in 1..MaxHistory, FH!RedoFixN(n)
      PROVE  StacksTyped'
  <2> DEFINE k == FH!Smaller(n, Len(redo))
  <2>1. redo' = SubSeq(redo, k + 1, Len(redo)) /\ UNCHANGED <<diffOpen, fixes>>
    BY <1>5 DEF FH!RedoFixN
  <2>2. k \in Nat /\ k <= Len(redo)
    BY <1>0 DEF FH!HistoryAssumption, FH!Smaller
  <2> HIDE DEF k
  <2>3. Len(redo') <= Len(redo)
    BY <1>0, <2>1, <2>2 DEF StacksTyped
  <2>4. QED
    BY <1>0, <2>1, <2>3 DEF StacksTyped
<1>6. QED
  BY <1>1, <1>2, <1>3, <1>4, <1>5 DEF FH!Next

LEMMA FixesTypes == FixInv /\ StacksTyped => FH!TypeOK
BY DEF FixInv, FixTyped, StacksTyped, FH!TypeOK

-----------------------------------------------------------------------------
(* The types of the preview of a backup.                                   *)

\* The file being read and the one in the preview are among the backups.
FileTyped ==
    /\ reading # None => reading.file \in BackupFiles
    /\ pending # None => /\ pending.file \in BackupFiles /\ pending.over \subseteq pending.items
                         /\ pending.items \subseteq DOMAIN pending.file
TicksTyped ==
    /\ selected \subseteq Keys /\ picked \subseteq selected /\ audit \in [Keys -> {"none", "ok", "dead"}]
    /\ view \in BP!Views /\ confirming \in BOOLEAN
OthersTyped ==
    /\ white \subseteq Keys /\ auditing \subseteq SUBSET Keys /\ left \in 0..UndoSeconds
BackupTyped == FileTyped /\ TicksTyped /\ OthersTyped

LEMMA BackupStartsTyped ==
    ASSUME BP!BackupAssumption, BP!Init
    PROVE  BackupTyped
<1>1. FileTyped
  BY DEF BP!Init, FileTyped
<1>2. selected \subseteq Keys /\ picked \subseteq selected /\ audit \in [Keys -> {"none", "ok", "dead"}]
  BY DEF BP!Init, BP!Unaudited
<1>3. view \in BP!Views
  BY DEF BP!Init, BP!AllShown, BP!Views
<1>4. confirming \in BOOLEAN
  BY DEF BP!Init
<1>5. white \subseteq Keys /\ auditing \subseteq SUBSET Keys
  BY DEF BP!Init
<1>6. left \in 0..UndoSeconds
  BY DEF BP!Init, BP!BackupAssumption
<1>7. QED
  BY <1>1, <1>2, <1>3, <1>4, <1>5, <1>6 DEF BackupTyped, TicksTyped, OthersTyped

LEMMA ListedKeys ==
    ASSUME BP!BackupAssumption, FileTyped
    PROVE  BP!Listed \subseteq BP!Items
BY DEF BP!BackupAssumption, FileTyped, BP!Listed, BP!Open

LEMMA KeyOfItem == \A i \in BP!Items : BP!Key(i) \in Keys
BY DEF BP!Items, BP!Key

\* Ticks by hand, of keys.
LEMMA TicksAreTyped ==
    ASSUME BackupTyped, NEW ks \in SUBSET Keys, BP!Pick(ks)
    PROVE  BackupTyped'
BY DEF BackupTyped, FileTyped, TicksTyped, OthersTyped, BP!Pick

LEMMA FileIsTyped ==
    ASSUME BP!BackupAssumption, BackupTyped, BP!FileRead
    PROVE  BackupTyped'
<1> DEFINE f == reading.file
           items == {i \in DOMAIN f : BP!Key(i) \notin reading.white}
           over == {i \in items : store[i] # None}
           own == {i \in items : BP!Kind(i) = "preset" /\ BP!Key(i) \notin Foreign}
           big(i) == BP!Kind(i) = "preset" /\ i \in over /\ BP!Key(i) \in Big
           ticks == {BP!Key(i) : i \in {j \in items : BP!Key(j) \notin Foreign /\ ~big(j)}}
<1>1. /\ reading # None /\ reading' = None /\ UNCHANGED <<white, view, confirming, left>>
      /\ \/ UNCHANGED <<pending, selected, audit, auditing, picked>>
         \/ /\ pending' = [file |-> f, items |-> items, over |-> over]
            /\ selected' = ticks /\ audit' = BP!Unaudited /\ picked' = {}
            /\ auditing' \in {auditing, auditing \union {BP!KeysOf(own)}}
  BY DEF BP!FileRead
<1>2. f \in BackupFiles /\ items \subseteq BP!Items /\ over \subseteq items
  BY <1>1 DEF BackupTyped, FileTyped, BP!BackupAssumption
<1>3. ticks \subseteq Keys /\ BP!KeysOf(own) \subseteq Keys
  BY <1>2, KeyOfItem DEF BP!KeysOf
<1>4. items \subseteq DOMAIN f
  OBVIOUS
<1> HIDE DEF items, over, own, ticks
<1>5. FileTyped'
  BY <1>1, <1>2, <1>4 DEF BackupTyped, FileTyped
<1>6. TicksTyped'
  BY <1>1, <1>3 DEF BackupTyped, TicksTyped, BP!Unaudited
<1>7. OthersTyped'
  BY <1>1, <1>3 DEF BackupTyped, OthersTyped
<1>8. QED
  BY <1>5, <1>6, <1>7 DEF BackupTyped

LEMMA AuditIsTyped ==
    ASSUME BackupTyped, NEW ks \in auditing, BP!AuditAnswer(ks)
    PROVE  BackupTyped'
<1>1. PICK dead \in SUBSET ks : BP!Verdicts(ks, dead)
  BY DEF BP!AuditAnswer
<1>2. audit' \in [Keys -> {"none", "ok", "dead"}]
  BY <1>1 DEF BP!Verdicts, BackupTyped, TicksTyped
<1>3. selected' \subseteq Keys /\ picked' \subseteq selected'
  BY <1>1 DEF BP!Verdicts, BackupTyped, TicksTyped
<1>4. QED
  BY <1>2, <1>3 DEF BP!AuditAnswer, BackupTyped, FileTyped, TicksTyped, OthersTyped

LEMMA BackupIsTyped ==
    ASSUME BP!BackupAssumption, BackupTyped, [BP!Next]_(BP!vars)
    PROVE  BackupTyped'
<1>0. /\ BP!Listed \subseteq BP!Items /\ BP!Matched \subseteq BP!Listed /\ BP!Chosen \subseteq BP!Listed
      /\ BP!Visible \subseteq BP!Matched /\ selected \subseteq Keys
      /\ \A s \in SUBSET BP!Items : BP!KeysOf(s) \subseteq Keys
  BY ListedKeys, KeyOfItem
     DEF BackupTyped, TicksTyped, BP!Matched, BP!Visible, BP!Chosen, BP!KeysOf
<1>1. CASE \/ BP!SelectMatched \/ BP!InvertMatched \/ BP!SelectAll \/ BP!SelectNone
           \/ BP!InvertAll \/ BP!SelectSafe \/ BP!DropRisky \/ \E i \in BP!Items : BP!Toggle(i)
  <2>1. \E ks \in SUBSET Keys : BP!Pick(ks)
    <3>1. CASE BP!SelectMatched \/ BP!SelectAll \/ BP!SelectNone \/ BP!InvertAll
      BY <1>0, <3>1 DEF BP!SelectMatched, BP!SelectAll, BP!SelectNone, BP!InvertAll
    <3>2. CASE BP!InvertMatched
      BY <3>2 DEF BP!InvertMatched
    <3>3. CASE BP!SelectSafe \/ BP!DropRisky
      BY <1>0, <3>3 DEF BP!SelectSafe, BP!DropRisky
    <3>4. ASSUME NEW i \in BP!Items, BP!Toggle(i)
          PROVE  \E ks \in SUBSET Keys : BP!Pick(ks)
      BY <1>0, <3>4, KeyOfItem DEF BP!Toggle
    <3>5. QED
      BY <1>1, <3>1, <3>2, <3>3, <3>4
  <2>2. QED
    BY <2>1, TicksAreTyped
<1>2. CASE \/ \E f \in BackupFiles : BP!ChooseFile(f)
           \/ BP!ResetView \/ BP!ConfirmApply \/ BP!CloseConfirm \/ BP!Tick
           \/ \E v \in BP!Views : BP!SetView(v)
  <2>1. /\ UNCHANGED <<white, pending, selected, audit, auditing, picked>>
        /\ reading' = reading \/ reading'.file \in BackupFiles
    BY <1>2 DEF BP!ChooseFile, BP!ResetView, BP!ConfirmApply, BP!CloseConfirm, BP!Tick, BP!SetView
  <2>2. view' \in BP!Views
    <3>1. view' \in BP!Views \union {view, BP!AllShown}
      BY <1>2 DEF BP!ChooseFile, BP!ResetView, BP!ConfirmApply, BP!CloseConfirm, BP!Tick, BP!SetView
    <3>2. BP!AllShown \in BP!Views
      BY DEF BP!AllShown, BP!Views
    <3>3. QED
      BY <3>1, <3>2 DEF BackupTyped, TicksTyped
  <2>3. confirming' \in BOOLEAN
    <3>1. confirming' = confirming \/ confirming' = TRUE \/ confirming' = FALSE
      BY <1>2 DEF BP!ChooseFile, BP!ResetView, BP!ConfirmApply, BP!CloseConfirm, BP!Tick, BP!SetView
    <3>2. confirming \in BOOLEAN
      BY DEF BackupTyped, TicksTyped
    <3>3. QED
      BY <3>1, <3>2
  <2>4. left' \in 0..UndoSeconds
    <3>1. left' = left \/ (left > 0 /\ left' = left - 1)
      BY <1>2 DEF BP!ChooseFile, BP!ResetView, BP!ConfirmApply, BP!CloseConfirm, BP!Tick, BP!SetView
    <3>2. left \in 0..UndoSeconds /\ UndoSeconds \in Nat
      BY DEF BackupTyped, OthersTyped, BP!BackupAssumption
    <3>3. QED
      BY <3>1, <3>2
  <2>5. QED
    BY <2>1, <2>2, <2>3, <2>4 DEF BackupTyped, FileTyped, TicksTyped, OthersTyped
<1>3. CASE \/ \E ks \in SUBSET Keys : BP!MergeWhitelist(ks) \/ BP!RemoveFromWhitelist(ks)
           \/ UNCHANGED BP!vars
  BY <1>3 DEF BP!MergeWhitelist, BP!RemoveFromWhitelist, BP!Whitelisted, BP!vars,
       BackupTyped, FileTyped, TicksTyped, OthersTyped
<1>4. CASE BP!ReAudit
  <2> DEFINE again == {k \in BP!KeysOf({i \in BP!Listed : BP!Kind(i) = "preset"}) \ Foreign :
                         audit[k] # "ok"}
  <2>1. again \subseteq Keys
    BY <1>0
  <2>2. auditing' = {again} /\ UNCHANGED <<white, reading, pending, selected, view, audit, confirming,
                                           left, picked>>
    BY <1>4 DEF BP!ReAudit
  <2> HIDE DEF again
  <2>3. QED
    BY <2>1, <2>2 DEF BackupTyped, FileTyped, TicksTyped, OthersTyped
<1>5. CASE BP!BatchAdd \/ \E k \in Keys : BP!AddToWhitelist(k)
  <2>1. \E ks \in SUBSET Keys : /\ selected' = selected \ ks /\ picked' = picked \ ks
                                /\ BP!Whitelisted(ks)
    <3>1. ASSUME NEW k \in Keys, BP!AddToWhitelist(k)
          PROVE  \E ks \in SUBSET Keys : /\ selected' = selected \ ks /\ picked' = picked \ ks
                                         /\ BP!Whitelisted(ks)
      BY <3>1 DEF BP!AddToWhitelist
    <3>2. CASE BP!BatchAdd
      BY <1>0, <3>2 DEF BP!BatchAdd
    <3>3. QED
      BY <1>5, <3>1, <3>2
  <2>2. QED
    BY <2>1 DEF BP!Whitelisted, BackupTyped, FileTyped, TicksTyped, OthersTyped
<1>6. CASE BP!CancelBackup \/ BP!DoApply \/ BP!Undo \/ \E k \in Keys : BP!DeleteListed(k)
  <2>1. CASE BP!Undo \/ \E k \in Keys : BP!DeleteListed(k)
    <3>1. /\ UNCHANGED <<white, reading, pending, selected, view, audit, auditing, confirming, picked>>
          /\ left' = left \/ left' = 0
      BY <2>1 DEF BP!Undo, BP!DeleteListed
    <3>2. left' \in 0..UndoSeconds
      BY <3>1 DEF BackupTyped, OthersTyped, BP!BackupAssumption
    <3>3. QED
      BY <3>1, <3>2 DEF BackupTyped, FileTyped, TicksTyped, OthersTyped
  <2>2. ASSUME BP!Reset, UNCHANGED <<white, reading, auditing>>, left' \in {left, UndoSeconds}
        PROVE  BackupTyped'
    <3>1. /\ pending' = None /\ selected' = {} /\ picked' = {} /\ audit' = BP!Unaudited
          /\ view' = [view EXCEPT !.action = "all"]
      BY <2>2 DEF BP!Reset
    <3>2. view' \in BP!Views
      BY <3>1 DEF BackupTyped, TicksTyped, BP!Views
    <3>3. confirming' \in BOOLEAN
      BY <2>2 DEF BP!Reset
    <3>4. left' \in 0..UndoSeconds
      BY <2>2 DEF BackupTyped, OthersTyped, BP!BackupAssumption
    <3>5. audit' \in [Keys -> {"none", "ok", "dead"}]
      BY <3>1 DEF BP!Unaudited
    <3>6. QED
      BY <2>2, <3>1, <3>2, <3>3, <3>4, <3>5 DEF BackupTyped, FileTyped, TicksTyped, OthersTyped
  <2>3. CASE BP!CancelBackup
    BY <2>2, <2>3 DEF BP!CancelBackup
  <2>4. CASE BP!DoApply
    <3>1. CASE confirming' = FALSE /\ UNCHANGED <<white, reading, auditing, left, pending, selected,
                                                  audit, picked, view>>
      BY <3>1 DEF BackupTyped, FileTyped, TicksTyped, OthersTyped
    <3>2. CASE BP!Applied /\ BP!Reset
      BY <2>2, <2>4, <3>2 DEF BP!DoApply, BP!Applied
    <3>3. QED
      BY <2>4, <3>1, <3>2 DEF BP!DoApply
  <2>5. QED
    BY <1>6, <2>1, <2>3, <2>4
<1>7. QED
  BY <1>1, <1>2, <1>3, <1>4, <1>5, <1>6, FileIsTyped, AuditIsTyped DEF BP!Next

LEMMA BackupTypes == BackupTyped => BP!TypeOK
<1> SUFFICES ASSUME BackupTyped
             PROVE  BP!TypeOK
  OBVIOUS
<1>1. QED
  BY DEF BackupTyped, FileTyped, TicksTyped, OthersTyped, BP!TypeOK, BP!Open
=============================================================================
