----------------------------- MODULE WebProofs ------------------------------
(***************************************************************************)
(* What TLAPS proves of Web, for every value of its constants. The         *)
(* invariants of the machines are in WebQueryProofs, WebPageProofs and     *)
(* WebListProofs; here they are put together, and the theorems follow      *)
(* from them.                                                              *)
(***************************************************************************)
EXTENDS Web, WebQueryProofs, WebPageProofs, WebListProofs

-----------------------------------------------------------------------------
(* A step of Web that ends in a machine is a step or a stutter of it.      *)

LEMMA SocketMoves ==
    ASSUME [Next]_vars, machine' = "socket"
    PROVE  machine = "socket" /\ [WS!Next]_(WS!vars)
<1>1. CASE Next
  BY <1>1 DEF Next
<1>2. CASE UNCHANGED vars
  BY <1>2 DEF vars, WS!vars, client, ready, closedFlag, connOf, prevOf, pending, hello, pc,
          target, answers, received, asked, stops
<1>3. QED
  BY <1>1, <1>2

LEMMA QueryMoves ==
    ASSUME [Next]_vars, machine' = "query"
    PROVE  machine = "query" /\ [QR!Next]_(QR!vars)
<1>1. CASE Next
  BY <1>1 DEF Next
<1>2. CASE UNCHANGED vars
  BY <1>2 DEF vars, QR!vars, conn, transport, held, run, entries, shown, cancelled,
          liveId, queryId, asked, sends, last
<1>3. QED
  BY <1>1, <1>2

LEMMA EditorMoves ==
    ASSUME [Next]_vars, machine' = "editor"
    PROVE  machine = "editor" /\ [ET!Next]_(ET!vars)
<1>1. CASE Next
  BY <1>1 DEF Next
<1>2. CASE UNCHANGED vars
  BY <1>2 DEF vars, ET!vars, conn, tabs, active, text, armed, coming, made, store
<1>3. QED
  BY <1>1, <1>2

LEMMA ObjectsMoves ==
    ASSUME [Next]_vars, machine' = "objects"
    PROVE  machine = "objects" /\ [OT!Next]_(OT!vars)
<1>1. CASE Next
  BY <1>1 DEF Next
<1>2. CASE UNCHANGED vars
  BY <1>2 DEF vars, OT!vars, conn, open, coming, store
<1>3. QED
  BY <1>1, <1>2

LEMMA WhiteMoves ==
    ASSUME [Next]_vars, machine' = "whitelist"
    PROVE  machine = "whitelist" /\ [WL!Next]_(WL!vars)
<1>1. CASE Next
  BY <1>1 DEF Next
<1>2. CASE UNCHANGED vars
  BY <1>2 DEF vars, WL!vars, list, stored, panel, found, byAge, sel, anchor, days
<1>3. QED
  BY <1>1, <1>2

LEMMA ShellMoves ==
    ASSUME [Next]_vars, machine' = "shell"
    PROVE  machine = "shell" /\ [SH!Next]_(SH!shellVars)
<1>1. CASE Next
  BY <1>1 DEF Next
<1>2. CASE UNCHANGED vars
  BY <1>2 DEF vars, SH!shellVars, stored, sidebar, listed, conn, serverOk, health, pings,
          pinged, removing, context, token, fired, busy, fetching, picks, runs, steps
<1>3. QED
  BY <1>1, <1>2

LEMMA CatalogMoves ==
    ASSUME [Next]_vars, machine' = "catalog"
    PROVE  machine = "catalog" /\ [CA!Next]_(CA!catalogVars)
<1>1. CASE Next
  BY <1>1 DEF Next
<1>2. CASE UNCHANGED vars
  BY <1>2 DEF vars, CA!catalogVars, conn, schemas, selSchema, tables, tab, detail, error,
          open, found, failed, cached, calls, unhurried, steps
<1>3. QED
  BY <1>1, <1>2

LEMMA RedisMoves ==
    ASSUME [Next]_vars, machine' = "redis"
    PROVE  machine = "redis" /\ [RP!Next]_(RP!redisVars)
<1>1. CASE Next
  BY <1>1 DEF Next
<1>2. CASE UNCHANGED vars
  BY <1>2 DEF vars, RP!redisVars, conn, db, pattern, keys, cursor, selKey, value, editing,
          draft, saving, error, failed, entries, session, stored, calls, done, calm,
          acts
<1>3. QED
  BY <1>1, <1>2

LEMMA StructureMoves ==
    ASSUME [Next]_vars, machine' = "structure"
    PROVE  machine = "structure" /\ [SE!Next]_(SE!vars)
<1>1. CASE Next
  BY <1>1 DEF Next
<1>2. CASE UNCHANGED vars
  BY <1>2 DEF vars, SE!vars, SE!form, dialect, op, names, column, listed, loading, parts, open,
          at, sql, msg, lost, before, runs, edits
<1>3. QED
  BY <1>1, <1>2

LEMMA CompareMoves ==
    ASSUME [Next]_vars, machine' = "compare"
    PROVE  machine = "compare" /\ [CS!Next]_(CS!vars)
<1>1. CASE Next
  BY <1>1 DEF Next
<1>2. CASE UNCHANGED vars
  BY <1>2 DEF vars, CS!vars, open, step, source, target, entries, sel, script, busy,
          applied, outcome, asking, cancel, txId, run, schema, work, ranOn, requests
<1>3. QED
  BY <1>1, <1>2

LEMMA TableMoves ==
    ASSUME [Next]_vars, machine' = "table"
    PROVE  machine = "table" /\ [TE!Next]_(TE!vars)
<1>1. CASE Next
  BY <1>1 DEF Next
<1>2. CASE UNCHANGED vars
  BY <1>2 DEF vars, TE!vars, table, page, result, loads, reqSeq, latest, queue, undoStack,
          review, commits, committing, edits
<1>3. QED
  BY <1>1, <1>2

LEMMA TargetMoves ==
    ASSUME [Next]_vars, machine' = "target"
    PROVE  machine = "target" /\ [IT!Next]_(IT!vars)
<1>1. CASE Next
  BY <1>1 DEF Next
<1>2. CASE UNCHANGED vars
  BY <1>2 DEF vars, IT!vars, IT!config, IT!store, IT!panels, step, schema, table, asked, loading, colsOf, cols, map,
          opts, pending, notice, applied, presets, snaps, undo, arming, asking, stray,
          acts
<1>3. QED
  BY <1>1, <1>2

LEMMA ImportMoves ==
    ASSUME [Next]_vars, machine' = "import"
    PROVE  machine = "import" /\ [IR!Next]_(IR!vars)
<1>1. CASE Next
  BY <1>1 DEF Next
<1>2. CASE UNCHANGED vars
  BY <1>2 DEF vars, IR!vars, sqlFiles, open, step, queue, reading, text, parsed, ready,
          skipFailed, retry, failed, busy, cancel, txRef, run, history, tx, kept,
          undoing, lost, runs
<1>3. QED
  BY <1>1, <1>2

LEMMA FixesMoves ==
    ASSUME [Next]_vars, machine' = "fixes"
    PROVE  machine = "fixes" /\ [FH!Next]_(FH!vars)
<1>1. CASE Next
  BY <1>1 DEF Next
<1>2. CASE UNCHANGED vars
  BY <1>2 DEF vars, FH!vars, opts, undo, redo, diffOpen, before, redone, fixes
<1>3. QED
  BY <1>1, <1>2

LEMMA PresetsMoves ==
    ASSUME [Next]_vars, machine' = "presets"
    PROVE  machine = "presets" /\ [PS!Next]_(PS!vars)
<1>1. CASE Next
  BY <1>1 DEF Next
<1>2. CASE UNCHANGED vars
  BY <1>2 DEF vars, PS!vars, now, presets, snaps, bin, sel, bar, asked, results, auditing,
          saves, deletes, audits
<1>3. QED
  BY <1>1, <1>2

LEMMA BackupMoves ==
    ASSUME [Next]_vars, machine' = "backup"
    PROVE  machine = "backup" /\ [BP!Next]_(BP!vars)
<1>1. CASE Next
  BY <1>1 DEF Next
<1>2. CASE UNCHANGED vars
  BY <1>2 DEF vars, BP!vars, store, white, reading, pending, selected, view, audit,
          auditing, confirming, undo, left, before, picked, imports, writes
<1>3. QED
  BY <1>1, <1>2

LEMMA GridMoves ==
    ASSUME [Next]_vars, machine' = "grid"
    PROVE  machine = "grid" /\ [RG!Next]_(RG!gridVars)
<1>1. CASE Next
  BY <1>1 DEF Next
<1>2. CASE UNCHANGED vars
  BY <1>2 DEF vars, RG!gridVars, result, sort, filters, hidden, sel, mode, inspector, menu,
          chart, limit, isSelect, held, picked, steps
<1>3. QED
  BY <1>1, <1>2

LEMMA LogMoves ==
    ASSUME [Next]_vars, machine' = "log"
    PROVE  machine = "log" /\ [QL!Next]_(QL!vars)
<1>1. CASE Next
  BY <1>1 DEF Next
<1>2. CASE UNCHANGED vars
  BY <1>2 DEF vars, QL!vars, log, ran, conn, least, key, desc, runs
<1>3. QED
  BY <1>1, <1>2

LEMMA MappingMoves ==
    ASSUME [Next]_vars, machine' = "mapping"
    PROVE  machine = "mapping" /\ [MS!Next]_(MS!mapVars)
<1>1. CASE Next
  BY <1>1 DEF Next
<1>2. CASE UNCHANGED vars
  BY <1>2 DEF vars, MS!mapVars, mapping, trims, policy, rules, mode, strict, filter,
          overrides, view, sel, anchor, cursor, steps
<1>3. QED
  BY <1>1, <1>2

-----------------------------------------------------------------------------
(* The types of the object tabs.                                           *)

ShownTabs == ObjectTables \cup {Workbench}

\* The workbench comes first, no tab is there twice, and the tab with the
\* focus and those with a preset are among them.
StripTyped(s) ==
    /\ s \in [tabs : Seq(ShownTabs), active : ShownTabs, preset : SUBSET ObjectTables]
    /\ Len(s.tabs) >= 1 /\ s.tabs[1] = Workbench
    /\ \A i, j \in DOMAIN s.tabs : s.tabs[i] = s.tabs[j] => i = j
    /\ \E i \in DOMAIN s.tabs : s.tabs[i] = s.active
    /\ \A t \in s.preset : \E i \in DOMAIN s.tabs : s.tabs[i] = t

LEMMA TabsOrder ==
    \A s, places : OT!Keeping(s, places) = Keeping(s, places)
<1>1. \A S : OT!Cardinality(S) = Cardinality(S)
  BY Zenon DEF OT!Cardinality, Cardinality
<1>2. \A ns : OT!InOrder(ns) = InOrder(ns)
  BY Zenon DEF OT!InOrder, InOrder, OT!Nth, Nth, OT!Cardinality, Cardinality
<1>3. QED
  BY <1>2 DEF OT!Keeping, Keeping

LEMMA FirstStrip ==
    StripTyped(OT!InitialState)
<1> DEFINE s == <<Workbench>>
<1>1. s \in Seq(ShownTabs) /\ Len(s) = 1 /\ DOMAIN s = {1} /\ s[1] = Workbench
  BY DEF ShownTabs
<1> HIDE DEF s
<1>2. QED
  BY <1>1 DEF StripTyped, OT!InitialState, s, ShownTabs

LEMMA StripIsWellFormed ==
    ASSUME OT!ObjectTabsAssumption, NEW s, StripTyped(s)
    PROVE  OT!WellFormed(s)
<1>1. s.tabs \in Seq(ShownTabs) /\ Len(s.tabs) \in Nat /\ Len(s.tabs) >= 1 /\ s.tabs[1] = Workbench
      /\ DOMAIN s.tabs = 1..Len(s.tabs)
  BY DEF StripTyped
<1>2. ASSUME NEW i \in DOMAIN s.tabs, i # 1
      PROVE  s.tabs[i] \in ObjectTables
  <2>1. 1 \in DOMAIN s.tabs /\ s.tabs[i] \in ShownTabs
    BY <1>1
  <2>2. s.tabs[i] # Workbench
    BY <1>1, <1>2, <2>1 DEF StripTyped
  <2>3. QED
    BY <2>1, <2>2 DEF ShownTabs
<1>3. /\ Tail(s.tabs) \in Seq(ShownTabs) /\ DOMAIN Tail(s.tabs) = 1..Len(s.tabs) - 1
      /\ \A k \in DOMAIN Tail(s.tabs) : Tail(s.tabs)[k] = s.tabs[k + 1]
  BY <1>1
<1>4. OT!Range(Tail(s.tabs)) \subseteq ObjectTables
  <2>1. ASSUME NEW k \in DOMAIN Tail(s.tabs)
        PROVE  Tail(s.tabs)[k] \in ObjectTables
    <3>1. k + 1 \in DOMAIN s.tabs /\ k + 1 # 1
      BY <1>1, <1>3
    <3>2. QED
      BY <1>2, <1>3, <3>1
  <2>2. QED
    BY <2>1 DEF OT!Range
<1>5. s.preset \subseteq OT!Range(Tail(s.tabs))
  <2>1. ASSUME NEW t \in s.preset
        PROVE  \E k \in DOMAIN Tail(s.tabs) : Tail(s.tabs)[k] = t
    <3>1. PICK i \in DOMAIN s.tabs : s.tabs[i] = t
      BY DEF StripTyped
    <3>2. t \in ObjectTables /\ t # Workbench
      BY DEF StripTyped, OT!ObjectTabsAssumption
    <3>3. i # 1
      BY <1>1, <3>1, <3>2
    <3>4. i - 1 \in DOMAIN Tail(s.tabs) /\ i - 1 + 1 = i
      BY <1>1, <1>3, <3>3
    <3>5. QED
      BY <1>3, <3>1, <3>4
  <2>2. QED
    BY <2>1 DEF OT!Range
<1>6. OT!IsInjective(s.tabs)
  BY DEF StripTyped, OT!IsInjective
<1>7. OT!Contains(s.tabs, s.active)
  BY <1>1 DEF StripTyped, OT!Contains
<1>8. s.tabs # << >> /\ Head(s.tabs) = Workbench
  BY <1>1
<1>9. QED
  BY <1>4, <1>5, <1>6, <1>7, <1>8 DEF OT!WellFormed

\* Some of the tabs, the workbench among them, are a strip again.
LEMMA KeptStrip ==
    ASSUME NEW s, StripTyped(s), NEW ks, Workbench \in ks, NEW to \in ks,
           \E i \in DOMAIN s.tabs : s.tabs[i] = to
    PROVE  StripTyped([tabs |-> OT!Keeping(s.tabs, {i \in DOMAIN s.tabs : s.tabs[i] \in ks}),
                       active |-> to, preset |-> s.preset \cap ks])
<1> DEFINE places == {i \in DOMAIN s.tabs : s.tabs[i] \in ks}
           some == Keeping(s.tabs, places)
           pos == InOrder(places)
           c == Cardinality(places)
<1>1. s.tabs \in Seq(ShownTabs) /\ Len(s.tabs) \in Nat /\ Len(s.tabs) >= 1 /\ s.tabs[1] = Workbench
      /\ DOMAIN s.tabs = 1..Len(s.tabs)
  BY DEF StripTyped
<1>2. 1 \in places /\ places \in SUBSET (DOMAIN s.tabs)
  BY <1>1
<1>3. /\ some \in Seq(ShownTabs) /\ c \in Nat /\ Len(some) = c /\ DOMAIN some = 1..c
      /\ \A k \in 1..c : pos[k] \in places /\ some[k] = s.tabs[pos[k]]
      /\ \A n \in places : \E k \in 1..c : pos[k] = n
      /\ \A k, l \in 1..c : k < l => pos[k] < pos[l]
  <2> HIDE DEF places
  <2>1. QED
    BY <1>1, <1>2, KeepingIs
<1> HIDE DEF some, pos, c
<1>4. \A i \in places : \E k \in 1..c : some[k] = s.tabs[i]
  BY <1>3
<1>5. \A i \in DOMAIN s.tabs : s.tabs[i] \in ks => \E k \in 1..c : some[k] = s.tabs[i]
  BY <1>4
<1>6. \A i \in places : i \in Nat /\ i >= 1 /\ i \in DOMAIN s.tabs
  BY <1>1
<1> HIDE DEF places
<1>7. c >= 1 /\ some[1] = Workbench
  <2>1. PICK k \in 1..c : pos[k] = 1
    BY <1>2, <1>3
  <2>2. 1 \in 1..c /\ pos[1] \in places
    BY <1>3, <2>1
  <2>3. k = 1
    <3>1. 1 < k => pos[1] < pos[k]
      BY <1>3, <2>2
    <3>2. k \in Nat /\ 1 <= k /\ pos[1] \in Nat /\ pos[1] >= 1
      BY <1>3, <1>6, <2>1, <2>2
    <3>3. QED
      BY <2>1, <3>1, <3>2
  <2>4. QED
    BY <1>1, <1>3, <2>1, <2>2, <2>3
<1>8. ASSUME NEW k \in 1..c, NEW l \in 1..c, some[k] = some[l]
      PROVE  k = l
  <2>1. pos[k] \in DOMAIN s.tabs /\ pos[l] \in DOMAIN s.tabs /\ s.tabs[pos[k]] = s.tabs[pos[l]]
    BY <1>3, <1>6, <1>8
  <2>2. pos[k] = pos[l] /\ pos[k] \in Nat
    BY <1>3, <1>6, <2>1 DEF StripTyped
  <2>3. k \in Nat /\ l \in Nat /\ ~(k < l) /\ ~(l < k)
    BY <1>3, <2>2
  <2>4. QED
    BY <2>3
<1>9. \A t \in s.preset \cap ks : \E k \in 1..c : some[k] = t
  BY <1>5 DEF StripTyped
<1>10. \E k \in 1..c : some[k] = to
  BY <1>5
<1>11. to \in ShownTabs /\ s.preset \cap ks \in SUBSET ObjectTables
  BY <1>1 DEF StripTyped
<1> DEFINE r == [tabs |-> some, active |-> to, preset |-> s.preset \cap ks]
<1>12. r \in [tabs : Seq(ShownTabs), active : ShownTabs, preset : SUBSET ObjectTables]
       /\ r.tabs = some /\ r.active = to /\ r.preset = s.preset \cap ks
  BY <1>3, <1>11
<1> HIDE DEF r
<1>13. StripTyped(r)
  BY <1>3, <1>7, <1>8, <1>9, <1>10, <1>12 DEF StripTyped
<1>14. QED
  BY <1>13, TabsOrder DEF r, some, places

\* What is loaded for a connection is a strip, if what is stored is one.
LEMMA LoadedStrip ==
    ASSUME OT!ObjectTabsAssumption, NEW c, store[c] # None => StripTyped(store[c])
    PROVE  StripTyped(OT!LoadOpenTabs(c))
<1>1. CASE store[c] = None
  BY <1>1, FirstStrip DEF OT!LoadOpenTabs
<1>2. CASE store[c] # None
  <2> DEFINE s == store[c]
             places == {i \in DOMAIN s.tabs : s.tabs[i] # Workbench}
             rest == Keeping(s.tabs, places)
             pos == InOrder(places)
             n == Cardinality(places)
             all == <<Workbench>> \o rest
             to == IF OT!Contains(s.tabs, s.active) THEN s.active ELSE Workbench
             r == [s EXCEPT !.tabs = all, !.active = to]
  <2>1. StripTyped(s)
    BY <1>2
  <2>2. s.tabs \in Seq(ShownTabs) /\ Len(s.tabs) \in Nat /\ DOMAIN s.tabs = 1..Len(s.tabs)
    BY <2>1 DEF StripTyped
  <2>3. OT!LoadOpenTabs(c) = r
    BY <1>2, TabsOrder DEF OT!LoadOpenTabs
  <2>4. places \in SUBSET (DOMAIN s.tabs)
    OBVIOUS
  <2>5. /\ rest \in Seq(ShownTabs) /\ n \in Nat /\ Len(rest) = n /\ DOMAIN rest = 1..n
        /\ \A k \in 1..n : pos[k] \in places /\ rest[k] = s.tabs[pos[k]]
        /\ \A i \in places : \E k \in 1..n : pos[k] = i
        /\ \A k, l \in 1..n : k < l => pos[k] < pos[l]
    <3> HIDE DEF places
    <3>1. QED
      BY <2>2, <2>4, KeepingIs
  <2> HIDE DEF rest, pos, n
  <2>6. \A k \in 1..n : rest[k] # Workbench /\ pos[k] \in DOMAIN s.tabs
    BY <2>5
  <2>7. \A i \in DOMAIN s.tabs : s.tabs[i] # Workbench => \E k \in 1..n : rest[k] = s.tabs[i]
    BY <2>5
  <2>8. \A i \in places : i \in Nat
    BY <2>2
  <2>9. Workbench \in ShownTabs
    BY DEF ShownTabs
  <2> HIDE DEF s, places
  <2>10. /\ all \in Seq(ShownTabs) /\ Len(all) = n + 1 /\ DOMAIN all = 1..n + 1 /\ all[1] = Workbench
         /\ \A k \in 1..n : all[k + 1] = rest[k]
    BY <2>5, <2>9
  <2> HIDE DEF all
  <2>11. \A k \in 1..n + 1 : k # 1 => k - 1 \in 1..n /\ all[k] = rest[k - 1]
    <3> SUFFICES ASSUME NEW k \in 1..n + 1, k # 1
                 PROVE  k - 1 \in 1..n /\ all[k] = rest[k - 1]
      OBVIOUS
    <3>1. k - 1 \in 1..n /\ k - 1 + 1 = k
      BY <2>5
    <3>2. QED
      BY <2>10, <3>1
  <2>12. ASSUME NEW k \in 1..n, NEW l \in 1..n, rest[k] = rest[l]
         PROVE  k = l
    <3>1. pos[k] \in DOMAIN s.tabs /\ pos[l] \in DOMAIN s.tabs /\ s.tabs[pos[k]] = s.tabs[pos[l]]
      BY <2>5, <2>6, <2>12
    <3>2. pos[k] = pos[l] /\ pos[k] \in Nat
      BY <2>1, <2>5, <2>8, <3>1 DEF StripTyped
    <3>3. k \in Nat /\ l \in Nat /\ ~(k < l) /\ ~(l < k)
      BY <2>5, <3>2
    <3>4. QED
      BY <3>3
  <2>13. ASSUME NEW k \in 1..n + 1, NEW l \in 1..n + 1, all[k] = all[l]
         PROVE  k = l
    <3>1. CASE k = 1 /\ l = 1
      BY <3>1
    <3>2. CASE k # 1 /\ l = 1
      BY <2>6, <2>10, <2>11, <2>13, <3>2
    <3>3. CASE k = 1 /\ l # 1
      BY <2>6, <2>10, <2>11, <2>13, <3>3
    <3>4. CASE k # 1 /\ l # 1
      <4>1. k - 1 = l - 1
        BY <2>11, <2>12, <2>13, <3>4
      <4>2. QED
        BY <2>5, <4>1
    <3>5. QED
      BY <3>1, <3>2, <3>3, <3>4
  <2>14. \A i \in DOMAIN s.tabs : \E k \in 1..n + 1 : all[k] = s.tabs[i]
    <3> SUFFICES ASSUME NEW i \in DOMAIN s.tabs
                 PROVE  \E k \in 1..n + 1 : all[k] = s.tabs[i]
      OBVIOUS
    <3>1. CASE s.tabs[i] = Workbench
      <4>1. 1 \in 1..n + 1
        BY <2>5
      <4>2. QED
        BY <2>10, <3>1, <4>1
    <3>2. CASE s.tabs[i] # Workbench
      <4>1. PICK k \in 1..n : rest[k] = s.tabs[i]
        BY <2>7, <3>2
      <4>2. k + 1 \in 1..n + 1
        BY <2>5
      <4>3. QED
        BY <2>10, <4>1, <4>2
    <3>3. QED
      BY <3>1, <3>2
  <2>15. to \in ShownTabs /\ \E k \in 1..n + 1 : all[k] = to
    <3>1. OT!Contains(s.tabs, s.active)
      BY <2>1, <2>2 DEF StripTyped, OT!Contains
    <3>2. to = s.active /\ to \in ShownTabs /\ \E i \in DOMAIN s.tabs : s.tabs[i] = to
      BY <2>1, <3>1 DEF StripTyped
    <3>3. QED
      BY <2>14, <3>2
  <2> HIDE DEF to
  <2>16. r \in [tabs : Seq(ShownTabs), active : ShownTabs, preset : SUBSET ObjectTables]
         /\ r.tabs = all /\ r.active = to /\ r.preset = s.preset
    BY <2>1, <2>10, <2>15 DEF StripTyped
  <2> HIDE DEF r
  <2>17. \A t \in r.preset : \E k \in 1..n + 1 : all[k] = t
    <3>1. \A t \in s.preset : \E i \in DOMAIN s.tabs : s.tabs[i] = t
      BY <2>1 DEF StripTyped
    <3>2. QED
      BY <2>14, <2>16, <3>1
  <2>18. Len(r.tabs) >= 1
    BY <2>5, <2>10, <2>16
  <2>19. StripTyped(r)
    BY <2>10, <2>13, <2>15, <2>16, <2>17, <2>18 DEF StripTyped
  <2>20. QED
    BY <2>3, <2>19
<1>3. QED
  BY <1>1, <1>2

\* A table that is opened comes last, or has its tab.
LEMMA OpenedStrip ==
    ASSUME NEW s, StripTyped(s), NEW t \in ObjectTables, NEW ps \in SUBSET ObjectTables,
           ps \subseteq s.preset \cup {t}
    PROVE  StripTyped([tabs |-> IF OT!Contains(s.tabs, t) THEN s.tabs ELSE Append(s.tabs, t),
                       active |-> t, preset |-> ps])
<1> DEFINE all == IF OT!Contains(s.tabs, t) THEN s.tabs ELSE Append(s.tabs, t)
           n == Len(s.tabs)
           r == [tabs |-> all, active |-> t, preset |-> ps]
<1>1. s.tabs \in Seq(ShownTabs) /\ n \in Nat /\ n >= 1 /\ s.tabs[1] = Workbench
      /\ DOMAIN s.tabs = 1..n /\ t \in ShownTabs
  BY DEF StripTyped, ShownTabs
<1>2. /\ all \in Seq(ShownTabs) /\ Len(all) >= 1 /\ all[1] = Workbench
      /\ \A i, j \in DOMAIN all : all[i] = all[j] => i = j
      /\ \A i \in DOMAIN s.tabs : \E j \in DOMAIN all : all[j] = s.tabs[i]
      /\ \E i \in DOMAIN all : all[i] = t
  <2>1. CASE OT!Contains(s.tabs, t)
    BY <1>1, <2>1 DEF OT!Contains, StripTyped
  <2>2. CASE ~OT!Contains(s.tabs, t)
    <3> DEFINE more == Append(s.tabs, t)
    <3>1. /\ more \in Seq(ShownTabs) /\ Len(more) = n + 1 /\ DOMAIN more = 1..n + 1
          /\ \A i \in 1..n : more[i] = s.tabs[i]
          /\ more[n + 1] = t
      BY <1>1
    <3> HIDE DEF more
    <3>2. \A i \in 1..n : s.tabs[i] # t
      BY <2>2 DEF OT!Contains
    <3>3. \A i \in 1..n + 1 : i = n + 1 \/ i \in 1..n
      BY <1>1
    <3>4. \A i \in 1..n : i \in 1..n + 1
      BY <1>1
    <3>5. 1 \in 1..n /\ n + 1 \in 1..n + 1 /\ n + 1 >= 1
      BY <1>1
    <3>6. \A i, j \in 1..n + 1 : more[i] = more[j] => i = j
      BY <1>1, <3>1, <3>2, <3>3 DEF StripTyped
    <3>7. all = more
      BY <2>2 DEF more
    <3> HIDE DEF all
    <3>8. QED
      BY <1>1, <3>1, <3>4, <3>5, <3>6, <3>7
  <2>3. QED
    BY <2>1, <2>2
<1> HIDE DEF all
<1>3. \A u \in ps : \E j \in DOMAIN all : all[j] = u
  BY <1>2 DEF StripTyped
<1>4. r \in [tabs : Seq(ShownTabs), active : ShownTabs, preset : SUBSET ObjectTables]
      /\ r.tabs = all /\ r.active = t /\ r.preset = ps
  BY <1>1, <1>2
<1> HIDE DEF r
<1>5. StripTyped(r)
  BY <1>2, <1>3, <1>4 DEF StripTyped
<1>6. QED
  BY <1>5 DEF r, all

\* The focus moves within the strip, and a preset is taken.
LEMMA FocusedStrip ==
    ASSUME NEW s, StripTyped(s)
    PROVE  /\ \A i \in DOMAIN s.tabs : StripTyped([s EXCEPT !.active = s.tabs[i]])
           /\ StripTyped([s EXCEPT !.active = Workbench])
           /\ \A t : StripTyped([s EXCEPT !.preset = s.preset \ {t}])
<1>1. s.tabs \in Seq(ShownTabs) /\ Len(s.tabs) >= 1 /\ s.tabs[1] = Workbench
  BY DEF StripTyped
<1>2. ASSUME NEW i \in DOMAIN s.tabs
      PROVE  StripTyped([s EXCEPT !.active = s.tabs[i]])
  <2> DEFINE r == [s EXCEPT !.active = s.tabs[i]]
  <2>1. s.tabs[i] \in ShownTabs
    BY <1>1
  <2>2. r \in [tabs : Seq(ShownTabs), active : ShownTabs, preset : SUBSET ObjectTables]
        /\ r.tabs = s.tabs /\ r.active = s.tabs[i] /\ r.preset = s.preset
    BY <2>1 DEF StripTyped
  <2> HIDE DEF r
  <2>3. StripTyped(r)
    BY <2>2 DEF StripTyped
  <2>4. QED
    BY <2>3 DEF r
<1>3. ASSUME NEW t
      PROVE  StripTyped([s EXCEPT !.preset = s.preset \ {t}])
  <2> DEFINE r == [s EXCEPT !.preset = s.preset \ {t}]
  <2>1. r \in [tabs : Seq(ShownTabs), active : ShownTabs, preset : SUBSET ObjectTables]
        /\ r.tabs = s.tabs /\ r.active = s.active /\ r.preset = s.preset \ {t}
    BY DEF StripTyped
  <2> HIDE DEF r
  <2>2. StripTyped(r)
    BY <2>1 DEF StripTyped
  <2>3. QED
    BY <2>2 DEF r
<1>4. 1 \in DOMAIN s.tabs
  BY <1>1
<1>5. QED
  BY <1>1, <1>2, <1>3, <1>4

ObjectsTyped ==
    /\ conn \in Conns /\ DOMAIN store = Conns
    /\ StripTyped(open) /\ \A s \in coming : StripTyped(s)
    /\ \A c \in Conns : store[c] # None => StripTyped(store[c])

LEMMA ObjectsStartTyped ==
    ASSUME OT!Init
    PROVE  ObjectsTyped
BY FirstStrip DEF OT!Init, ObjectsTyped

LEMMA ObjectsAreTyped ==
    ASSUME OT!ObjectTabsAssumption, ObjectsTyped, [OT!Next]_(OT!vars)
    PROVE  ObjectsTyped'
<1>1. ASSUME NEW s, StripTyped(s), OT!Mutate(s)
      PROVE  ObjectsTyped'
  <2>1. /\ open' = s /\ coming = {} /\ coming' = {} /\ conn' = conn
        /\ store' = [store EXCEPT ![conn] = s]
    BY <1>1 DEF OT!Mutate
  <2>2. DOMAIN store' = Conns /\ \A c \in Conns : store'[c] = IF c = conn THEN s ELSE store[c]
    BY <2>1 DEF ObjectsTyped
  <2>3. QED
    BY <1>1, <2>1, <2>2 DEF ObjectsTyped, StripTyped, ShownTabs
<1>2. ASSUME NEW ks, NEW to \in ks, OT!Keep(ks, to), Workbench \in ks,
             \E i \in DOMAIN open.tabs : open.tabs[i] = to
      PROVE  ObjectsTyped'
  <2>1. StripTyped(open)
    BY DEF ObjectsTyped
  <2>2. QED
    BY <1>1, <1>2, <2>1, KeptStrip DEF OT!Keep
<1>3. /\ StripTyped(open) /\ \A c \in Conns : store[c] # None => StripTyped(store[c])
      /\ open.tabs \in Seq(ShownTabs) /\ Len(open.tabs) \in Nat /\ open.tabs[1] = Workbench
      /\ DOMAIN open.tabs = 1..Len(open.tabs) /\ 1 \in DOMAIN open.tabs
      /\ \E i \in DOMAIN open.tabs : open.tabs[i] = open.active
  <2>1. StripTyped(open)
    BY DEF ObjectsTyped
  <2>2. open.tabs \in Seq(ShownTabs) /\ Len(open.tabs) >= 1 /\ open.tabs[1] = Workbench
        /\ \E i \in DOMAIN open.tabs : open.tabs[i] = open.active
    BY <2>1 DEF StripTyped
  <2>3. Len(open.tabs) \in Nat /\ DOMAIN open.tabs = 1..Len(open.tabs) /\ 1 \in DOMAIN open.tabs
    BY <2>2
  <2>4. QED
    BY <2>1, <2>2, <2>3 DEF ObjectsTyped
<1>4. ASSUME NEW t \in ObjectTables, NEW b \in BOOLEAN, OT!OpenTableTab(t, b)
      PROVE  ObjectsTyped'
  <2> DEFINE ps == IF b THEN open.preset \cup {t} ELSE open.preset
             s == [tabs |-> IF OT!Contains(open.tabs, t) THEN open.tabs ELSE Append(open.tabs, t),
                   active |-> t, preset |-> ps]
  <2>1. ps \in SUBSET ObjectTables /\ ps \subseteq open.preset \cup {t}
    BY <1>3 DEF StripTyped
  <2> HIDE DEF ps
  <2>2. StripTyped(s)
    BY <1>3, <2>1, OpenedStrip
  <2>3. OT!Mutate(s)
    BY <1>4 DEF OT!OpenTableTab, ps
  <2> HIDE DEF s
  <2>4. QED
    BY <1>1, <2>2, <2>3
<1>5. CASE OT!PresetConsumed
  <2> DEFINE s == [open EXCEPT !.preset = open.preset \ {open.active}]
  <2>1. StripTyped(s)
    BY <1>3, FocusedStrip
  <2>2. OT!Mutate(s)
    BY <1>5 DEF OT!PresetConsumed
  <2> HIDE DEF s
  <2>3. QED
    BY <1>1, <2>1, <2>2
<1>6. ASSUME NEW i \in DOMAIN open.tabs, OT!SelectTab(i)
      PROVE  ObjectsTyped'
  <2> DEFINE s == [open EXCEPT !.active = open.tabs[i]]
  <2>1. StripTyped(s)
    BY <1>3, FocusedStrip
  <2>2. OT!Mutate(s)
    BY <1>6 DEF OT!SelectTab
  <2> HIDE DEF s
  <2>3. QED
    BY <1>1, <2>1, <2>2
<1>7. ASSUME NEW i \in DOMAIN open.tabs, OT!CloseOpenTab(i)
      PROVE  ObjectsTyped'
  <2> DEFINE ks == OT!Range(open.tabs) \ {open.tabs[i]}
             to == IF open.active = open.tabs[i] THEN open.tabs[i - 1] ELSE open.active
  <2>1. i > 1 /\ OT!Keep(ks, to)
    BY <1>7 DEF OT!CloseOpenTab
  <2>2. i - 1 \in DOMAIN open.tabs /\ i - 1 # i /\ i # 1
    BY <1>3, <2>1
  <2>3. \A j, k \in DOMAIN open.tabs : open.tabs[j] = open.tabs[k] => j = k
    BY <1>3 DEF StripTyped
  <2>4. \A j \in DOMAIN open.tabs : j # i => open.tabs[j] \in ks
    BY <2>3 DEF OT!Range
  <2>5. Workbench \in ks
    BY <1>3, <2>2, <2>4
  <2>6. to \in ks /\ \E j \in DOMAIN open.tabs : open.tabs[j] = to
    <3>1. CASE open.active = open.tabs[i]
      BY <2>2, <2>4, <3>1
    <3>2. CASE open.active # open.tabs[i]
      <4>1. PICK j \in DOMAIN open.tabs : open.tabs[j] = open.active
        BY <1>3
      <4>2. j # i /\ to = open.active
        BY <3>2, <4>1
      <4>3. QED
        BY <2>4, <4>1, <4>2
    <3>3. QED
      BY <3>1, <3>2
  <2> HIDE DEF ks, to
  <2>7. QED
    BY <1>2, <2>1, <2>5, <2>6
<1>8. ASSUME NEW i \in DOMAIN open.tabs, OT!CloseOthers(i)
      PROVE  ObjectsTyped'
  <2> DEFINE ks == {Workbench, open.tabs[i]}
             to == IF open.active \in ks THEN open.active ELSE open.tabs[i]
  <2>1. OT!Keep(ks, to)
    BY <1>8 DEF OT!CloseOthers
  <2>2. Workbench \in ks /\ to \in ks
    OBVIOUS
  <2>3. \E j \in DOMAIN open.tabs : open.tabs[j] = to
    BY <1>3
  <2> HIDE DEF ks, to
  <2>4. QED
    BY <1>2, <2>1, <2>2, <2>3
<1>9. CASE OT!CloseAllTables
  <2>1. OT!Keep({Workbench}, Workbench)
    BY <1>9 DEF OT!CloseAllTables
  <2>2. QED
    BY <1>2, <1>3, <2>1
<1>10. ASSUME NEW s, s = open \/ s = [open EXCEPT !.active = Workbench]
       PROVE  StripTyped(s)
  BY <1>3, <1>10, FocusedStrip
<1>11. CASE OT!OpenInQuery
  BY <1>1, <1>10, <1>11 DEF OT!OpenInQuery
<1>12. ASSUME NEW c \in Conns, NEW s, StripTyped(s), OT!SwitchConn(c, s)
       PROVE  ObjectsTyped'
  <2>1. /\ conn' = c /\ open' = s /\ coming' = {OT!LoadOpenTabs(c)}
        /\ store' = [store EXCEPT ![c] = s]
    BY <1>12 DEF OT!SwitchConn
  <2>2. DOMAIN store' = Conns /\ \A d \in Conns : store'[d] = IF d = c THEN s ELSE store[d]
    BY <2>1 DEF ObjectsTyped
  <2>3. StripTyped(OT!LoadOpenTabs(c))
    BY <1>3, LoadedStrip
  <2>4. \A t \in coming' : StripTyped(t)
    BY <2>1, <2>3
  <2>5. \A d \in Conns : store'[d] # None => StripTyped(store'[d])
    BY <1>3, <1>12, <2>2
  <2>6. StripTyped(open')
    BY <1>12, <2>1
  <2>7. QED
    BY <2>1, <2>2, <2>4, <2>5, <2>6 DEF ObjectsTyped, StripTyped, ShownTabs
<1>13. ASSUME NEW c \in Conns, OT!Switch(c)
       PROVE  ObjectsTyped'
  BY <1>10, <1>12, <1>13 DEF OT!Switch
<1>14. CASE OT!Rendered
  <2>1. PICK s \in coming : open' = s
    BY <1>14 DEF OT!Rendered
  <2>2. coming' = {} /\ conn' = conn /\ store' = [store EXCEPT ![conn] = s]
    BY <1>14, <2>1 DEF OT!Rendered
  <2>3. DOMAIN store' = Conns /\ \A c \in Conns : store'[c] = IF c = conn THEN s ELSE store[c]
    BY <2>2 DEF ObjectsTyped
  <2>4. StripTyped(s)
    BY DEF ObjectsTyped
  <2>5. StripTyped(open') /\ \A c \in Conns : store'[c] # None => StripTyped(store'[c])
    BY <1>3, <2>1, <2>3, <2>4
  <2>6. conn' \in Conns /\ \A t \in coming' : StripTyped(t)
    BY <2>2 DEF ObjectsTyped
  <2>7. QED
    BY <2>3, <2>5, <2>6 DEF ObjectsTyped, StripTyped, ShownTabs
<1>15. CASE UNCHANGED OT!vars
  BY <1>15 DEF OT!vars, ObjectsTyped, StripTyped, ShownTabs
<1>16. QED
  BY <1>4, <1>5, <1>6, <1>7, <1>8, <1>9, <1>11, <1>13, <1>14, <1>15 DEF OT!Next

LEMMA ObjectsTypes ==
    ASSUME OT!ObjectTabsAssumption, ObjectsTyped
    PROVE  OT!TypeOK
BY StripIsWellFormed DEF ObjectsTyped, OT!TypeOK

-----------------------------------------------------------------------------
(* The types of the scanners.                                              *)

TextTyped ==
    /\ v1 \in Seq(UNION Alphabets) /\ Len(v1) <= MaxLength
    /\ v2 \in 0..MaxLength

LEMMA MarksAreFew ==
    ASSUME NEW s, NEW m \in Nat, Len(s) \in Nat, Len(s) <= m, NEW quotes
    PROVE  SQ!Cardinality(SQ!Marks(s, quotes)) \in 0..m
<1> DEFINE marks == SQ!Marks(s, quotes)
<1>1. marks \in SUBSET (1..Len(s))
  BY DEF SQ!Marks
<1>2. IsFiniteSet(1..Len(s)) /\ Cardinality(1..Len(s)) = Len(s)
  <2>1. 1 \in Int /\ Len(s) \in Int /\ (IF 1 > Len(s) THEN 0 ELSE Len(s) - 1 + 1) = Len(s)
    OBVIOUS
  <2>2. QED
    BY <2>1, FS_Interval
<1> HIDE DEF marks
<1>3. IsFiniteSet(marks) /\ Cardinality(marks) <= Len(s) /\ Cardinality(marks) \in Nat
  BY <1>1, <1>2, FS_Subset, FS_CardinalityType
<1>4. SQ!Cardinality(marks) = Cardinality(marks)
  BY Zenon DEF SQ!Cardinality, Cardinality
<1>5. QED
  BY <1>3, <1>4 DEF marks

LEMMA TextStartsTyped ==
    ASSUME SQ!SqlAssumption, SQ!Init
    PROVE  TextTyped
BY DEF SQ!SqlAssumption, SQ!Init, TextTyped

LEMMA TextIsTyped ==
    ASSUME SQ!SqlAssumption, TextTyped, [SQ!Next]_(SQ!textVars)
    PROVE  TextTyped'
<1>1. ASSUME NEW c \in UNION Alphabets, SQ!Type(c)
      PROVE  TextTyped'
  <2>1. Len(v1) < MaxLength /\ v1' = Append(v1, c) /\ v2' = SQ!CountParams(v1')
    BY <1>1 DEF SQ!Type
  <2>2. MaxLength \in Nat /\ v1' \in Seq(UNION Alphabets) /\ Len(v1') \in Nat /\ Len(v1') <= MaxLength
    BY <2>1 DEF TextTyped, SQ!SqlAssumption
  <2>3. v2' \in 0..MaxLength
    BY <2>1, <2>2, MarksAreFew, Zenon DEF SQ!CountParams
  <2>4. QED
    BY <2>2, <2>3 DEF TextTyped
<1>2. CASE UNCHANGED SQ!textVars
  BY <1>2 DEF SQ!textVars, TextTyped
<1>3. QED
  BY <1>1, <1>2 DEF SQ!Next

LEMMA TextTypes ==
    ASSUME TextTyped
    PROVE  SQ!TypeOK
<1>1. Len(v1) \in Nat /\ \A i \in DOMAIN v1 : v1[i] \in UNION Alphabets
  BY DEF TextTyped
<1>2. SQ!Range(v1) \subseteq UNION Alphabets
  BY <1>1 DEF SQ!Range
<1>3. QED
  BY <1>1, <1>2 DEF TextTyped, SQ!TypeOK

CsvTyped ==
    /\ header \in Seq(CsvNames) /\ Len(header) <= 2
    /\ rows \in Seq([DOMAIN header -> Fields]) /\ Len(rows) <= CsvRows

LEMMA CsvStartsTyped ==
    ASSUME CV!CsvAssumption, CV!Init
    PROVE  CsvTyped
BY DEF CV!CsvAssumption, CV!Init, CsvTyped

LEMMA CsvIsTyped ==
    ASSUME CV!CsvAssumption, CsvTyped, [CV!Next]_(CV!csvVars)
    PROVE  CsvTyped'
<1>1. ASSUME NEW f \in CsvNames, CV!AddColumn(f)
      PROVE  CsvTyped'
  <2>1. rows = << >> /\ rows' = << >> /\ Len(header) < 2 /\ header' = Append(header, f)
    BY <1>1 DEF CV!AddColumn
  <2>2. header' \in Seq(CsvNames) /\ Len(header') <= 2
    BY <2>1 DEF CsvTyped
  <2>3. rows' \in Seq([DOMAIN header' -> Fields]) /\ Len(rows') <= CsvRows
    BY <2>1 DEF CV!CsvAssumption
  <2>4. QED
    BY <2>2, <2>3 DEF CsvTyped
<1>2. ASSUME NEW r \in [DOMAIN header -> Fields], CV!AddRow(r)
      PROVE  CsvTyped'
  <2>1. Len(rows) < CsvRows /\ rows' = Append(rows, r) /\ header' = header
    BY <1>2 DEF CV!AddRow
  <2>2. rows' \in Seq([DOMAIN header -> Fields]) /\ Len(rows') <= CsvRows
    BY <2>1 DEF CsvTyped, CV!CsvAssumption
  <2>3. QED
    BY <2>1, <2>2 DEF CsvTyped
<1>3. CASE UNCHANGED CV!csvVars
  BY <1>3 DEF CV!csvVars, CsvTyped
<1>4. QED
  BY <1>1, <1>2, <1>3 DEF CV!Next

LEMMA CsvTypes ==
    ASSUME CsvTyped
    PROVE  CV!TypeOK
BY DEF CsvTyped, CV!TypeOK

-----------------------------------------------------------------------------
(* The machines together.                                                  *)

WebInv ==
    /\ machine = "socket" => SocketInv
    /\ machine = "query" => QueryInv
    /\ machine = "editor" => EditorInv
    /\ machine = "objects" => ObjectsInv
    /\ machine = "whitelist" => WhiteInv
    /\ machine = "shell" => BenchInv /\ BeatInv
    /\ machine = "catalog" => CatalogInv
    /\ machine = "redis" => RedisInv
    /\ machine = "structure" => StructureInv
    /\ machine = "compare" => CompareInv
    /\ machine = "table" => PagesInv /\ TableInv
    /\ machine = "target" => TargetInv
    /\ machine = "import" => ImportInv
    /\ machine = "fixes" => FixInv
    /\ machine = "presets" => StoreInv
    /\ machine = "backup" => BackupInv
    /\ machine = "grid" => GridInv
    /\ machine = "log" => LogInv
    /\ machine = "mapping" => MapInv

LEMMA WebStarts == Init => WebInv
<1> SUFFICES ASSUME Init
             PROVE  WebInv
  OBVIOUS
<1>1. ASSUME machine \in {"socket", "query", "editor", "objects", "whitelist", "shell"}
      PROVE  WebInv
  BY <1>1, SocketInit, QueryStarts, EditorStarts, ObjectsStart, WhiteStarts, BenchStarts, BeatStarts,
     QueriesAssumption DEF Init, WebInv, QueriesAssumption
<1>2. ASSUME machine \in {"catalog", "redis", "structure", "compare", "fixes", "backup"}
      PROVE  WebInv
  BY <1>2, CatalogStarts, RedisStarts, StructureStarts, CompareStarts, FixStarts, BackupStarts,
     PagesAssumption DEF Init, WebInv, PagesAssumption
<1>3. ASSUME machine \in {"table", "target", "import", "presets"}
      PROVE  WebInv
  <2>1. PS!StoreAssumption /\ PS!Init => StoreInv
    BY PresetsStart DEF StoreInv, PS!Init, now
  <2>2. QED
    BY <1>3, <2>1, PagesStart, TableStarts, TargetStarts, ImportStarts, ListsAssumption
       DEF Init, WebInv, ListsAssumption
<1>4. ASSUME machine \in {"grid", "log", "mapping"}
      PROVE  WebInv
  BY <1>4, GridStarts, LogStarts, MapStarts DEF Init, WebInv
<1>5. QED
  BY <1>1, <1>2, <1>3, <1>4 DEF WebInv

LEMMA WebSteps ==
    ASSUME WebInv, [Next]_vars
    PROVE  /\ WebInv'
           /\ machine = "query" => QR!SendsInOrderStep /\ QR!OkIsNotRepeatedStep
           /\ machine = "editor" => ET!OthersUntouchedStep
           /\ machine = "objects" => OT!OthersUntouchedStep
           /\ machine = "table" => TE!CommittedIsShownStep
           /\ machine = "fixes" => FH!UndoGoesBackStep
           /\ machine = "presets" => PS!LostOnlySoStep /\ PS!OverwriteIsConfirmedStep
           /\ machine = "backup" => BP!RiskyIsPickedStep /\ BP!UndoIsExactStep
<1>1. ASSUME machine' = "socket" PROVE SocketInv'
  BY <1>1, SocketMoves, SocketSteps, QueriesAssumption DEF WebInv, QueriesAssumption
<1>2. ASSUME machine' = "query" PROVE QueryInv' /\ QR!SendsInOrderStep /\ QR!OkIsNotRepeatedStep
  BY <1>2, QueryMoves, QuerySteps, QueriesAssumption DEF WebInv, QueriesAssumption
<1>3. ASSUME machine' = "editor" PROVE EditorInv' /\ ET!OthersUntouchedStep
  BY <1>3, EditorMoves, EditorSteps, EditorLeavesOthers, QueriesAssumption
     DEF WebInv, QueriesAssumption
<1>4. ASSUME machine' = "objects" PROVE ObjectsInv' /\ OT!OthersUntouchedStep
  BY <1>4, ObjectsMoves, ObjectsSteps DEF WebInv
<1>5. ASSUME machine' = "whitelist" PROVE WhiteInv'
  BY <1>5, WhiteMoves, WhiteSteps, QueriesAssumption DEF WebInv, QueriesAssumption
<1>6. ASSUME machine' = "shell" PROVE BenchInv' /\ BeatInv'
  BY <1>6, ShellMoves, BenchSteps, BeatSteps, QueriesAssumption DEF WebInv, QueriesAssumption
<1>7. ASSUME machine' = "catalog" PROVE CatalogInv'
  BY <1>7, CatalogMoves, CatalogGoes, PagesAssumption DEF WebInv, PagesAssumption
<1>8. ASSUME machine' = "redis" PROVE RedisInv'
  BY <1>8, RedisMoves, RedisGoes, PagesAssumption DEF WebInv, PagesAssumption
<1>9. ASSUME machine' = "structure" PROVE StructureInv'
  BY <1>9, StructureMoves, StructureSteps DEF WebInv
<1>10. ASSUME machine' = "compare" PROVE CompareInv'
  BY <1>10, CompareMoves, CompareSteps, PagesAssumption DEF WebInv, PagesAssumption
<1>11. ASSUME machine' = "table" PROVE PagesInv' /\ TableInv' /\ TE!CommittedIsShownStep
  BY <1>11, TableMoves, PagesSteps, TableGoesOn, TableSteps, ListsAssumption
     DEF WebInv, ListsAssumption
<1>12. ASSUME machine' = "target" PROVE TargetInv'
  BY <1>12, TargetMoves, TargetGoes, ListsAssumption DEF WebInv, ListsAssumption
<1>13. ASSUME machine' = "import" PROVE ImportInv'
  BY <1>13, ImportMoves, ImportSteps, ListsAssumption DEF WebInv, ListsAssumption
<1>14. ASSUME machine' = "fixes" PROVE FixInv' /\ FH!UndoGoesBackStep
  BY <1>14, FixesMoves, FixesGo, PagesAssumption DEF WebInv, PagesAssumption
<1>15. ASSUME machine' = "presets"
       PROVE  StoreInv' /\ PS!LostOnlySoStep /\ PS!OverwriteIsConfirmedStep
  BY <1>15, PresetsMoves, PresetsGo, ListsAssumption DEF WebInv, ListsAssumption
<1>16. ASSUME machine' = "backup"
       PROVE  BackupInv' /\ BP!RiskyIsPickedStep /\ BP!UndoIsExactStep
  BY <1>16, BackupMoves, BackupGoes, PagesAssumption DEF WebInv, PagesAssumption
<1>17. ASSUME machine' = "grid" PROVE GridInv'
  <2>1. GridInv /\ [RG!Next]_(RG!gridVars)
    BY <1>17, GridMoves DEF WebInv
  <2>2. CASE RG!Next
    BY <2>1, <2>2, GridKeeps
  <2>3. CASE UNCHANGED RG!gridVars
    BY <2>1, <2>3 DEF GridInv, RG!gridVars
  <2>4. QED
    BY <2>1, <2>2, <2>3
<1>18. ASSUME machine' = "log" PROVE LogInv'
  <2>1. LogInv /\ [QL!Next]_(QL!vars) /\ QL!LogAssumption
    BY <1>18, LogMoves, ListsAssumption DEF WebInv, ListsAssumption
  <2>2. CASE QL!Next
    BY <2>1, <2>2, LogKeeps
  <2>3. CASE UNCHANGED QL!vars
    BY <2>1, <2>3 DEF LogInv, QL!vars, QL!KeepsNewest
  <2>4. QED
    BY <2>1, <2>2, <2>3
<1>19. ASSUME machine' = "mapping" PROVE MapInv'
  <2>1. MapInv /\ [MS!Next]_(MS!mapVars) /\ MS!MappingAssumption
    BY <1>19, MappingMoves, ListsAssumption DEF WebInv, ListsAssumption
  <2>2. CASE MS!Next
    BY <2>1, <2>2, MapKeeps
  <2>3. CASE UNCHANGED MS!mapVars
    BY <2>1, <2>3 DEF MapInv, MS!mapVars
  <2>4. QED
    BY <2>1, <2>2, <2>3
<1>20. machine' = machine
  BY DEF Next, vars
<1>21. QED
  BY <1>1, <1>2, <1>3, <1>4, <1>5, <1>6, <1>7, <1>8, <1>9, <1>10, <1>11, <1>12, <1>13, <1>14, <1>15,
     <1>16, <1>17, <1>18, <1>19, <1>20 DEF WebInv

LEMMA Always == Spec => []WebInv
BY WebStarts, WebSteps, PTL DEF Spec

-----------------------------------------------------------------------------
(* The types of all the variables.                                         *)

TypesInv ==
    /\ machine = "socket" => WS!TypeOK
    /\ machine = "query" => QR!TypeOK
    /\ machine = "editor" => ET!TypeOK
    /\ machine = "objects" => ObjectsTyped
    /\ machine = "whitelist" => WL!TypeOK
    /\ machine = "shell" => SH!TypeOK
    /\ machine = "catalog" => CA!TypeOK
    /\ machine = "redis" => RedisTyped
    /\ machine = "structure" => FormTyped /\ ChangeTyped
    /\ machine = "compare" => WizardTyped
    /\ machine = "fixes" => StacksTyped
    /\ machine = "backup" => BackupTyped
    /\ machine = "table" => TableTyped
    /\ machine = "target" => LoadTyped
    /\ machine = "import" => ImportTyped
    /\ machine = "presets" => AskTyped
    /\ machine = "grid" => GridTyped
    /\ machine = "log" => LogTyped
    /\ machine = "mapping" => MapTyped
    /\ machine = "sql" => TextTyped
    /\ machine = "csv" => CsvTyped

LEMMA QueriesStartTyped ==
    /\ WS!WsAssumption /\ WS!Init => WS!TypeOK
    /\ QR!RunAssumption /\ QR!Init => QR!TypeOK
    /\ ET!TabsAssumption /\ ET!Init => ET!TypeOK
    /\ WL!WhitelistAssumption /\ WL!Init => WL!TypeOK
    /\ SH!ShellAssumption /\ SH!Init => SH!TypeOK
    /\ CA!CatalogAssumption /\ CA!Init => CA!TypeOK
<1>1. SH!ShellAssumption /\ SH!Init => SH!TypeOK
  BY DEF SH!ShellAssumption, SH!Init, SH!TypeOK
<1>2. CA!CatalogAssumption /\ CA!Init => CA!TypeOK
  BY DEF CA!CatalogAssumption, CA!Init, CA!TypeOK
<1>3. QED
  BY <1>1, <1>2, SocketStartsTyped, RunStartsTyped, EditorStartsTyped, WhiteStartsTyped

LEMMA TypesStart == Init => TypesInv
<1> SUFFICES ASSUME Init
             PROVE  TypesInv
  OBVIOUS
<1>1. ASSUME machine \in {"socket", "query", "editor", "objects", "whitelist", "shell", "catalog"}
      PROVE  TypesInv
  BY <1>1, QueriesStartTyped, ObjectsStartTyped, QueriesAssumption, PagesAssumption
     DEF Init, TypesInv, QueriesAssumption, PagesAssumption
<1>2. ASSUME machine \in {"redis", "structure", "compare", "fixes", "backup"}
      PROVE  TypesInv
  BY <1>2, RedisStartsTyped, StructureStartsTyped, WizardStartsTyped, StacksStartTyped,
     BackupStartsTyped, PagesAssumption DEF Init, TypesInv, PagesAssumption
<1>3. ASSUME machine \in {"table", "target", "import", "presets"}
      PROVE  TypesInv
  BY <1>3, TableStartsTyped, LoadStartsTyped, ImportStartsTyped, AskStartsTyped, ListsAssumption
     DEF Init, TypesInv, ListsAssumption, ImportTyped
<1>4. ASSUME machine \in {"grid", "log", "mapping"}
      PROVE  TypesInv
  BY <1>4, GridStartsTyped, LogStartsTyped, MapStartsTyped, ListsAssumption
     DEF Init, TypesInv, ListsAssumption, MapTyped
<1>5. ASSUME machine \in {"sql", "csv"}
      PROVE  TypesInv
  BY <1>5, TextStartsTyped, CsvStartsTyped, ScannersAssumption DEF Init, TypesInv, ScannersAssumption
<1>6. QED
  BY <1>1, <1>2, <1>3, <1>4, <1>5 DEF TypesInv

LEMMA TextMoves ==
    ASSUME [Next]_vars, machine' = "sql"
    PROVE  machine = "sql" /\ [SQ!Next]_(SQ!textVars)
<1>1. CASE Next
  BY <1>1 DEF Next
<1>2. CASE UNCHANGED vars
  BY <1>2 DEF vars, SQ!textVars
<1>3. QED
  BY <1>1, <1>2

LEMMA CsvMoves ==
    ASSUME [Next]_vars, machine' = "csv"
    PROVE  machine = "csv" /\ [CV!Next]_(CV!csvVars)
<1>1. CASE Next
  BY <1>1 DEF Next
<1>2. CASE UNCHANGED vars
  BY <1>2 DEF vars, CV!csvVars, header, rows
<1>3. QED
  BY <1>1, <1>2

LEMMA TypesStay ==
    ASSUME WebInv, WebInv', TypesInv, [Next]_vars
    PROVE  TypesInv'
<1>1. ASSUME machine' = "socket" PROVE (WS!TypeOK)'
  <2>1. SocketInv /\ SocketInv' /\ WS!TypeOK /\ [WS!Next]_(WS!vars)
    BY <1>1, SocketMoves DEF WebInv, TypesInv
  <2>2. QED
    BY <2>1, SocketIsTyped, QueriesAssumption DEF QueriesAssumption
<1>2. ASSUME machine' = "query" PROVE (QR!TypeOK)'
  <2>1. QueryInv /\ QueryInv' /\ QR!TypeOK /\ [QR!Next]_(QR!vars)
    BY <1>2, QueryMoves DEF WebInv, TypesInv
  <2>2. QED
    BY <2>1, RunIsTyped, QueriesAssumption DEF QueriesAssumption
<1>3. ASSUME machine' = "editor" PROVE (ET!TypeOK)'
  <2>1. EditorInv' /\ ET!TypeOK /\ [ET!Next]_(ET!vars)
    BY <1>3, EditorMoves DEF WebInv, TypesInv
  <2>2. QED
    BY <2>1, EditorIsTyped
<1>4. ASSUME machine' = "objects" PROVE ObjectsTyped'
  <2>1. ObjectsTyped /\ [OT!Next]_(OT!vars)
    BY <1>4, ObjectsMoves DEF TypesInv
  <2>2. QED
    BY <2>1, ObjectsAreTyped, QueriesAssumption DEF QueriesAssumption
<1>5. ASSUME machine' = "whitelist" PROVE (WL!TypeOK)'
  <2>1. WhiteInv' /\ WL!TypeOK /\ [WL!Next]_(WL!vars)
    BY <1>5, WhiteMoves DEF WebInv, TypesInv
  <2>2. QED
    BY <2>1, WhiteIsTyped, QueriesAssumption DEF QueriesAssumption
<1>6. ASSUME machine' = "shell" PROVE (SH!TypeOK)'
  <2>1. BenchInv /\ BenchInv' /\ BeatInv /\ BeatInv' /\ SH!TypeOK /\ [SH!Next]_(SH!shellVars)
    BY <1>6, ShellMoves DEF WebInv, TypesInv
  <2>2. QED
    BY <2>1, ShellIsTyped, QueriesAssumption DEF QueriesAssumption
<1>7. ASSUME machine' = "catalog" PROVE (CA!TypeOK)'
  <2>1. CatalogInv /\ CatalogInv' /\ CA!TypeOK /\ [CA!Next]_(CA!catalogVars)
    BY <1>7, CatalogMoves DEF WebInv, TypesInv
  <2>2. QED
    BY <2>1, CatalogIsTyped, PagesAssumption DEF PagesAssumption
<1>8. ASSUME machine' = "redis" PROVE RedisTyped'
  <2>1. RedisTyped /\ [RP!Next]_(RP!redisVars)
    BY <1>8, RedisMoves DEF TypesInv
  <2>2. QED
    BY <2>1, RedisFlagsKeep, RedisWiresKeep, PagesAssumption DEF PagesAssumption, RedisTyped
<1>9. ASSUME machine' = "structure" PROVE FormTyped' /\ ChangeTyped'
  <2>1. FormTyped /\ ChangeTyped /\ [SE!Next]_(SE!vars)
    BY <1>9, StructureMoves DEF TypesInv
  <2>2. QED
    BY <2>1, StructureIsTyped, PagesAssumption DEF PagesAssumption
<1>10. ASSUME machine' = "compare" PROVE WizardTyped'
  <2>1. WizardTyped /\ [CS!Next]_(CS!vars)
    BY <1>10, CompareMoves DEF TypesInv
  <2>2. QED
    BY <2>1, WizardIsTyped, PagesAssumption DEF PagesAssumption
<1>11. ASSUME machine' = "fixes" PROVE StacksTyped'
  <2>1. FixInv /\ FixInv' /\ StacksTyped /\ [FH!Next]_(FH!vars)
    BY <1>11, FixesMoves DEF WebInv, TypesInv
  <2>2. QED
    BY <2>1, StacksAreTyped, PagesAssumption DEF PagesAssumption
<1>12. ASSUME machine' = "backup" PROVE BackupTyped'
  <2>1. BackupTyped /\ [BP!Next]_(BP!vars)
    BY <1>12, BackupMoves DEF TypesInv
  <2>2. QED
    BY <2>1, BackupIsTyped, PagesAssumption DEF PagesAssumption
<1>13. ASSUME machine' = "table" PROVE TableTyped'
  <2>1. TableInv /\ TableTyped /\ [TE!Next]_(TE!vars)
    BY <1>13, TableMoves DEF WebInv, TypesInv
  <2>2. QED
    BY <2>1, TableIsTyped, ListsAssumption DEF ListsAssumption
<1>14. ASSUME machine' = "target" PROVE LoadTyped'
  <2>1. TargetInv /\ LoadTyped /\ [IT!Next]_(IT!vars)
    BY <1>14, TargetMoves DEF WebInv, TypesInv
  <2>2. QED
    BY <2>1, LoadIsTyped, ListsAssumption DEF ListsAssumption
<1>15. ASSUME machine' = "import" PROVE ImportTyped'
  <2>1. ImportInv /\ ImportTyped /\ [IR!Next]_(IR!vars)
    BY <1>15, ImportMoves DEF WebInv, TypesInv
  <2>2. QED
    BY <2>1, ImportIsTyped, ListsAssumption DEF ListsAssumption
<1>16. ASSUME machine' = "presets" PROVE AskTyped'
  <2>1. PresetsInv /\ AskTyped /\ [PS!Next]_(PS!vars)
    BY <1>16, PresetsMoves DEF WebInv, StoreInv, TypesInv
  <2>2. QED
    BY <2>1, AskIsTyped, ListsAssumption DEF ListsAssumption
<1>17. ASSUME machine' = "grid" PROVE GridTyped'
  <2>1. GridInv /\ GridTyped /\ [RG!Next]_(RG!gridVars)
    BY <1>17, GridMoves DEF WebInv, TypesInv
  <2>2. QED
    BY <2>1, GridIsTyped, ListsAssumption DEF ListsAssumption
<1>18. ASSUME machine' = "log" PROVE LogTyped'
  <2>1. LogInv /\ LogTyped /\ [QL!Next]_(QL!vars)
    BY <1>18, LogMoves DEF WebInv, TypesInv
  <2>2. QED
    BY <2>1, LogIsTyped, ListsAssumption DEF ListsAssumption
<1>19. ASSUME machine' = "mapping" PROVE MapTyped'
  <2>1. MapTyped /\ [MS!Next]_(MS!mapVars)
    BY <1>19, MappingMoves DEF TypesInv
  <2>2. QED
    BY <2>1, MapIsTyped, ListsAssumption DEF ListsAssumption
<1>20. ASSUME machine' = "sql" PROVE TextTyped'
  BY <1>20, TextMoves, TextIsTyped, ScannersAssumption DEF TypesInv, ScannersAssumption
<1>21. ASSUME machine' = "csv" PROVE CsvTyped'
  BY <1>21, CsvMoves, CsvIsTyped, ScannersAssumption DEF TypesInv, ScannersAssumption
<1>22. QED
  BY <1>1, <1>2, <1>3, <1>4, <1>5, <1>6, <1>7, <1>8, <1>9, <1>10, <1>11, <1>12, <1>13, <1>14, <1>15,
     <1>16, <1>17, <1>18, <1>19, <1>20, <1>21 DEF TypesInv

LEMMA TypesAlways == Spec => []TypesInv
BY TypesStart, TypesStay, Always, PTL DEF Spec

-----------------------------------------------------------------------------
(* The theorems.                                                           *)

\* Whatever the machine and however large its sets, bounds and texts, its
\* variables keep their types: places point into the lists they are places of,
\* the first tab is the workbench and no tab is there twice, counters stay
\* within their bounds, and what is waited for is something that was asked.
THEOREM TypesHold == Spec => []TypeOK
<1>1. ASSUME WebInv, TypesInv
      PROVE  TypeOK
  <2>1. /\ machine = "objects" => OT!TypeOK
        /\ machine = "redis" => RP!TypeOK
        /\ machine = "structure" => SE!TypeOK
        /\ machine = "compare" => CS!TypeOK
        /\ machine = "fixes" => FH!TypeOK
        /\ machine = "backup" => BP!TypeOK
    BY <1>1, ObjectsTypes, RedisTypes, StructureTypes, CompareTypes, FixesTypes, BackupTypes,
       QueriesAssumption DEF WebInv, TypesInv, QueriesAssumption
  <2>2. /\ machine = "table" => TE!TypeOK
        /\ machine = "target" => IT!TypeOK
        /\ machine = "import" => IR!TypeOK
        /\ machine = "presets" => PS!TypeOK
        /\ machine = "grid" => RG!TypeOK
        /\ machine = "log" => QL!TypeOK
        /\ machine = "mapping" => MS!TypeOK
    BY <1>1, TableTypes, TargetTypes, ImportTypes, PresetTypes, GridTypes, LogTypes, MapTypes,
       ListsAssumption DEF WebInv, StoreInv, TypesInv, ListsAssumption
  <2>3. /\ machine = "sql" => SQ!TypeOK
        /\ machine = "csv" => CV!TypeOK
    BY <1>1, TextTypes, CsvTypes DEF TypesInv
  <2>4. QED
    BY <1>1, <2>1, <2>2, <2>3 DEF TypesInv, TypeOK
<1>2. QED
  BY <1>1, Always, TypesAlways, PTL

\* A query's handler gets at most one terminal callback, however many queries
\* share sockets that are replaced, dropped and closed.
THEOREM AnsweredOnce == Spec => []OneAnswer
<1>1. WebInv => OneAnswer
  BY DEF WebInv, SocketInv, OneAnswer
<1>2. QED
  BY <1>1, Always, PTL

\* Whatever is cancelled, rerun or switched, a run that is over leaves no
\* statement on display that waits or runs.
THEOREM SettlesWhenIdle == Spec => []SettledWhenIdle
<1>1. WebInv => SettledWhenIdle
  BY DEF WebInv, QueryInv, Settled, SettledWhenIdle, QR!SettledWhenIdle, QR!busy
<1>2. QED
  BY <1>1, Always, PTL

\* The statements of a run, of any number, go to one connection in order,
\* each after the outcome of the one before and none after a cancel; a rerun
\* of the failures repeats none that succeeded.
THEOREM StatementsGoInOrder == Spec => RunsInOrder
<1>1. WebInv /\ [Next]_vars =>
        [/\ machine = "query" => QR!SendsInOrderStep
         /\ machine = "query" => QR!OkIsNotRepeatedStep]_vars
  BY WebSteps
<1>2. QED
  BY <1>1, Always, PTL DEF Spec, RunsInOrder

\* Once no save is due, the tabs and the whitelist on display are what the
\* browser has stored, of any connections, tables and texts.
THEOREM QuietIsStored == Spec => []ShownIsStored
<1>1. WebInv => ShownIsStored
  BY QuietEditor DEF WebInv, ShownIsStored, ObjectsInv, WhiteInv
<1>2. QED
  BY <1>1, Always, PTL

\* No step changes the stored tabs of a connection that is not on display
\* after it: neither a switch nor the timer that was armed before.
THEOREM OthersStay == Spec => OthersUntouched
<1>1. WebInv /\ [Next]_vars =>
        [/\ machine = "editor" => ET!OthersUntouchedStep
         /\ machine = "objects" => OT!OthersUntouchedStep]_vars
  BY WebSteps
<1>2. QED
  BY <1>1, Always, PTL DEF Spec, OthersUntouched

\* What runs unasked is the text of a pick of the log, once, and on the
\* connection of the pick when that connection was known.
THEOREM RunsOnlyPicks == Spec => []RunsWhatWasPicked
<1>1. WebInv => RunsWhatWasPicked
  BY DEF WebInv, BenchInv, RunsWhatWasPicked
<1>2. QED
  BY <1>1, Always, PTL

\* However answers are delayed and overtaken, what is shown as loaded is what
\* was asked for last: the page of a table (the one chosen, or that of the click
\* whose commit asked last), the catalog, the light of the connection and, with
\* one call at a time, keys and values of Redis.
THEOREM LoadedIsAskedLast == Spec => []ShownIsCurrent
<1>1. WebInv => ShownIsCurrent
  BY CatalogIsRight, RedisIsRight DEF WebInv, BeatInv, PagesInv, ShownIsCurrent
<1>2. QED
  BY <1>1, Always, PTL

\* What the page says of a sync script, of an import and of a change of a
\* table is true of every script, import and change, whatever was refused,
\* cancelled or lost, but for a commit done with its answer lost, DDL that
\* commits by itself, and a skipped failure that aborted the transaction.
THEOREM ReportsAreTrue == Spec => []ReportIsTrue
<1>1. WebInv => ReportIsTrue
  BY DEF WebInv, ReportIsTrue, StructureInv, ImportInv, CompareInv
<1>2. QED
  BY <1>1, Always, PTL

\* No transaction of an import stays open on the server once the import has
\* ended or the modal is closed, unless a rollback or the answer of its begin
\* was lost on the way.
THEOREM NoImportTxLeft == Spec => []NoTxLeft
<1>1. WebInv => NoTxLeft
  BY DEF WebInv, NoTxLeft, ImportInv
<1>2. QED
  BY <1>1, Always, PTL

\* A commit of the table editor leaves each row as the grid showed it at the
\* click, if nobody changed the row since it was loaded, and adds the new rows,
\* of every table and however the edits were repeated, collapsed and undone.
THEOREM CommitLeavesShown == Spec => CommittedIsShown
<1>1. WebInv /\ [Next]_vars => [machine = "table" => TE!CommittedIsShownStep]_vars
  BY WebSteps
<1>2. QED
  BY <1>1, Always, PTL DEF Spec, CommittedIsShown

\* What is mapped in the later steps of an import are columns of the table it
\* will write, of any tables and files, unless the target was left in one of
\* the two ways ImportTarget names.
THEOREM MappedIsOfTarget == Spec => []ConfigFitsTarget
<1>1. WebInv => ConfigFitsTarget
  BY MappedFits, ListsAssumption DEF WebInv, ConfigFitsTarget, ListsAssumption
<1>2. QED
  BY <1>1, Always, PTL

\* Undoing n fixes, or the last backup applied, brings back the state before,
\* for any cap of the stacks and whatever overflowed.
THEOREM UndoIsExact == Spec => UndoGoesBack
<1>1. WebInv /\ [Next]_vars =>
        [/\ machine = "fixes" => FH!UndoGoesBackStep
         /\ machine = "backup" => BP!UndoIsExactStep]_vars
  BY WebSteps
<1>2. QED
  BY <1>1, Always, PTL DEF Spec, UndoGoesBack

\* Nothing that needs a question is done without: overwriting a preset from
\* the bin, whatever was deleted, purged and saved since the question, and
\* writing a foreign or dead item of a backup, whatever audits come between.
THEOREM AskedBefore == Spec => NothingUnasked
<1>1. WebInv /\ [Next]_vars =>
        [/\ machine = "presets" => PS!OverwriteIsConfirmedStep
         /\ machine = "backup" => BP!RiskyIsPickedStep]_vars
  BY WebSteps
<1>2. QED
  BY <1>1, Always, PTL DEF Spec, NothingUnasked

\* A version that leaves the store is in the snapshots or in the bin, of any
\* tables, versions and limits, but for the seven ways PresetStore names.
THEOREM CanBeGotBack == Spec => LostOnlySo
<1>1. WebInv /\ [Next]_vars => [machine = "presets" => PS!LostOnlySoStep]_vars
  BY WebSteps
<1>2. QED
  BY <1>1, Always, PTL DEF Spec, LostOnlySo

\* Every value of an import statement goes to the target its column is mapped
\* to: in an insert with any gaps and repetitions of the mapping, in an update
\* or an upsert without a gap, which shifts the values behind it.  What the
\* filter, the rules or a policy leave out is in no statement.
THEOREM MappingMeans == Spec => []MappingIsMeant
<1>1. WebInv => MappingIsMeant
  BY ParamsAreMeant, LeftOutStay, ListsAssumption DEF WebInv, MappingIsMeant, ListsAssumption
<1>2. QED
  BY <1>1, Always, PTL

\* What is exported, copied or inspected was picked on the result on display,
\* whatever was sorted, filtered, hidden or replaced since, and the bars of a
\* chart of any result add up to its rows.
THEOREM ExportsPicked == Spec => []ExportIsPicked
<1>1. WebInv => ExportIsPicked
  BY PickedIsExported, BarsAddUp, ListsAssumption DEF WebInv, ExportIsPicked, ListsAssumption
<1>2. QED
  BY <1>1, Always, PTL

\* The log keeps the newest runs of each statement under any two caps, and
\* each of its two views counts and adds up every entry that the filter lets
\* through once.
THEOREM ViewsAgree == Spec => []ViewsAddUp
<1>1. WebInv => ViewsAddUp
  BY ViewsAreOfLog, ListsAssumption DEF WebInv, ViewsAddUp, LogInv, ListsAssumption
<1>2. QED
  BY <1>1, Always, PTL
=============================================================================
