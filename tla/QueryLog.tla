------------------------------ MODULE QueryLog ------------------------------
(***************************************************************************)
(* The log of queries run: what lib/runStats.ts keeps of them and what     *)
(* QueryLogPanel.tsx shows, filtered, sorted and added up by statement and *)
(* by connection.                                                          *)
(*                                                                         *)
(* Hash stands for hashSql: statements that differ in blanks, letter case  *)
(* or comments share one.                                                  *)
(***************************************************************************)
EXTENDS Integers, Sequences, FiniteSets, Functions, Ordered

CONSTANTS
    Texts,          \* statements
    Hash,           \* statement -> its hash
    Conns,
    Durations,      \* milliseconds
    All,            \* no filter
    MaxPerHash,     \* MAX_PER_HASH
    MaxTotal,       \* MAX_TOTAL
    Limit,          \* limit: rows shown
    MaxRuns         \* bound: queries run

\* What the constants have to satisfy.
LogAssumption ==
    /\ DOMAIN Hash = Texts /\ Durations \subseteq Nat /\ All \notin Conns
    /\ {MaxPerHash, MaxTotal, Limit, MaxRuns} \subseteq Nat \ {0}

VARIABLES
    log,        \* localStorage and stats, newest first
    ran,        \* history: every query run since the log was cleared
    conn,       \* connFilter
    least,      \* minMs
    key, desc,  \* sortKey, sortDir
    runs

vars == <<log, ran, conn, least, key, desc, runs>>

Entry == [text : Texts, conn : Conns, ms : Durations, ts : Nat]
Pairs(s) == (DOMAIN s) \X (DOMAIN s)
SortedBy(s, before) == LET at == Ranked(DOMAIN s, before) IN [k \in DOMAIN s |-> s[at[k]]]
FirstOf(s, n) == SubSeq(s, 1, IF Len(s) < n THEN Len(s) ELSE n)
HashOf(e) == Hash[e.text]

Init ==
    /\ log = <<>> /\ ran = {} /\ runs = 0
    /\ conn = All /\ least = 0 /\ key = "ts" /\ desc = TRUE

-----------------------------------------------------------------------------
(* What is kept.                                                           *)

\* The entries that have fewer than MaxPerHash of their hash before them.
Capped(s) ==
    Keeping(s, {i \in DOMAIN s :
                  Cardinality({j \in 1..i - 1 : HashOf(s[j]) = HashOf(s[i])}) < MaxPerHash})

\* Mutant of Added: the new entry goes to the end, and the end is what is cut off.
AddedLast(e) == FirstOf(Capped(Append(log, e)), MaxTotal)

\* addStat
Added(e) == FirstOf(Capped(<<e>> \o log), MaxTotal)

Run(t, c, d) ==
    /\ runs < MaxRuns /\ runs' = runs + 1
    /\ LET e == [text |-> t, conn |-> c, ms |-> d, ts |-> runs']
       IN log' = Added(e) /\ ran' = ran \union {e}
    /\ UNCHANGED <<conn, least, key, desc>>

Clear ==
    /\ log # <<>> /\ log' = <<>> /\ ran' = {}
    /\ UNCHANGED <<conn, least, key, desc, runs>>

-----------------------------------------------------------------------------
(* What is shown.                                                          *)

FilterConn(c) == c # conn /\ conn' = c /\ UNCHANGED <<log, ran, least, key, desc, runs>>
FilterLeast(d) == d # least /\ least' = d /\ UNCHANGED <<log, ran, conn, key, desc, runs>>

ToggleSort(k) ==
    /\ desc' = IF k = key THEN ~desc ELSE TRUE
    /\ key' = k
    /\ UNCHANGED <<log, ran, conn, least, runs>>

\* baseFiltered
Filtered ==
    Keeping(log, {i \in DOMAIN log : conn \in {All, log[i].conn} /\ log[i].ms >= least})

\* The rows of the detail view.
Detail ==
    LET rows == Filtered
        Value(i) == IF key = "ts" THEN rows[i].ts ELSE rows[i].ms
        Before(i, j) == IF Value(i) = Value(j) THEN i < j ELSE desc = (Value(i) > Value(j))
    IN  FirstOf(SortedBy(rows, {p \in Pairs(rows) : Before(p[1], p[2])}), Limit)

Sorted(es) ==
    SortedBy(es, {p \in Pairs(es) : \/ es[p[1]].ms < es[p[2]].ms
                                    \/ es[p[1]].ms = es[p[2]].ms /\ p[1] < p[2]})
Percentile(es, p) ==
    LET i == (p * Len(es)) \div 100
    IN Sorted(es)[IF i < Len(es) THEN i + 1 ELSE Len(es)].ms

OfHash(h) == LET rows == Filtered IN Keeping(rows, {i \in DOMAIN rows : HashOf(rows[i]) = h})
OfConn(c) == LET rows == Filtered IN Keeping(rows, {i \in DOMAIN rows : rows[i].conn = c})

\* Mutant of Summary: all entries of the log are summarised, not the filtered ones.
SummaryOfAll(h) ==
    LET es == Keeping(log, {i \in DOMAIN log : HashOf(log[i]) = h})
    IN [count |-> Len(es), min |-> Percentile(es, 0), p50 |-> Percentile(es, 50),
        p95 |-> Percentile(es, 95), max |-> Percentile(es, 100)]

\* summarize
Summary(h) ==
    LET es == OfHash(h)
    IN [count |-> Len(es), min |-> Percentile(es, 0), p50 |-> Percentile(es, 50),
        p95 |-> Percentile(es, 95), max |-> Percentile(es, 100)]

\* sqlAgg, all of it: a row has the newest statement and first connection of
\* its hash, which a click runs.
SqlAgg ==
    {LET es == OfHash(h)
         newest == CHOOSE e \in Range(es) : \A x \in Range(es) : x.ts <= e.ts
     IN [text |-> newest.text, conn |-> Head(es).conn, sum |-> Summary(h)] :
        h \in {HashOf(e) : e \in Range(Filtered)}}

\* s is slower than r, or as slow and met first.
Above(s, r) ==
    \/ s.sum.p95 > r.sum.p95
    \/ /\ s.sum.p95 = r.sum.p95
       /\ LET rows == Filtered
          IN \E j \in DOMAIN rows : /\ HashOf(rows[j]) = Hash[s.text]
                                    /\ \A i \in 1..j : HashOf(rows[i]) # Hash[r.text]

\* The rows of the statement view.
SqlRows == LET all == SqlAgg IN {r \in all : Cardinality({s \in all : Above(s, r)}) < Limit}

\* The rows of the connection view.
ConnRows ==
    {LET es == OfConn(c)
     IN [conn |-> c, count |-> Len(es), p95 |-> Percentile(es, 95),
         total |-> SumFunction([i \in DOMAIN es |-> es[i].ms])] :
        c \in {e.conn : e \in Range(Filtered)}}

\* What a click on a row of either view opens and runs: text and connection.
Picks ==
    {<<e.text, e.conn>> : e \in Range(Detail)} \union {<<r.text, r.conn>> : r \in SqlRows}

Next ==
    \/ \E t \in Texts, c \in Conns, d \in Durations : Run(t, c, d)
    \/ Clear
    \/ \E c \in Conns \union {All} : FilterConn(c)
    \/ \E d \in Durations : FilterLeast(d)
    \/ \E k \in {"ts", "ms"} : ToggleSort(k)

Spec == Init /\ [][Next]_vars

-----------------------------------------------------------------------------
(* Properties.                                                             *)

TypeOK ==
    /\ log \in Seq(Entry) /\ Len(log) <= MaxTotal
    /\ conn \in Conns \union {All} /\ least \in Nat
    /\ key \in {"ts", "ms"} /\ desc \in BOOLEAN

\* Of the runs of one statement the log keeps the newest, whichever bound
\* made it forget one.
KeepsNewest ==
    \A e \in ran : e \notin Range(log) =>
        \A x \in Range(log) : HashOf(x) = HashOf(e) => x.ts > e.ts

\* Both views add up to the entries the filter lets through; what the limit
\* cuts off the statement view is no slower than what is shown; and a row that
\* can be clicked stands for a query that was run: its text on its connection.
ViewsAddUp ==
    /\ LET all == SqlAgg
           rows == SqlRows
       IN  /\ SumFunction([r \in all |-> r.sum.count]) = Len(Filtered)
           /\ Cardinality(all) <= Limit => rows = all
           /\ \A r \in rows, s \in all \ rows : s.sum.p95 <= r.sum.p95
           /\ \A r \in all :
                r.sum.min <= r.sum.p50 /\ r.sum.p50 <= r.sum.p95 /\ r.sum.p95 <= r.sum.max
    /\ SumFunction([r \in ConnRows |-> r.count]) = Len(Filtered)
    /\ Picks \subseteq {<<e.text, e.conn>> : e \in ran}

=============================================================================
