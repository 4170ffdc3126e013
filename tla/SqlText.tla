------------------------------ MODULE SqlText ------------------------------
(***************************************************************************)
(* The text of the SQL editor, cut into statements and parameters by two    *)
(* scanners that were written apart: lib/sqlSplit.ts, which the runs use,   *)
(* and countParams of QueryWorkspace.tsx, which keeps the parameter list.   *)
(*                                                                          *)
(* A text is a sequence of one-character strings; "n" is a line feed and    *)
(* "s" any other white space, "b" a backquote.  Positions count from 1.      *)
(***************************************************************************)
EXTENDS Naturals, FiniteSetsExt, Functions, Ordered

CONSTANTS
    Alphabets,  \* bound: a text keeps to the characters of one of these
    MaxLength   \* bound: characters in the text

\* What the constants have to satisfy.
SqlAssumption == MaxLength \in Nat

VARIABLES
    text,       \* sql
    items       \* params.length

textVars == <<text, items>>

Init == text = <<>> /\ items = 0

-----------------------------------------------------------------------------

Closing(q) == IF q = "[" THEN "]" ELSE q

\* One character of either scanner.  The class of a character is "code",
\* "quoted" or "comment"; skip says that it goes with the one before.
Scan(a, s, i, quotes) ==
    LET c == s[i]
        d == IF i < Len(s) THEN s[i + 1] ELSE ""
        To(mode, skip, class) ==
            [mode |-> mode, skip |-> skip, class |-> Append(a.class, class)]
    IN  CASE a.skip -> To(a.mode, FALSE, a.class[Len(a.class)])
          [] ~a.skip /\ a.mode = "code" ->
               CASE <<c, d>> = <<"-", "-">>  -> To("line", TRUE, "comment")
                 [] c = "#"                  -> To("line", FALSE, "comment")
                 [] <<c, d>> = <<"/", "*">>  -> To("block", TRUE, "comment")
                 [] c \in quotes             -> To(c, FALSE, "quoted")
                 [] OTHER                    -> To("code", FALSE, "code")
          [] ~a.skip /\ a.mode = "line" ->
               IF c = "n" THEN To("code", FALSE, "code") ELSE To("line", FALSE, "comment")
          [] ~a.skip /\ a.mode = "block" ->
               IF <<c, d>> = <<"*", "/">> THEN To("code", TRUE, "comment")
               ELSE To("block", FALSE, "comment")
          [] OTHER ->
               CASE c = Closing(a.mode) /\ d = c /\ c # "]" -> To(a.mode, TRUE, "quoted")
                 [] c = Closing(a.mode) /\ (d # c \/ c = "]") -> To("code", FALSE, "quoted")
                 [] OTHER -> To(a.mode, FALSE, "quoted")

Classes(s, quotes) ==
    LET upTo[n \in 0..Len(s)] ==
          IF n = 0 THEN [mode |-> "code", skip |-> FALSE, class |-> <<>>]
                   ELSE Scan(upTo[n - 1], s, n, quotes)
    IN  upTo[Len(s)].class

SplitQuotes == {"'", "\"", "b", "["}
EditorQuotes == {"'", "\""}

\* splitSql: from the first character that is neither white space nor in a
\* comment, up to the semicolon, whose place is the end, or the end of the
\* text.  Segments without such a character are dropped.
StatementsBy(s, class) ==
    LET cuts == {i \in 1..Len(s) : class[i] = "code" /\ s[i] = ";"} \union {Len(s) + 1}
        Before(e) == {i \in 1..(e - 1) :
                        /\ \A c \in cuts : c < e => c < i
                        /\ \/ class[i] = "quoted"
                           \/ class[i] = "code" /\ s[i] \notin {"s", "n"}}
        ends == InOrder({e \in cuts : Before(e) # {}})
    IN  [k \in DOMAIN ends |-> [start |-> Min(Before(ends[k])), end |-> ends[k]]]

Statements(s) == StatementsBy(s, Classes(s, SplitQuotes))

Marks(s, quotes) ==
    LET class == Classes(s, quotes) IN {i \in 1..Len(s) : class[i] = "code" /\ s[i] = "?"}

Sql(s, k) == LET st == Statements(s)[k] IN SubSeq(s, st.start, st.end - 1)

\* Mutant of CountSqlParams: the scanner of the runs counts the ? in comments too.
CountAllMarks(s) == Cardinality({i \in 1..Len(s) : s[i] = "?"})

CountSqlParams(s) == Cardinality(Marks(s, SplitQuotes))
CountParams(s) == Cardinality(Marks(s, EditorQuotes))

\* statementAtCursor, 0 for -1; the cursor stands before a character.
StatementAtCursor(s, offset) ==
    LET sts == Statements(s)
        at == {k \in DOMAIN sts : offset \in sts[k].start..sts[k].end}
    IN  IF at = {} THEN 0 ELSE Min(at)

\* The places of the parameters that runMulti sends with statement k.
Slice(s, k) ==
    LET from == SumFunction([j \in 1..(k - 1) |-> CountSqlParams(Sql(s, j))])
    IN  (1..items) \cap (from + 1)..(from + CountSqlParams(Sql(s, k)))

-----------------------------------------------------------------------------

\* A character is typed at the end; the effect on sql keeps one item for
\* each parameter.
Type(c) ==
    /\ Len(text) < MaxLength /\ text' = Append(text, c)
    /\ \E alphabet \in Alphabets : Range(text') \subseteq alphabet
    /\ items' = CountParams(text')

Next == \E c \in UNION Alphabets : Type(c)

Spec == Init /\ [][Next]_textVars

-----------------------------------------------------------------------------

TypeOK ==
    /\ Len(text) \in 0..MaxLength /\ Range(text) \subseteq UNION Alphabets
    /\ items \in 0..MaxLength

\* Run by run, each statement gets exactly the parameters that are written
\* in it: a list kept by one scanner and cut up by the other.  It holds for
\* texts that quote nothing with a backquote or [; with those the editor counts the ?
\* inside a name and every later parameter is sent one place too early.
ParamsLineUp ==
    Range(text) \intersect {"b", "["} = {} =>
        LET sts == Statements(text)
            marks == Marks(text, SplitQuotes)
            Number(i) == Cardinality({j \in marks : j <= i})
        IN  \A k \in DOMAIN sts :
              Slice(text, k) = {Number(i) : i \in marks \cap (sts[k].start)..(sts[k].end)}

\* A statement cut out of the text is one statement again, with nothing
\* before it and nothing after it, and the cursor inside it finds it.
CutsAreClean ==
    LET sts == Statements(text) IN
    \A k \in DOMAIN sts :
        LET cut == Sql(text, k) IN
        /\ Statements(cut) = <<[start |-> 1, end |-> Len(cut) + 1]>>
        /\ \A offset \in (sts[k].start)..(sts[k].end) : StatementAtCursor(text, offset) = k
=============================================================================
