------------------------------ MODULE CsvText ------------------------------
(***************************************************************************)
(* A table out to CSV and back: toCsv and csvEscape of lib/exporters.ts,    *)
(* detectDelimiter and parseCsv of lib/csvParser.ts.                        *)
(*                                                                          *)
(* A text is a sequence of one-character strings: "n" and "r" are a line    *)
(* feed and a carriage return, "q" the double quote, "bom" the byte order   *)
(* mark.  NULL and the empty string are written alike, as the empty field.  *)
(***************************************************************************)
EXTENDS Naturals, Sequences, FiniteSets, FiniteSetsExt, SequencesExt

CONSTANTS
    Names,      \* column names, which toCsv does not escape
    Fields,     \* the texts a cell may hold
    MaxRows     \* bound: rows of the table

\* What the constants have to satisfy.
CsvAssumption == MaxRows \in Nat

VARIABLES
    header,     \* columns
    rows        \* rows

csvVars == <<header, rows>>

Init == header = <<>> /\ rows = <<>>

Delimiters == <<",", ";", "t", "|", "s">>

-----------------------------------------------------------------------------

CsvEscape(f) ==
    IF Range(f) \intersect {"q", ",", "n"} = {} THEN f
    ELSE <<"q">> \o FlattenSeq([i \in DOMAIN f |-> IF f[i] = "q" THEN <<"q", "q">> ELSE <<f[i]>>])
                 \o <<"q">>

Joined(seqs, sep) ==
    FlattenSeq([i \in DOMAIN seqs |-> IF i = 1 THEN seqs[i] ELSE <<sep>> \o seqs[i]])

ToCsv(names, table) ==
    <<"bom">> \o Joined(<<Joined(names, ",")>>
                        \o [i \in DOMAIN table |->
                               Joined([j \in DOMAIN table[i] |-> CsvEscape(table[i][j])], ",")], "n")

-----------------------------------------------------------------------------

\* Of the delimiters in the first line the most frequent; of equals the first.
DetectDelimiter(s) ==
    LET ends == {i \in DOMAIN s : s[i] = "n"} \union {Len(s) + 1}
        Count(c) == Cardinality({i \in 1..(Min(ends) - 1) : s[i] = c})
        Better(a, b) == Count(Delimiters[a]) > Count(Delimiters[b])
        best == {a \in DOMAIN Delimiters : \A b \in DOMAIN Delimiters :
                    ~Better(b, a) /\ (b < a => Better(a, b))}
    IN  IF \A c \in Range(Delimiters) : Count(c) = 0 THEN ","
        ELSE Delimiters[CHOOSE a \in best : TRUE]

Start == [records |-> <<>>, row |-> <<>>, field |-> <<>>, inQuotes |-> FALSE, skip |-> FALSE]
EndField(a) == [a EXCEPT !.row = Append(@, a.field), !.field = <<>>]
EndRecord(a, skip) ==
    [a EXCEPT !.records = Append(@, Append(a.row, a.field)), !.row = <<>>, !.field = <<>>,
              !.skip = skip]
Take(a, c, skip) == [a EXCEPT !.field = Append(@, c), !.skip = skip]

\* Mutant of Step: a line feed ends the record inside quotes too.
StepByLines(a, s, i, delimiter) ==
    CASE a.skip -> [a EXCEPT !.skip = FALSE]
      [] ~a.skip /\ s[i] = "n" -> EndRecord(a, FALSE)
      [] ~a.skip /\ s[i] # "n" /\ s[i] = delimiter /\ ~a.inQuotes -> EndField(a)
      [] ~a.skip /\ s[i] = "q" /\ (a.inQuotes \/ a.field = <<>>) ->
           [a EXCEPT !.inQuotes = ~@]
      [] OTHER -> Take(a, s[i], FALSE)

\* One turn of the loop of parseCsv; skip says that the last one took two.
Step(a, s, i, delimiter) ==
    LET c == s[i]
        next == IF i < Len(s) THEN s[i + 1] ELSE ""
    IN  CASE a.skip -> [a EXCEPT !.skip = FALSE]
          [] ~a.skip /\ a.inQuotes ->
               CASE c # "q" -> Take(a, c, FALSE)
                 [] c = "q" /\ next = "q" -> Take(a, c, TRUE)
                 [] OTHER -> [a EXCEPT !.inQuotes = FALSE]
          [] OTHER ->
               CASE c = "q" /\ a.field = <<>> -> [a EXCEPT !.inQuotes = TRUE]
                 [] c = delimiter -> EndField(a)
                 [] c = "r" -> EndRecord(a, next = "n")
                 [] c = "n" -> EndRecord(a, FALSE)
                 [] OTHER -> Take(a, c, FALSE)

\* The empty records at the end are dropped.
Trimmed(records) ==
    LET kept == {i \in DOMAIN records : records[i] # << <<>> >>}
    IN  SubSeq(records, 1, IF kept = {} THEN 0 ELSE Max(kept))

Records(s, delimiter) ==
    LET a == FoldLeft(LAMBDA b, i : Step(b, s, i, delimiter), Start, [i \in DOMAIN s |-> i])
    IN  Trimmed(IF a.field # <<>> \/ a.row # <<>> THEN EndRecord(a, FALSE).records
                ELSE a.records)

\* The names, and the rows filled up to the longest; "colN" for a column
\* without a name.
ParseCsv(input, hasHeader) ==
    LET s == IF input # <<>> /\ input[1] = "bom" THEN Tail(input) ELSE input
        all == Records(s, DetectDelimiter(input))
        named == hasHeader /\ all # <<>>
        body == IF named THEN Tail(all) ELSE all
        width == Max({0} \union {Len(all[i]) : i \in DOMAIN all})
    IN  [columns |-> [j \in 1..width |->
                        IF named /\ j <= Len(all[1]) /\ all[1][j] # <<>> THEN all[1][j]
                        ELSE <<"col", j>>],
         rows |-> [i \in DOMAIN body |-> [j \in 1..width |->
                     IF j <= Len(body[i]) THEN body[i][j] ELSE <<>>]]]

-----------------------------------------------------------------------------

AddColumn(f) ==
    /\ rows = <<>> /\ Len(header) < 2 /\ header' = Append(header, f) /\ UNCHANGED rows

AddRow(r) ==
    /\ header # <<>> /\ Len(rows) < MaxRows /\ rows' = Append(rows, r) /\ UNCHANGED header

Next ==
    \/ \E f \in Names : AddColumn(f)
    \/ \E r \in [DOMAIN header -> Fields] : AddRow(r)

Spec == Init /\ [][Next]_csvVars

-----------------------------------------------------------------------------

TypeOK ==
    /\ header \in Seq(Names) /\ Len(header) <= 2
    /\ Len(rows) <= MaxRows /\ \A i \in DOMAIN rows : rows[i] \in [DOMAIN header -> Fields]

\* A table that was exported is imported again cell by cell: quotes,
\* delimiters and line feeds in a cell survive.  It holds for names without a
\* delimiter (the names are not escaped, and a blank in them can be taken for
\* the delimiter of the file) and cells without a carriage return, which
\* csvEscape does not quote and parseCsv takes for the end of a record; empty
\* rows of one column at the end are lost.
ExportComesBack ==
    LET back == ParseCsv(ToCsv(header, rows), TRUE) IN
    (/\ header # <<>>
     /\ \A j \in DOMAIN header : Range(header[j]) \intersect Range(Delimiters) = {}
     /\ \A i \in DOMAIN rows : \A j \in DOMAIN header : "r" \notin Range(rows[i][j]))
    => back.columns = header /\ back.rows = Trimmed(rows)
=============================================================================
