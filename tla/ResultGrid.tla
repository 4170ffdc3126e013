----------------------------- MODULE ResultGrid -----------------------------
(***************************************************************************)
(* The result pane of the query workspace (QueryWorkspace.tsx): sorting,     *)
(* column filters, hidden columns, selected rows, the menu of a cell, the    *)
(* view modes, the row inspector, the chart, and what is copied and          *)
(* exported.  All of it is kept by position, row and column, and the result  *)
(* under it is replaced by every run.                                       *)
(*                                                                         *)
(* Cells are compared, ranked and added up through Rank; a filter text is a  *)
(* cell's text, or one of the two tests for NULL.                           *)
(***************************************************************************)
EXTENDS Naturals, Sequences, FiniteSetsExt, Ordered

CONSTANTS
    Data,           \* [Results -> [width, numeric: Columns, rows: Seq(Seq(cells))]]
    Rank,           \* [texts -> Nat]: their order and their value in a chart
    None,           \* NULL; no result
    Window,         \* GRID_RENDER_WINDOW
    MaxSteps        \* bound: steps of the user and answers

Results == DOMAIN Data
Columns == 1..Max({Data[r].width : r \in Results})
Texts == DOMAIN Rank
Filters == Texts \union {"is null", "is not null"}
Modes == {"table", "json", "chart", "output"}

\* What the constants have to satisfy.
GridAssumption ==
    /\ None \notin Results /\ Rank \in [Texts -> Nat] /\ Window \in Nat /\ MaxSteps \in Nat
    /\ \A r \in Results :
         /\ Data[r].width \in Nat
         /\ Data[r].rows \in Seq([1..Data[r].width -> Texts \union {None}])

VARIABLES
    result,
    sort,           \* [col, dir], or None
    filters,        \* colFilters: columns to texts
    hidden,         \* hiddenCols
    sel,            \* selRows: the rows, by their place in the result
    mode,           \* viewMode
    inspector,      \* inspectorOpen
    menu,           \* the menu of a cell: [row, col], or None
    chart,          \* [kind, x, y, group]; 0 stands for no column
    limit,          \* renderLimit
    isSelect,       \* the text of the editor is a SELECT
    held,           \* the view the palette's commands have captured
    picked,         \* the rows of this result that were clicked
    steps

gridVars == <<result, sort, filters, hidden, sel, mode, inspector, menu, chart, limit,
              isSelect, held, picked, steps>>
viewVars == <<result, sort, filters, hidden, sel>>

view == [result |-> result, sort |-> sort, filters |-> filters, hidden |-> hidden, sel |-> sel]
NoFilters == [c \in {} |-> ""]
Clean(r) == [result |-> r, sort |-> None, filters |-> NoFilters, hidden |-> {}, sel |-> {}]

Init ==
    /\ result = None /\ sort = None /\ filters = NoFilters /\ hidden = {} /\ sel = {}
    /\ mode = "table" /\ inspector = TRUE /\ menu = None
    /\ chart = [kind |-> "bar", x |-> 1, y |-> 0, group |-> 0]
    /\ limit = Window /\ isSelect = TRUE /\ held = Clean(None) /\ picked = {} /\ steps = 0

-----------------------------------------------------------------------------
(* What is shown.                                                          *)

ColumnsOf(r) == IF r = None THEN {} ELSE 1..Data[r].width
RowsOf(r) == IF r = None THEN {} ELSE DOMAIN Data[r].rows
Cell(r, i, c) == IF c \in ColumnsOf(r) THEN Data[r].rows[i][c] ELSE None

\* colFilterMatches.
Matches(cell, f) ==
    \/ f = ""
    \/ f = "is null" /\ cell = None
    \/ f = "is not null" /\ cell # None
    \/ cell = f

\* displayRows: the rows that pass every filter; NULL comes last either way.
Displayed(v) ==
    LET passes == {i \in RowsOf(v.result) :
                     \A c \in DOMAIN v.filters : Matches(Cell(v.result, i, c), v.filters[c])}
        Before(i, j) ==
            LET x == Cell(v.result, i, v.sort.col)
                y == Cell(v.result, j, v.sort.col)
            IN  IF v.sort = None \/ x = y THEN i < j
                ELSE IF None \in {x, y} THEN y = None
                ELSE IF v.sort.dir = "asc" THEN Rank[x] < Rank[y] ELSE Rank[x] > Rank[y]
    IN  Ranked(passes, {p \in passes \X passes : Before(p[1], p[2])})

Visible(v) == ColumnsOf(v.result) \ v.hidden

\* exportRows: the selection, as far as it is shown; all rows without one.
Exported(v) ==
    LET rows == Displayed(v)
    IN  Keeping(rows, {n \in DOMAIN rows : v.sel = {} \/ rows[n] \in v.sel})

\* copySelected: the selection, shown or not, in the order of the result.
Copied == {i \in RowsOf(result) : i \in sel}

\* The rows of the table: the first renderLimit.
Rendered ==
    LET rows == Displayed(view) IN {rows[n] : n \in {n \in DOMAIN rows : n <= limit}}

ModeAvailable(m) ==
    m \in {"table", "output"} \/ (ColumnsOf(result) # {} /\ (m = "json" \/ isSelect))
EffectiveMode == IF ModeAvailable(mode) THEN mode ELSE "table"

\* ctxTarget.
Target == IF menu # None /\ menu.row \in RowsOf(result) /\ menu.col \in ColumnsOf(result)
          THEN menu ELSE None

\* The row of the inspector.
Inspected == IF Cardinality(sel) = 1 THEN sel \cap Range(Displayed(view)) ELSE {}

-----------------------------------------------------------------------------
(* chartData: the labels, and for each group, or for all rows at once, one  *)
(* value per label.                                                         *)

Number(r, i, c) == IF Cell(r, i, c) = None THEN 0 ELSE Rank[Cell(r, i, c)]
Grouped == chart.group \in ColumnsOf(result) /\ RowsOf(result) # {}

ChartY ==
    LET other == ColumnsOf(result) \ {chart.x, chart.group}
        numeric == other \cap Data[result].numeric
    IN  IF chart.y \in ColumnsOf(result) THEN chart.y
        ELSE IF numeric # {} THEN Min(numeric) ELSE IF other # {} THEN Min(other) ELSE 0

HasChart ==
    /\ EffectiveMode = "chart" /\ chart.x \in ColumnsOf(result)
    /\ chart.kind = "bar" => ChartY # 0

Labels ==
    LET seen == [i \in RowsOf(result) |-> Cell(result, i, chart.x)]
    IN  [n \in 1..Cardinality(Range(seen)) |->
           seen[CHOOSE i \in DOMAIN seen :
                  /\ \A j \in 1..i - 1 : seen[j] # seen[i]
                  /\ Cardinality({seen[j] : j \in 1..i}) = n]]

AddUp(rows) == SumFunctionOnSet([i \in RowsOf(result) |-> Number(result, i, ChartY)], rows)

\* [groups -> [places -> value]]; without a group, a value for every row.
Series ==
    IF Grouped
      THEN LET labels == Labels IN
           [g \in {Cell(result, i, chart.group) : i \in RowsOf(result)} |->
              [n \in DOMAIN labels |->
                 AddUp({i \in RowsOf(result) : /\ Cell(result, i, chart.group) = g
                                               /\ Cell(result, i, chart.x) = labels[n]})]]
      ELSE [g \in {""} |-> [i \in RowsOf(result) |-> Number(result, i, ChartY)]]

-----------------------------------------------------------------------------
Acts == steps < MaxSteps /\ steps' = steps + 1
Steady == UNCHANGED <<isSelect, chart, menu, picked>>

\* The rendering window starts again when the rows shown may have changed.
Rewind == limit' = IF result' # result \/ sort' # sort \/ filters' # filters THEN Window ELSE limit

\* Mutant of Effect: the rows that were selected stay so.
EffectKeepsRows(r) ==
    /\ sort' = None /\ filters' = NoFilters /\ sel' = IF r = None THEN {} ELSE sel
    /\ hidden' = hidden \cap ColumnsOf(r)

\* The effect on result.
Effect(r) ==
    /\ sort' = None /\ filters' = NoFilters /\ sel' = {}
    /\ hidden' = hidden \cap ColumnsOf(r)

\* A run ends, another statement of a batch is shown, or all is cleared.  The
\* palette's commands are registered before the effect has run.
NewResult(r) ==
    /\ Acts /\ result' = r /\ Effect(r) /\ limit' = Window /\ picked' = {}
    /\ held' = [view EXCEPT !.result = r]
    /\ UNCHANGED <<mode, inspector, menu, chart, isSelect>>

Edits(keep) == Steady /\ UNCHANGED <<result, mode, inspector, held, keep>> /\ Rewind
InTable == result # None /\ EffectiveMode = "table"

OnSort(c) ==
    /\ Acts /\ InTable /\ c \in Visible(view)
    /\ sort' = IF sort = None \/ sort.col # c THEN [col |-> c, dir |-> "asc"]
               ELSE IF sort.dir = "asc" THEN [sort EXCEPT !.dir = "desc"] ELSE None
    /\ Edits(<<filters, hidden, sel>>)

SetFilter(c, f) ==
    /\ Acts /\ InTable /\ c \in Visible(view)
    /\ filters' = IF f = "" THEN [x \in (DOMAIN filters) \ {c} |-> filters[x]]
                  ELSE [x \in (DOMAIN filters) \union {c} |-> IF x = c THEN f ELSE filters[x]]
    /\ Edits(<<sort, hidden, sel>>)

ClearFilters ==
    /\ Acts /\ filters # NoFilters /\ filters' = NoFilters
    /\ Edits(<<sort, hidden, sel>>)

\* toggleColumn, from the list of columns: the last one stays.
ToggleColumn(c) ==
    /\ Acts /\ c \in ColumnsOf(result) /\ Cardinality(ColumnsOf(result)) > 1
    /\ c \notin hidden => Cardinality(ColumnsOf(result)) - Cardinality(hidden) > 1
    /\ hidden' = SymDiff(hidden, {c})
    /\ Edits(<<sort, filters, sel>>)

ShowAllColumns == Acts /\ hidden # {} /\ hidden' = {} /\ Edits(<<sort, filters, sel>>)

HideAllColumns ==
    /\ Acts /\ ColumnsOf(result) # {} /\ hidden' = {Max(ColumnsOf(result))}
    /\ Edits(<<sort, filters, sel>>)

\* toggleRow: a row that is rendered.
ToggleRow(i, additive) ==
    /\ Acts /\ InTable /\ i \in Rendered
    /\ sel' = IF additive THEN SymDiff(sel, {i}) ELSE IF sel = {i} THEN {} ELSE {i}
    /\ picked' = picked \union {i}
    /\ UNCHANGED <<result, sort, filters, hidden, mode, inspector, menu, chart, limit, isSelect,
                   held>>

ClearSelection == Acts /\ sel # {} /\ sel' = {} /\ Edits(<<sort, filters, hidden>>)

Scroll ==
    /\ InTable /\ limit < Len(Displayed(view))
    /\ limit' = Min({limit + Window, Len(Displayed(view))})
    /\ UNCHANGED <<viewVars, mode, inspector, menu, chart, isSelect, held, picked, steps>>

-----------------------------------------------------------------------------
(* The menu of a cell.                                                     *)

OpenMenu(i, c) ==
    /\ InTable /\ i \in Rendered /\ c \in Visible(view) /\ menu' = [row |-> i, col |-> c]
    /\ UNCHANGED <<viewVars, mode, inspector, chart, limit, isSelect, held, picked, steps>>

FromMenu(keep) ==
    /\ Acts /\ menu' = None
    /\ UNCHANGED <<result, mode, inspector, held, chart, isSelect, picked, keep>> /\ Rewind

\* It also hides the last column.
MenuToggleColumn ==
    /\ Target # None
    /\ hidden' = SymDiff(hidden, {Target.col}) /\ FromMenu(<<sort, filters, sel>>)

\* The value of the cell becomes the filter of its column, or no filter does.
MenuFilter ==
    /\ Target # None
    /\ LET c == Target.col
           v == Cell(result, Target.row, c)
       IN  filters' = IF c \in DOMAIN filters
                      THEN [x \in (DOMAIN filters) \ {c} |-> filters[x]]
                      ELSE [x \in (DOMAIN filters) \union {c} |->
                              IF x # c THEN filters[x] ELSE IF v = None THEN "" ELSE v]
    /\ FromMenu(<<sort, hidden, sel>>)

MenuSort(dir) ==
    /\ Target # None
    /\ sort' = [col |-> Target.col, dir |-> dir] /\ FromMenu(<<filters, hidden, sel>>)

-----------------------------------------------------------------------------
(* Modes.  A change of them registers the palette's commands again.         *)

ChangesView == Acts /\ held' = view /\ UNCHANGED <<viewVars, menu, limit, isSelect, picked>>

\* From the tool bar: a chart starts with its first column.
SetMode(m) ==
    /\ result # None /\ ModeAvailable(m)
    /\ mode' = IF m = "chart" /\ EffectiveMode = "chart" THEN "table" ELSE m
    /\ mode' # mode
    /\ chart' = IF mode' = "chart" THEN [chart EXCEPT !.x = 1, !.y = 0] ELSE chart
    /\ ChangesView /\ UNCHANGED inspector

\* From the palette: the columns stay as they were.
PaletteMode(m) == mode' = m /\ m # mode /\ ChangesView /\ UNCHANGED <<inspector, chart>>

ToggleInspector == inspector' = ~inspector /\ ChangesView /\ UNCHANGED <<mode, chart>>

SetChart ==
    /\ Acts /\ result # None /\ EffectiveMode = "chart"
    /\ \/ \E k \in {"bar", "pie"} : chart' = [chart EXCEPT !.kind = k]
       \/ \E x \in ColumnsOf(result) : chart' = [chart EXCEPT !.x = x]
       \/ \E y \in ColumnsOf(result) : chart' = [chart EXCEPT !.y = y]
       \/ \E g \in {0} \union (ColumnsOf(result) \ {chart.x, chart.y}) :
            chart' = [chart EXCEPT !.group = g]
    /\ chart' # chart
    /\ UNCHANGED <<viewVars, mode, inspector, menu, limit, isSelect, held, picked>>

Type ==
    /\ isSelect' = ~isSelect /\ Acts
    /\ UNCHANGED <<viewVars, mode, inspector, menu, chart, limit, held, picked>>

Next ==
    \/ \E r \in Results \union {None} : NewResult(r)
    \/ \E c \in Columns : \/ OnSort(c) \/ ToggleColumn(c)
                          \/ \E f \in Filters \union {""} : SetFilter(c, f)
    \/ \E i \in RowsOf(result) : \/ \E b \in BOOLEAN : ToggleRow(i, b)
                                 \/ \E c \in Columns : OpenMenu(i, c)
    \/ ClearFilters \/ ShowAllColumns \/ HideAllColumns \/ ClearSelection \/ Scroll
    \/ MenuToggleColumn \/ MenuFilter \/ \E d \in {"asc", "desc"} : MenuSort(d)
    \/ \E m \in Modes : SetMode(m) \/ PaletteMode(m)
    \/ ToggleInspector \/ SetChart \/ Type

Spec == Init /\ [][Next]_gridVars

-----------------------------------------------------------------------------

TypeOK ==
    /\ result \in Results \union {None} /\ sel \subseteq RowsOf(result)
    /\ hidden \subseteq ColumnsOf(result) /\ DOMAIN filters \subseteq ColumnsOf(result)
    /\ sort = None \/ sort.col \in ColumnsOf(result)
    /\ mode \in Modes /\ limit >= Window /\ steps \in 0..MaxSteps

\* What leaves the pane belongs to the result on display and was chosen on it:
\* with a selection, the rows that are exported, copied or inspected have been
\* clicked in this result, and the export has all of them that are shown; the
\* palette exports this result too, though not always this selection.
ExportIsPicked ==
    /\ sel # {} =>
         LET rows == Range(Exported(view))
         IN  rows = sel \cap Range(Displayed(view)) /\ rows \union Copied \union Inspected \subseteq picked
    /\ held.result = result

\* A chart with groups, or of a column without repetitions, adds up: over each
\* label stands the sum of the rows that have it.
ChartAddsUp ==
    HasChart /\ chart.kind = "bar" /\ (Grouped \/ Len(Labels) = Cardinality(RowsOf(result))) =>
        LET labels == Labels
            bars == Series
        IN  \A n \in DOMAIN labels :
              SumFunction([g \in DOMAIN bars |-> bars[g][n]])
                = AddUp({i \in RowsOf(result) : Cell(result, i, chart.x) = labels[n]})
=============================================================================
