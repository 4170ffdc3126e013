---------------------------- MODULE MappingStep ----------------------------
(***************************************************************************)
(* The mapping step of the import (import/Step3Map.tsx) and what is built    *)
(* from it: buildStatements of lib/importData.ts, the checks and previews of *)
(* ImportModal.tsx and Step4Preview.tsx that read the built parameters.      *)
(*                                                                           *)
(* A cell is "e" (empty), "b" (blanks only), "v" (a value) or "z" (a value   *)
(* the rule of its column rejects).                                          *)
(***************************************************************************)
EXTENDS Naturals, Sequences, FiniteSets, FiniteSetsExt, Functions, Ordered

CONSTANTS
    Targets,    \* the columns of the table, in order
    Keys,       \* those of the primary key
    AutoInc,    \* those the database numbers
    Defaults,   \* those with a default value
    SameName,   \* [columns of the file -> the target of that name, or None]
    Score,      \* [columns -> [targets -> how alike the names are, 0 if not]]
    Rows,       \* the rows of the file
    Doubtful,   \* columns the quality report has a transform for
    None,
    MaxSteps    \* bound: steps of the user

Columns == DOMAIN SameName
Cells == {"e", "b", "v", "z"}
Modes == {"insert", "update", "upsert"}
Policies == {"null", "empty-string", "skip-row", "use-default"}

\* What the constants have to satisfy.
MappingAssumption ==
    /\ Len(SameName) \in Nat /\ Columns = 1..Len(SameName)
    /\ Targets \in Seq(Range(Targets)) /\ None \notin Keys
    /\ Rows \in Seq([Columns -> Cells]) /\ MaxSteps \in Nat
    /\ SameName \in [Columns -> Range(Targets) \union {None}]
    /\ Score \in [Columns -> [Range(Targets) -> Nat]]

VARIABLES
    mapping,    \* mappings[i].targetColumn
    trims,      \* opts.transforms: the columns with a transform
    policy,     \* opts.nullPolicies
    rules,      \* opts.validations: the columns with a rule
    mode,       \* opts.mode
    strict,     \* opts.strictValidation
    filter,     \* opts.filterColumn, with the value "v"; 0 for none
    overrides,  \* overrides: rows typed over
    view,       \* mappingFilter
    sel,        \* batchSel
    anchor,     \* batchAnchor, 0 for null
    cursor,     \* jumpCursorUnmapped, 0 for -1
    steps

mapVars == <<mapping, trims, policy, rules, mode, strict, filter, overrides, view, sel,
             anchor, cursor, steps>>
optVars == <<trims, policy, rules, mode, strict, filter>>
viewVars == <<view, sel, anchor, cursor>>

\* inferMapping: the column of that name that the database does not number.
InferMapping == [i \in Columns |-> IF SameName[i] \in AutoInc THEN None ELSE SameName[i]]

Init ==
    /\ mapping = InferMapping /\ trims = {} /\ rules = {} /\ mode = "insert"
    /\ policy = [i \in Columns |-> "null"] /\ strict = TRUE /\ filter = 0
    /\ overrides = [r \in DOMAIN Rows |-> None]
    /\ view = "all" /\ sel = {} /\ anchor = 0 /\ cursor = 0 /\ steps = 0

-----------------------------------------------------------------------------
(* What is built.                                                           *)

Mapped == {i \in Columns : mapping[i] # None}
Active == InOrder(Mapped)
KeyColumns == {i \in Mapped : mapping[i] \in Keys}
KeyNames == Keeping(Targets, {p \in DOMAIN Targets : Targets[p] \in Keys})
First(t) == Min({i \in Mapped : mapping[i] = t} \union {Len(SameName) + 1})

EffectiveRow(r) == IF overrides[r] = None THEN Rows[r] ELSE overrides[r]

\* validateCell with a rule that "z" breaks, or for which a value is required.
Invalid(cell) == cell \in {"e", "z"}

\* Mutant of Kept: the filter and the rules are tried on the rows of the file.
KeptInFile(r) ==
    /\ filter # 0 => Rows[r][filter] = "v"
    /\ strict => \A i \in rules : ~Invalid(Rows[r][i])
    /\ \A i \in Columns : policy[i] = "skip-row" => Rows[r][i] # "e"

Kept(r) ==
    LET row == EffectiveRow(r) IN
    /\ filter # 0 => row[filter] = "v"
    /\ strict => \A i \in rules : ~Invalid(row[i])
    /\ \A i \in Columns : policy[i] = "skip-row" => row[i] # "e"

EffectiveRows == InOrder({r \in DOMAIN Rows : Kept(r)})

\* convertValue; "skip" is the symbol SKIP_ROW.
ConvertValue(cell, i) ==
    LET v == IF i \in trims /\ cell = "b" THEN "e" ELSE cell IN
    CASE v # "e" -> v
      [] v = "e" /\ policy[i] = "skip-row" -> "skip"
      [] v = "e" /\ policy[i] = "use-default" /\ mapping[i] \in Defaults -> "default"
      [] v = "e" /\ policy[i] = "empty-string" -> "e"
      [] OTHER -> "NULL"

\* The columns that the SQL text names, in the order of its parameters, and
\* the column of the file that each parameter is meant to have, 0 for none.
DataColumns == InOrder(Mapped \ KeyColumns)
KeysFirst == InOrder(KeyColumns) \o DataColumns

Names(cols) == [p \in DOMAIN cols |-> mapping[cols[p]]]

Bound ==
    CASE mode = "update" -> Names(DataColumns) \o KeyNames
      [] mode = "upsert" -> Names(KeysFirst)
      [] OTHER -> Names(Active)

\* Mutant of Meant: the parameters of an upsert keep the order of the file.
MeantInOrder ==
    IF mode = "update"
    THEN [p \in DOMAIN Bound |-> IF First(Bound[p]) > Len(SameName) THEN 0 ELSE First(Bound[p])]
    ELSE Active

Meant ==
    CASE mode = "update" ->
           [p \in DOMAIN Bound |-> IF First(Bound[p]) > Len(SameName) THEN 0 ELSE First(Bound[p])]
      [] mode = "upsert" -> KeysFirst
      [] OTHER -> Active

\* The column that each parameter is taken from: convertParams has a value for
\* each mapped column, and no place for the others; update and upsert look
\* into it with the number of the column in the file.  Past its end is null.
Sources ==
    IF mode = "insert" THEN Meant
    ELSE [p \in DOMAIN Meant |-> IF Meant[p] \in DOMAIN Active THEN Active[Meant[p]] ELSE 0]

Params(r) ==
    [p \in DOMAIN Sources |->
        IF Sources[p] = 0 THEN "NULL" ELSE ConvertValue(EffectiveRow(r)[Sources[p]], Sources[p])]

Statements ==
    IF Active = <<>> \/ (mode = "update" /\ (KeyNames = <<>> \/ DataColumns = <<>>)) THEN <<>>
    ELSE [k \in DOMAIN EffectiveRows |->
            [origIdx |-> EffectiveRows[k], params |-> Params(EffectiveRows[k])]]

-----------------------------------------------------------------------------
(* What reads the parameters by their place.                                *)

\* The columns that label the parameters of the first statement.
ParamOrder ==
    CASE mode = "update" -> DataColumns \o InOrder(KeyColumns)
      [] mode = "upsert" /\ Keys # {} -> KeysFirst
      [] OTHER -> Active

\* checkDuplicatePk and checkPkExistence: the key is read at the places its
\* columns have among the mapped ones, whatever the mode.
CheckedPlaces == {p \in DOMAIN Active : Active[p] \in KeyColumns}

\* finishAndClose: the places of the key for the rows shown after the import.
PreviewPlaces ==
    LET keys == InOrder(KeyColumns) IN
    [j \in DOMAIN keys |->
        CASE mode = "insert" -> keys[j]
          [] mode = "update" -> Len(DataColumns) + j
          [] OTHER -> j]

-----------------------------------------------------------------------------
(* Suggestions and the health of a column.                                  *)

\* suggestMappings: in the order of the file, to the free target most alike.
Suggest(i, m) ==
    LET free == {p \in DOMAIN Targets : /\ Targets[p] \notin AutoInc /\ Score[i][Targets[p]] > 0
                                         /\ \A j \in Columns : m[j] # Targets[p]}
        best == {p \in free : \A q \in free : Score[i][Targets[q]] <= Score[i][Targets[p]]}
    IN  IF m[i] # None \/ free = {} THEN m ELSE [m EXCEPT ![i] = Targets[Min(best)]]

Suggested ==
    LET upTo[i \in 0..Len(SameName)] == IF i = 0 THEN mapping ELSE Suggest(i, upTo[i - 1])
    IN  upTo[Len(SameName)]

Shadowed(i) == mapping[i] # None /\ \E j \in Columns : j > i /\ mapping[j] = mapping[i]
HasEmpty(i) == \E r \in DOMAIN Rows : Rows[r][i] = "e"

Health(i) ==
    LET Off(cond, n) == IF cond THEN n ELSE 0 IN
    100 - Off(mapping[i] = None, 40) - Off(Shadowed(i), 25)
        - Off(HasEmpty(i) /\ i \notin rules, 8) - Off(i \in Doubtful, 15)

Visible ==
    CASE view = "unmapped" -> {i \in Columns : mapping[i] = None}
      [] view = "mapped" -> {i \in Columns : mapping[i] # None}
      [] view = "low-health" -> {i \in Columns : Health(i) < 80}
      [] view = "critical-health" -> {i \in Columns : Health(i) < 60}
      [] OTHER -> Columns

-----------------------------------------------------------------------------
(* The user.                                                                *)

Acts == steps < MaxSteps /\ steps' = steps + 1

MapTo(i, t) ==
    /\ Acts /\ t \notin AutoInc /\ mapping' = [mapping EXCEPT ![i] = t]
    /\ UNCHANGED <<optVars, overrides, viewVars>>

ApplySuggestions ==
    /\ Acts /\ Suggested # mapping /\ mapping' = Suggested
    /\ UNCHANGED <<optVars, overrides, viewVars>>

SetMode(m) ==
    /\ Acts /\ mode' = m /\ m # mode
    /\ UNCHANGED <<mapping, trims, policy, rules, strict, filter, overrides, viewVars>>

SetFilter(i) ==
    /\ Acts /\ filter' = i /\ i # filter
    /\ UNCHANGED <<mapping, trims, policy, rules, mode, strict, overrides, viewVars>>

ToggleStrict ==
    /\ Acts /\ strict' = ~strict
    /\ UNCHANGED <<mapping, trims, policy, rules, mode, filter, overrides, viewVars>>

SetRule(i) ==
    /\ Acts /\ rules' = IF i \in rules THEN rules \ {i} ELSE rules \union {i}
    /\ UNCHANGED <<mapping, trims, policy, mode, strict, filter, overrides, viewVars>>

\* The controls of one row are those of a batch of one.
SetTransform(cols, on) ==
    /\ Acts /\ cols # {} /\ trims' = IF on THEN trims \union cols ELSE trims \ cols
    /\ UNCHANGED <<mapping, policy, rules, mode, strict, filter, overrides, viewVars>>

SetPolicy(cols, p) ==
    /\ Acts /\ cols # {} /\ policy' = [i \in Columns |-> IF i \in cols THEN p ELSE policy[i]]
    /\ UNCHANGED <<mapping, trims, rules, mode, strict, filter, overrides, viewVars>>

ClearSettings ==
    /\ Acts /\ sel # {} /\ trims' = trims \ sel /\ rules' = rules \ sel
    /\ policy' = [i \in Columns |-> IF i \in sel THEN "null" ELSE policy[i]]
    /\ UNCHANGED <<mapping, mode, strict, filter, overrides, viewVars>>

\* Those of the selection whose health is low and that have a suggestion.
ApplyToSelection ==
    LET cols == {i \in sel \intersect Doubtful : Health(i) < 80}
    IN  SetTransform(cols, TRUE)

\* "Edit and rerun" in the list of failed rows: the number of the statement
\* takes the row of the file under the number of a row.
OverrideRow(k) ==
    /\ Acts /\ k \in DOMAIN Statements
    /\ overrides' = [overrides EXCEPT ![k] = IF @ = None THEN Rows[Statements[k].origIdx] ELSE @]
    /\ UNCHANGED <<mapping, optVars, viewVars>>

TypeOver(k, i, cell) ==
    /\ Acts /\ overrides[k] # None /\ overrides' = [overrides EXCEPT ![k][i] = cell]
    /\ UNCHANGED <<mapping, optVars, viewVars>>

DropOverrides(ks) ==
    /\ Acts /\ \E k \in ks : overrides[k] # None
    /\ overrides' = [k \in DOMAIN Rows |-> IF k \in ks THEN None ELSE overrides[k]]
    /\ UNCHANGED <<mapping, optVars, viewVars>>

-----------------------------------------------------------------------------

ShowOnly(v) ==
    /\ Acts /\ view' = v /\ v # view
    /\ UNCHANGED <<mapping, optVars, overrides, sel, anchor, cursor>>

\* The chips that select the columns that are shown, or that have something.
SelectAll(cols) ==
    /\ Acts /\ cols # {} /\ cols # sel /\ sel' = cols /\ anchor' = Min(cols)
    /\ UNCHANGED <<mapping, optVars, overrides, view, cursor>>

\* A click; with shift everything between two columns, shown or not.
ClickRow(i) ==
    /\ Acts /\ anchor' = i /\ sel' = IF i \in sel THEN sel \ {i} ELSE sel \union {i}
    /\ UNCHANGED <<mapping, optVars, overrides, view, cursor>>

ShiftClickRow(i) ==
    /\ Acts /\ anchor # 0 /\ sel' = (anchor..i) \union (i..anchor)
    /\ UNCHANGED <<mapping, optVars, overrides, view, anchor, cursor>>

InvertSelection ==
    /\ Acts /\ sel # {} /\ sel' = Columns \ sel
    /\ anchor' = IF sel' = {} THEN 0 ELSE Min(sel')
    /\ UNCHANGED <<mapping, optVars, overrides, view, cursor>>

Deselect ==
    /\ Acts /\ sel # {} /\ sel' = {} /\ anchor' = 0
    /\ UNCHANGED <<mapping, optVars, overrides, view, cursor>>

\* Alt+N: after the column jumped to last if that is still unmapped, else first.
JumpToUnmapped ==
    LET open == {i \in Columns : mapping[i] = None}
        later == {i \in open : i > cursor}
        next == IF cursor \in open /\ later # {} THEN Min(later) ELSE Min(open)
    IN  /\ Acts /\ open # {}
        /\ cursor' = next /\ sel' = {next} /\ anchor' = next
        /\ UNCHANGED <<mapping, optVars, overrides, view>>

-----------------------------------------------------------------------------

Next ==
    \/ ApplySuggestions \/ ToggleStrict \/ ClearSettings \/ ApplyToSelection
    \/ InvertSelection \/ Deselect \/ JumpToUnmapped
    \/ \E i \in Columns : SetRule(i) \/ ClickRow(i) \/ ShiftClickRow(i)
    \/ \E i \in Columns, t \in Range(Targets) \union {None} : MapTo(i, t)
    \/ \E i \in Columns \union {0} : SetFilter(i)
    \/ \E m \in Modes : SetMode(m)
    \/ \E cols \in {sel} \union {{i} : i \in Columns} :
         \/ \E on \in BOOLEAN : SetTransform(cols, on)
         \/ \E p \in Policies : SetPolicy(cols, p)
    \/ \E k \in DOMAIN Rows : OverrideRow(k) \/ DropOverrides({k})
    \/ \E k \in DOMAIN Rows, i \in Columns, cell \in Cells : TypeOver(k, i, cell)
    \/ DropOverrides(DOMAIN Rows)
    \/ \E v \in {"all", "unmapped", "mapped", "low-health", "critical-health"} : ShowOnly(v)
    \/ \E cols \in {Visible, trims, rules, {i \in Columns : HasEmpty(i)}} : SelectAll(cols)

Spec == Init /\ [][Next]_mapVars

-----------------------------------------------------------------------------

TypeOK ==
    /\ mapping \in [Columns -> Range(Targets) \union {None}]
    /\ trims \subseteq Columns /\ rules \subseteq Columns /\ sel \subseteq Columns
    /\ policy \in [Columns -> Policies] /\ mode \in Modes /\ strict \in BOOLEAN
    /\ filter \in Columns \union {0} /\ anchor \in Columns \union {0}
    /\ cursor \in Columns \union {0} /\ steps \in 0..MaxSteps
    /\ overrides \in [DOMAIN Rows -> [Columns -> Cells] \union {None}]

OneEach == \A i \in Columns : ~Shadowed(i)
Gapless == \A i \in 1..Max(Mapped) : mapping[i] # None
KeysInOrder == Names(InOrder(KeyColumns)) = KeyNames

\* The parameters are put in order once, and four other places work the
\* order out again.  The value of a column of the file goes to the target the
\* column is mapped to, and the labels of the preview name the columns the
\* values are from (if no target is mapped twice and the key columns are all
\* mapped in the order of the table), as long as the import inserts or no
\* unmapped column of the file comes before a mapped one: an update or an
\* upsert shifts the values behind such a gap.  The duplicate check of an
\* insert reads the key, and the rows shown after the import read its places
\* if there is no gap.
ParamsMeanTheirColumns ==
    Statements # <<>> =>
        /\ mode = "insert" \/ Gapless =>
             /\ \A p \in DOMAIN Bound :
                  IF Sources[p] = 0 THEN \A i \in Columns : mapping[i] # Bound[p]
                  ELSE mapping[Sources[p]] = Bound[p]
             /\ OneEach /\ KeysInOrder => ParamOrder = Sources
        /\ mode = "insert" => {Bound[p] : p \in CheckedPlaces} = Keys \intersect Range(Bound)
        /\ OneEach /\ KeysInOrder /\ Gapless
           => [j \in DOMAIN PreviewPlaces |-> Bound[PreviewPlaces[j]]] = KeyNames

\* What the user left out stays out: no statement carries a row that the
\* filter or a rule rejects, nor the mark of a row to be skipped, unless a
\* transform empties a cell of a column whose empty rows are to be skipped,
\* which the first pass over the rows does not see.
LeftOutStaysOut ==
    \A k \in DOMAIN Statements :
        LET row == EffectiveRow(Statements[k].origIdx) IN
        /\ filter # 0 => row[filter] = "v"
        /\ strict => \A i \in rules : row[i] \notin {"e", "z"}
        /\ (\A i \in trims : policy[i] # "skip-row") =>
              "skip" \notin Range(Statements[k].params)
=============================================================================
