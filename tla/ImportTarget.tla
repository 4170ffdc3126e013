---------------------------- MODULE ImportTarget ----------------------------
(***************************************************************************)
(* The import wizard from the choice of its target table to the import:    *)
(* loading the table's columns, applying the stored preset or inferring a  *)
(* mapping, and the ways a stored preset or a snapshot replaces the        *)
(* configuration (ImportModal.tsx, Step2Table.tsx, Step3Map.tsx,           *)
(* Step4Preview.tsx, applyPreset and diffPreset of importPresets.ts).      *)
(*                                                                         *)
(* A configuration is a mapping, from the places of the file's columns to  *)
(* the table's, and options: the mode, and whether transforms are set.     *)
(* The file is parsed.  A column is inferred where its name is the same    *)
(* (MappingStep has the scores); presets are stored as in PresetStore.     *)
(* No snapshot grows too old to be listed while the wizard is open.        *)
(***************************************************************************)
EXTENDS Naturals, Sequences, FiniteSets, Functions, Ordered

CONSTANTS
    Schemas, Tables,
    FirstSchema,    \* the first one listed
    Exists,         \* <<schema, table>> -> its columns
    Names,          \* the names of the file's columns, in order
    Stored,         \* <<schema, table>> -> the preset of an earlier session
    StoredSnaps,    \* <<schema, table>> -> its snapshots
    None,
    MaxSnapshots,   \* MAX_SNAPSHOTS
    MaxHistory,     \* MAX_FIX_HISTORY
    MaxActs         \* bound: things the user does

Targets == Schemas \X Tables
Options == [mode : {"insert", "upsert"}, fixed : BOOLEAN]

\* The columns there are, and those that were mapped in an earlier session.
Columns ==
    LET old == (Range(Stored) \ {None}) \union UNION {Range(s) : s \in Range(StoredSnaps)}
    IN  UNION Range(Exists) \union (UNION {Range(p.map) : p \in old} \ {None})
Preset == [map : [DOMAIN Names -> Columns \union {None}], opts : Options]

\* What the constants have to satisfy.
TargetAssumption ==
    /\ FirstSchema \in Schemas /\ None \notin Schemas \union Tables
    /\ None \notin Targets /\ None \notin Preset
    /\ DOMAIN Exists = Targets /\ Stored \in [Targets -> Preset \union {None}]
    /\ StoredSnaps \in [Targets -> Seq(Preset)]
    /\ {MaxSnapshots, MaxHistory} \subseteq Nat \ {0} /\ MaxActs \in Nat

VARIABLES
    step, schema, table,    \* selSchema, selTable
    asked,      \* listSchemas asked while no schema was chosen
    loading,    \* the target whose listColumns is not cancelled, or None
    colsOf,     \* history: the target that cols belongs to
    cols, map, opts,
    pending,    \* pendingQualitySuggestions is set
    notice,     \* presetApplied: [gone, new], or None
    applied,    \* appliedPreset
    presets, snaps,
    undo,       \* undoStack: options
    arming,     \* applyOldConfirmAt
    asking,     \* pendingRestoreConfirm: [at, snap], or None
    stray,      \* history: the target was changed or left under a loaded table
    acts

config == <<cols, colsOf, map, opts, notice, applied>>
store == <<presets, snaps>>
panels == <<arming, asking>>
vars == <<step, schema, table, asked, loading, config, pending, store, undo,
          panels, stray, acts>>

Steps == <<"input", "table", "map", "preview">>
At(s) == CHOOSE i \in DOMAIN Steps : Steps[i] = s
Sel == <<schema, table>>
NoMap == [i \in DOMAIN Names |-> None]
Written(mp) == Range(mp) \ {None}

Init ==
    /\ step = "input" /\ schema = None /\ table = None
    /\ asked = FALSE /\ loading = None
    /\ cols = {} /\ colsOf = None /\ map = NoMap
    /\ opts = [mode |-> "insert", fixed |-> FALSE]
    /\ notice = None /\ applied = None /\ pending = FALSE
    /\ presets = Stored /\ snaps = StoredSnaps /\ undo = <<>>
    /\ arming = FALSE /\ asking = None /\ stray = FALSE /\ acts = 0

-----------------------------------------------------------------------------
(* Pure parts.                                                             *)

Inferred(cs) == [i \in DOMAIN Names |-> IF Names[i] \in cs THEN Names[i] ELSE None]

\* Mutant of Fitted: columns the table lost stay mapped.
FittedAsSaved(p, cs) == p.map

\* applyPreset
Fitted(p, cs) ==
    [i \in DOMAIN Names |-> IF p.map[i] \in cs THEN p.map[i] ELSE None]

Report(p, cs) ==
    [gone |-> Written(p.map) \ cs, new |-> cs \ Written(p.map)]

\* diffPreset of the current configuration and p: sets of columns, so that two
\* columns mapped the other way round are no difference, and options.
Aligned(p) == Written(map) = Written(p.map) /\ opts = p.opts

-----------------------------------------------------------------------------
(* The target.                                                             *)

\* The effects that run when the step or the target changed: columns are
\* asked for, arming ends off the preview step, undo entries end with a target.
Moved(s, k) ==
    /\ acts < MaxActs /\ acts' = acts + 1
    /\ step' = s /\ schema' = k[1] /\ table' = k[2]
    /\ loading' = CASE <<s, k>> = <<step, Sel>>         -> loading
                    [] s = "table" /\ None \notin Range(k) -> k
                    [] OTHER                            -> None
    /\ asked' = (asked \/ (s = "table" /\ step # "table" /\ k[1] = None))
    /\ undo' = IF k = Sel THEN undo ELSE <<>>
    /\ arming' = (arming /\ s = "preview")
    /\ UNCHANGED asking

Cleared ==
    /\ cols' = {} /\ colsOf' = None /\ map' = NoMap
    /\ UNCHANGED <<opts, notice, applied>>

\* The badges, Ctrl+Alt+1..4, Ctrl+Alt+[ and ], and the footers.
Goto(s) ==
    /\ s # step
    /\ At(s) > At(step) => /\ s \in {"map", "preview"} => table # None
                           /\ s = "preview" => Written(map) # {}
    /\ Moved(s, Sel)
    /\ stray' = (stray \/ (s \in {"map", "preview"} /\ colsOf \notin {None, Sel}))
    /\ UNCHANGED <<config, pending, store>>

AcceptSuggestions ==
    /\ step = "input" /\ ~pending /\ pending' = TRUE
    /\ acts < MaxActs /\ acts' = acts + 1
    /\ UNCHANGED <<step, schema, table, asked, loading, config, store, undo, panels, stray>>

PickSchema(s) ==
    /\ step = "table" /\ ~asked /\ s # schema
    /\ Moved(step, <<s, None>>) /\ Cleared
    /\ UNCHANGED <<pending, store, stray>>

PickTable(t) ==
    /\ step = "table" /\ schema # None /\ t # table
    /\ Moved(step, <<schema, t>>) /\ Cleared
    /\ UNCHANGED <<pending, store, stray>>

\* A recently used table of the table step.
PickRecent(k) ==
    /\ step = "table" /\ presets[k] # None
    /\ Moved(step, k) /\ Cleared
    /\ UNCHANGED <<pending, store, stray>>

\* A row of the import history.
JumpTo(k) ==
    /\ Moved("table", k) /\ Cleared
    /\ UNCHANGED <<pending, store, stray>>

\* A preset of the manager; nothing is cleared.
JumpToPreset(k) ==
    /\ presets[k] # None /\ Moved("table", k)
    /\ UNCHANGED <<config, pending, store, stray>>

\* No schema was chosen when it was asked; one may be now.
SchemasArrive ==
    /\ asked /\ asked' = FALSE
    /\ schema' = FirstSchema
    /\ loading' = IF schema = FirstSchema THEN loading
                  ELSE IF step = "table" /\ table # None THEN <<FirstSchema, table>>
                  ELSE None
    /\ undo' = IF schema = FirstSchema THEN undo ELSE <<>>
    /\ stray' = (stray \/ schema \notin {None, FirstSchema})
    /\ UNCHANGED <<step, table, config, pending, store, panels, acts>>

Configured(p, cs) ==
    /\ map' = Fitted(p, cs) /\ opts' = p.opts /\ notice' = Report(p, cs)

\* listColumns answers: the stored preset is applied, or a mapping inferred;
\* accepted suggestions go over either.
ColumnsArrive(k) ==
    /\ loading = k /\ loading' = None /\ step' = "map"
    /\ cols' = Exists[k] /\ colsOf' = k /\ applied' = presets[k]
    /\ LET p == presets[k]
           os == IF p = None THEN opts ELSE p.opts
       IN /\ map' = IF p = None THEN Inferred(cols') ELSE Fitted(p, cols')
          /\ notice' = IF p = None THEN None ELSE Report(p, cols')
          /\ opts' = [os EXCEPT !.fixed = @ \/ pending]
    /\ pending' = FALSE
    /\ UNCHANGED <<schema, table, asked, store, undo, panels, stray, acts>>

ColumnsFail ==
    /\ loading # None /\ loading' = None
    /\ UNCHANGED <<step, schema, table, asked, config, pending, store, undo, panels, stray, acts>>

-----------------------------------------------------------------------------
(* The configuration, in the mapping step and in the preview.              *)

Acts(s) ==
    /\ step = s /\ acts < MaxActs /\ acts' = acts + 1
    /\ UNCHANGED <<step, schema, table, asked, loading, pending, stray, cols, colsOf>>

EditMap(i, c) ==
    /\ c # map[i] /\ Acts("map") /\ map' = [map EXCEPT ![i] = c]
    /\ UNCHANGED <<opts, notice, applied, store, undo, panels>>

EditOpts(o) ==
    /\ o # opts /\ Acts("map") /\ opts' = o
    /\ UNCHANGED <<map, notice, applied, store, undo, panels>>

Pushed(os) == SubSeq(<<os>> \o undo, 1,
                     IF Len(undo) < MaxHistory THEN Len(undo) + 1 ELSE MaxHistory)

\* Deletes the preset and keeps the options.
ClearAndReset ==
    /\ notice # None /\ Acts("map")
    /\ map' = Inferred(cols) /\ notice' = None /\ applied' = None
    /\ presets' = [presets EXCEPT ![Sel] = None] /\ snaps' = [snaps EXCEPT ![Sel] = <<>>]
    /\ UNCHANGED <<opts, undo, panels>>

\* The difference is shown by way of an undo entry.
CompareCurrent ==
    /\ notice # None /\ applied # None /\ Acts("map") /\ undo' = Pushed(applied.opts)
    /\ UNCHANGED <<map, opts, notice, applied, store, panels>>

UndoFix ==
    /\ undo # <<>> /\ Acts(step) /\ opts' = Head(undo) /\ undo' = Tail(undo)
    /\ UNCHANGED <<map, notice, applied, store, panels>>

\* restoreSnapshot, as in PresetStore: a preset is the same by its content.
Exchanged(i) ==
    LET rest == RemoveAt(snaps[Sel], i)
        all == IF presets[Sel] = None \/ Contains(rest, presets[Sel]) THEN rest
               ELSE <<presets[Sel]>> \o rest
    IN /\ presets' = [presets EXCEPT ![Sel] = snaps[Sel][i]]
       /\ snaps' = [snaps EXCEPT ![Sel] = SubSeq(all, 1, IF Len(all) < MaxSnapshots THEN Len(all) ELSE MaxSnapshots)]

\* From the mapping step's list: at once, and without an undo entry.
RestoreHere(i) ==
    /\ step = "map" /\ notice # None /\ i \in DOMAIN snaps[Sel] /\ Acts("map")
    /\ Exchanged(i) /\ Configured(snaps[Sel][i], cols)
    /\ UNCHANGED <<applied, undo, panels>>

DoRestore(i) ==
    /\ Exchanged(i) /\ Configured(snaps[Sel][i], cols)
    /\ applied' = snaps[Sel][i] /\ undo' = Pushed(opts)

Listed(i) ==
    step = "preview" /\ presets[Sel] # None /\ i \in DOMAIN snaps[Sel] /\ cols # {}

\* From the preview's chip: at once when diffPreset finds nothing.
RestoreAligned(i) ==
    /\ Listed(i) /\ Aligned(snaps[Sel][i]) /\ Acts("preview") /\ DoRestore(i)
    /\ UNCHANGED panels

AskRestore(i) ==
    /\ Listed(i) /\ ~Aligned(snaps[Sel][i]) /\ Acts("preview")
    /\ asking' = [at |-> i, snap |-> snaps[Sel][i]]
    /\ UNCHANGED <<map, opts, notice, applied, store, undo, arming>>

\* The confirm bar shows for the row that was asked about.
Asked == asking # None /\ Listed(asking.at) /\ snaps[Sel][asking.at] = asking.snap

ConfirmRestore ==
    /\ Asked /\ Acts("preview") /\ DoRestore(asking.at) /\ asking' = None
    /\ UNCHANGED arming

\* Cancelled, or the differences listed instead.
DismissRestore ==
    /\ Asked /\ Acts("preview") /\ asking' = None
    /\ UNCHANGED <<map, opts, notice, applied, store, undo, arming>>

\* Apply the old preset: asked for, confirmed within 5 s or dropped.
ArmApply ==
    /\ ~arming /\ step = "preview" /\ presets[Sel] # None /\ cols # {} /\ Acts("preview") /\ arming' = TRUE
    /\ UNCHANGED <<map, opts, notice, applied, store, undo, asking>>

ApplyOld ==
    /\ arming /\ presets[Sel] # None /\ Acts("preview") /\ arming' = FALSE
    /\ Configured(presets[Sel], cols) /\ applied' = presets[Sel] /\ undo' = Pushed(opts)
    /\ UNCHANGED <<store, asking>>

DisarmApply ==
    /\ arming /\ arming' = FALSE
    /\ UNCHANGED <<step, schema, table, asked, loading, config, pending, store, undo, asking, stray, acts>>

\* An import that succeeded saves the configuration as the target's preset.
Imported ==
    /\ Written(map) # {} /\ Acts("preview")
    /\ LET old == presets[Sel]
           now == [map |-> map, opts |-> opts]
           all == Append(Keeping(snaps[Sel], {i \in DOMAIN snaps[Sel] : snaps[Sel][i] # old}), old)
       IN /\ presets' = [presets EXCEPT ![Sel] = now]
          /\ snaps' = IF old \in {None, now} THEN snaps
                      ELSE [snaps EXCEPT ![Sel] = SubSeq(all, 1, IF Len(all) < MaxSnapshots THEN Len(all) ELSE MaxSnapshots)]
    /\ undo' = <<>> /\ arming' = FALSE
    /\ UNCHANGED <<map, opts, notice, applied, asking>>

Next ==
    \/ \E s \in Range(Steps) : Goto(s)
    \/ AcceptSuggestions
    \/ \E s \in Schemas : PickSchema(s)
    \/ \E t \in Tables : PickTable(t)
    \/ \E k \in Targets : PickRecent(k) \/ JumpTo(k) \/ JumpToPreset(k) \/ ColumnsArrive(k)
    \/ SchemasArrive \/ ColumnsFail
    \/ \E i \in DOMAIN Names, c \in cols \union {None} : EditMap(i, c)
    \/ \E o \in Options : EditOpts(o)
    \/ ClearAndReset \/ CompareCurrent \/ UndoFix
    \/ \E i \in 1..MaxSnapshots : RestoreHere(i) \/ RestoreAligned(i) \/ AskRestore(i)
    \/ ConfirmRestore \/ DismissRestore \/ ArmApply \/ ApplyOld \/ DisarmApply
    \/ Imported

Spec == Init /\ [][Next]_vars

-----------------------------------------------------------------------------
(* Properties.                                                             *)

TypeOK ==
    /\ step \in Range(Steps) /\ opts \in Options /\ cols \subseteq Columns
    /\ schema \in Schemas \union {None} /\ table \in Tables \union {None}
    /\ loading \in Targets \union {None} /\ colsOf \in Targets \union {None}
    /\ map \in [DOMAIN Names -> Columns \union {None}]
    /\ {asked, pending, arming, stray} \subseteq BOOLEAN
    /\ presets \in [Targets -> Preset \union {None}]
    /\ undo \in Seq(Options)

\* Whatever the order of jumps, steps and answers, what is mapped in the
\* mapping step and the preview are columns of the table the import will
\* write.  Two ways out are left to hurried users: a list of schemas that
\* answers after a target was chosen by a jump, and leaving the table step
\* before the columns of a jumped-to preset arrived.
ConfigFitsTarget ==
    step \in {"map", "preview"} /\ ~stray /\ Written(map) # {} =>
        colsOf = Sel /\ Written(map) \subseteq Exists[Sel]

=============================================================================
