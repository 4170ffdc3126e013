--------------------------- MODULE BackupPreview ---------------------------
(***************************************************************************)
(* Importing a backup of presets: preview, selection, audit, confirmation, *)
(* apply, undo within seconds, and the whitelist of risky items.           *)
(* web/src/components/import/PresetManager.tsx, ImportModal.tsx and        *)
(* web/src/lib/importPresets.ts, importBackupPreview.ts, riskWhitelist.ts. *)
(*                                                                         *)
(* An item is a preset or the snapshots of a key; the selection, the audit *)
(* and the whitelist go by the key alone.  The content of an item is a     *)
(* version.                                                                *)
(***************************************************************************)
EXTENDS Naturals, FiniteSets

CONSTANTS
    Keys,           \* connection, schema and table
    Foreign,        \* keys of another connection
    Big,            \* preset keys whose overwriting would change much (diff > 3)
    Files,          \* backups: functions from items to versions
    None,           \* no version, file, preview or undo
    UndoSeconds,    \* the undo window
    MaxImports,     \* bound: files read
    MaxWrites       \* bound: presets deleted meanwhile

Items == Keys \X {"preset", "snapshot"}
Key(i) == i[1]
Kind(i) == i[2]

\* What the constants have to satisfy.
BackupAssumption ==
    /\ Foreign \subseteq Keys /\ Big \subseteq Keys
    /\ \A f \in Files : DOMAIN f \subseteq Items /\ DOMAIN f # {}
    /\ UndoSeconds \in Nat \ {0} /\ MaxImports \in Nat /\ MaxWrites \in Nat

Views == [action : {"all", "overwrite"}, risk : {"all", "high"}]

VARIABLES
    store,      \* item -> version, or None: the presets and snapshots stored
    white,      \* riskWhitelist: keys
    reading,    \* the file being read, with the whitelist of that moment
    pending,    \* backupPending: file, items listed, those that overwrite
    selected,   \* backupSelected: keys
    view,       \* the filters
    audit,      \* backupItemAudit: key -> "none", "ok" or "dead"
    auditing,   \* audits under way: sets of keys
    confirming, \* backupConfirmOverlayOpen
    undo,       \* pendingBackupUndo: the store to go back to
    left,       \* backupUndoLeft
    before,     \* the store before the last apply
    picked,     \* keys ticked by hand since the preview opened or they were unticked
    imports, writes

vars == <<store, white, reading, pending, selected, view, audit, auditing,
          confirming, undo, left, before, picked, imports, writes>>

Unaudited == [k \in Keys |-> "none"]
AllShown == [action |-> "all", risk |-> "all"]

Init ==
    /\ store = [i \in Items |-> None] /\ white = {} /\ reading = None
    /\ pending = None /\ selected = {} /\ view = AllShown
    /\ audit = Unaudited /\ auditing = {} /\ confirming = FALSE
    /\ undo = None /\ left = 0 /\ before = store /\ picked = {}
    /\ imports = 0 /\ writes = 0

-----------------------------------------------------------------------------

Open == pending # None
Listed == IF Open THEN pending.items ELSE {}
Overwrites(i) == i \in pending.over
IsBig(i) == Kind(i) = "preset" /\ Overwrites(i) /\ Key(i) \in Big
Dead(i) == audit[Key(i)] = "dead"

\* computeItemRiskScore reaches "high" by a dead audit or by a large diff; a
\* foreign key alone is a middling risk.
HighRisk(i) == Kind(i) = "preset" /\ (Dead(i) \/ IsBig(i))

\* What the buttons for the current filter go by: the risk filter is not asked.
Matched == {i \in Listed : view.action = "all" \/ Overwrites(i)}
\* What the list shows.
Visible == {i \in Matched : view.risk = "all" \/ HighRisk(i)}
KeysOf(s) == {Key(i) : i \in s}

\* Ticks and unticks by hand.
Pick(ks) ==
    /\ selected' = ks /\ ks # selected
    /\ picked' = (picked \ (selected \ ks)) \union (ks \ selected)
    /\ UNCHANGED <<store, white, reading, pending, view, audit, auditing,
                   confirming, undo, left, before, imports, writes>>

-----------------------------------------------------------------------------
(* A file.                                                                 *)

ChooseFile(f) ==
    /\ reading = None /\ imports < MaxImports /\ imports' = imports + 1
    /\ reading' = [file |-> f, white |-> white]
    /\ UNCHANGED <<store, white, pending, selected, view, audit, auditing,
                   confirming, undo, left, before, picked, writes>>

\* The preview lists what is not whitelisted and ticks what is neither of
\* another connection nor a large overwrite; a key is ticked by either kind.
FileRead ==
    LET f == reading.file
        items == {i \in DOMAIN f : Key(i) \notin reading.white}
        over == {i \in items : store[i] # None}
        big(i) == Kind(i) = "preset" /\ i \in over /\ Key(i) \in Big
        own == {i \in items : Kind(i) = "preset" /\ Key(i) \notin Foreign}
    IN /\ reading # None /\ reading' = None
       /\ IF items = {} THEN UNCHANGED <<pending, selected, audit, auditing, picked>>
          ELSE /\ pending' = [file |-> f, items |-> items, over |-> over]
               /\ selected' = {Key(i) : i \in {j \in items : Key(j) \notin Foreign /\ ~big(j)}}
               /\ audit' = Unaudited /\ picked' = {}
               /\ auditing' = IF own = {} THEN auditing
                              ELSE auditing \union {KeysOf(own)}
       /\ UNCHANGED <<store, white, view, confirming, undo, left, before, imports, writes>>

\* Mutant of Verdicts: the verdicts come without the effect that unticks.
VerdictsOnly(ks, dead) ==
    /\ audit' = [k \in Keys |-> IF k \in dead THEN "dead"
                                ELSE IF k \in ks THEN "ok" ELSE audit[k]]
    /\ UNCHANGED <<selected, picked>>

\* Every change of the verdicts unticks all dead items, old ones included.
Verdicts(ks, dead) ==
    /\ audit' = [k \in Keys |-> IF k \in dead THEN "dead"
                                ELSE IF k \in ks THEN "ok" ELSE audit[k]]
    /\ LET gone == IF Open THEN {k \in Keys : audit'[k] = "dead"} ELSE {}
       IN selected' = selected \ gone /\ picked' = picked \ gone

\* It is merged into whatever preview is open by now.
AuditAnswer(ks) ==
    /\ ks \in auditing /\ auditing' = auditing \ {ks}
    /\ \E dead \in SUBSET ks : Verdicts(ks, dead)
    /\ UNCHANGED <<store, white, reading, pending, view, confirming, undo, left,
                   before, imports, writes>>

ReAudit ==
    LET again == {k \in KeysOf({i \in Listed : Kind(i) = "preset"}) \ Foreign :
                    audit[k] # "ok"}
    IN /\ Open /\ auditing = {} /\ again # {} /\ \E k \in Keys : audit[k] = "dead"
       /\ auditing' = {again}
       /\ UNCHANGED <<store, white, reading, pending, selected, view, audit,
                      confirming, undo, left, before, picked, imports, writes>>

-----------------------------------------------------------------------------
(* The preview.                                                            *)

SetView(v) ==
    /\ Open /\ v # view /\ view' = v
    /\ UNCHANGED <<store, white, reading, pending, selected, audit, auditing,
                   confirming, undo, left, before, picked, imports, writes>>

ResetView ==
    /\ Open /\ view # AllShown /\ view' = AllShown
    /\ UNCHANGED <<store, white, reading, pending, selected, audit, auditing,
                   confirming, undo, left, before, picked, imports, writes>>

Toggle(i) ==
    /\ i \in Visible
    /\ Pick(IF Key(i) \in selected THEN selected \ {Key(i)} ELSE selected \union {Key(i)})

SelectMatched == Open /\ Pick(selected \union KeysOf(Matched))
InvertMatched ==
    /\ Open /\ Matched # {}
    \* Each item flips its key, so a key with both items stays as it was.
    /\ LET flips(k) == Cardinality({i \in Matched : Key(i) = k}) = 1
       IN Pick({k \in Keys : (k \in selected) # flips(k)})
SelectAll == Open /\ Pick(KeysOf(Listed))
SelectNone == Open /\ Pick({})
\* Shift+A.
InvertAll == Open /\ Pick(KeysOf(Listed) \ selected)

\* Keeps what is selected, own, alive and not a large overwrite.
SelectSafe ==
    /\ Open
    /\ Pick(KeysOf({i \in Listed : Key(i) \in selected /\ ~Dead(i)
                                     /\ Key(i) \notin Foreign /\ ~IsBig(i)}))

Reset ==
    /\ pending' = None /\ selected' = {} /\ audit' = Unaudited /\ picked' = {}
    /\ view' = [view EXCEPT !.action = "all"] /\ confirming' = FALSE

CancelBackup ==
    /\ Open /\ Reset
    /\ UNCHANGED <<store, white, reading, auditing, undo, left, before, imports, writes>>

ConfirmApply ==
    /\ Open /\ selected # {} /\ ~confirming /\ confirming' = TRUE
    /\ UNCHANGED <<store, white, reading, pending, selected, view, audit, auditing,
                   undo, left, before, picked, imports, writes>>

\* Escape, the button, or a bar of the histogram.
CloseConfirm ==
    /\ Open /\ confirming /\ confirming' = FALSE
    /\ UNCHANGED <<store, white, reading, pending, selected, view, audit, auditing,
                   undo, left, before, picked, imports, writes>>

Risky(i) == Dead(i) \/ Key(i) \in Foreign \/ IsBig(i)

DropRisky ==
    /\ confirming /\ Open
    /\ Pick(selected \ KeysOf({i \in Listed : Risky(i)}))

-----------------------------------------------------------------------------
(* Apply and undo.                                                         *)

Chosen == {i \in Listed : Key(i) \in selected}

\* applyPresetsBackup with overwriting allowed.
Written(i) == IF i \in Chosen THEN pending.file[i] ELSE store[i]

\* Mutant of Applied: the store to go back to is read after the apply.
SnapshotLate ==
    /\ store' = [i \in Items |-> Written(i)]
    /\ before' = store /\ undo' = store' /\ left' = UndoSeconds

Applied ==
    /\ store' = [i \in Items |-> Written(i)]
    /\ before' = store /\ undo' = store /\ left' = UndoSeconds

DoApply ==
    /\ Open /\ confirming
    /\ IF Chosen = {}
       THEN confirming' = FALSE /\ UNCHANGED <<store, before, undo, left, pending,
                                               selected, audit, picked, view>>
       ELSE Applied /\ Reset
    /\ UNCHANGED <<white, reading, auditing, imports, writes>>

\* The button counts down to its end, Ctrl+Z works half a second longer but
\* not while another preview is open.
Undo ==
    /\ undo # None /\ (left > 0 \/ ~Open)
    /\ store' = undo /\ undo' = None /\ left' = 0
    /\ UNCHANGED <<white, reading, pending, selected, view, audit, auditing,
                   confirming, before, picked, imports, writes>>

Tick ==
    /\ undo # None
    /\ IF left > 0 THEN left' = left - 1 /\ UNCHANGED undo
                   ELSE undo' = None /\ UNCHANGED left
    /\ UNCHANGED <<store, white, reading, pending, selected, view, audit, auditing,
                   confirming, before, picked, imports, writes>>

\* A preset deleted from the manager's own list while all this is open.
DeleteListed(k) ==
    /\ store[<<k, "preset">>] # None /\ writes < MaxWrites /\ writes' = writes + 1
    /\ store' = [i \in Items |-> IF Key(i) = k THEN None ELSE store[i]]
    /\ UNCHANGED <<white, reading, pending, selected, view, audit, auditing,
                   confirming, undo, left, before, picked, imports>>

-----------------------------------------------------------------------------
(* The whitelist.                                                          *)

Whitelisted(ks) ==
    /\ white' = white \union ks
    /\ UNCHANGED <<store, reading, pending, view, audit, auditing, confirming,
                   undo, left, before, imports, writes>>

\* From the menu of a risky item: off the selection, though still listed.
AddToWhitelist(k) ==
    /\ confirming /\ k \in KeysOf({i \in Chosen : Risky(i)}) \ white
    /\ selected' = selected \ {k} /\ picked' = picked \ {k} /\ Whitelisted({k})

BatchAdd ==
    LET high == KeysOf({i \in Listed : HighRisk(i)}) \ white
    IN /\ high # {}
       /\ selected' = selected \ high /\ picked' = picked \ high /\ Whitelisted(high)

\* The backup's own whitelist, or a file of one: the selection stays.
MergeWhitelist(ks) ==
    /\ ~(ks \subseteq white) /\ UNCHANGED <<selected, picked>> /\ Whitelisted(ks)

\* By hand, by a file that replaces it, or 30 days after they were added.
RemoveFromWhitelist(ks) ==
    /\ ks # {} /\ ks \subseteq white /\ white' = white \ ks
    /\ UNCHANGED <<store, reading, pending, selected, view, audit, auditing,
                   confirming, undo, left, before, picked, imports, writes>>

-----------------------------------------------------------------------------

Next ==
    \/ \E f \in Files : ChooseFile(f)
    \/ \E ks \in auditing : AuditAnswer(ks)
    \/ FileRead \/ ReAudit \/ ResetView
    \/ \E v \in Views : SetView(v)
    \/ \E i \in Items : Toggle(i)
    \/ SelectMatched \/ InvertMatched \/ SelectAll \/ SelectNone \/ InvertAll
    \/ SelectSafe \/ CancelBackup \/ ConfirmApply \/ CloseConfirm \/ DropRisky
    \/ DoApply \/ Undo \/ Tick \/ BatchAdd
    \/ \E k \in Keys : DeleteListed(k) \/ AddToWhitelist(k)
    \/ \E ks \in SUBSET Keys : MergeWhitelist(ks) \/ RemoveFromWhitelist(ks)

Spec == Init /\ [][Next]_vars

-----------------------------------------------------------------------------

TypeOK ==
    /\ white \subseteq Keys /\ selected \subseteq Keys /\ picked \subseteq selected
    /\ view \in Views /\ audit \in [Keys -> {"none", "ok", "dead"}]
    /\ auditing \subseteq SUBSET Keys /\ confirming \in BOOLEAN
    /\ Open => pending.over \subseteq pending.items /\ pending.items \subseteq DOMAIN pending.file
    /\ left \in 0..UndoSeconds

\* An item of another connection, or one whose table the audit found missing,
\* is written to the store only if the user ticked it after that was known,
\* whichever buttons, answers and re-audits come between.
RiskyIsPickedStep ==
    Open /\ pending' = None
      => \A i \in Items : store'[i] # store[i] /\ (Dead(i) \/ Key(i) \in Foreign)
           => Key(i) \in picked
RiskyIsPicked == [][RiskyIsPickedStep]_vars

\* Undoing goes back to the store before the last backup applied, also after
\* a second backup was applied within the seconds of the first, a preview was
\* cancelled, or a preset was deleted meanwhile.
UndoIsExactStep ==
    left' = 0 /\ undo # None /\ undo' = None /\ store' # store => store' = before
UndoIsExact == [][UndoIsExactStep]_vars
=============================================================================
