---------------------------- MODULE PresetStore ----------------------------
(***************************************************************************)
(* Import presets, their snapshots, the recycle bin and the audit of the   *)
(* preset manager: web/src/lib/importPresets.ts as ImportModal.tsx,        *)
(* Step3Map.tsx, Step4Preview.tsx and PresetManager.tsx use it.            *)
(*                                                                         *)
(* A preset is its key (connection, schema, table), a version, which       *)
(* presetEquals compares, and updatedAt.  Snapshots keep their order in    *)
(* the storage; the lists shown leave out those that have expired and are  *)
(* sorted by time, so a position stands for any of the others.             *)
(***************************************************************************)
EXTENDS Naturals, Sequences, FiniteSets, Functions, Ordered

CONSTANTS
    Keys,           \* the tables of the connection that presets exist for
    Versions,       \* contents of a preset
    None,           \* no preset, or nothing asked
    MaxSnapshots,   \* MAX_SNAPSHOTS
    MaxTombstones,  \* MAX_TOMBSTONES
    SnapshotTtl,    \* SNAPSHOT_TTL_MS, in the units of the clock
    MaxTime,        \* bound: the clock
    MaxSaves,       \* bound: presets saved
    MaxDeletes,     \* bound: presets deleted
    MaxAudits       \* bound: audits run

\* What is stored of a preset and of a snapshot; at is updatedAt.
Saved == [version : Versions, at : Nat]

\* What the constants have to satisfy.
StoreAssumption ==
    /\ IsFiniteSet(Keys) /\ Keys # {}
    /\ None \notin Keys /\ None \notin Saved /\ SnapshotTtl \in Nat /\ MaxTime \in Nat
    /\ MaxSnapshots \in Nat \ {0} /\ MaxTombstones \in Nat \ {0}
    /\ MaxSaves \in Nat /\ MaxDeletes \in Nat /\ MaxAudits \in Nat

VARIABLES
    now,        \* Date.now()
    presets,    \* key -> what is saved, or None
    snaps,      \* key -> its snapshots
    bin,        \* tombstones, newest first
    sel,        \* selSchema, selTable: the table the import is for
    bar,        \* delPresetRestore: the tombstone the 30 s bar can restore
    asked,      \* pendingTombstoneConfirm: the position and key asked about
    results,    \* presetAuditResults: key -> verdict
    auditing,   \* presets of the audit under way
    saves, deletes, audits

vars == <<now, presets, snaps, bin, sel, bar, asked, results, auditing, saves,
          deletes, audits>>

Verdicts == {"none", "ok", "dead"}
Tombstone == [key : Keys, version : Saved, snaps : Seq(Saved)]
Expired(p) == p.at + SnapshotTtl < now
First(s, n) == SubSeq(s, 1, IF Len(s) < n THEN Len(s) ELSE n)
Without(s, v) == Keeping(s, {i \in DOMAIN s : s[i].version # v})
Has(s, v) == \E i \in DOMAIN s : s[i].version = v

Init ==
    /\ now = 0 /\ presets = [k \in Keys |-> None] /\ snaps = [k \in Keys |-> <<>>]
    /\ bin = <<>> /\ bar = None /\ asked = None
    /\ sel = CHOOSE k \in Keys : TRUE
    /\ results = [k \in Keys |-> "none"] /\ auditing = {}
    /\ saves = 0 /\ deletes = 0 /\ audits = 0

-----------------------------------------------------------------------------
(* The table's own preset: saved when an import succeeds or by its button. *)

\* The version replaced goes to the end of the snapshots, and the end is what
\* is cut off.  It keeps its time, and may have expired by now.
SavePreset(v) ==
    /\ saves < MaxSaves /\ saves' = saves + 1
    /\ presets' = [presets EXCEPT ![sel] = [version |-> v, at |-> now]]
    /\ LET prev == presets[sel]
       IN snaps' = IF prev = None \/ prev.version = v THEN snaps
                   ELSE [snaps EXCEPT ![sel] =
                           First(Append(Without(@, prev.version), prev), MaxSnapshots)]
    /\ UNCHANGED <<bin, sel, bar, asked, results, auditing, deletes, audits>>

\* Mutant of RestoreSnapshot: the snapshot restored is not exchanged for the preset it replaces.
RestoreAndForget(i) ==
    /\ i \in DOMAIN snaps[sel] /\ ~Expired(snaps[sel][i])
    /\ presets' = [presets EXCEPT ![sel] = [snaps[sel][i] EXCEPT !.at = now]]
    /\ snaps' = [snaps EXCEPT ![sel] = RemoveAt(@, i)]
    /\ UNCHANGED <<bin, sel, bar, asked, results, auditing, saves, deletes, audits>>

\* One of those listed; the preset it replaces goes to the front, unless its
\* version is there, expired or not.
RestoreSnapshot(i) ==
    /\ i \in DOMAIN snaps[sel] /\ ~Expired(snaps[sel][i])
    /\ presets' = [presets EXCEPT ![sel] = [snaps[sel][i] EXCEPT !.at = now]]
    /\ LET removed == RemoveAt(snaps[sel], i)
           cur == presets[sel]
       IN snaps' = [snaps EXCEPT ![sel] =
                      IF cur = None \/ Has(removed, cur.version) THEN removed
                      ELSE First(<<cur>> \o removed, MaxSnapshots)]
    /\ UNCHANGED <<bin, sel, bar, asked, results, auditing, saves, deletes, audits>>

Deleted(ks) ==
    /\ presets' = [k \in Keys |-> IF k \in ks THEN None ELSE presets[k]]
    /\ snaps' = [k \in Keys |-> IF k \in ks THEN <<>> ELSE snaps[k]]

\* A tombstone has the snapshots that are listed.
Buried(k) ==
    [key |-> k, version |-> presets[k],
     snaps |-> Keeping(snaps[k], {i \in DOMAIN snaps[k] : ~Expired(snaps[k][i])})]

\* The order in which presets are listed: any order, the same at every turn.
AnyOrder(ks) == CHOOSE f \in [1..Cardinality(ks) -> ks] : IsInjective(f)

\* addDeletedPresetTombstone, for one key after the other; a key has one
\* tombstone.
Entombed(ks) ==
    LET order == AnyOrder(ks)
    IN  First([i \in DOMAIN order |-> Buried(order[i])]
                \o Keeping(bin, {i \in DOMAIN bin : bin[i].key \notin ks}), MaxTombstones)

\* The button of the mapping step, with neither a tombstone nor a bar.
ClearAndReset ==
    /\ presets[sel] # None /\ Deleted({sel})
    /\ UNCHANGED <<bin, sel, bar, asked, results, auditing, saves, deletes, audits>>

\* The confirmed delete of the preview step: a tombstone and a bar of 30 s.
DeleteOwn ==
    /\ presets[sel] # None /\ deletes < MaxDeletes /\ deletes' = deletes + 1
    /\ Deleted({sel}) /\ bin' = Entombed({sel}) /\ bar' = Head(bin')
    /\ UNCHANGED <<sel, asked, results, auditing, saves, audits>>

\* Over whatever was saved since; the tombstone stays.
UndoDelete ==
    /\ bar # None /\ bar' = None
    /\ presets' = [presets EXCEPT ![bar.key] = bar.version]
    /\ snaps' = [snaps EXCEPT ![bar.key] = First(@ \o bar.snaps, MaxSnapshots)]
    /\ UNCHANGED <<bin, sel, asked, results, auditing, saves, deletes, audits>>

BarExpires ==
    /\ bar # None /\ bar' = None
    /\ UNCHANGED <<presets, snaps, bin, sel, asked, results, auditing, saves, deletes, audits>>

-----------------------------------------------------------------------------
(* The preset manager.                                                     *)

\* In the step of the table, or by the jump of a listed preset.
ChooseTable(k) ==
    /\ sel # k /\ sel' = k
    /\ UNCHANGED <<presets, snaps, bin, bar, asked, results, auditing, saves, deletes, audits>>

\* An audit asks for the columns of every preset at once.
RunAudit ==
    /\ auditing = {} /\ auditing' = {k \in Keys : presets[k] # None} /\ auditing' # {}
    /\ audits < MaxAudits /\ audits' = audits + 1
    /\ UNCHANGED <<presets, snaps, bin, sel, bar, asked, results, saves, deletes>>

\* The verdicts replace those known; a preset deleted meanwhile gets one too.
AuditAnswer ==
    /\ auditing # {} /\ auditing' = {}
    /\ \E dead \in SUBSET auditing :
         results' = [k \in Keys |-> IF k \in dead THEN "dead"
                                    ELSE IF k \in auditing THEN "ok" ELSE "none"]
    /\ UNCHANGED <<presets, snaps, bin, sel, bar, asked, saves, deletes, audits>>

DeleteListed(k) ==
    /\ presets[k] # None /\ deletes < MaxDeletes /\ deletes' = deletes + 1
    /\ Deleted({k}) /\ bin' = Entombed({k})
    /\ results' = [results EXCEPT ![k] = "none"]
    /\ UNCHANGED <<sel, bar, asked, auditing, saves, audits>>

\* Allowed once every preset has a verdict; a verdict may be older than the preset.
Dead == {k \in Keys : presets[k] # None /\ results[k] = "dead"}

CleanupDead ==
    /\ Dead # {} /\ \A k \in Keys : presets[k] # None => results[k] # "none"
    /\ deletes < MaxDeletes /\ deletes' = deletes + 1
    /\ bin' = Entombed(Dead)
    /\ Deleted(Dead) /\ results' = [k \in Keys |-> "none"]
    /\ UNCHANGED <<sel, bar, asked, auditing, saves, audits>>

ClearCache ==
    /\ \E k \in Keys : results[k] # "none"
    /\ results' = [k \in Keys |-> "none"]
    /\ UNCHANGED <<presets, snaps, bin, sel, bar, asked, auditing, saves, deletes, audits>>

-----------------------------------------------------------------------------
(* The recycle bin.                                                        *)

RestoreTombstone(i) ==
    LET e == bin[i]
    IN /\ presets' = [presets EXCEPT ![e.key] = e.version]
       /\ snaps' = [snaps EXCEPT ![e.key] = First(@ \o e.snaps, MaxSnapshots)]
       /\ bin' = RemoveAt(bin, i)
       /\ UNCHANGED <<sel, bar, results, auditing, saves, deletes, audits>>

\* Restored at once, unless a preset of that key exists.
RestoreFree(i) ==
    /\ i \in DOMAIN bin /\ presets[bin[i].key] = None
    /\ RestoreTombstone(i) /\ UNCHANGED asked

AskRestore(i) ==
    /\ i \in DOMAIN bin /\ presets[bin[i].key] # None
    /\ asked' = [idx |-> i, key |-> bin[i].key] /\ asked' # asked
    /\ UNCHANGED <<presets, snaps, bin, sel, bar, results, auditing, saves, deletes, audits>>

\* Mutant of Confirming: the row is found by its position alone.
ConfirmsByPosition(i) ==
    asked # None /\ i \in DOMAIN bin /\ asked.idx = i /\ presets[bin[i].key] # None

\* The row that shows the confirm button.
Confirming(i) ==
    /\ asked # None /\ i \in DOMAIN bin
    /\ asked = [idx |-> i, key |-> bin[i].key] /\ presets[bin[i].key] # None

ConfirmRestore(i) ==
    /\ Confirming(i) /\ RestoreTombstone(i) /\ asked' = None

DismissRestore ==
    /\ \E i \in DOMAIN bin : Confirming(i)
    /\ asked' = None
    /\ UNCHANGED <<presets, snaps, bin, sel, bar, results, auditing, saves, deletes, audits>>

Purge(i) ==
    /\ i \in DOMAIN bin /\ bin' = RemoveAt(bin, i)
    /\ UNCHANGED <<presets, snaps, sel, bar, asked, results, auditing, saves, deletes, audits>>

PurgeAll ==
    /\ bin # <<>> /\ bin' = <<>>
    /\ UNCHANGED <<presets, snaps, sel, bar, asked, results, auditing, saves, deletes, audits>>

-----------------------------------------------------------------------------

\* Time passes.
Tick ==
    /\ now < MaxTime /\ now' = now + 1
    /\ UNCHANGED <<presets, snaps, bin, sel, bar, asked, results, auditing, saves, deletes, audits>>

Step ==
    \/ ClearAndReset \/ DeleteOwn \/ UndoDelete \/ BarExpires
    \/ RunAudit \/ AuditAnswer \/ CleanupDead \/ ClearCache
    \/ DismissRestore \/ PurgeAll
    \/ \E v \in Versions : SavePreset(v)
    \/ \E k \in Keys : ChooseTable(k) \/ DeleteListed(k)
    \/ \E i \in 1..MaxSnapshots : RestoreSnapshot(i)
    \/ \E i \in 1..MaxTombstones :
         RestoreFree(i) \/ AskRestore(i) \/ ConfirmRestore(i) \/ Purge(i)

Next == (Step /\ UNCHANGED now) \/ Tick

Spec == Init /\ [][Next]_vars

-----------------------------------------------------------------------------

TypeOK ==
    /\ now \in 0..MaxTime /\ presets \in [Keys -> Saved \union {None}]
    /\ \A k \in Keys : snaps[k] \in Seq(Saved) /\ Len(snaps[k]) <= MaxSnapshots
    /\ \A i \in DOMAIN bin : bin[i] \in Tombstone
    /\ Len(bin) <= MaxTombstones /\ sel \in Keys
    /\ bar # None => bar \in Tombstone
    /\ asked # None => asked \in [idx : 1..MaxTombstones, key : Keys]
    /\ results \in [Keys -> Verdicts] /\ auditing \subseteq Keys

Listed(s, v) == \E i \in DOMAIN s : s[i].version = v /\ ~Expired(s[i])
Kept(k, v) ==
    \/ Listed(snaps'[k], v)
    \/ \E i \in DOMAIN bin' : bin'[i].key = k /\ bin'[i].version.version = v

Replaced(k) ==
    presets[k] # None /\ (presets'[k] = None \/ presets'[k].version # presets[k].version)

\* A version that leaves the store can be got back, from the snapshots that
\* are listed or from the bin, except in the seven ways the program has to
\* lose one: a save over a full list of snapshots, the reset of the mapping
\* step, a restore over a newer preset by the bar or by the confirmed button
\* of the bin, a cleanup of more dead presets than the bin holds, a save or a
\* restore over a preset older than the time snapshots live, which has expired
\* as it gets there, and a restore over a preset whose version is among the
\* snapshots but has expired there.
LostOnlySoStep ==
    \A k \in Keys :
      Replaced(k)
        => \/ Kept(k, presets[k].version)
           \/ Len(snaps[k]) = MaxSnapshots /\ saves' # saves
           \/ ClearAndReset \/ UndoDelete
           \/ \E i \in DOMAIN bin : ConfirmRestore(i)
           \/ CleanupDead /\ Cardinality(Dead) > MaxTombstones
           \/ Expired(presets[k]) /\ (saves' # saves \/ \E i \in 1..MaxSnapshots : RestoreSnapshot(i))
           \/ /\ \E i \in 1..MaxSnapshots : RestoreSnapshot(i)
              /\ \E i \in DOMAIN snaps[k] :
                   snaps[k][i].version = presets[k].version /\ Expired(snaps[k][i])
LostOnlySo == [][LostOnlySoStep]_vars

\* The bin puts a preset over another only if the user was asked about that
\* very table, however the bin has changed since the question.
OverwriteIsConfirmedStep ==
    Len(bin') < Len(bin)
      => \A k \in Keys : Replaced(k) => asked # None /\ asked.key = k
OverwriteIsConfirmed == [][OverwriteIsConfirmedStep]_vars
=============================================================================
