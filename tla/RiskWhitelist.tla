--------------------------- MODULE RiskWhitelist ---------------------------
(***************************************************************************)
(* The whitelist of risky backup items and its panel: ImportModal.tsx and  *)
(* PresetManager.tsx over web/src/lib/riskWhitelist.ts, whitelistUtils.ts. *)
(*                                                                         *)
(* Each entry has an age in place of its addedAt; an entry older than TTL  *)
(* has expired.  Keys are numbers, which give the order of the names.      *)
(***************************************************************************)
EXTENDS Naturals, FiniteSets

CONSTANTS
    Keys,       \* keys, as numbers
    TTL,        \* WHITELIST_TTL_MS, in the steps ages are counted in
    NoEntry,    \* a key that is not listed
    MaxDays     \* bound: steps of time

\* What the constants have to satisfy.
WhitelistAssumption ==
    Keys \subseteq Nat /\ IsFiniteSet(Keys) /\ TTL \in Nat /\ MaxDays \in Nat /\ NoEntry \notin Nat

VARIABLES
    list,       \* riskWhitelist: key -> age, or NoEntry
    stored,     \* the same in the storage
    panel,      \* riskWhitelistOpen
    found,      \* the keys that the search of the panel matches
    byAge,      \* whitelistSortBy: by time rather than by key
    sel,        \* whitelistSel
    anchor,     \* whitelistAnchorIdx, 0 for none
    days

vars == <<list, stored, panel, found, byAge, sel, anchor, days>>

Ages == 0..(TTL + 1)
Empty == [k \in Keys |-> NoEntry]
In(m) == {k \in Keys : m[k] # NoEntry}
Expired(m) == {k \in In(m) : m[k] > TTL}
Less(m, ks) == [k \in Keys |-> IF k \in ks THEN NoEntry ELSE m[k]]

Init ==
    /\ list = Empty /\ stored = Empty /\ panel = FALSE /\ found = Keys
    /\ byAge = TRUE /\ sel = {} /\ anchor = 0 /\ days = 0

-----------------------------------------------------------------------------

\* setRiskWhitelist and persistRiskWhitelist.
Persisted(m) == list' = m /\ stored' = m

\* Mutant of Saved: the storage is left as it was.
ShownOnly(m) == list' = m /\ UNCHANGED stored

Saved(m) == Persisted(m)

\* The rows shown, in order.
Before(k, l) ==
    IF byAge /\ list[k] # list[l] THEN list[k] < list[l] ELSE k < l
Entries == In(list) \intersect found
Place(k) == Cardinality({l \in Entries : Before(l, k)}) + 1
Rows(a, b) == {k \in Entries : Place(k) \in (a..b) \union (b..a)}

\* From the preview, one key or all those of high risk: a listed key keeps its age.
Add(ks) ==
    /\ ks # {} /\ ks \intersect In(list) = {}
    /\ Saved([k \in Keys |-> IF k \in ks THEN 0 ELSE list[k]])
    /\ UNCHANGED <<panel, found, byAge, sel, anchor, days>>

\* mergeWhitelistItems with the entries of a file.
Import(m, replace) ==
    /\ panel /\ In(m) # {}
    /\ Saved([k \in Keys |-> IF m[k] # NoEntry THEN m[k]
                             ELSE IF replace THEN NoEntry ELSE list[k]])
    /\ UNCHANGED <<panel, found, byAge, sel, anchor, days>>

\* The whitelist inside a backup: of two ages the older stays.
ApplyEmbedded(m) ==
    /\ In(m) # {}
    /\ Saved([k \in Keys |->
                IF m[k] = NoEntry \/ (list[k] # NoEntry /\ list[k] >= m[k])
                THEN list[k] ELSE m[k]])
    /\ UNCHANGED <<panel, found, byAge, sel, anchor, days>>

Remove(k) ==
    /\ panel /\ k \in Entries /\ Saved(Less(list, {k})) /\ sel' = sel \ {k}
    /\ UNCHANGED <<panel, found, byAge, anchor, days>>

RemoveSelected ==
    /\ panel /\ Entries # {} /\ sel # {} /\ Saved(Less(list, sel))
    /\ sel' = {} /\ anchor' = 0
    /\ UNCHANGED <<panel, found, byAge, days>>

Clear ==
    /\ panel /\ In(list) # {} /\ Saved(Empty)
    /\ sel' = {} /\ anchor' = 0 /\ panel' = FALSE
    /\ UNCHANGED <<found, byAge, days>>

\* The buttons of the panel and of the manager, and opening the manager.
CleanExpired ==
    /\ Expired(list) # {} /\ Saved(Less(list, Expired(list)))
    /\ UNCHANGED <<panel, found, byAge, sel, anchor, days>>

\* The expired entries stay stored until something is saved.
LoadRiskWhitelist ==
    /\ list' = Less(stored, Expired(stored))
    /\ panel' = FALSE /\ found' = Keys /\ byAge' = TRUE /\ sel' = {} /\ anchor' = 0
    /\ UNCHANGED <<stored, days>>

-----------------------------------------------------------------------------

OpenPanel ==
    /\ panel' = ~panel
    /\ UNCHANGED <<list, stored, found, byAge, sel, anchor, days>>

Search(ks) ==
    /\ panel /\ found' = ks /\ ks # found
    /\ UNCHANGED <<list, stored, panel, byAge, sel, anchor, days>>

SortBy ==
    /\ panel /\ byAge' = ~byAge
    /\ UNCHANGED <<list, stored, panel, found, sel, anchor, days>>

Toggle(k) ==
    /\ panel /\ k \in Entries
    /\ sel' = IF k \in sel THEN sel \ {k} ELSE sel \union {k}
    /\ anchor' = Place(k)
    /\ UNCHANGED <<list, stored, panel, found, byAge, days>>

\* Shift and a click: the rows between the place last clicked and this one,
\* whatever rows are at those places by now.
SelectRange(k) ==
    /\ panel /\ k \in Entries /\ anchor # 0
    /\ sel' = sel \union Rows(anchor, Place(k))
    /\ UNCHANGED <<list, stored, panel, found, byAge, anchor, days>>

SelectShown ==
    /\ panel /\ Entries # {}
    /\ sel' = IF Entries \subseteq sel THEN {} ELSE Entries
    /\ UNCHANGED <<list, stored, panel, found, byAge, anchor, days>>

Older(m) == [k \in Keys |-> IF m[k] \in 0..TTL THEN m[k] + 1 ELSE m[k]]

TimePasses ==
    /\ days < MaxDays /\ days' = days + 1
    /\ list' = Older(list) /\ stored' = Older(stored)
    /\ UNCHANGED <<panel, found, byAge, sel, anchor>>

-----------------------------------------------------------------------------

Next ==
    \/ RemoveSelected \/ Clear \/ CleanExpired \/ LoadRiskWhitelist
    \/ OpenPanel \/ SortBy \/ SelectShown \/ TimePasses
    \/ \E ks \in SUBSET Keys : Add(ks) \/ Search(ks)
    \/ \E k \in Keys : Remove(k) \/ Toggle(k) \/ SelectRange(k)
    \/ \E m \in [Keys -> Ages \union {NoEntry}] :
         ApplyEmbedded(m) \/ \E b \in BOOLEAN : Import(m, b)

Spec == Init /\ [][Next]_vars

-----------------------------------------------------------------------------

TypeOK ==
    /\ list \in [Keys -> Ages \union {NoEntry}]
    /\ stored \in [Keys -> Ages \union {NoEntry}]
    /\ panel \in BOOLEAN /\ byAge \in BOOLEAN /\ found \subseteq Keys /\ sel \subseteq Keys
    /\ anchor \in 0..Cardinality(Keys) /\ days \in 0..MaxDays

\* The whitelist shown is the one stored, so a reload brings nothing back
\* that was removed and loses nothing that was added; only an expired entry
\* may be stored and no longer shown.
ShownIsStored ==
    \A k \in Keys : list[k] = stored[k] \/ (list[k] = NoEntry /\ stored[k] > TTL)
=============================================================================
