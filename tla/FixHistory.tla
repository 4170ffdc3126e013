----------------------------- MODULE FixHistory -----------------------------
(***************************************************************************)
(* Fixes of the import options and their undo: web/src/components/         *)
(* ImportModal.tsx (pushFix, applyCategoryFix, applyOneClickOptimize,      *)
(* undoFixN, redoFixN, single item undo) over web/src/lib/importUndo.ts    *)
(* and importDiff.ts.                                                      *)
(*                                                                         *)
(* The options are a mode, the strict check and, as one value, the rules   *)
(* of the columns (transforms, null policies, validations); the filter,    *)
(* emptyAsNull and the batch size behave as strict does.  An entry of a    *)
(* stack is its snapshot.                                                  *)
(***************************************************************************)
EXTENDS Naturals, Sequences

CONSTANTS
    MaxHistory,     \* MAX_FIX_HISTORY
    MaxFixes        \* bound: fixes and edits

\* What the constants have to satisfy.
HistoryAssumption == MaxHistory \in Nat \ {0} /\ MaxFixes \in Nat

Modes == {"insert", "update", "upsert"}
Rules == {"none", "suggested"}
Options == [mode : Modes, strict : BOOLEAN, rules : Rules]

VARIABLES
    opts,
    undo, redo,     \* undoStack, redoStack: newest first
    diffOpen,
    before,         \* the options before every fix since the stacks were cleared
    redone,         \* redo was used since then
    fixes

vars == <<opts, undo, redo, diffOpen, before, redone, fixes>>

Init ==
    /\ opts = [mode |-> "insert", strict |-> TRUE, rules |-> "none"]
    /\ undo = <<>> /\ redo = <<>> /\ diffOpen = FALSE
    /\ before = <<>> /\ redone = FALSE /\ fixes = 0

-----------------------------------------------------------------------------

Smaller(a, b) == IF a < b THEN a ELSE b
Capped(s) == SubSeq(s, 1, Smaller(Len(s), MaxHistory))
Reversed(s) == [i \in DOMAIN s |-> s[Len(s) + 1 - i]]

\* Mutant of PushFix: the stack is not cut off.
PushFixUncut(snapshot) ==
    /\ undo' = <<snapshot>> \o undo /\ redo' = <<>> /\ diffOpen' = TRUE
    /\ before' = <<snapshot>> \o before /\ UNCHANGED redone

PushFix(snapshot) ==
    /\ undo' = Capped(<<snapshot>> \o undo) /\ redo' = <<>> /\ diffOpen' = TRUE
    /\ before' = <<snapshot>> \o before /\ UNCHANGED redone

Counted == fixes < MaxFixes /\ fixes' = fixes + 1

\* A primary key is in the way: insert becomes upsert.
FixDuplicates ==
    /\ opts.mode = "insert" /\ Counted
    /\ opts' = [opts EXCEPT !.mode = "upsert"] /\ PushFix(opts)

\* The suggestions of the quality report, pushed if there was any, whether or
\* not it changes an option.
OneClickOptimize(some) ==
    /\ Counted
    /\ IF some THEN opts' = [opts EXCEPT !.rules = "suggested"] /\ PushFix(opts)
               ELSE UNCHANGED <<opts, undo, redo, diffOpen, before, redone>>

FixValidation ==
    /\ opts.strict /\ Counted
    /\ opts' = [opts EXCEPT !.strict = FALSE] /\ PushFix(opts)

\* The fields two options differ in, as the diff panel lists them.
UndoDiff(a, b) == {f \in {"mode", "strict", "rules"} : a[f] # b[f]}

\* A field of the columns' rules is listed as "rule name -> column", and the
\* part after the first blank is no column's name: it is never found.
CanRevertSingleItem(field) == field # "rules"

\* One field goes back to what it is in the snapshot n fixes ago.
SingleItemUndo(field, n) ==
    /\ undo # <<>>
    /\ LET target == undo[Smaller(n, Len(undo))]
       IN /\ field \in UndoDiff(opts, target) /\ CanRevertSingleItem(field)
          /\ opts' = [opts EXCEPT ![field] = target[field]]
    /\ Counted /\ PushFix(opts)

\* Mutant of UndoFixN: undo stops one entry short.
UndoFixShort(n) ==
    /\ undo # <<>>
    /\ LET k == Smaller(n, Len(undo))
       IN /\ opts' = Head(undo)
          /\ redo' = Capped(Reversed(SubSeq(undo, 1, k)) \o redo)
          /\ undo' = SubSeq(undo, k + 1, Len(undo))
          /\ before' = SubSeq(before, k + 1, Len(before))
    /\ UNCHANGED <<diffOpen, redone, fixes>>

UndoFixN(n) ==
    /\ undo # <<>>
    /\ LET k == Smaller(n, Len(undo))
       IN /\ opts' = undo[k]
          /\ redo' = Capped(Reversed(SubSeq(undo, 1, k)) \o redo)
          /\ undo' = SubSeq(undo, k + 1, Len(undo))
          /\ before' = SubSeq(before, k + 1, Len(before))
    /\ UNCHANGED <<diffOpen, redone, fixes>>

\* An entry is put back with the options of its turn, in the order redone.
\* What redo sets are the snapshots from before the fixes, so redoing the
\* one fix just undone changes nothing.
RedoFixN(n) ==
    /\ redo # <<>>
    /\ LET k == Smaller(n, Len(redo))
           turn == <<opts>> \o SubSeq(redo, 1, k)
       IN /\ opts' = turn[k + 1]
          /\ undo' = Capped(SubSeq(turn, 1, k) \o undo)
          /\ redo' = SubSeq(redo, k + 1, Len(redo))
    /\ redone' = TRUE
    /\ UNCHANGED <<diffOpen, before, fixes>>

\* Options changed by hand or by a preset: the stacks know nothing of it.
Edit(o) ==
    /\ o # opts /\ Counted /\ opts' = o
    /\ UNCHANGED <<undo, redo, diffOpen, before, redone>>

\* An import started, or another table or input format chosen.
ClearStacks ==
    /\ undo' = <<>> /\ redo' = <<>> /\ diffOpen' = FALSE
    /\ before' = <<>> /\ redone' = FALSE
    /\ UNCHANGED <<opts, fixes>>

ToggleDiff ==
    /\ undo # <<>> /\ diffOpen' = ~diffOpen
    /\ UNCHANGED <<opts, undo, redo, before, redone, fixes>>

Next ==
    \/ FixDuplicates \/ FixValidation \/ ClearStacks \/ ToggleDiff
    \/ \E b \in BOOLEAN : OneClickOptimize(b)
    \/ \E n \in 1..MaxHistory :
         \/ UndoFixN(n) \/ RedoFixN(n)
         \/ \E f \in {"mode", "strict"} : SingleItemUndo(f, n)
    \/ \E o \in Options : Edit(o)

Spec == Init /\ [][Next]_vars

-----------------------------------------------------------------------------

TypeOK ==
    /\ opts \in Options /\ undo \in Seq(Options) /\ redo \in Seq(Options)
    /\ Len(undo) <= MaxHistory /\ Len(redo) <= MaxHistory
    /\ diffOpen \in BOOLEAN /\ redone \in BOOLEAN /\ fixes \in 0..MaxFixes

\* However fixes, single undos, edits by hand and overflows of the stack come
\* between, undoing n fixes leaves the options that were there before the
\* n-th of them, as long as redo was not used.
UndoGoesBackStep ==
    ~redone /\ Len(undo') < Len(undo) /\ redo' # <<>>
      => opts' = before[Len(undo) - Len(undo')]
UndoGoesBack == [][UndoGoesBackStep]_vars
=============================================================================
