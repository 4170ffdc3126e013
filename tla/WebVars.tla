------------------------------ MODULE WebVars -------------------------------
(***************************************************************************)
(* The variables of the machines of the web client. The variables of the   *)
(* chosen machine live in v1, v2, ..., each name in the same place in      *)
(* every machine that has it; the rest is unused. The names that machines  *)
(* of more than one kind have are here, the others beside the machines.    *)
(***************************************************************************)
EXTENDS Naturals

CONSTANTS
    None,           \* nothing: no socket, no run, no entry
    Conns,          \* connections, where a machine names no others
    Keys            \* keys of presets of imports

VARIABLES machine, v1, v2, v3, v4, v5, v6, v7, v8, v9, v10, v11, v12, v13, v14,
          v15, v16, v17, v18, v19, v20, v21

vars == <<machine, v1, v2, v3, v4, v5, v6, v7, v8, v9, v10, v11, v12, v13, v14,
          v15, v16, v17, v18, v19, v20, v21>>

open == v1
stored == v1
undo == v1
conn == v2
sel == v2
target == v3
held == v3
store == v3
runs == v3
found == v3
cursor == v3
opts == v3
run == v4
listed == v4
anchor == v4
auditing == v4
asked == v5
text == v5
edits == v5
view == v5
ready == v6
entries == v6
steps == v6
picked == v7
failed == v7
pending == v8
lost == v8
loading == v9
reading == v9
busy == v10
acts == v10
step == v11
schema == v12
applied == v13
asking == v14
cancel == v15
=============================================================================
