------------------------------- MODULE TxSpec -------------------------------
(***************************************************************************)
(* What spec/behavior.md (section 10) promises a client about one server's *)
(* transactions, whatever the driver and whatever the server does inside:  *)
(* statements of one transaction run one at a time, a transaction is       *)
(* finalized at most once, and nothing runs in it once it is being         *)
(* finalized.  A transaction may be discarded without the client asking    *)
(* for it (its connection goes away), which rolls it back.                 *)
(***************************************************************************)
CONSTANT Txns       \* transaction ids

VARIABLES
  status,           \* status[t]: where transaction t is in its life
  running           \* the transactions a statement is being executed in

vars == <<status, running>>

Final == {"committed", "rolled_back"}

Status == {"unborn", "active", "finalizing"} \cup Final

TypeOK ==
  /\ status \in [Txns -> Status]
  /\ running \subseteq Txns

Init ==
  /\ status = [t \in Txns |-> "unborn"]
  /\ running = {}

Begin(t) ==
  /\ status[t] = "unborn"
  /\ status' = [status EXCEPT ![t] = "active"]
  /\ UNCHANGED running

\* Statements of a transaction are serial (10.2).
StartExecute(t) ==
  /\ status[t] = "active"
  /\ t \notin running
  /\ running' = running \cup {t}
  /\ UNCHANGED status

\* A failed statement leaves the transaction active (10.3).
EndExecute(t) ==
  /\ t \in running
  /\ running' = running \ {t}
  /\ UNCHANGED status

\* From here on the id is unknown to every other request (10.1).
StartFinalize(t) ==
  /\ status[t] = "active"
  /\ t \notin running
  /\ status' = [status EXCEPT ![t] = "finalizing"]
  /\ UNCHANGED running

EndFinalize(t) ==
  /\ status[t] = "finalizing"
  /\ \E s \in Final : status' = [status EXCEPT ![t] = s]
  /\ UNCHANGED running

\* The connection goes away (10.1).
Discard(t) ==
  /\ status[t] = "active"
  /\ t \notin running
  /\ status' = [status EXCEPT ![t] = "rolled_back"]
  /\ UNCHANGED running

Next ==
  \E t \in Txns :
    \/ Begin(t)
    \/ StartExecute(t)
    \/ EndExecute(t)
    \/ StartFinalize(t)
    \/ EndFinalize(t)
    \/ Discard(t)

Spec == Init /\ [][Next]_vars
=============================================================================
