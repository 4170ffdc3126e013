-------------------------- MODULE MCSharedSession --------------------------
(* SharedSession with a few transactions and writes.                       *)
EXTENDS SharedSession, TLC

Symmetry == Permutations(Txns) \cup Permutations(Writes)
=============================================================================
