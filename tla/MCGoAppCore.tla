---------------------------- MODULE MCGoAppCore ----------------------------
(* GoAppCore on a small instance: one connection, two or three requests.   *)
EXTENDS GoAppCore, TLC

MCConfigs == {[read_only |-> FALSE, ssh |-> TRUE],
              [read_only |-> TRUE, ssh |-> FALSE]}

MCPlain == {[read_only |-> FALSE, ssh |-> FALSE]}

Symmetry ==
  Permutations(Callers) \cup Permutations(Drivers)
    \cup Permutations(Managers) \cup Permutations(Txns)
=============================================================================
