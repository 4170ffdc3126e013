--------------------------- MODULE MCRustAppCore ---------------------------
(***************************************************************************)
(* RustAppCore on small instances: two requests at a time, on one or two   *)
(* connections.                                                            *)
(***************************************************************************)
EXTENDS RustAppCore, TLC

MCTunnelled == {[read_only |-> TRUE, ssh |-> TRUE]}

MCReadOnly == {[read_only |-> TRUE, ssh |-> FALSE]}

MCPlain == {[read_only |-> FALSE, ssh |-> FALSE]}

Symmetry ==
  Permutations(Callers) \cup Permutations(Conns) \cup Permutations(Drivers)
=============================================================================
