-------------------------- MODULE MCQueryRegistry --------------------------
(* QueryRegistry on a small instance.                                      *)
EXTENDS QueryRegistry

Both == {"rust", "go"}

Go == {"go"}
=============================================================================
