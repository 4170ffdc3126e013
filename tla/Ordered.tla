------------------------------ MODULE Ordered ------------------------------
(* The members of a set of numbers in order, and what filter() leaves of   *)
(* an array: the entries at the places kept.  And the members of a set as  *)
(* sort() puts them, before being the pairs whose first comes first.       *)
EXTENDS Naturals, Sequences, FiniteSets

Nth(ns, k) == CHOOSE n \in ns : Cardinality({i \in ns : i <= n}) = k
InOrder(ns) == [k \in 1..Cardinality(ns) |-> Nth(ns, k)]

Keeping(s, places) == LET at == InOrder(places) IN [k \in DOMAIN at |-> s[at[k]]]

Ranked(ns, before) ==
    [k \in 1..Cardinality(ns) |->
       CHOOSE n \in ns : Cardinality({i \in ns : <<i, n>> \in before}) = k - 1]

\* splice(i - 1, 1) and includes of an array.
RemoveAt(s, i) == SubSeq(s, 1, i - 1) \o SubSeq(s, i + 1, Len(s))
Contains(s, e) == \E i \in 1..Len(s) : s[i] = e
=============================================================================
