--------------------------- MODULE WebListProofs ----------------------------
(***************************************************************************)
(* What TLAPS proves of the machines of WebLists, for any tables, rows,    *)
(* files, presets and limits: each has an invariant, from which WebProofs  *)
(* gets the properties of Web.                                             *)
(***************************************************************************)
EXTENDS WebLists, Ordered, Sequences, FiniteSetTheorems, SequenceTheorems, TLAPS

-----------------------------------------------------------------------------
(* Finite sums: of the parts of a set, and of what is counted.              *)

\* What holds of the empty set, and of a set when it holds of it less any one
\* member, holds of a finite set.
LEMMA SubsetInduction ==
    ASSUME NEW S, IsFiniteSet(S), NEW Good, {} \in Good,
           \A T \in SUBSET S : T # {} /\ (\A x \in T : T \ {x} \in Good) => T \in Good
    PROVE  S \in Good
<1> DEFINE Bad == (SUBSET S) \ Good
           R == StrictSubsetOrdering(S)
<1>1. FiniteSubsetsOf(S) = SUBSET S /\ IsWellFoundedOn(R, FiniteSubsetsOf(S))
  BY FS_FiniteSubsetsOfFinite, FS_StrictSubsetOrderingWellFounded
<1>2. SUFFICES ASSUME Bad # {}
               PROVE  FALSE
  OBVIOUS
<1>3. PICK T \in Bad : \A U \in Bad : <<U, T>> \notin R
  <2>1. Bad \subseteq FiniteSubsetsOf(S)
    BY <1>1
  <2> HIDE DEF Bad, R
  <2>2. QED
    BY <1>1, <1>2, <2>1, WFMin
<1>4. ASSUME NEW x \in T
      PROVE  T \ {x} \in Good
  <2>1. T \ {x} \in SUBSET S /\ T \in SUBSET S /\ T \ {x} # T
    OBVIOUS
  <2>2. <<T \ {x}, T>> \in R
    BY <2>1 DEF StrictSubsetOrdering
  <2>3. QED
    BY <1>3, <2>1, <2>2
<1>5. T \in SUBSET S /\ T \notin Good /\ T # {}
  OBVIOUS
<1>6. QED
  BY <1>4, <1>5

\* A function on the subsets of a set that adds up the values of their members.
AddsUp(m, f, S) ==
    /\ m \in [SUBSET S -> Nat] /\ m[{}] = 0
    /\ \A T \in SUBSET S : \A x \in T : m[T] = f[x] + m[T \ {x}]

LEMMA AddsUpExists ==
    ASSUME NEW S, IsFiniteSet(S), NEW f, \A x \in S : f[x] \in Nat
    PROVE  \E m : AddsUp(m, f, S)
<1> DEFINE Good == {T \in SUBSET S : \E m : AddsUp(m, f, T)}
<1>1. {} \in Good
  <2>1. AddsUp([T \in SUBSET {} |-> 0], f, {})
    BY DEF AddsUp
  <2>2. QED
    BY <2>1
<1>2. ASSUME NEW T \in SUBSET S, NEW x \in T, T \ {x} \in Good
      PROVE  T \in Good
  <2>1. PICK o : AddsUp(o, f, T \ {x})
    BY <1>2
  <2> DEFINE m == [U \in SUBSET T |-> IF x \in U THEN f[x] + o[U \ {x}] ELSE o[U]]
  <2>2. /\ \A U \in SUBSET (T \ {x}) : o[U] \in Nat
        /\ \A U \in SUBSET (T \ {x}) : \A y \in U : o[U] = f[y] + o[U \ {y}]
        /\ o[{}] = 0 /\ f[x] \in Nat /\ \A y \in T : f[y] \in Nat
    BY <2>1 DEF AddsUp
  <2>3. \A U \in SUBSET T : /\ U \ {x} \in SUBSET (T \ {x})
                            /\ x \notin U => U \in SUBSET (T \ {x})
    OBVIOUS
  <2>4. m \in [SUBSET T -> Nat] /\ m[{}] = 0
    BY <2>2, <2>3
  <2>5. ASSUME NEW U \in SUBSET T, NEW y \in U
        PROVE  m[U] = f[y] + m[U \ {y}]
    <3>1. U \ {y} \in SUBSET T
      OBVIOUS
    <3>2. CASE x \notin U
      <4>1. m[U] = o[U] /\ m[U \ {y}] = o[U \ {y}]
        BY <3>1, <3>2
      <4>2. QED
        BY <2>2, <2>3, <3>2, <4>1
    <3>3. CASE x \in U /\ y = x
      <4>1. m[U] = f[x] + o[U \ {x}] /\ m[U \ {y}] = o[U \ {x}]
        BY <3>1, <3>3
      <4>2. QED
        BY <3>3, <4>1
    <3>4. CASE x \in U /\ y # x
      <4> DEFINE A == U \ {x}
                 B == (U \ {y}) \ {x}
      <4>1. m[U] = f[x] + o[A] /\ m[U \ {y}] = f[x] + o[B]
        BY <3>1, <3>4
      <4>2. A \in SUBSET (T \ {x}) /\ y \in A /\ A \ {y} = B
        BY <3>4
      <4>3. o[A] = f[y] + o[B] /\ B \in SUBSET (T \ {x})
        BY <2>2, <4>2
      <4>4. f[y] \in Nat /\ f[x] \in Nat /\ o[B] \in Nat
        BY <2>2, <4>3
      <4> HIDE DEF m, A, B
      <4>5. QED
        BY <4>1, <4>3, <4>4
    <3>5. QED
      BY <3>2, <3>3, <3>4
  <2> HIDE DEF m
  <2>6. AddsUp(m, f, T)
    BY <2>4, <2>5 DEF AddsUp
  <2>7. QED
    BY <2>6
<1>3. S \in Good
  <2> HIDE DEF Good
  <2>1. QED
    BY <1>1, <1>2, SubsetInduction
<1>4. QED
  BY <1>3

\* SumFunctionOnSet by its recursion.
Folded(f, S, iter) ==
    iter = [s \in SUBSET S |-> IF s = {} THEN 0
                               ELSE f[CHOOSE x \in s : TRUE] + iter[s \ {CHOOSE x \in s : TRUE}]]

LEMMA SumIsFolded ==
    ASSUME NEW f, NEW S
    PROVE  SumFunctionOnSet(f, S) = (CHOOSE iter : Folded(f, S, iter))[S]
BY DEF SumFunctionOnSet, FoldFunctionOnSet, MapThenFoldSet, Folded

LEMMA SumAddsUp ==
    ASSUME NEW S, IsFiniteSet(S), NEW f, NEW m, AddsUp(m, f, S)
    PROVE  SumFunctionOnSet(f, S) = m[S]
<1>1. Folded(f, S, m)
  <2>1. \A s \in SUBSET S : s # {} => (CHOOSE x \in s : TRUE) \in s
    OBVIOUS
  <2> DEFINE P(s) == CHOOSE x \in s : TRUE
  <2>2. \A s \in SUBSET S : s # {} => P(s) \in s
    BY <2>1
  <2> HIDE DEF P
  <2>3. m = [s \in SUBSET S |-> IF s = {} THEN 0 ELSE f[P(s)] + m[s \ {P(s)}]]
    BY <2>2 DEF AddsUp
  <2>4. QED
    BY <2>3 DEF P, Folded
<1>2. PICK iter : iter = (CHOOSE i : Folded(f, S, i)) /\ Folded(f, S, iter)
  BY <1>1
<1> DEFINE Good == {T \in SUBSET S : iter[T] = m[T]}
<1>3. {} \in Good
  BY <1>2 DEF Folded, AddsUp
<1>4. ASSUME NEW T \in SUBSET S, T # {}, \A x \in T : T \ {x} \in Good
      PROVE  T \in Good
  <2> DEFINE x == CHOOSE x \in T : TRUE
  <2>1. x \in T
    BY <1>4
  <2>2. iter[T] = f[x] + iter[T \ {x}]
    BY <1>2, <1>4 DEF Folded
  <2> HIDE DEF x
  <2>3. m[T] = f[x] + m[T \ {x}]
    BY <2>1 DEF AddsUp
  <2>4. iter[T \ {x}] = m[T \ {x}]
    BY <1>4, <2>1
  <2>5. QED
    BY <2>2, <2>3, <2>4
<1>5. QED
  <2>1. S \in Good
    <3> HIDE DEF Good
    <3>1. QED
      BY <1>3, <1>4, SubsetInduction
  <2>2. QED
    BY <1>2, <2>1, SumIsFolded

\* The sum of naturals over a finite set.
LEMMA SumIs ==
    ASSUME NEW S, IsFiniteSet(S), NEW f, \A x \in S : f[x] \in Nat
    PROVE  /\ SumFunctionOnSet(f, S) \in Nat /\ SumFunctionOnSet(f, {}) = 0
           /\ \A x \in S : SumFunctionOnSet(f, S) = f[x] + SumFunctionOnSet(f, S \ {x})
<1>1. PICK m : AddsUp(m, f, S)
  BY AddsUpExists
<1>2. ASSUME NEW T \in SUBSET S
      PROVE  SumFunctionOnSet(f, T) = m[T]
  <2> DEFINE o == [U \in SUBSET T |-> m[U]]
  <2>1. AddsUp(o, f, T)
    BY <1>1 DEF AddsUp
  <2>2. IsFiniteSet(T) /\ o[T] = m[T]
    BY FS_Subset
  <2> HIDE DEF o
  <2>3. QED
    BY <2>1, <2>2, SumAddsUp
<1>3. QED
  BY <1>1, <1>2 DEF AddsUp

LEMMA SumOfSame ==
    ASSUME NEW S, IsFiniteSet(S), NEW f, NEW g, \A x \in S : f[x] \in Nat /\ g[x] = f[x]
    PROVE  SumFunctionOnSet(f, S) = SumFunctionOnSet(g, S)
<1> DEFINE Good == {T \in SUBSET S : SumFunctionOnSet(f, T) = SumFunctionOnSet(g, T)}
<1>1. \A T \in SUBSET S : IsFiniteSet(T)
  BY FS_Subset
<1>2. {} \in Good
  BY <1>1, SumIs
<1>3. ASSUME NEW T \in SUBSET S, T # {}, \A x \in T : T \ {x} \in Good
      PROVE  T \in Good
  <2>1. PICK x \in T : TRUE
    BY <1>3
  <2>2. SumFunctionOnSet(f, T) = f[x] + SumFunctionOnSet(f, T \ {x})
    BY <1>1, SumIs
  <2>3. SumFunctionOnSet(g, T) = g[x] + SumFunctionOnSet(g, T \ {x})
    BY <1>1, SumIs
  <2>4. QED
    BY <1>3, <2>2, <2>3
<1>4. S \in Good
  <2> HIDE DEF Good
  <2>1. QED
    BY <1>2, <1>3, SubsetInduction
<1>5. QED
  BY <1>4

LEMMA SumOfBoth ==
    ASSUME NEW A, NEW B, IsFiniteSet(A), IsFiniteSet(B), A \cap B = {},
           NEW f, \A x \in A \cup B : f[x] \in Nat
    PROVE  SumFunctionOnSet(f, A \cup B) = SumFunctionOnSet(f, A) + SumFunctionOnSet(f, B)
<1> DEFINE Good == {T \in SUBSET A :
                      SumFunctionOnSet(f, T \cup B) = SumFunctionOnSet(f, T) + SumFunctionOnSet(f, B)}
<1>1. \A T \in SUBSET A : IsFiniteSet(T) /\ IsFiniteSet(T \cup B)
  BY FS_Subset, FS_Union
<1>2. {} \in Good
  <2>1. {} \cup B = B
    OBVIOUS
  <2>2. SumFunctionOnSet(f, {}) = 0 /\ SumFunctionOnSet(f, B) \in Nat
    BY SumIs
  <2>3. QED
    BY <2>1, <2>2
<1>3. ASSUME NEW T \in SUBSET A, T # {}, \A x \in T : T \ {x} \in Good
      PROVE  T \in Good
  <2>1. PICK x \in T : TRUE
    BY <1>3
  <2>2. (T \ {x}) \cup B = (T \cup B) \ {x}
    OBVIOUS
  <2>3. SumFunctionOnSet(f, T) = f[x] + SumFunctionOnSet(f, T \ {x})
    BY <1>1, SumIs
  <2>4. SumFunctionOnSet(f, T \cup B) = f[x] + SumFunctionOnSet(f, (T \cup B) \ {x})
    <3>1. IsFiniteSet(T \cup B) /\ x \in T \cup B /\ \A y \in T \cup B : f[y] \in Nat
      BY <1>1
    <3>2. QED
      BY <3>1, SumIs
  <2>5. /\ SumFunctionOnSet(f, T \ {x}) \in Nat /\ SumFunctionOnSet(f, B) \in Nat /\ f[x] \in Nat
        /\ SumFunctionOnSet(f, (T \ {x}) \cup B)
             = SumFunctionOnSet(f, T \ {x}) + SumFunctionOnSet(f, B)
    <3>1. T \ {x} \in SUBSET A /\ x \in A /\ T \ {x} \in Good
      BY <1>3
    <3>2. IsFiniteSet(T \ {x}) /\ \A y \in T \ {x} : f[y] \in Nat
      BY <1>1, <3>1
    <3>3. SumFunctionOnSet(f, T \ {x}) \in Nat
      BY <3>2, SumIs
    <3>4. SumFunctionOnSet(f, B) \in Nat
      BY SumIs
    <3>5. QED
      BY <3>1, <3>3, <3>4
  <2>6. SumFunctionOnSet(f, T \cup B) = SumFunctionOnSet(f, T) + SumFunctionOnSet(f, B)
    <3>1. SumFunctionOnSet(f, T \cup B)
            = f[x] + (SumFunctionOnSet(f, T \ {x}) + SumFunctionOnSet(f, B))
      BY <2>2, <2>4, <2>5
    <3>2. \A a, b, c \in Nat : a + (b + c) = (a + b) + c
      OBVIOUS
    <3>3. QED
      BY <2>3, <2>5, <3>1, <3>2
  <2>7. QED
    BY <2>6
<1>4. A \in Good
  <2> HIDE DEF Good
  <2>1. QED
    BY <1>2, <1>3, SubsetInduction
<1>5. QED
  BY <1>4

\* The members of S that p takes to t, and those it takes into U.
At(S, p, t) == {i \in S : p[i] = t}
Into(S, p, U) == {i \in S : p[i] \in U}

\* Every member counted once: sums over the parts of a set add up to its sum.
LEMMA SumOfParts ==
    ASSUME NEW S, IsFiniteSet(S), NEW T, IsFiniteSet(T), NEW f, \A i \in S : f[i] \in Nat,
           NEW p, \A i \in S : p[i] \in T,
           NEW g, \A t \in T : g[t] = SumFunctionOnSet(f, At(S, p, t))
    PROVE  SumFunctionOnSet(g, T) = SumFunctionOnSet(f, S)
<1> DEFINE Good == {U \in SUBSET T : SumFunctionOnSet(g, U) = SumFunctionOnSet(f, Into(S, p, U))}
<1>1. /\ \A U : IsFiniteSet(Into(S, p, U)) /\ \A i \in Into(S, p, U) : f[i] \in Nat
      /\ \A t : IsFiniteSet(At(S, p, t)) /\ \A i \in At(S, p, t) : f[i] \in Nat
  BY FS_Subset DEF Into, At
<1>2. \A t \in T : g[t] \in Nat
  BY <1>1, SumIs
<1>3. {} \in Good
  <2>1. Into(S, p, {}) = {} /\ IsFiniteSet({})
    BY FS_EmptySet DEF Into
  <2>2. SumFunctionOnSet(g, {}) = 0 /\ SumFunctionOnSet(f, {}) = 0
    BY <2>1, SumIs
  <2>3. QED
    BY <2>1, <2>2
<1>4. ASSUME NEW U \in SUBSET T, U # {}, \A x \in U : U \ {x} \in Good
      PROVE  U \in Good
  <2>1. PICK x \in U : TRUE
    BY <1>4
  <2> DEFINE A == At(S, p, x)
             B == Into(S, p, U \ {x})
  <2>2. A \cup B = Into(S, p, U) /\ A \cap B = {} /\ \A i \in A \cup B : f[i] \in Nat
    BY DEF At, Into
  <2>3. IsFiniteSet(A) /\ IsFiniteSet(B)
    BY <1>1
  <2> HIDE DEF A, B
  <2>4. SumFunctionOnSet(f, Into(S, p, U)) = SumFunctionOnSet(f, A) + SumFunctionOnSet(f, B)
    BY <2>2, <2>3, SumOfBoth
  <2>5. SumFunctionOnSet(g, U) = g[x] + SumFunctionOnSet(g, U \ {x})
    <3>1. IsFiniteSet(U) /\ \A t \in U : g[t] \in Nat
      BY <1>2, FS_Subset
    <3>2. QED
      BY <3>1, SumIs
  <2>6. g[x] = SumFunctionOnSet(f, A) /\ SumFunctionOnSet(g, U \ {x}) = SumFunctionOnSet(f, B)
    BY <1>4 DEF A, B
  <2>7. QED
    BY <2>4, <2>5, <2>6
<1>5. T \in Good
  <2> HIDE DEF Good
  <2>1. QED
    BY <1>3, <1>4, SubsetInduction
<1>6. Into(S, p, T) = S
  BY DEF Into
<1>7. QED
  BY <1>5, <1>6

\* The number of members is a sum.
LEMMA CountIsSum ==
    ASSUME NEW S, IsFiniteSet(S), NEW f, \A x \in S : f[x] = 1
    PROVE  SumFunctionOnSet(f, S) = Cardinality(S)
<1> DEFINE Good == {T \in SUBSET S : SumFunctionOnSet(f, T) = Cardinality(T)}
<1>1. \A T \in SUBSET S : IsFiniteSet(T) /\ Cardinality(T) \in Nat /\ \A x \in T : f[x] \in Nat
  BY FS_Subset, FS_CardinalityType
<1>2. {} \in Good
  BY <1>1, SumIs, FS_EmptySet
<1>3. ASSUME NEW T \in SUBSET S, T # {}, \A x \in T : T \ {x} \in Good
      PROVE  T \in Good
  <2>1. PICK x \in T : TRUE
    BY <1>3
  <2>2. SumFunctionOnSet(f, T) = f[x] + SumFunctionOnSet(f, T \ {x})
    BY <1>1, SumIs
  <2>3. Cardinality(T \ {x}) = Cardinality(T) - 1
    BY <1>1, FS_RemoveElement
  <2>4. f[x] = 1 /\ SumFunctionOnSet(f, T \ {x}) = Cardinality(T \ {x})
        /\ Cardinality(T) \in Nat
    BY <1>1, <1>3
  <2>5. QED
    BY <2>2, <2>3, <2>4
<1>4. S \in Good
  <2> HIDE DEF Good
  <2>1. QED
    BY <1>2, <1>3, SubsetInduction
<1>5. QED
  BY <1>4

-----------------------------------------------------------------------------
(* The members of a set in order, what filter() leaves of an array, and     *)
(* its first entries.                                                      *)

\* The k-th of n numbers is one of them, because no two of them have the same
\* number of them up to them; and no two of the places are the same.
LEMMA NumbersInOrder ==
    ASSUME NEW m \in Nat, NEW ns \in SUBSET (1..m)
    PROVE  /\ Cardinality(ns) \in Nat /\ Cardinality(ns) <= m
           /\ \A k \in 1..Cardinality(ns) : \E n \in ns : Cardinality({i \in ns : i <= n}) = k
<1> DEFINE UpTo(r) == {i \in ns : i <= r}
           n == Cardinality(ns)
<1>1. IsFiniteSet(1..m) /\ Cardinality(1..m) = m
  <2>1. 1 \in Int /\ m \in Int /\ (IF 1 > m THEN 0 ELSE m - 1 + 1) = m
    OBVIOUS
  <2>2. QED
    BY <2>1, FS_Interval
<1>2. IsFiniteSet(ns) /\ n \in Nat /\ n <= m
  BY <1>1, FS_Subset, FS_CardinalityType
<1>3. \A r \in ns : IsFiniteSet(UpTo(r)) /\ Cardinality(UpTo(r)) \in 1..n
  <2> SUFFICES ASSUME NEW r \in ns
               PROVE  IsFiniteSet(UpTo(r)) /\ Cardinality(UpTo(r)) \in 1..n
    OBVIOUS
  <2>1. IsFiniteSet(UpTo(r)) /\ Cardinality(UpTo(r)) <= n /\ Cardinality(UpTo(r)) \in Nat
    BY <1>2, FS_Subset, FS_CardinalityType
  <2>2. r \in UpTo(r)
    OBVIOUS
  <2>3. Cardinality(UpTo(r)) # 0
    BY <2>1, <2>2, FS_EmptySet
  <2>4. QED
    BY <1>2, <2>1, <2>3
<1>4. \A r, s \in ns : r # s => Cardinality(UpTo(r)) # Cardinality(UpTo(s))
  <2>1. ASSUME NEW r \in ns, NEW s \in ns, r < s
        PROVE  Cardinality(UpTo(r)) # Cardinality(UpTo(s))
    <3>1. r \in Nat /\ s \in Nat /\ \A i \in ns : i \in Nat
      OBVIOUS
    <3>2. (\A i \in ns : i <= r => i <= s) /\ s <= s /\ ~(s <= r)
      BY <2>1, <3>1
    <3>3. UpTo(r) \subseteq UpTo(s) /\ s \in UpTo(s) /\ s \notin UpTo(r)
      BY <3>2
    <3>4. QED
      BY <1>3, <3>3, FS_Subset
  <2>2. \A r, s \in ns : r # s => r < s \/ s < r
    OBVIOUS
  <2>3. QED
    BY <2>1, <2>2
<1>5. \A k \in 1..n : \E r \in ns : Cardinality(UpTo(r)) = k
  <2> SUFFICES ASSUME NEW k \in 1..n, \A r \in ns : Cardinality(UpTo(r)) # k
               PROVE  FALSE
    OBVIOUS
  <2> DEFINE Others == (1..n) \ {k}
             f == [r \in ns |-> Cardinality(UpTo(r))]
  <2>1. IsFiniteSet(1..n) /\ Cardinality(1..n) = n
    <3>1. 1 \in Int /\ n \in Int /\ (IF 1 > n THEN 0 ELSE n - 1 + 1) = n
      BY <1>2
    <3>2. QED
      BY <3>1, FS_Interval
  <2>2. IsFiniteSet(Others) /\ Cardinality(Others) = n - 1
    <3>1. IsFiniteSet((1..n) \ {k}) /\ Cardinality((1..n) \ {k}) = Cardinality(1..n) - 1
      BY <2>1, FS_RemoveElement, Zenon
    <3>2. QED
      BY <2>1, <3>1
  <2>3. f \in [ns -> Others]
    BY <1>3
  <2>4. PICK r \in ns, s \in ns : r # s /\ f[r] = f[s]
    <3>1. Cardinality(Others) < Cardinality(ns)
      BY <1>2, <2>2
    <3>2. IsFiniteSet(ns) /\ IsFiniteSet(Others)
      BY <1>2, <2>2
    <3> HIDE DEF f, Others, n
    <3>3. QED
      BY <2>3, <3>1, <3>2, FS_PigeonHole
  <2>5. QED
    BY <1>4, <2>4
<1>6. QED
  BY <1>2, <1>5

LEMMA EntriesMakeSeq ==
    ASSUME NEW S, NEW n \in Nat, NEW f \in [1..n -> S]
    PROVE  f \in Seq(S) /\ Len(f) = n
OBVIOUS

\* How many numbers there are up to one of them.
RankIn(ns, n) == Cardinality({i \in ns : i <= n})

\* The numbers of a set in order: all of them, rising.
LEMMA InOrderIs ==
    ASSUME NEW m \in Nat, NEW ns \in SUBSET (1..m)
    PROVE  /\ InOrder(ns) \in [1..Cardinality(ns) -> ns]
           /\ \A n \in ns : \E k \in 1..Cardinality(ns) : InOrder(ns)[k] = n
           /\ \A k, l \in 1..Cardinality(ns) : k < l => InOrder(ns)[k] < InOrder(ns)[l]
<1> DEFINE f == InOrder(ns)
           c == Cardinality(ns)
<1>1. IsFiniteSet(ns) /\ c \in Nat
  <2>1. IsFiniteSet(1..m)
    BY FS_Interval
  <2>2. QED
    BY <2>1, FS_Subset, FS_CardinalityType
<1>2. \A k \in 1..c : Nth(ns, k) \in ns /\ RankIn(ns, Nth(ns, k)) = k
  <2> SUFFICES ASSUME NEW k \in 1..c
               PROVE  Nth(ns, k) \in ns /\ RankIn(ns, Nth(ns, k)) = k
    OBVIOUS
  <2>1. \E n \in ns : Cardinality({i \in ns : i <= n}) = k
    BY NumbersInOrder
  <2>2. QED
    BY <2>1 DEF Nth, RankIn
<1>3. f \in [1..c -> ns] /\ \A k \in 1..c : RankIn(ns, f[k]) = k
  BY <1>2 DEF InOrder
<1>4. \A n \in ns : RankIn(ns, n) \in 1..c
  <2> SUFFICES ASSUME NEW n \in ns
               PROVE  RankIn(ns, n) \in 1..c
    OBVIOUS
  <2> DEFINE up == {i \in ns : i <= n}
  <2>1. up \in SUBSET ns /\ n \in up
    OBVIOUS
  <2>2. IsFiniteSet(up) /\ Cardinality(up) <= c /\ Cardinality(up) \in Nat
    BY <1>1, <2>1, FS_Subset, FS_CardinalityType
  <2>3. Cardinality(up) # 0
    BY <2>1, <2>2, FS_EmptySet
  <2> HIDE DEF c
  <2>4. QED
    BY <1>1, <2>2, <2>3 DEF RankIn
<1>5. ASSUME NEW a \in ns, NEW b \in ns, a <= b
      PROVE  /\ RankIn(ns, a) <= RankIn(ns, b)
             /\ RankIn(ns, a) = RankIn(ns, b) => a = b
  <2> DEFINE A == {i \in ns : i <= a}
             B == {i \in ns : i <= b}
  <2>1. A \in SUBSET B /\ B \in SUBSET ns /\ b \in B
    <3>1. a \in Nat /\ b \in Nat /\ \A i \in ns : i \in Nat
      OBVIOUS
    <3>2. b <= b /\ \A i \in ns : i <= a => i <= b
      BY <1>5, <3>1
    <3>3. QED
      BY <3>2
  <2>2. IsFiniteSet(B)
    BY <1>1, <2>1, FS_Subset
  <2>3. Cardinality(A) <= Cardinality(B) /\ (Cardinality(A) = Cardinality(B) => A = B)
    BY <2>1, <2>2, FS_Subset
  <2>4. A = B => a = b
    BY <1>5, <2>1
  <2>5. QED
    BY <2>3, <2>4 DEF RankIn
<1> HIDE DEF f, c
<1>6. \A a, b \in ns : a \in Nat /\ b \in Nat
  OBVIOUS
<1>7. \A a, b \in ns : RankIn(ns, a) = RankIn(ns, b) => a = b
  <2> SUFFICES ASSUME NEW a \in ns, NEW b \in ns, RankIn(ns, a) = RankIn(ns, b)
               PROVE  a = b
    OBVIOUS
  <2>1. a <= b \/ b <= a
    BY <1>6
  <2>2. QED
    BY <1>5, <2>1
<1>8. \A n \in ns : \E k \in 1..c : f[k] = n
  BY <1>3, <1>4, <1>7
<1>9. ASSUME NEW k \in 1..c, NEW l \in 1..c, k < l
      PROVE  f[k] < f[l]
  <2>1. f[k] \in ns /\ f[l] \in ns /\ RankIn(ns, f[k]) = k /\ RankIn(ns, f[l]) = l
    BY <1>3
  <2>2. f[k] \in Nat /\ f[l] \in Nat /\ k \in Nat /\ l \in Nat
    <3>1. \A i \in ns : i \in Nat
      OBVIOUS
    <3>2. f[k] \in Nat /\ f[l] \in Nat
      BY <2>1, <3>1
    <3>3. k \in Nat /\ l \in Nat
      BY <1>1
    <3>4. QED
      BY <3>2, <3>3
  <2>3. f[l] <= f[k] => l <= k
    BY <1>5, <2>1
  <2>4. QED
    BY <1>9, <2>2, <2>3
<1>10. QED
  BY <1>3, <1>8, <1>9 DEF f, c

\* A strict total order of the members of ns.
Orders(ns, prior) ==
    /\ \A i \in ns : <<i, i>> \notin prior
    /\ \A i, j \in ns : i = j \/ <<i, j>> \in prior \/ <<j, i>> \in prior
    /\ \A i, j, k \in ns : <<i, j>> \in prior /\ <<j, k>> \in prior => <<i, k>> \in prior

Below(ns, prior, n) == {i \in ns : <<i, n>> \in prior}

\* The members of a set as sort() puts them: each once, as before has them.
LEMMA RankedIs ==
    ASSUME NEW ns, IsFiniteSet(ns), NEW prior, Orders(ns, prior)
    PROVE  /\ Ranked(ns, prior) \in [1..Cardinality(ns) -> ns]
           /\ \A n \in ns : \E k \in 1..Cardinality(ns) : Ranked(ns, prior)[k] = n
           /\ \A k, l \in 1..Cardinality(ns) :
                k < l => <<Ranked(ns, prior)[k], Ranked(ns, prior)[l]>> \in prior
<1> DEFINE f == Ranked(ns, prior)
           c == Cardinality(ns)
           rank == [n \in ns |-> Cardinality(Below(ns, prior, n))]
<1>1. c \in Nat
  BY FS_CardinalityType
<1>2. ASSUME NEW n \in ns
      PROVE  IsFiniteSet(Below(ns, prior, n)) /\ rank[n] \in Nat /\ rank[n] < c
  <2>1. Below(ns, prior, n) \in SUBSET ns /\ n \notin Below(ns, prior, n)
    BY DEF Below, Orders
  <2>2. /\ IsFiniteSet(Below(ns, prior, n)) /\ rank[n] \in Nat /\ rank[n] <= c
        /\ rank[n] = c => Below(ns, prior, n) = ns
    BY <2>1, FS_Subset, FS_CardinalityType
  <2> HIDE DEF rank, c
  <2>3. QED
    BY <1>1, <2>1, <2>2
<1>3. ASSUME NEW a \in ns, NEW b \in ns, <<a, b>> \in prior
      PROVE  rank[a] < rank[b]
  <2> DEFINE A == Below(ns, prior, a)
             B == Below(ns, prior, b)
  <2>1. A \in SUBSET B /\ a \in B /\ a \notin A
    BY <1>3 DEF Below, Orders
  <2>2. IsFiniteSet(B) /\ rank[a] = Cardinality(A) /\ rank[b] = Cardinality(B)
    BY <1>2
  <2>3. Cardinality(A) <= Cardinality(B) /\ (Cardinality(B) = Cardinality(A) => B = A)
    BY <2>1, <2>2, FS_Subset
  <2>4. rank[a] \in Nat /\ rank[b] \in Nat /\ rank[a] # rank[b] /\ rank[a] <= rank[b]
    BY <1>2, <2>1, <2>2, <2>3
  <2> HIDE DEF rank
  <2>5. QED
    BY <2>4
<1>4. \A a, b \in ns : rank[a] = rank[b] => a = b
  <2> SUFFICES ASSUME NEW a \in ns, NEW b \in ns, rank[a] = rank[b], a # b
               PROVE  FALSE
    OBVIOUS
  <2>1. rank[a] < rank[b] \/ rank[b] < rank[a]
    BY <1>3 DEF Orders
  <2>2. rank[a] \in Nat /\ rank[b] \in Nat
    BY <1>2
  <2> HIDE DEF rank
  <2>3. QED
    BY <2>1, <2>2
<1> HIDE DEF c, rank
<1>5. \A k \in 1..c : \E n \in ns : rank[n] = k - 1
  <2> SUFFICES ASSUME NEW k \in 1..c, \A n \in ns : rank[n] # k - 1
               PROVE  FALSE
    OBVIOUS
  <2> DEFINE Others == (1..c) \ {k}
             g == [n \in ns |-> rank[n] + 1]
  <2>1. IsFiniteSet(1..c) /\ Cardinality(1..c) = c
    <3>1. 1 \in Int /\ c \in Int /\ (IF 1 > c THEN 0 ELSE c - 1 + 1) = c
      BY <1>1
    <3>2. QED
      BY <3>1, FS_Interval
  <2>2. IsFiniteSet(Others) /\ Cardinality(Others) = c - 1
    BY <1>1, <2>1, FS_RemoveElement
  <2>3. g \in [ns -> Others]
    BY <1>1, <1>2
  <2>4. PICK r \in ns, s \in ns : r # s /\ g[r] = g[s]
    <3>1. Cardinality(Others) < Cardinality(ns)
      BY <1>1, <2>2 DEF c
    <3> HIDE DEF Others, g
    <3>2. QED
      BY <2>2, <2>3, <3>1, FS_PigeonHole
  <2>5. rank[r] \in Nat /\ rank[s] \in Nat /\ rank[r] + 1 = rank[s] + 1
    BY <1>2, <2>4
  <2>6. rank[r] = rank[s]
    BY <2>5
  <2>7. QED
    BY <1>4, <2>4, <2>6
<1>6. f \in [1..c -> ns] /\ \A k \in 1..c : rank[f[k]] = k - 1
  <2>1. \A k \in 1..c : \E n \in ns : Cardinality({i \in ns : <<i, n>> \in prior}) = k - 1
    BY <1>5 DEF rank, Below
  <2>2. /\ f \in [1..c -> ns]
        /\ \A k \in 1..c : Cardinality({i \in ns : <<i, f[k]>> \in prior}) = k - 1
    BY <2>1 DEF Ranked, c
  <2>3. QED
    BY <2>2 DEF rank, Below
<1> HIDE DEF f
<1>7. \A n \in ns : \E k \in 1..c : f[k] = n
  <2> SUFFICES ASSUME NEW n \in ns
               PROVE  \E k \in 1..c : f[k] = n
    OBVIOUS
  <2>1. rank[n] + 1 \in 1..c /\ rank[n] \in Nat
    BY <1>1, <1>2
  <2>2. rank[f[rank[n] + 1]] = rank[n] /\ f[rank[n] + 1] \in ns
    BY <1>6, <2>1
  <2>3. QED
    BY <1>4, <2>1, <2>2
<1>8. ASSUME NEW k \in 1..c, NEW l \in 1..c, k < l
      PROVE  <<f[k], f[l]>> \in prior
  <2>1. f[k] \in ns /\ f[l] \in ns /\ rank[f[k]] = k - 1 /\ rank[f[l]] = l - 1
    BY <1>6
  <2>2. f[k] # f[l]
    BY <1>8, <2>1
  <2>3. ~(rank[f[l]] < rank[f[k]])
    BY <1>8, <2>1
  <2>4. QED
    BY <1>3, <2>1, <2>2, <2>3 DEF Orders
<1>9. QED
  BY <1>6, <1>7, <1>8 DEF f, c

\* What filter() leaves of an array.
LEMMA KeepingIs ==
    ASSUME NEW S, NEW s \in Seq(S), NEW places \in SUBSET (DOMAIN s)
    PROVE  /\ Keeping(s, places) \in Seq(S) /\ Cardinality(places) \in Nat
           /\ Len(Keeping(s, places)) = Cardinality(places)
           /\ DOMAIN Keeping(s, places) = 1..Cardinality(places)
           /\ \A k \in 1..Cardinality(places) :
                /\ InOrder(places)[k] \in places
                /\ Keeping(s, places)[k] = s[InOrder(places)[k]]
           /\ \A n \in places : \E k \in 1..Cardinality(places) : InOrder(places)[k] = n
           /\ \A k, l \in 1..Cardinality(places) :
                k < l => InOrder(places)[k] < InOrder(places)[l]
<1> DEFINE at == InOrder(places)
           c == Cardinality(places)
<1>1. DOMAIN s = 1..Len(s) /\ Len(s) \in Nat /\ \A n \in DOMAIN s : s[n] \in S
  OBVIOUS
<1>2. c \in Nat
  <2>1. IsFiniteSet(1..Len(s))
    BY <1>1, FS_Interval
  <2>2. QED
    BY <1>1, <2>1, FS_Subset, FS_CardinalityType
<1>3. /\ at \in [1..c -> places]
      /\ \A n \in places : \E k \in 1..c : at[k] = n
      /\ \A k, l \in 1..c : k < l => at[k] < at[l]
  BY <1>1, InOrderIs
<1>4. Keeping(s, places) = [k \in DOMAIN at |-> s[at[k]]]
  BY DEF Keeping
<1> HIDE DEF at, c
<1>5. Keeping(s, places) = [k \in 1..c |-> s[at[k]]]
  BY <1>3, <1>4
<1>6. Keeping(s, places) \in [1..c -> S]
  BY <1>1, <1>3, <1>5
<1>7. Keeping(s, places) \in Seq(S) /\ Len(Keeping(s, places)) = c
  BY <1>2, <1>6, EntriesMakeSeq
<1>8. QED
  BY <1>2, <1>3, <1>5, <1>7 DEF at, c

LEMMA NamedInOrder ==
    ASSUME NEW m \in Nat, NEW places \in SUBSET (1..m)
    PROVE  /\ IT!InOrder(places) \in [1..Cardinality(places) -> places]
           /\ \A k \in 1..Cardinality(places) : RankIn(places, IT!InOrder(places)[k]) = k
<1>1. \A S : IT!Cardinality(S) = Cardinality(S)
  BY Zenon DEF IT!Cardinality, Cardinality
<1>2. ASSUME NEW k \in 1..Cardinality(places)
      PROVE  /\ IT!Nth(places, k) \in places
             /\ RankIn(places, IT!Nth(places, k)) = k
  <2>1. \E n \in places : IT!Cardinality({i \in places : i <= n}) = k
    <3>1. PICK n \in places : Cardinality({i \in places : i <= n}) = k
      BY NumbersInOrder
    <3>2. IT!Cardinality({i \in places : i <= n}) = k
      BY <1>1, <3>1
    <3>3. QED
      BY <3>2
  <2>2. /\ IT!Nth(places, k) \in places
        /\ IT!Cardinality({i \in places : i <= IT!Nth(places, k)}) = k
    BY <2>1 DEF IT!Nth
  <2>3. QED
    BY <1>1, <2>2 DEF RankIn
<1>3. IT!InOrder(places) = [k \in 1..Cardinality(places) |-> IT!Nth(places, k)]
  BY <1>1 DEF IT!InOrder
<1>4. QED
  BY <1>2, <1>3

LEMMA SnapshotsKept ==
    ASSUME NEW S, NEW s \in Seq(S), NEW places \in SUBSET (DOMAIN s)
    PROVE  IT!Keeping(s, places) \in Seq(S)
<1> DEFINE order == IT!InOrder(places)
           n == Cardinality(places)
<1>1. DOMAIN s = 1..Len(s) /\ Len(s) \in Nat /\ \A i \in DOMAIN s : s[i] \in S
  OBVIOUS
<1>2. n \in Nat /\ order \in [1..n -> places]
  BY <1>1, NamedInOrder, NumbersInOrder
<1>3. IT!Keeping(s, places) = [k \in DOMAIN order |-> s[order[k]]]
  BY DEF IT!Keeping
<1> HIDE DEF order, n
<1>4. IT!Keeping(s, places) \in [1..n -> S]
  BY <1>1, <1>2, <1>3
<1>5. QED
  BY <1>2, <1>4, EntriesMakeSeq

\* The first entries of a sequence.
LEMMA Front ==
    ASSUME NEW S, NEW s \in Seq(S), NEW n \in Nat,
           NEW t, t = SubSeq(s, 1, IF Len(s) < n THEN Len(s) ELSE n)
    PROVE  /\ t \in Seq(S) /\ Len(t) <= n /\ Len(t) <= Len(s)
           /\ (Len(s) <= n => Len(t) = Len(s)) /\ (n <= Len(s) => Len(t) = n)
           /\ \A i \in 1..Len(t) : t[i] = s[i]
OBVIOUS

-----------------------------------------------------------------------------
(* The target of an import and its configuration.                          *)

\* What the stored presets and the undo stack hold can be put on display.
StoreTyped ==
    /\ opts \in IT!Options /\ undo \in Seq(IT!Options)
    /\ map \in [DOMAIN FileColumns -> IT!Columns \cup {None}]
    /\ presets \in [IT!Targets -> IT!Preset \cup {None}]
    /\ snaps \in [IT!Targets -> Seq(IT!Preset)]
    /\ applied \in IT!Preset \cup {None}

\* The columns loaded are those of a table of the connection; what is mapped
\* are columns loaded; and from the mapping step on they are the columns of
\* the target, unless the target was left in one of the two ways.
ConfigOfColumns ==
    /\ step \in {"input", "table", "map", "preview"}
    /\ table # None => schema # None
    /\ step \in {"map", "preview"} => table # None
    /\ schema \in ImportSchemas \cup {None} /\ table \in Tables \cup {None}
    /\ loading # None => loading = IT!Sel
    /\ colsOf # None => colsOf \in IT!Targets /\ cols = Exists[colsOf]
    /\ colsOf = None => cols = {}
    /\ \A i \in DOMAIN FileColumns : map[i] \in cols \cup {None}
    /\ cols # {} => IT!Sel \in IT!Targets
    /\ step \in {"map", "preview"} /\ ~stray => colsOf \in {None, IT!Sel}

TargetInv == StoreTyped /\ ConfigOfColumns

\* What a mapping writes.
LEMMA WrittenIs ==
    ASSUME NEW mp
    PROVE  /\ \A c : c \in IT!Written(mp) <=> c # None /\ \E i \in DOMAIN mp : c = mp[i]
BY DEF IT!Written, IT!Range

LEMMA FirstSteps ==
    ASSUME NEW S
    PROVE  << >> \in Seq(S) /\ Len(<< >>) = 0
OBVIOUS

\* The places of the steps.
LEMMA StepsInOrder ==
    /\ IT!Range(IT!Steps) = {"input", "table", "map", "preview"}
    /\ IT!At("input") = 1 /\ IT!At("table") = 2 /\ IT!At("map") = 3 /\ IT!At("preview") = 4
<1>1. /\ DOMAIN IT!Steps = 1..4
      /\ IT!Steps[1] = "input" /\ IT!Steps[2] = "table" /\ IT!Steps[3] = "map" /\ IT!Steps[4] = "preview"
  BY DEF IT!Steps
<1>2. \A i \in 1..4 : i = 1 \/ i = 2 \/ i = 3 \/ i = 4
  OBVIOUS
<1>3. \A s : (\E i \in 1..4 : IT!Steps[i] = s) => IT!At(s) \in 1..4 /\ IT!Steps[IT!At(s)] = s
  BY <1>1 DEF IT!At
<1>4. IT!Range(IT!Steps) = {"input", "table", "map", "preview"}
  BY <1>1, <1>2 DEF IT!Range
<1>5. QED
  BY <1>1, <1>2, <1>3, <1>4

LEMMA TargetStarts == IT!TargetAssumption /\ IT!Init => TargetInv
<1> SUFFICES ASSUME IT!TargetAssumption, IT!Init
             PROVE  TargetInv
  OBVIOUS
<1>1. opts \in IT!Options /\ map \in [DOMAIN FileColumns -> IT!Columns \cup {None}]
      /\ \A i \in DOMAIN FileColumns : map[i] = None
  BY DEF IT!Init, IT!Options, IT!NoMap
<1>2. presets \in [IT!Targets -> IT!Preset \cup {None}] /\ snaps \in [IT!Targets -> Seq(IT!Preset)]
  BY DEF IT!Init, IT!TargetAssumption
<1>3. undo \in Seq(IT!Options)
  BY FirstSteps DEF IT!Init
<1>6. applied \in IT!Preset \cup {None}
  BY DEF IT!Init
<1>4. ConfigOfColumns
  BY <1>1 DEF IT!Init, ConfigOfColumns
<1>5. QED
  BY <1>1, <1>2, <1>3, <1>4, <1>6 DEF TargetInv, StoreTyped

\* Another step or another target.
LEMMA MovedKeeps ==
    ASSUME IT!TargetAssumption, TargetInv, NEW s,
           NEW k \in (ImportSchemas \cup {None}) \X (Tables \cup {None}), IT!Moved(s, k),
           UNCHANGED <<opts, presets, snaps, applied>>,
           \/ cols' = {} /\ colsOf' = None /\ map' = IT!NoMap
           \/ UNCHANGED <<cols, colsOf, map>> /\ (cols # {} => k \in IT!Targets),
           s \in {"map", "preview"} /\ ~stray' => colsOf' \in {None, k},
           s \in {"input", "table", "map", "preview"},
           k[2] # None => k[1] # None, s \in {"map", "preview"} => k[2] # None
    PROVE  TargetInv'
<1>1. /\ step' = s /\ schema' = k[1] /\ table' = k[2] /\ k = <<k[1], k[2]>>
      /\ k[1] \in ImportSchemas \cup {None} /\ k[2] \in Tables \cup {None}
  BY DEF IT!Moved
<1>2. IT!Sel' = k
  BY <1>1 DEF IT!Sel
<1>3. loading' # None => loading' = k
  <2>1. <<s, k>> = <<step, IT!Sel>> /\ loading # None => loading = k
    BY DEF TargetInv, ConfigOfColumns
  <2>2. loading' \in {loading, k, None} /\ (loading' = loading \/ loading' = k \/ loading' = None)
        /\ (<<s, k>> # <<step, IT!Sel>> => loading' \in {k, None})
    BY DEF IT!Moved
  <2>3. QED
    BY <2>1, <2>2
<1>4. undo' \in Seq(IT!Options)
  BY FirstSteps DEF IT!Moved, TargetInv, StoreTyped
<1>5. /\ map' \in [DOMAIN FileColumns -> IT!Columns \cup {None}]
      /\ \A i \in DOMAIN FileColumns : map'[i] \in cols' \cup {None}
  BY DEF IT!NoMap, TargetInv, StoreTyped, ConfigOfColumns
<1>6. StoreTyped'
  BY <1>4, <1>5 DEF TargetInv, StoreTyped
<1>7. /\ colsOf' # None => colsOf' \in IT!Targets /\ cols' = Exists[colsOf']
      /\ colsOf' = None => cols' = {}
      /\ cols' # {} => k \in IT!Targets
  BY DEF TargetInv, ConfigOfColumns
<1>8. ConfigOfColumns'
  BY <1>1, <1>2, <1>3, <1>5, <1>7 DEF ConfigOfColumns
<1>9. QED
  BY <1>6, <1>8 DEF TargetInv

\* The user works on the configuration, in the mapping step or the preview.
LEMMA ActsKeep ==
    ASSUME TargetInv, UNCHANGED <<step, schema, table, loading, stray, cols, colsOf>>,
           opts' \in IT!Options, undo' \in Seq(IT!Options),
           map' \in [DOMAIN FileColumns -> IT!Columns \cup {None}],
           \A i \in DOMAIN FileColumns : map'[i] \in cols \cup {None},
           presets' \in [IT!Targets -> IT!Preset \cup {None}],
           snaps' \in [IT!Targets -> Seq(IT!Preset)],
           applied' \in IT!Preset \cup {None}
    PROVE  TargetInv'
<1>1. StoreTyped'
  BY DEF StoreTyped
<1>2. IT!Sel' = IT!Sel
  BY DEF IT!Sel
<1>3. ConfigOfColumns'
  BY <1>2 DEF TargetInv, ConfigOfColumns
<1>4. QED
  BY <1>1, <1>3 DEF TargetInv

\* An entry on top of the undo stack.
LEMMA PushedIsTyped ==
    ASSUME IT!TargetAssumption, undo \in Seq(IT!Options), NEW os \in IT!Options
    PROVE  IT!Pushed(os) \in Seq(IT!Options)
<1> DEFINE s == <<os>> \o undo
<1>1. s \in Seq(IT!Options) /\ Len(s) = Len(undo) + 1 /\ Len(undo) \in Nat
  <2> DEFINE S == IT!Options
  <2> HIDE DEF S
  <2>1. undo \in Seq(S) /\ os \in S
    BY DEF S
  <2>2. s \in Seq(S) /\ Len(s) = Len(undo) + 1 /\ Len(undo) \in Nat
    BY <2>1
  <2>3. QED
    BY <2>2 DEF S
<1> DEFINE n == IF Len(undo) < TargetHistory THEN Len(undo) + 1 ELSE TargetHistory
<1>2. n \in Nat /\ n <= Len(s)
  BY <1>1 DEF IT!TargetAssumption
<1>3. IT!Pushed(os) = SubSeq(s, 1, n)
  BY DEF IT!Pushed
<1> HIDE DEF s, n
<1>4. QED
  <2> HIDE DEF IT!Options
  <2>1. QED
    BY <1>1, <1>2, <1>3

\* What a stored preset puts on display, for the columns loaded.
LEMMA FittedIs ==
    ASSUME TargetInv, NEW p \in IT!Preset
    PROVE  /\ p.opts \in IT!Options /\ DOMAIN p.map = DOMAIN FileColumns
           /\ IT!Fitted(p, cols) \in [DOMAIN FileColumns -> IT!Columns \cup {None}]
           /\ \A i \in DOMAIN FileColumns : IT!Fitted(p, cols)[i] \in cols \cup {None}
           /\ \A i \in DOMAIN FileColumns :
                p.map[i] \in cols => IT!Fitted(p, cols)[i] = p.map[i]
<1>1. p.opts \in IT!Options /\ p.map \in [DOMAIN FileColumns -> IT!Columns \cup {None}]
  BY DEF IT!Preset
<1>2. IT!Fitted(p, cols) = [i \in DOMAIN FileColumns |-> IF p.map[i] \in cols THEN p.map[i] ELSE None]
  BY DEF IT!Fitted
<1>3. QED
  BY <1>1, <1>2

LEMMA InferredIs ==
    ASSUME IT!TargetAssumption, NEW cs
    PROVE  /\ DOMAIN IT!Inferred(cs) = DOMAIN FileColumns
           /\ \A i \in DOMAIN FileColumns : IT!Inferred(cs)[i] \in cs \cup {None}
           /\ IT!Inferred(cs) \in [DOMAIN FileColumns -> cs \cup {None}]
BY DEF IT!Inferred

LEMMA ColumnsKnown ==
    ASSUME IT!TargetAssumption, NEW k \in IT!Targets
    PROVE  Exists[k] \subseteq IT!Columns
BY DEF IT!TargetAssumption, IT!Columns, IT!Range

\* A snapshot in exchange for the stored preset.
LEMMA ExchangedIsTyped ==
    ASSUME IT!TargetAssumption, TargetInv, IT!Sel \in IT!Targets, NEW i \in DOMAIN snaps[IT!Sel],
           IT!Exchanged(i)
    PROVE  /\ snaps[IT!Sel][i] \in IT!Preset
           /\ presets' \in [IT!Targets -> IT!Preset \cup {None}]
           /\ snaps' \in [IT!Targets -> Seq(IT!Preset)]
<1> DEFINE P == IT!Preset
           s == snaps[IT!Sel]
           cur == presets[IT!Sel]
           rest == IT!RemoveAt(s, i)
           all == IF cur = None \/ IT!Contains(rest, cur) THEN rest ELSE <<cur>> \o rest
           n == IF Len(all) < MaxSnapshots THEN Len(all) ELSE MaxSnapshots
<1>1. /\ presets' = [presets EXCEPT ![IT!Sel] = s[i]]
      /\ snaps' = [snaps EXCEPT ![IT!Sel] = SubSeq(all, 1, n)]
  BY DEF IT!Exchanged
<1>2. /\ presets \in [IT!Targets -> P \cup {None}] /\ snaps \in [IT!Targets -> Seq(P)]
      /\ s \in Seq(P) /\ cur \in P \cup {None}
  BY DEF TargetInv, StoreTyped
<1>3. rest = SubSeq(s, 1, i - 1) \o SubSeq(s, i + 1, Len(s))
  BY DEF IT!RemoveAt
<1>4. MaxSnapshots \in Nat
  BY DEF IT!TargetAssumption
<1> HIDE DEF P, s, cur
<1>5. i \in DOMAIN s
  BY DEF s
<1>6. s[i] \in P /\ rest \in Seq(P)
  BY <1>2, <1>3, <1>5
<1> HIDE DEF rest
<1>7. all \in Seq(P)
  BY <1>2, <1>6
<1> HIDE DEF all
<1>8. SubSeq(all, 1, n) \in Seq(P)
  BY <1>4, <1>7, Front
<1> HIDE DEF n
<1>9. presets' \in [IT!Targets -> P \cup {None}] /\ snaps' \in [IT!Targets -> Seq(P)]
  BY <1>1, <1>2, <1>6, <1>8
<1>10. QED
  BY <1>6, <1>9 DEF P, s

\* A snapshot restored, with or without an undo entry.
LEMMA RestoresKeep ==
    ASSUME IT!TargetAssumption, TargetInv, UNCHANGED <<step, schema, table, loading, stray, cols, colsOf>>,
           IT!Sel \in IT!Targets, NEW i \in DOMAIN snaps[IT!Sel],
           IT!Exchanged(i), IT!Configured(snaps[IT!Sel][i], cols),
           undo' = undo \/ undo' = IT!Pushed(opts),
           applied' = applied \/ applied' = snaps[IT!Sel][i]
    PROVE  TargetInv'
<1>2. /\ snaps[IT!Sel][i] \in IT!Preset
      /\ presets' \in [IT!Targets -> IT!Preset \cup {None}]
      /\ snaps' \in [IT!Targets -> Seq(IT!Preset)]
  BY ExchangedIsTyped
<1> DEFINE p == snaps[IT!Sel][i]
<1>3. map' = IT!Fitted(p, cols) /\ opts' = p.opts /\ p \in IT!Preset
  BY <1>2 DEF IT!Configured
<1> HIDE DEF p
<1>4. /\ opts' \in IT!Options
      /\ map' \in [DOMAIN FileColumns -> IT!Columns \cup {None}]
      /\ \A j \in DOMAIN FileColumns : map'[j] \in cols \cup {None}
  BY <1>3, FittedIs
<1>5. undo' \in Seq(IT!Options)
  BY PushedIsTyped DEF TargetInv, StoreTyped
<1>6. applied' \in IT!Preset \cup {None}
  BY <1>2 DEF TargetInv, StoreTyped
<1>7. QED
  BY <1>2, <1>4, <1>5, <1>6, ActsKeep

\* The columns of a table arrive.
LEMMA ColumnsKeep ==
    ASSUME IT!TargetAssumption, TargetInv, NEW k \in IT!Targets, IT!ColumnsArrive(k)
    PROVE  TargetInv'
<1> DEFINE p == presets[k]
           os == IF p = None THEN opts ELSE p.opts
<1>1. /\ loading = k /\ loading' = None /\ step' = "map" /\ cols' = Exists[k] /\ colsOf' = k
      /\ applied' = p
      /\ map' = (IF p = None THEN IT!Inferred(cols') ELSE IT!Fitted(p, cols'))
      /\ opts' = [os EXCEPT !.fixed = @ \/ pending]
      /\ UNCHANGED <<schema, table, presets, snaps, undo, stray>>
  BY DEF IT!ColumnsArrive, IT!store
<1>2. k # None /\ k = IT!Sel /\ IT!Sel' = IT!Sel
  BY <1>1 DEF TargetInv, ConfigOfColumns, IT!TargetAssumption, IT!Sel
<1>3. p \in IT!Preset \cup {None}
  BY DEF TargetInv, StoreTyped
<1> HIDE DEF p
<1>4. os \in IT!Options
  BY <1>3 DEF IT!Preset, TargetInv, StoreTyped
<1> HIDE DEF os
<1>5. opts' \in IT!Options
  BY <1>1, <1>4 DEF IT!Options
<1>6. /\ map' \in [DOMAIN FileColumns -> cols' \cup {None}]
  <2>1. CASE p = None
    BY <1>1, <2>1, InferredIs
  <2>2. CASE p # None
    <3>1. map' = [j \in DOMAIN FileColumns |-> IF p.map[j] \in cols' THEN p.map[j] ELSE None]
      BY <1>1, <2>2 DEF IT!Fitted
    <3>2. QED
      BY <3>1
  <2>3. QED
    BY <2>1, <2>2
<1>7. cols' \subseteq IT!Columns
  BY <1>1, ColumnsKnown
<1>8. map' \in [DOMAIN FileColumns -> IT!Columns \cup {None}]
      /\ \A j \in DOMAIN FileColumns : map'[j] \in cols' \cup {None}
  BY <1>6, <1>7
<1>9. StoreTyped'
  BY <1>1, <1>3, <1>5, <1>8 DEF TargetInv, StoreTyped
<1>10. ConfigOfColumns'
  <2>1. schema \in ImportSchemas /\ table \in Tables /\ schema # None /\ table # None
    BY <1>2 DEF IT!Sel, IT!Targets, IT!TargetAssumption
  <2>2. QED
    BY <1>1, <1>2, <1>8, <2>1 DEF TargetInv, ConfigOfColumns
<1>11. QED
  BY <1>9, <1>10 DEF TargetInv

\* The schemas arrive, and the first of them is chosen.
LEMMA SchemasKeep ==
    ASSUME IT!TargetAssumption, TargetInv, IT!SchemasArrive
    PROVE  TargetInv'
<1>1. /\ schema' = FirstSchema /\ UNCHANGED <<step, table, cols, colsOf, map, opts, presets, snaps, applied>>
      /\ stray' = (stray \/ schema \notin {None, FirstSchema})
      /\ loading' = IF schema = FirstSchema THEN loading
                    ELSE IF step = "table" /\ table # None THEN <<FirstSchema, table>> ELSE None
      /\ undo' = IF schema = FirstSchema THEN undo ELSE << >>
      /\ FirstSchema \in ImportSchemas /\ None \notin ImportSchemas /\ None \notin Tables
  BY DEF IT!SchemasArrive, IT!TargetAssumption, IT!config, IT!store
<1>2. IT!Sel = <<schema, table>> /\ IT!Sel' = <<FirstSchema, table>>
  BY <1>1 DEF IT!Sel
<1>3. undo' \in Seq(IT!Options)
  BY <1>1, FirstSteps DEF TargetInv, StoreTyped
<1>4. StoreTyped'
  BY <1>1, <1>3 DEF TargetInv, StoreTyped
<1>5. loading' # None => loading' = IT!Sel'
  BY <1>1, <1>2 DEF TargetInv, ConfigOfColumns
<1>6. cols # {} => IT!Sel' \in IT!Targets
  BY <1>1, <1>2 DEF TargetInv, ConfigOfColumns, IT!Targets
<1>7. step \in {"map", "preview"} /\ ~stray' => colsOf \in {None, IT!Sel'}
  <2> SUFFICES ASSUME step \in {"map", "preview"}, ~stray', colsOf # None
               PROVE  colsOf = IT!Sel'
    OBVIOUS
  <2>1. colsOf = IT!Sel /\ colsOf \in IT!Targets /\ schema \in {None, FirstSchema}
    BY <1>1 DEF TargetInv, ConfigOfColumns
  <2>2. schema \in ImportSchemas
    BY <1>2, <2>1 DEF IT!Targets
  <2>3. QED
    BY <1>1, <1>2, <2>1, <2>2
<1>8. ConfigOfColumns'
  BY <1>1, <1>5, <1>6, <1>7 DEF TargetInv, ConfigOfColumns
<1>9. QED
  BY <1>4, <1>8 DEF TargetInv

\* Every other way to another step or target.
LEMMA OtherTargetKeeps ==
    ASSUME IT!TargetAssumption, TargetInv,
           \/ \E s \in IT!Range(IT!Steps) : IT!Goto(s)
           \/ \E s \in ImportSchemas : IT!PickSchema(s)
           \/ \E t \in Tables : IT!PickTable(t)
           \/ \E k \in IT!Targets : IT!PickRecent(k) \/ IT!JumpTo(k) \/ IT!JumpToPreset(k)
    PROVE  TargetInv'
<1>1. /\ schema \in ImportSchemas \cup {None} /\ table \in Tables \cup {None}
      /\ IT!Sel \in (ImportSchemas \cup {None}) \X (Tables \cup {None})
      /\ cols # {} => IT!Sel \in IT!Targets
  BY DEF TargetInv, ConfigOfColumns, IT!Sel
<1>2. ASSUME NEW s \in IT!Range(IT!Steps), IT!Goto(s)
      PROVE  TargetInv'
  <2>1. /\ IT!Moved(s, IT!Sel) /\ UNCHANGED <<cols, colsOf, map, opts, presets, snaps, applied>>
        /\ stray' = (stray \/ (s \in {"map", "preview"} /\ colsOf \notin {None, IT!Sel}))
    BY <1>2 DEF IT!Goto, IT!config, IT!store
  <2>2. s \in {"input", "table", "map", "preview"} /\ s # step
        /\ (IT!At(s) > IT!At(step) => (s \in {"map", "preview"} => table # None))
    BY <1>2, StepsInOrder DEF IT!Goto
  <2>3. s \in {"map", "preview"} => table # None
    BY <2>2, StepsInOrder DEF TargetInv, ConfigOfColumns
  <2>4. IT!Sel[1] = schema /\ IT!Sel[2] = table
    BY DEF IT!Sel
  <2>5. table # None => schema # None
    BY DEF TargetInv, ConfigOfColumns
  <2>6. QED
    BY <1>1, <2>1, <2>2, <2>3, <2>4, <2>5, MovedKeeps
<1>3. ASSUME NEW s, NEW k \in (ImportSchemas \cup {None}) \X (Tables \cup {None}), IT!Moved(s, k), IT!Cleared,
             UNCHANGED <<presets, snaps>>, s = "table", k[2] # None => k[1] # None
      PROVE  TargetInv'
  BY <1>3, MovedKeeps DEF IT!Cleared
<1>4. ASSUME NEW s \in ImportSchemas, IT!PickSchema(s)
      PROVE  TargetInv'
  <2>1. <<s, None>> \in (ImportSchemas \cup {None}) \X (Tables \cup {None})
        /\ <<s, None>>[1] = s /\ <<s, None>>[2] = None
    OBVIOUS
  <2>2. QED
    BY <1>3, <1>4, <2>1 DEF IT!PickSchema, IT!store
<1>5. ASSUME NEW t \in Tables, IT!PickTable(t)
      PROVE  TargetInv'
  <2>1. <<schema, t>> \in (ImportSchemas \cup {None}) \X (Tables \cup {None})
        /\ <<schema, t>>[1] = schema /\ <<schema, t>>[2] = t
    BY <1>1
  <2>2. QED
    BY <1>3, <1>5, <2>1 DEF IT!PickTable, IT!store
<1>6. ASSUME NEW k \in IT!Targets, IT!PickRecent(k) \/ IT!JumpTo(k)
      PROVE  TargetInv'
  <2>1. k \in (ImportSchemas \cup {None}) \X (Tables \cup {None}) /\ k[1] # None
    BY DEF IT!Targets, IT!TargetAssumption
  <2>2. QED
    BY <1>3, <1>6, <2>1 DEF IT!PickRecent, IT!JumpTo, IT!store
<1>7. ASSUME NEW k \in IT!Targets, IT!JumpToPreset(k)
      PROVE  TargetInv'
  <2>1. k \in (ImportSchemas \cup {None}) \X (Tables \cup {None}) /\ k[1] # None
    BY DEF IT!Targets, IT!TargetAssumption
  <2>2. IT!Moved("table", k) /\ UNCHANGED <<cols, colsOf, map, opts, presets, snaps, applied>>
    BY <1>7 DEF IT!JumpToPreset, IT!config, IT!store
  <2>3. k \in IT!Targets /\ "table" \in {"input", "table", "map", "preview"} /\ "table" \notin {"map", "preview"}
    OBVIOUS
  <2>4. QED
    BY <2>1, <2>2, <2>3, MovedKeeps
<1>8. QED
  BY <1>2, <1>4, <1>5, <1>6, <1>7

\* The target is one of the connection's wherever something can be mapped.
LEMMA TargetChosen ==
    ASSUME IT!TargetAssumption, TargetInv, cols # {} \/ step \in {"map", "preview"}
    PROVE  IT!Sel \in IT!Targets
BY DEF TargetInv, ConfigOfColumns, IT!Sel, IT!Targets, IT!TargetAssumption

\* A saved import.
LEMMA ImportedKeeps ==
    ASSUME IT!TargetAssumption, TargetInv, IT!Imported
    PROVE  TargetInv'
<1> DEFINE P == IT!Preset
           s == snaps[IT!Sel]
           was == presets[IT!Sel]
           mine == [map |-> map, opts |-> opts]
           others == IT!Keeping(s, {i \in DOMAIN s : s[i] # was})
           all == Append(others, was)
           n == IF Len(all) < MaxSnapshots THEN Len(all) ELSE MaxSnapshots
<1>1. /\ UNCHANGED <<step, schema, table, loading, stray, cols, colsOf, map, opts, applied>>
      /\ presets' = [presets EXCEPT ![IT!Sel] = mine] /\ undo' = << >>
      /\ snaps' = (IF was \in {None, mine} THEN snaps
                   ELSE [snaps EXCEPT ![IT!Sel] = SubSeq(all, 1, n)])
  BY DEF IT!Imported, IT!Acts
<1>2. opts \in IT!Options /\ map \in [DOMAIN FileColumns -> IT!Columns \cup {None}]
      /\ \A i \in DOMAIN FileColumns : map[i] \in cols \cup {None}
  BY DEF TargetInv, StoreTyped, ConfigOfColumns
<1>3. IT!Sel \in IT!Targets
  <2>1. PICK c : c \in IT!Written(map)
    BY DEF IT!Imported
  <2>2. c # None /\ \E i \in DOMAIN map : c = map[i]
    BY <2>1, WrittenIs
  <2>3. cols # {}
    BY <1>2, <2>2
  <2>4. QED
    BY <2>3, TargetChosen
<1>4. mine \in P
  BY <1>2 DEF IT!Preset
<1>5. presets \in [IT!Targets -> P \cup {None}] /\ snaps \in [IT!Targets -> Seq(P)]
      /\ s \in Seq(P) /\ was \in P \cup {None}
  BY <1>3 DEF TargetInv, StoreTyped
<1>6. MaxSnapshots \in Nat
  BY DEF IT!TargetAssumption
<1> HIDE DEF P, s, was, mine
<1>7. others \in Seq(P)
  <2>1. {i \in DOMAIN s : s[i] # was} \in SUBSET (DOMAIN s)
    OBVIOUS
  <2>2. QED
    BY <1>5, <2>1, SnapshotsKept
<1> HIDE DEF others
<1>8. was # None => SubSeq(all, 1, n) \in Seq(P)
  <2> SUFFICES ASSUME was # None
               PROVE  SubSeq(all, 1, n) \in Seq(P)
    OBVIOUS
  <2>1. all \in Seq(P)
    BY <1>5, <1>7
  <2> HIDE DEF all
  <2>2. QED
    BY <1>6, <2>1, Front
<1> HIDE DEF all, n
<1>9. presets' \in [IT!Targets -> P \cup {None}] /\ snaps' \in [IT!Targets -> Seq(P)]
  BY <1>1, <1>4, <1>5, <1>8
<1>10. undo' \in Seq(IT!Options)
  BY <1>1, FirstSteps
<1>11. QED
  <2>1. presets' \in [IT!Targets -> IT!Preset \cup {None}] /\ snaps' \in [IT!Targets -> Seq(IT!Preset)]
    BY <1>9 DEF P
  <2>2. opts' \in IT!Options /\ map' \in [DOMAIN FileColumns -> IT!Columns \cup {None}]
        /\ \A i \in DOMAIN FileColumns : map'[i] \in cols \cup {None}
    BY <1>1, <1>2
  <2>3. QED
    BY <1>1, <1>10, <2>1, <2>2, ActsKeep DEF TargetInv, StoreTyped

\* The stored preset, or a snapshot, put in place of the configuration, and the
\* edits of the mapping step.
LEMMA WorkKeeps ==
    ASSUME IT!TargetAssumption, TargetInv,
           \/ \E i \in DOMAIN FileColumns, c \in cols \cup {None} : IT!EditMap(i, c)
           \/ \E o \in IT!Options : IT!EditOpts(o)
           \/ IT!ClearAndReset \/ IT!CompareCurrent \/ IT!UndoFix \/ IT!ApplyOld
           \/ \E i \in 1..MaxSnapshots : IT!RestoreHere(i) \/ IT!RestoreAligned(i)
           \/ IT!ConfirmRestore
    PROVE  TargetInv'
<1>1. /\ opts \in IT!Options /\ undo \in Seq(IT!Options)
      /\ map \in [DOMAIN FileColumns -> IT!Columns \cup {None}]
      /\ \A i \in DOMAIN FileColumns : map[i] \in cols \cup {None}
      /\ presets \in [IT!Targets -> IT!Preset \cup {None}]
      /\ snaps \in [IT!Targets -> Seq(IT!Preset)] /\ applied \in IT!Preset \cup {None}
  BY DEF TargetInv, StoreTyped, ConfigOfColumns
<1>2. cols \subseteq IT!Columns
  <2>1. colsOf # None => colsOf \in IT!Targets /\ cols = Exists[colsOf]
    BY DEF TargetInv, ConfigOfColumns
  <2>2. colsOf = None => cols = {}
    BY DEF TargetInv, ConfigOfColumns
  <2>3. QED
    BY <2>1, <2>2, ColumnsKnown
<1>3. ASSUME NEW i \in DOMAIN FileColumns, NEW c \in cols \cup {None}, IT!EditMap(i, c)
      PROVE  TargetInv'
  <2>1. /\ UNCHANGED <<step, schema, table, loading, stray, cols, colsOf, opts, applied, presets, snaps, undo>>
        /\ map' = [map EXCEPT ![i] = c]
    BY <1>3 DEF IT!EditMap, IT!Acts, IT!store
  <2>2. map' \in [DOMAIN FileColumns -> IT!Columns \cup {None}]
        /\ \A j \in DOMAIN FileColumns : map'[j] \in cols \cup {None}
    BY <1>1, <1>2, <2>1
  <2>3. QED
    BY <1>1, <2>1, <2>2, ActsKeep
<1>4. ASSUME NEW o \in IT!Options, IT!EditOpts(o)
      PROVE  TargetInv'
  <2>1. /\ UNCHANGED <<step, schema, table, loading, stray, cols, colsOf, map, applied, presets, snaps, undo>>
        /\ opts' = o
    BY <1>4 DEF IT!EditOpts, IT!Acts, IT!store
  <2>2. QED
    BY <1>1, <2>1, ActsKeep
<1>5. CASE IT!ClearAndReset
  <2>1. /\ UNCHANGED <<step, schema, table, loading, stray, cols, colsOf, opts, undo>>
        /\ applied' = None /\ map' = IT!Inferred(cols)
        /\ presets' = [presets EXCEPT ![IT!Sel] = None]
        /\ snaps' = [snaps EXCEPT ![IT!Sel] = << >>]
    BY <1>5 DEF IT!ClearAndReset, IT!Acts
  <2>2. presets' \in [IT!Targets -> IT!Preset \cup {None}] /\ snaps' \in [IT!Targets -> Seq(IT!Preset)]
    <3> DEFINE P == IT!Preset
    <3> HIDE DEF P
    <3>1. presets \in [IT!Targets -> P \cup {None}] /\ snaps \in [IT!Targets -> Seq(P)]
      BY <1>1 DEF P
    <3>2. << >> \in Seq(P)
      BY FirstSteps
    <3>3. presets' \in [IT!Targets -> P \cup {None}] /\ snaps' \in [IT!Targets -> Seq(P)]
      BY <2>1, <3>1, <3>2
    <3>4. QED
      BY <3>3 DEF P
  <2>3. map' \in [DOMAIN FileColumns -> IT!Columns \cup {None}]
        /\ \A j \in DOMAIN FileColumns : map'[j] \in cols \cup {None}
    BY <1>2, <2>1, InferredIs
  <2>4. QED
    BY <1>1, <2>1, <2>2, <2>3, ActsKeep
<1>6. CASE IT!CompareCurrent
  <2>1. /\ UNCHANGED <<step, schema, table, loading, stray, cols, colsOf, map, opts, applied, presets, snaps>>
        /\ undo' = IT!Pushed(applied.opts) /\ applied # None
    BY <1>6 DEF IT!CompareCurrent, IT!Acts, IT!store
  <2>2. undo' \in Seq(IT!Options)
    BY <1>1, <2>1, PushedIsTyped DEF IT!Preset
  <2>3. QED
    BY <1>1, <2>1, <2>2, ActsKeep
<1>7. CASE IT!UndoFix
  <2>1. /\ UNCHANGED <<step, schema, table, loading, stray, cols, colsOf, map, applied, presets, snaps>>
        /\ undo # << >> /\ opts' = Head(undo) /\ undo' = Tail(undo)
    BY <1>7 DEF IT!UndoFix, IT!Acts, IT!store
  <2>2. opts' \in IT!Options /\ undo' \in Seq(IT!Options)
    <3> HIDE DEF IT!Options
    <3>1. QED
      BY <1>1, <2>1
  <2>3. QED
    BY <1>1, <2>1, <2>2, ActsKeep
<1>8. CASE IT!ApplyOld
  <2> DEFINE p == presets[IT!Sel]
  <2>1. /\ UNCHANGED <<step, schema, table, loading, stray, cols, colsOf, presets, snaps>>
        /\ p # None /\ applied' = p /\ map' = IT!Fitted(p, cols) /\ opts' = p.opts
        /\ undo' = IT!Pushed(opts) /\ step = "preview"
    BY <1>8 DEF IT!ApplyOld, IT!Acts, IT!store, IT!Configured
  <2>2. IT!Sel \in IT!Targets
    BY <2>1, TargetChosen
  <2>3. p \in IT!Preset
    BY <1>1, <2>1, <2>2
  <2> HIDE DEF p
  <2>4. undo' \in Seq(IT!Options)
    BY <1>1, <2>1, PushedIsTyped
  <2>5. /\ opts' \in IT!Options
        /\ map' \in [DOMAIN FileColumns -> IT!Columns \cup {None}]
        /\ \A j \in DOMAIN FileColumns : map'[j] \in cols \cup {None}
    BY <2>1, <2>3, FittedIs
  <2>6. QED
    BY <1>1, <2>1, <2>3, <2>4, <2>5, ActsKeep
<1>9. ASSUME NEW i, IT!RestoreHere(i) \/ IT!RestoreAligned(i)
      PROVE  TargetInv'
  <2>1. /\ UNCHANGED <<step, schema, table, loading, stray, cols, colsOf>>
        /\ step \in {"map", "preview"} /\ i \in DOMAIN snaps[IT!Sel]
        /\ IT!Exchanged(i) /\ IT!Configured(snaps[IT!Sel][i], cols)
        /\ (undo' = undo \/ undo' = IT!Pushed(opts))
        /\ (applied' = applied \/ applied' = snaps[IT!Sel][i])
    BY <1>9 DEF IT!RestoreHere, IT!RestoreAligned, IT!DoRestore, IT!Acts, IT!Listed
  <2>2. QED
    BY <2>1, TargetChosen, RestoresKeep
<1>10. CASE IT!ConfirmRestore
  <2> DEFINE i == asking.at
  <2>1. /\ UNCHANGED <<step, schema, table, loading, stray, cols, colsOf>>
        /\ step \in {"map", "preview"} /\ i \in DOMAIN snaps[IT!Sel]
        /\ IT!Exchanged(i) /\ IT!Configured(snaps[IT!Sel][i], cols)
        /\ (undo' = undo \/ undo' = IT!Pushed(opts))
        /\ (applied' = applied \/ applied' = snaps[IT!Sel][i])
    BY <1>10 DEF IT!ConfirmRestore, IT!DoRestore, IT!Acts, IT!Asked, IT!Listed
  <2> HIDE DEF i
  <2>2. QED
    BY <2>1, TargetChosen, RestoresKeep
<1>11. QED
  BY <1>3, <1>4, <1>5, <1>6, <1>7, <1>8, <1>9, <1>10

\* Nothing of the configuration changes.
LEMMA TargetRests ==
    ASSUME IT!TargetAssumption, TargetInv,
           \/ IT!AcceptSuggestions \/ IT!ColumnsFail \/ IT!DismissRestore \/ IT!ArmApply
           \/ IT!DisarmApply \/ UNCHANGED IT!vars
           \/ \E i \in 1..MaxSnapshots : IT!AskRestore(i)
    PROVE  TargetInv'
<1>1. /\ UNCHANGED <<step, schema, table, stray, cols, colsOf, opts, undo, map, applied, presets, snaps>>
      /\ loading' = loading \/ loading' = None
  BY DEF IT!AcceptSuggestions, IT!ColumnsFail, IT!DismissRestore, IT!ArmApply, IT!DisarmApply,
         IT!AskRestore, IT!Acts, IT!vars, IT!config, IT!store
<1>2. IT!Sel' = IT!Sel
  BY <1>1 DEF IT!Sel
<1>3. StoreTyped' /\ ConfigOfColumns'
  BY <1>1, <1>2 DEF TargetInv, StoreTyped, ConfigOfColumns
<1>4. QED
  BY <1>3 DEF TargetInv

\* The invariant gives the property.
LEMMA MappedFits == IT!TargetAssumption /\ TargetInv => IT!ConfigFitsTarget
<1> SUFFICES ASSUME IT!TargetAssumption, TargetInv, step \in {"map", "preview"}, ~stray,
                    IT!Written(map) # {}
             PROVE  colsOf = IT!Sel /\ IT!Written(map) \subseteq Exists[IT!Sel]
  BY DEF IT!ConfigFitsTarget
<1>1. DOMAIN map = DOMAIN FileColumns /\ \A j \in DOMAIN FileColumns : map[j] \in cols \cup {None}
  BY DEF TargetInv, StoreTyped, ConfigOfColumns
<1>2. \A c \in IT!Written(map) : c \in cols
  BY <1>1, WrittenIs
<1>3. colsOf = IT!Sel /\ cols = Exists[colsOf]
  BY <1>2 DEF TargetInv, ConfigOfColumns
<1>4. QED
  BY <1>2, <1>3

LEMMA TargetGoes ==
    ASSUME IT!TargetAssumption, TargetInv, [IT!Next]_(IT!vars)
    PROVE  TargetInv'
BY OtherTargetKeeps, ColumnsKeep, SchemasKeep, WorkKeeps, TargetRests, ImportedKeeps DEF IT!Next

-----------------------------------------------------------------------------
(* The store of the presets.                                               *)

LEMMA PlacesInOrder ==
    ASSUME NEW m \in Nat, NEW places \in SUBSET (1..m)
    PROVE  /\ PS!InOrder(places) \in [1..Cardinality(places) -> places]
           /\ \A k \in 1..Cardinality(places) : RankIn(places, PS!InOrder(places)[k]) = k
<1>1. \A S : PS!Cardinality(S) = Cardinality(S)
  BY Zenon DEF PS!Cardinality, Cardinality
<1>2. ASSUME NEW k \in 1..Cardinality(places)
      PROVE  /\ PS!Nth(places, k) \in places
             /\ RankIn(places, PS!Nth(places, k)) = k
  <2>1. \E n \in places : PS!Cardinality({i \in places : i <= n}) = k
    <3>1. PICK n \in places : Cardinality({i \in places : i <= n}) = k
      BY NumbersInOrder
    <3>2. PS!Cardinality({i \in places : i <= n}) = k
      BY <1>1, <3>1
    <3>3. QED
      BY <3>2
  <2>2. /\ PS!Nth(places, k) \in places
        /\ PS!Cardinality({i \in places : i <= PS!Nth(places, k)}) = k
    BY <2>1 DEF PS!Nth
  <2>3. QED
    BY <1>1, <2>2 DEF RankIn
<1>3. PS!InOrder(places) = [k \in 1..Cardinality(places) |-> PS!Nth(places, k)]
  BY <1>1 DEF PS!InOrder
<1>4. QED
  BY <1>2, <1>3

\* What filter() leaves: as many entries as were kept, each of them one of
\* the kept places, and no place twice.
LEMMA KeptIs ==
    ASSUME NEW S, NEW s \in Seq(S), NEW places \in SUBSET (DOMAIN s)
    PROVE  /\ PS!Keeping(s, places) \in Seq(S)
           /\ Len(PS!Keeping(s, places)) = Cardinality(places)
           /\ Cardinality(places) \in Nat /\ Cardinality(places) <= Len(s)
           /\ \A k \in 1..Cardinality(places) :
                /\ PS!InOrder(places)[k] \in places
                /\ PS!Keeping(s, places)[k] = s[PS!InOrder(places)[k]]
           /\ \A k, l \in 1..Cardinality(places) :
                PS!InOrder(places)[k] = PS!InOrder(places)[l] => k = l
<1> DEFINE order == PS!InOrder(places)
           n == Cardinality(places)
<1>1. DOMAIN s = 1..Len(s) /\ Len(s) \in Nat /\ \A i \in DOMAIN s : s[i] \in S
  OBVIOUS
<1>2. n \in Nat /\ n <= Len(s) /\ order \in [1..n -> places]
      /\ \A k \in 1..n : RankIn(places, order[k]) = k
  BY <1>1, PlacesInOrder, NumbersInOrder
<1>3. PS!Keeping(s, places) = [k \in DOMAIN order |-> s[order[k]]]
  BY DEF PS!Keeping
<1> HIDE DEF order, n
<1>4. PS!Keeping(s, places) \in [1..n -> S]
  BY <1>1, <1>2, <1>3
<1>5. PS!Keeping(s, places) \in Seq(S) /\ Len(PS!Keeping(s, places)) = n
  BY <1>2, <1>4, EntriesMakeSeq
<1>6. \A k \in 1..n : order[k] \in places /\ PS!Keeping(s, places)[k] = s[order[k]]
  BY <1>2, <1>3
<1>7. \A k, l \in 1..n : order[k] = order[l] => k = l
  BY <1>2
<1>8. QED
  BY <1>2, <1>5, <1>6, <1>7 DEF n, order

\* The members of a finite set one after the other.
LEMMA EachOnce ==
    ASSUME NEW S, IsFiniteSet(S)
    PROVE  /\ PS!AnyOrder(S) \in Seq(S) /\ Len(PS!AnyOrder(S)) = Cardinality(S)
           /\ Cardinality(S) \in Nat
           /\ \A i, j \in 1..Cardinality(S) : PS!AnyOrder(S)[i] = PS!AnyOrder(S)[j] => i = j
           /\ \A x \in S : \E i \in 1..Cardinality(S) : PS!AnyOrder(S)[i] = x
<1> DEFINE n == Cardinality(S)
           f == PS!AnyOrder(S)
<1>1. n \in Nat
  BY FS_CardinalityType
<1>2. PS!Cardinality(S) = n
  BY Zenon DEF PS!Cardinality, Cardinality
<1>3. PICK g : g \in [1..n -> S] /\ \A a, b \in 1..n : g[a] = g[b] => a = b
  <2>1. ExistsBijection(1..n, S)
    BY FS_CardinalityType
  <2>2. PICK g : g \in Bijection(1..n, S)
    BY <2>1 DEF ExistsBijection
  <2>3. g \in [1..n -> S] /\ IsInjective(g)
    BY <2>2 DEF Bijection, Injection
  <2>4. QED
    BY <2>3 DEF IsInjective
<1>4. f \in [1..n -> S] /\ \A a, b \in 1..n : f[a] = f[b] => a = b
  <2>1. g \in [1..n -> S] /\ PS!IsInjective(g)
    BY <1>3 DEF PS!IsInjective
  <2>2. f \in [1..n -> S] /\ PS!IsInjective(f)
    BY <1>2, <2>1 DEF PS!AnyOrder
  <2>3. QED
    BY <2>2 DEF PS!IsInjective
<1> HIDE DEF f, n
<1>5. f \in Seq(S) /\ Len(f) = n
  BY <1>1, <1>4, EntriesMakeSeq
<1>6. ASSUME NEW x \in S, \A i \in 1..n : f[i] # x
      PROVE  FALSE
  <2> DEFINE T == S \ {x}
  <2>1. IsFiniteSet(T) /\ Cardinality(T) = n - 1
    BY <1>6, FS_RemoveElement DEF n
  <2>2. IsFiniteSet(1..n) /\ Cardinality(1..n) = n
    <3>1. 1 \in Int /\ n \in Int /\ (IF 1 > n THEN 0 ELSE n - 1 + 1) = n
      BY <1>1
    <3>2. QED
      BY <3>1, FS_Interval
  <2>3. f \in [1..n -> T]
    BY <1>4, <1>6
  <2> HIDE DEF T
  <2>4. Cardinality(T) < Cardinality(1..n)
    BY <1>1, <2>1, <2>2
  <2>5. \E a, b \in 1..n : a # b /\ f[a] = f[b]
    BY <2>1, <2>2, <2>3, <2>4, FS_PigeonHole
  <2>6. QED
    BY <1>4, <2>5
<1>7. QED
  BY <1>1, <1>4, <1>5, <1>6 DEF f, n

PresetsTyped ==
    /\ presets \in [Keys -> PS!Saved \cup {None}]
    /\ snaps \in [Keys -> Seq(PS!Saved)]
    /\ bin \in Seq(PS!Tombstone)
    /\ bar # None => bar \in PS!Tombstone

\* No list is longer than its limit.
Limited ==
    /\ \A k \in Keys : Len(snaps[k]) <= MaxSnapshots
    /\ Len(bin) <= MaxTombstones

\* A table has one tombstone.
OneTombstone == \A i, j \in DOMAIN bin : bin[i].key = bin[j].key => i = j

PresetsInv == sel \in Keys /\ PresetsTyped /\ Limited /\ OneTombstone

LEMMA PresetsStart == PS!StoreAssumption /\ PS!Init => PresetsInv
<1> SUFFICES ASSUME PS!StoreAssumption, PS!Init
             PROVE  PresetsInv
  OBVIOUS
<1>1. sel \in Keys
  BY DEF PS!Init, PS!StoreAssumption
<1>2. presets \in [Keys -> PS!Saved \cup {None}] /\ bar = None /\ bin = << >>
      /\ snaps = [k \in Keys |-> << >>]
  BY DEF PS!Init
<1>3. snaps \in [Keys -> Seq(PS!Saved)] /\ bin \in Seq(PS!Tombstone)
      /\ Len(bin) = 0 /\ \A k \in Keys : Len(snaps[k]) = 0
  BY <1>2, FirstSteps
<1>4. MaxSnapshots \in Nat /\ MaxTombstones \in Nat /\ DOMAIN bin = {}
  BY <1>2 DEF PS!StoreAssumption
<1>5. QED
  BY <1>1, <1>2, <1>3, <1>4 DEF PresetsInv, PresetsTyped, Limited, OneTombstone

LEMMA FirstIs ==
    ASSUME NEW S, NEW s \in Seq(S), NEW n \in Nat
    PROVE  /\ PS!First(s, n) \in Seq(S) /\ Len(PS!First(s, n)) <= n
           /\ Len(PS!First(s, n)) <= Len(s)
           /\ (Len(s) <= n => Len(PS!First(s, n)) = Len(s))
           /\ (n <= Len(s) => Len(PS!First(s, n)) = n)
           /\ \A i \in 1..Len(PS!First(s, n)) : PS!First(s, n)[i] = s[i]
BY Front DEF PS!First

\* One entry less.
LEMMA OneLess ==
    ASSUME NEW S, NEW s \in Seq(S), NEW i \in DOMAIN s
    PROVE  /\ PS!RemoveAt(s, i) \in Seq(S) /\ Len(PS!RemoveAt(s, i)) = Len(s) - 1
           /\ \A j \in 1..(Len(s) - 1) :
                PS!RemoveAt(s, i)[j] = IF j < i THEN s[j] ELSE s[j + 1]
<1> DEFINE a == SubSeq(s, 1, i - 1)
           b == SubSeq(s, i + 1, Len(s))
<1>1. PS!RemoveAt(s, i) = a \o b
  BY DEF PS!RemoveAt
<1>2. i \in 1..Len(s) /\ Len(s) \in Nat
  OBVIOUS
<1>3. a \in Seq(S) /\ Len(a) = i - 1 /\ \A j \in 1..(i - 1) : a[j] = s[j]
  BY <1>2
<1>4. b \in Seq(S) /\ Len(b) = Len(s) - i /\ \A j \in 1..(Len(s) - i) : b[j] = s[i + j]
  BY <1>2
<1> HIDE DEF a, b
<1>5. a \o b \in Seq(S) /\ Len(a \o b) = Len(s) - 1
  BY <1>2, <1>3, <1>4
<1>6. ASSUME NEW j \in 1..(Len(s) - 1)
      PROVE  (a \o b)[j] = IF j < i THEN s[j] ELSE s[j + 1]
  <2>1. CASE j < i
    BY <1>2, <1>3, <1>4, <2>1
  <2>2. CASE ~(j < i)
    <3>1. j - (i - 1) \in 1..(Len(s) - i) /\ i + (j - (i - 1)) = j + 1
      BY <1>2, <2>2
    <3>2. (a \o b)[j] = b[j - (i - 1)]
      BY <1>2, <1>3, <1>4, <2>2, SMTT(30)
    <3>3. QED
      BY <1>4, <2>2, <3>1, <3>2
  <2>3. QED
    BY <2>1, <2>2
<1>7. QED
  BY <1>1, <1>5, <1>6

\* Tombstones for presets of the store: the bin stays within its limit and is
\* no shorter than before, a table has one, and each of the presets is in it
\* as long as the bin can hold them all.
LEMMA EntombedIs ==
    ASSUME PS!StoreAssumption, PresetsInv, NEW ks \in SUBSET Keys,
           \A k \in ks : presets[k] \in PS!Saved
    PROVE  /\ PS!Entombed(ks) \in Seq(PS!Tombstone)
           /\ Len(PS!Entombed(ks)) <= MaxTombstones
           /\ Len(bin) <= Len(PS!Entombed(ks))
           /\ ks # {} => 1 <= Len(PS!Entombed(ks))
           /\ \A i, j \in DOMAIN PS!Entombed(ks) :
                PS!Entombed(ks)[i].key = PS!Entombed(ks)[j].key => i = j
           /\ Cardinality(ks) <= MaxTombstones =>
                \A k \in ks : \E i \in DOMAIN PS!Entombed(ks) :
                  /\ PS!Entombed(ks)[i].key = k
                  /\ PS!Entombed(ks)[i].version = presets[k]
<1> DEFINE T == PS!Tombstone
           order == PS!AnyOrder(ks)
           n == Cardinality(ks)
           new == [i \in DOMAIN order |-> PS!Buried(order[i])]
           places == {i \in DOMAIN bin : bin[i].key \notin ks}
           others == PS!Keeping(bin, places)
           nth == PS!InOrder(places)
           m == Cardinality(places)
           all == new \o others
           ent == PS!Entombed(ks)
<1>1. /\ snaps \in [Keys -> Seq(PS!Saved)] /\ bin \in Seq(T) /\ Len(bin) <= MaxTombstones
      /\ \A i, j \in DOMAIN bin : bin[i].key = bin[j].key => i = j
      /\ MaxTombstones \in Nat \ {0} /\ IsFiniteSet(Keys)
  <2>1. \A S : PS!IsFiniteSet(S) <=> IsFiniteSet(S)
    BY Zenon DEF PS!IsFiniteSet, IsFiniteSet
  <2>2. QED
    BY <2>1 DEF PresetsInv, PresetsTyped, Limited, OneTombstone, PS!StoreAssumption
<1>2. IsFiniteSet(ks)
  BY <1>1, FS_Subset
<1>3. /\ order \in Seq(ks) /\ Len(order) = n /\ n \in Nat
      /\ \A i, j \in 1..n : order[i] = order[j] => i = j
      /\ \A k \in ks : \E i \in 1..n : order[i] = k
  BY <1>2, EachOnce
<1>4. \A k \in ks : PS!Buried(k) \in T /\ PS!Buried(k).key = k /\ PS!Buried(k).version = presets[k]
  <2> SUFFICES ASSUME NEW k \in ks
               PROVE  PS!Buried(k) \in T /\ PS!Buried(k).key = k /\ PS!Buried(k).version = presets[k]
    OBVIOUS
  <2> DEFINE fresh == {i \in DOMAIN snaps[k] : ~PS!Expired(snaps[k][i])}
             some == PS!Keeping(snaps[k], fresh)
  <2>1. PS!Buried(k) = [key |-> k, version |-> presets[k], snaps |-> some]
    BY DEF PS!Buried
  <2>2. snaps[k] \in Seq(PS!Saved) /\ fresh \in SUBSET (DOMAIN snaps[k])
    BY <1>1
  <2> HIDE DEF fresh
  <2>3. some \in Seq(PS!Saved)
    BY <2>2, KeptIs
  <2> HIDE DEF some
  <2>4. QED
    BY <2>1, <2>3 DEF PS!Tombstone
<1>5. /\ DOMAIN bin = 1..Len(bin) /\ Len(bin) \in Nat
      /\ \A i \in DOMAIN bin : bin[i] \in T /\ bin[i].key \in Keys
  <2> HIDE DEF T
  <2>1. DOMAIN bin = 1..Len(bin) /\ Len(bin) \in Nat /\ \A i \in DOMAIN bin : bin[i] \in T
    BY <1>1
  <2>2. \A t \in T : t.key \in Keys
    BY DEF T, PS!Tombstone
  <2>3. QED
    BY <2>1, <2>2
<1>6. /\ others \in Seq(T) /\ Len(others) = m /\ m \in Nat
      /\ \A k \in 1..m : nth[k] \in places /\ others[k] = bin[nth[k]]
      /\ \A k, l \in 1..m : nth[k] = nth[l] => k = l
  <2>1. places \in SUBSET (DOMAIN bin)
    OBVIOUS
  <2> HIDE DEF T, places
  <2>2. QED
    BY <1>1, <2>1, KeptIs
<1>7. ent = PS!First(all, MaxTombstones)
  BY DEF PS!Entombed
<1>8. new \in Seq(T) /\ Len(new) = n /\ \A i \in 1..n : new[i] = PS!Buried(order[i]) /\ order[i] \in ks
  <2> HIDE DEF T, order, n
  <2>1. DOMAIN order = 1..n /\ \A i \in 1..n : order[i] \in ks
    BY <1>3
  <2>2. new \in [1..n -> T]
    BY <1>4, <2>1
  <2>3. new \in Seq(T) /\ Len(new) = n
    BY <1>3, <2>2, EntriesMakeSeq
  <2>4. \A i \in 1..n : new[i] = PS!Buried(order[i])
    BY <2>1
  <2>5. QED
    BY <2>1, <2>3, <2>4
<1>9. Len(bin) <= n + m
  <2> DEFINE gone == (DOMAIN bin) \ places
             f == [i \in gone |-> bin[i].key]
  <2>1. IsFiniteSet(DOMAIN bin) /\ Cardinality(DOMAIN bin) = Len(bin)
    <3>1. 1 \in Int /\ Len(bin) \in Int /\ (IF 1 > Len(bin) THEN 0 ELSE Len(bin) - 1 + 1) = Len(bin)
      BY <1>5
    <3>2. QED
      BY <1>5, <3>1, FS_Interval
  <2>2. IsFiniteSet(gone) /\ IsFiniteSet(places)
    BY <2>1, FS_Subset
  <2>3. DOMAIN bin = gone \cup places /\ gone \cap places = {}
    OBVIOUS
  <2>4. Cardinality(gone) <= n
    <3> SUFFICES ASSUME ~(Cardinality(gone) <= n)
                 PROVE  FALSE
      OBVIOUS
    <3>1. f \in [gone -> ks]
      OBVIOUS
    <3>2. Cardinality(gone) \in Nat
      BY <2>2, FS_CardinalityType
    <3>3. n < Cardinality(gone)
      BY <1>3, <3>2
    <3> HIDE DEF gone, f, places
    <3>4. \E x, y \in gone : x # y /\ f[x] = f[y]
      BY <1>2, <2>2, <3>1, <3>3, FS_PigeonHole DEF n
    <3>5. QED
      BY <1>1, <3>4 DEF f, gone
  <2>5. Cardinality(gone \cup places) = Cardinality(gone) + m - Cardinality(gone \cap places)
    <3> HIDE DEF gone, places
    <3>1. QED
      BY <2>2, FS_Union DEF m
  <2>6. Cardinality({}) = 0 /\ Cardinality(gone) \in Nat
    BY <2>2, FS_EmptySet, FS_CardinalityType
  <2> HIDE DEF gone, places, m, n
  <2>7. Cardinality(gone \cup places) = Len(bin) /\ Cardinality(gone \cap places) = 0
    BY <2>1, <2>3, <2>6
  <2>8. m \in Nat /\ n \in Nat
    BY <1>3, <1>6
  <2>9. QED
    BY <1>5, <2>4, <2>5, <2>6, <2>7, <2>8
<1>10. \A i \in places : bin[i].key \notin ks
  OBVIOUS
<1> HIDE DEF T, order, n, new, places, others, nth, m
<1>11. /\ all \in Seq(T) /\ Len(all) = n + m
       /\ \A i \in 1..n : all[i] = new[i]
       /\ \A i \in 1..m : all[n + i] = others[i]
  BY <1>3, <1>6, <1>8
<1>12. \A i \in 1..(n + m) : i \in 1..n \/ \E j \in 1..m : i = n + j
  <2> SUFFICES ASSUME NEW i \in 1..(n + m), i \notin 1..n
               PROVE  \E j \in 1..m : i = n + j
    OBVIOUS
  <2>1. i - n \in 1..m /\ i = n + (i - n)
    BY <1>3, <1>6
  <2>2. QED
    BY <2>1
<1>13. \A i, j \in 1..(n + m) : all[i].key = all[j].key => i = j
  <2>1. \A i \in 1..n : all[i].key = order[i] /\ order[i] \in ks
    BY <1>4, <1>8, <1>11
  <2>2. \A j \in 1..m : all[n + j] = bin[nth[j]] /\ nth[j] \in places
    BY <1>6, <1>11
  <2>3. \A j \in 1..m : all[n + j].key \notin ks
    BY <1>10, <2>2
  <2>4. \A j, l \in 1..m : all[n + j].key = all[n + l].key => j = l
    <3>1. \A i \in places : i \in DOMAIN bin
      BY DEF places
    <3>2. ASSUME NEW j \in 1..m, NEW l \in 1..m, all[n + j].key = all[n + l].key
          PROVE  j = l
      <4>1. bin[nth[j]].key = bin[nth[l]].key /\ nth[j] \in DOMAIN bin /\ nth[l] \in DOMAIN bin
        BY <2>2, <3>1, <3>2
      <4>2. nth[j] = nth[l]
        BY <1>1, <4>1
      <4>3. QED
        BY <1>6, <4>2
    <3>3. QED
      BY <3>2
  <2>5. ASSUME NEW i \in 1..(n + m), NEW j \in 1..(n + m), all[i].key = all[j].key
        PROVE  i = j
    <3>1. CASE i \in 1..n /\ j \in 1..n
      <4>1. order[i] = order[j]
        BY <2>1, <2>5, <3>1
      <4>2. QED
        BY <1>3, <3>1, <4>1
    <3>2. CASE i \in 1..n /\ j \notin 1..n
      BY <1>12, <2>1, <2>3, <2>5, <3>2
    <3>3. CASE i \notin 1..n /\ j \in 1..n
      BY <1>12, <2>1, <2>3, <2>5, <3>3
    <3>4. CASE i \notin 1..n /\ j \notin 1..n
      BY <1>12, <2>4, <2>5, <3>4
    <3>5. QED
      BY <3>1, <3>2, <3>3, <3>4
  <2>6. QED
    BY <2>5
<1> HIDE DEF all, ent
<1>14. /\ ent \in Seq(T) /\ Len(ent) <= MaxTombstones
       /\ (n + m <= MaxTombstones => Len(ent) = n + m)
       /\ (MaxTombstones <= n + m => Len(ent) = MaxTombstones)
       /\ \A i \in 1..Len(ent) : ent[i] = all[i]
  BY <1>1, <1>7, <1>11, FirstIs
<1>15. DOMAIN ent = 1..Len(ent) /\ Len(ent) \in Nat /\ Len(ent) <= n + m
  BY <1>1, <1>3, <1>6, <1>14
<1>16. Len(bin) <= Len(ent)
  BY <1>1, <1>3, <1>5, <1>6, <1>9, <1>14
<1>17. ks # {} => 1 <= Len(ent)
  <2>1. ks # {} => 1 <= n
    BY <1>3
  <2>2. QED
    BY <1>1, <1>3, <1>6, <1>14, <2>1
<1>18. ASSUME NEW i \in DOMAIN ent, NEW j \in DOMAIN ent, ent[i].key = ent[j].key
       PROVE  i = j
  <2>1. n + m \in Nat /\ Len(ent) <= n + m
    BY <1>3, <1>6, <1>15
  <2>2. i \in 1..Len(ent) /\ j \in 1..Len(ent) /\ i \in 1..(n + m) /\ j \in 1..(n + m)
    BY <1>15, <2>1
  <2>3. ent[i] = all[i] /\ ent[j] = all[j]
    BY <1>14, <2>2
  <2>4. QED
    BY <1>13, <1>18, <2>2, <2>3
<1>19. ASSUME n <= MaxTombstones, NEW k \in ks
       PROVE  \E i \in DOMAIN ent : ent[i].key = k /\ ent[i].version = presets[k]
  <2>1. PICK i \in 1..n : order[i] = k
    BY <1>3
  <2>2. i \in 1..Len(ent)
    BY <1>1, <1>3, <1>6, <1>14, <1>19
  <2>3. ent[i] = PS!Buried(k)
    BY <1>8, <1>11, <1>14, <2>1, <2>2
  <2>4. QED
    BY <1>4, <1>15, <2>2, <2>3
<1>20. QED
  BY <1>14, <1>16, <1>17, <1>18, <1>19 DEF ent, T, n

\* The presets deleted, each into the bin or not.
LEMMA DeletedKeeps ==
    ASSUME PS!StoreAssumption, PresetsInv, NEW ks \in SUBSET Keys, PS!Deleted(ks), sel' = sel,
           bin' \in Seq(PS!Tombstone), Len(bin') <= MaxTombstones,
           \A i, j \in DOMAIN bin' : bin'[i].key = bin'[j].key => i = j,
           bar' # None => bar' \in PS!Tombstone
    PROVE  PresetsInv'
<1>1. /\ presets' = [k \in Keys |-> IF k \in ks THEN None ELSE presets[k]]
      /\ snaps' = [k \in Keys |-> IF k \in ks THEN << >> ELSE snaps[k]]
  BY DEF PS!Deleted
<1>2. << >> \in Seq(PS!Saved) /\ Len(<< >>) = 0 /\ MaxSnapshots \in Nat
  BY FirstSteps DEF PS!StoreAssumption
<1>3. presets' \in [Keys -> PS!Saved \cup {None}] /\ snaps' \in [Keys -> Seq(PS!Saved)]
      /\ \A k \in Keys : Len(snaps'[k]) <= MaxSnapshots
  BY <1>1, <1>2 DEF PresetsInv, PresetsTyped, Limited
<1>4. QED
  BY <1>3 DEF PresetsInv, PresetsTyped, Limited, OneTombstone

\* A preset and its snapshots that come out of a tombstone.
LEMMA RestoredKeeps ==
    ASSUME PS!StoreAssumption, PresetsInv, NEW e \in PS!Tombstone, sel' = sel,
           presets' = [presets EXCEPT ![e.key] = e.version],
           snaps' = [snaps EXCEPT ![e.key] = PS!First(@ \o e.snaps, MaxSnapshots)],
           bin' = bin \/ \E i \in DOMAIN bin : bin' = PS!RemoveAt(bin, i),
           bar' = bar \/ bar' = None
    PROVE  PresetsInv'
<1>1. e.key \in Keys /\ e.version \in PS!Saved /\ e.snaps \in Seq(PS!Saved)
  BY DEF PS!Tombstone
<1>2. snaps \in [Keys -> Seq(PS!Saved)] /\ MaxSnapshots \in Nat
      /\ \A k \in Keys : Len(snaps[k]) <= MaxSnapshots
  BY DEF PresetsInv, PresetsTyped, Limited, PS!StoreAssumption
<1> DEFINE s == PS!First(snaps[e.key] \o e.snaps, MaxSnapshots)
<1>3. s \in Seq(PS!Saved) /\ Len(s) <= MaxSnapshots
  <2> DEFINE t == snaps[e.key] \o e.snaps
  <2>1. t \in Seq(PS!Saved)
    BY <1>1, <1>2
  <2> HIDE DEF t
  <2>2. PS!First(t, MaxSnapshots) \in Seq(PS!Saved) /\ Len(PS!First(t, MaxSnapshots)) <= MaxSnapshots
    BY <1>2, <2>1, FirstIs
  <2>3. QED
    BY <2>2 DEF t
<1> HIDE DEF s
<1>4. snaps' = [snaps EXCEPT ![e.key] = s]
  BY DEF s
<1>5. presets' \in [Keys -> PS!Saved \cup {None}] /\ snaps' \in [Keys -> Seq(PS!Saved)]
      /\ \A k \in Keys : Len(snaps'[k]) <= MaxSnapshots
  BY <1>1, <1>2, <1>3, <1>4 DEF PresetsInv, PresetsTyped
<1> DEFINE BinIsFine ==
             /\ bin' \in Seq(PS!Tombstone) /\ Len(bin') <= MaxTombstones
             /\ \A i, j \in DOMAIN bin' : bin'[i].key = bin'[j].key => i = j
<1>6. BinIsFine
  <2>1. CASE bin' = bin
    BY <2>1 DEF PresetsInv, PresetsTyped, Limited, OneTombstone
  <2>2. ASSUME NEW i \in DOMAIN bin, bin' = PS!RemoveAt(bin, i)
        PROVE  BinIsFine
    <3> DEFINE T == PS!Tombstone
    <3>1. bin \in Seq(T) /\ Len(bin) <= MaxTombstones /\ MaxTombstones \in Nat
          /\ \A a, b \in DOMAIN bin : bin[a].key = bin[b].key => a = b
      BY DEF PresetsInv, PresetsTyped, Limited, OneTombstone, PS!StoreAssumption
    <3> HIDE DEF T
    <3>2. /\ bin' \in Seq(T) /\ Len(bin') = Len(bin) - 1
          /\ \A j \in 1..(Len(bin) - 1) : bin'[j] = IF j < i THEN bin[j] ELSE bin[j + 1]
      BY <2>2, <3>1, OneLess
    <3>3. DOMAIN bin = 1..Len(bin) /\ Len(bin) \in Nat /\ DOMAIN bin' = 1..(Len(bin) - 1)
      BY <3>1, <3>2
    <3>4. ASSUME NEW a \in DOMAIN bin', NEW b \in DOMAIN bin', bin'[a].key = bin'[b].key
          PROVE  a = b
      <4> DEFINE p(x) == IF x < i THEN x ELSE x + 1
      <4>1. p(a) \in DOMAIN bin /\ p(b) \in DOMAIN bin /\ bin'[a] = bin[p(a)] /\ bin'[b] = bin[p(b)]
        BY <3>2, <3>3
      <4>2. p(a) = p(b)
        BY <3>1, <3>4, <4>1
      <4>3. QED
        BY <3>3, <4>2
    <3>5. QED
      BY <3>1, <3>2, <3>3, <3>4 DEF T
  <2>3. QED
    BY <2>1, <2>2
<1>7. QED
  BY <1>5, <1>6 DEF PresetsInv, PresetsTyped, Limited, OneTombstone

StoreInv == PresetsInv /\ saves \in Nat /\ now \in Nat

\* What is lost, for one table: the two ways to keep a version suffice.
LEMMA NothingLost ==
    ASSUME \A k \in Keys : PS!Replaced(k) => PS!Kept(k, presets[k].version)
    PROVE  PS!LostOnlySoStep
BY DEF PS!LostOnlySoStep

\* A preset that is not touched is not replaced.
LEMMA Touched ==
    ASSUME NEW k, PS!Replaced(k)
    PROVE  presets[k] # None /\ presets'[k] # presets[k]
BY DEF PS!Replaced

LEMMA NotShorter ==
    ASSUME Len(bin) <= Len(bin'), bin \in Seq(PS!Tombstone), bin' \in Seq(PS!Tombstone)
    PROVE  PS!OverwriteIsConfirmedStep
<1>1. Len(bin) \in Nat /\ Len(bin') \in Nat
  <2> DEFINE T == PS!Tombstone
  <2> HIDE DEF T
  <2>1. bin \in Seq(T) /\ bin' \in Seq(T)
    BY DEF T
  <2>2. QED
    BY <2>1
<1>2. QED
  BY <1>1 DEF PS!OverwriteIsConfirmedStep

LEMMA SaveKeeps ==
    ASSUME PS!StoreAssumption, StoreInv, now' = now, NEW v \in Versions, PS!SavePreset(v)
    PROVE  StoreInv' /\ PS!LostOnlySoStep /\ PS!OverwriteIsConfirmedStep
<1> DEFINE prev == presets[sel]
           s == snaps[sel]
           places == {i \in DOMAIN s : s[i].version # prev.version}
           others == PS!Without(s, prev.version)
           now1 == [version |-> v, at |-> now]
           all == Append(others, prev)
           t == PS!First(all, MaxSnapshots)
<1>1. /\ presets \in [Keys -> PS!Saved \cup {None}] /\ snaps \in [Keys -> Seq(PS!Saved)]
      /\ sel \in Keys /\ \A k \in Keys : Len(snaps[k]) <= MaxSnapshots
      /\ MaxSnapshots \in Nat \ {0} /\ None \notin PS!Saved /\ saves \in Nat
  BY DEF StoreInv, PresetsInv, PresetsTyped, Limited, PS!StoreAssumption
<1>2. /\ presets' = [presets EXCEPT ![sel] = now1] /\ saves' = saves + 1
      /\ snaps' = (IF prev = None \/ prev.version = v THEN snaps ELSE [snaps EXCEPT ![sel] = t])
      /\ UNCHANGED <<bin, sel, bar, asked>>
  BY DEF PS!SavePreset
<1>3. s \in Seq(PS!Saved) /\ Len(s) <= MaxSnapshots /\ prev \in PS!Saved \cup {None}
  BY <1>1
<1>4. others \in Seq(PS!Saved) /\ Len(others) <= Len(s)
  <2>1. others = PS!Keeping(s, places)
    BY DEF PS!Without
  <2>2. places \in SUBSET (DOMAIN s)
    OBVIOUS
  <2> HIDE DEF s, places, others
  <2>3. QED
    BY <1>3, <2>1, <2>2, KeptIs
<1> HIDE DEF prev, s, others, all, t
<1>5. ASSUME prev # None
      PROVE  /\ t \in Seq(PS!Saved) /\ Len(t) <= MaxSnapshots
             /\ Len(s) # MaxSnapshots => \E i \in DOMAIN t : t[i] = prev
  <2>1. /\ all \in Seq(PS!Saved) /\ Len(all) = Len(others) + 1 /\ all[Len(others) + 1] = prev
        /\ Len(others) \in Nat /\ Len(s) \in Nat
    BY <1>3, <1>4, <1>5 DEF all
  <2>2. /\ t \in Seq(PS!Saved) /\ Len(t) <= MaxSnapshots
        /\ (Len(all) <= MaxSnapshots => Len(t) = Len(all))
        /\ \A i \in 1..Len(t) : t[i] = all[i]
    BY <1>1, <2>1, FirstIs DEF t
  <2>3. ASSUME Len(s) # MaxSnapshots
        PROVE  \E i \in DOMAIN t : t[i] = prev
    <3>1. Len(t) = Len(others) + 1
      BY <1>1, <1>3, <1>4, <2>1, <2>2, <2>3
    <3>2. Len(others) + 1 \in 1..Len(t)
      BY <2>1, <3>1
    <3>3. t[Len(others) + 1] = prev
      BY <2>1, <2>2, <3>2
    <3>4. DOMAIN t = 1..Len(t)
      BY <2>2
    <3>5. QED
      BY <3>2, <3>3, <3>4
  <2>4. QED
    BY <2>2, <2>3
<1>12. now1 \in PS!Saved
  BY DEF PS!Saved, StoreInv
<1> HIDE DEF now1
<1>6. presets' \in [Keys -> PS!Saved \cup {None}] /\ snaps' \in [Keys -> Seq(PS!Saved)]
      /\ \A k \in Keys : Len(snaps'[k]) <= MaxSnapshots
  BY <1>1, <1>2, <1>5, <1>12
<1>7. StoreInv'
  BY <1>1, <1>2, <1>6 DEF StoreInv, PresetsInv, PresetsTyped, Limited, OneTombstone
<1>8. ASSUME NEW k \in Keys, PS!Replaced(k)
      PROVE  \/ PS!Kept(k, presets[k].version)
             \/ Len(snaps[k]) = MaxSnapshots /\ saves' # saves
             \/ PS!Expired(presets[k]) /\ saves' # saves
  <2>1. k = sel /\ prev # None /\ prev.version # v
    <3>1. presets[k] # None /\ presets'[k] # presets[k]
      BY <1>8, Touched
    <3>2. k = sel /\ prev # None
      BY <1>1, <1>2, <3>1 DEF prev
    <3>3. presets'[k] = now1
      BY <1>1, <1>2, <3>2
    <3>4. now1.version = v
      BY DEF now1
    <3>5. now1 # None
      BY <1>1, <1>12
    <3>6. QED
      BY <1>8, <3>2, <3>3, <3>4, <3>5 DEF PS!Replaced, prev
  <2>2. snaps'[k] = t
    BY <1>1, <1>2, <2>1
  <2>3. saves' # saves
    BY <1>1, <1>2
  <2>4. QED
    BY <1>5, <2>1, <2>2, <2>3 DEF PS!Kept, PS!Listed, prev, s
<1>9. PS!LostOnlySoStep
  BY <1>8 DEF PS!LostOnlySoStep
<1>10. PS!OverwriteIsConfirmedStep
  <2>1. bin' = bin /\ bin \in Seq(PS!Tombstone)
    BY <1>2 DEF StoreInv, PresetsInv, PresetsTyped
  <2>2. Len(bin) \in Nat
    <3> DEFINE T == PS!Tombstone
    <3> HIDE DEF T
    <3>1. bin \in Seq(T)
      BY <2>1 DEF T
    <3>2. QED
      BY <3>1
  <2>3. QED
    BY <2>1, <2>2 DEF PS!OverwriteIsConfirmedStep
<1>11. QED
  BY <1>7, <1>9, <1>10

LEMMA ExchangeKeeps ==
    ASSUME PS!StoreAssumption, StoreInv, now' = now, NEW i \in 1..MaxSnapshots, PS!RestoreSnapshot(i)
    PROVE  StoreInv' /\ PS!LostOnlySoStep /\ PS!OverwriteIsConfirmedStep
<1> DEFINE cur == presets[sel]
           s == snaps[sel]
           less == PS!RemoveAt(s, i)
           back == [s[i] EXCEPT !.at = now]
           t == IF cur = None \/ PS!Has(less, cur.version) THEN less
                ELSE PS!First(<<cur>> \o less, MaxSnapshots)
<1>1. /\ presets \in [Keys -> PS!Saved \cup {None}] /\ snaps \in [Keys -> Seq(PS!Saved)]
      /\ sel \in Keys /\ \A k \in Keys : Len(snaps[k]) <= MaxSnapshots
      /\ MaxSnapshots \in Nat \ {0} /\ None \notin PS!Saved /\ saves \in Nat
  BY DEF StoreInv, PresetsInv, PresetsTyped, Limited, PS!StoreAssumption
<1>2. /\ presets' = [presets EXCEPT ![sel] = back] /\ i \in DOMAIN s
      /\ snaps' = [snaps EXCEPT ![sel] = t]
      /\ UNCHANGED <<bin, sel, bar, asked, saves>>
  BY DEF PS!RestoreSnapshot
<1>3. s \in Seq(PS!Saved) /\ Len(s) <= MaxSnapshots /\ cur \in PS!Saved \cup {None}
  BY <1>1
<1> HIDE DEF cur, s
<1>4. less \in Seq(PS!Saved) /\ Len(less) = Len(s) - 1 /\ Len(s) \in Nat /\ s[i] \in PS!Saved
  BY <1>2, <1>3, OneLess
<1>12. back \in PS!Saved
  BY <1>4 DEF StoreInv, PS!Saved
<1>13. \A j \in DOMAIN less : \E l \in DOMAIN s : less[j] = s[l]
  <2>1. DOMAIN s = 1..Len(s) /\ DOMAIN less = 1..(Len(s) - 1)
    BY <1>3, <1>4
  <2>2. \A j \in 1..(Len(s) - 1) : less[j] = IF j < i THEN s[j] ELSE s[j + 1]
    BY <1>2, <1>3, OneLess
  <2> HIDE DEF less
  <2>3. QED
    BY <1>4, <2>1, <2>2
<1> HIDE DEF less, back
<1>5. /\ t \in Seq(PS!Saved) /\ Len(t) <= MaxSnapshots
      /\ cur # None => \/ \E j \in DOMAIN t : t[j] = cur
                       \/ t = less /\ PS!Has(less, cur.version)
  <2>1. CASE cur = None \/ PS!Has(less, cur.version)
    BY <1>1, <1>3, <1>4, <2>1
  <2>2. CASE ~(cur = None \/ PS!Has(less, cur.version))
    <3> DEFINE all == <<cur>> \o less
    <3>1. t = PS!First(all, MaxSnapshots) /\ cur \in PS!Saved
      BY <1>3, <2>2
    <3>2. all \in Seq(PS!Saved) /\ Len(all) = Len(less) + 1 /\ all[1] = cur /\ Len(less) \in Nat
      BY <1>4, <3>1
    <3> HIDE DEF all, t
    <3>3. /\ t \in Seq(PS!Saved) /\ Len(t) <= MaxSnapshots
          /\ (Len(all) <= MaxSnapshots => Len(t) = Len(all))
          /\ (MaxSnapshots <= Len(all) => Len(t) = MaxSnapshots)
          /\ \A j \in 1..Len(t) : t[j] = all[j]
      BY <1>1, <3>1, <3>2, FirstIs
    <3>4. 1 \in 1..Len(t)
      BY <1>1, <3>2, <3>3
    <3>5. DOMAIN t = 1..Len(t)
      BY <3>3
    <3>6. QED
      BY <3>2, <3>3, <3>4, <3>5
  <2>3. QED
    BY <2>1, <2>2
<1> HIDE DEF t
<1>6. presets' \in [Keys -> PS!Saved \cup {None}] /\ snaps' \in [Keys -> Seq(PS!Saved)]
      /\ \A k \in Keys : Len(snaps'[k]) <= MaxSnapshots
  BY <1>1, <1>2, <1>5, <1>12
<1>7. StoreInv'
  BY <1>1, <1>2, <1>6 DEF StoreInv, PresetsInv, PresetsTyped, Limited, OneTombstone
<1>8. ASSUME NEW k \in Keys, PS!Replaced(k)
      PROVE  \/ PS!Kept(k, presets[k].version)
             \/ PS!Expired(presets[k])
             \/ \E j \in DOMAIN snaps[k] :
                  snaps[k][j].version = presets[k].version /\ PS!Expired(snaps[k][j])
  <2>1. k = sel /\ cur # None
    BY <1>1, <1>2, <1>8, Touched DEF cur
  <2>2. snaps'[k] = t
    BY <1>1, <1>2, <2>1
  <2>3. CASE \E j \in DOMAIN t : t[j] = cur
    BY <2>1, <2>2, <2>3 DEF PS!Kept, PS!Listed, cur
  <2>4. CASE t = less /\ PS!Has(less, cur.version)
    <3>1. PICK j \in DOMAIN less : less[j].version = cur.version
      BY <2>4 DEF PS!Has
    <3>2. PICK l \in DOMAIN s : less[j] = s[l]
      BY <1>13
    <3>3. CASE PS!Expired(less[j])
      BY <2>1, <3>1, <3>2, <3>3 DEF cur, s
    <3>4. CASE ~PS!Expired(less[j])
      BY <2>1, <2>2, <2>4, <3>1, <3>4 DEF PS!Kept, PS!Listed, cur
    <3>5. QED
      BY <3>3, <3>4
  <2>5. QED
    BY <1>5, <2>1, <2>3, <2>4
<1>14. PS!LostOnlySoStep
  BY <1>8 DEF PS!LostOnlySoStep
<1>9. bin' = bin /\ bin \in Seq(PS!Tombstone)
  BY <1>2 DEF StoreInv, PresetsInv, PresetsTyped
<1>10. Len(bin) <= Len(bin')
  <2> DEFINE T == PS!Tombstone
  <2> HIDE DEF T
  <2>1. bin \in Seq(T) /\ bin' = bin
    BY <1>9 DEF T
  <2>2. QED
    BY <2>1
<1>11. QED
  BY <1>7, <1>9, <1>10, <1>14, NotShorter

\* Presets that go to the bin.
LEMMA BuryKeeps ==
    ASSUME PS!StoreAssumption, StoreInv, now' = now, NEW ks \in SUBSET Keys,
           \A k \in ks : presets[k] # None,
           PS!Deleted(ks), bin' = PS!Entombed(ks), sel' = sel, saves' = saves,
           bar' = bar \/ (ks # {} /\ bar' = Head(bin'))
    PROVE  /\ StoreInv' /\ PS!OverwriteIsConfirmedStep
           /\ Cardinality(ks) <= MaxTombstones => PS!LostOnlySoStep
<1>1. \A k \in ks : presets[k] \in PS!Saved
  BY DEF StoreInv, PresetsInv, PresetsTyped
<1>2. /\ bin' \in Seq(PS!Tombstone) /\ Len(bin') <= MaxTombstones /\ Len(bin) <= Len(bin')
      /\ ks # {} => 1 <= Len(bin')
      /\ \A i, j \in DOMAIN bin' : bin'[i].key = bin'[j].key => i = j
      /\ Cardinality(ks) <= MaxTombstones =>
           \A k \in ks : \E i \in DOMAIN bin' : bin'[i].key = k /\ bin'[i].version = presets[k]
  BY <1>1, EntombedIs DEF StoreInv
<1>3. bar' # None => bar' \in PS!Tombstone
  <2> DEFINE T == PS!Tombstone
  <2> HIDE DEF T
  <2>1. bin' \in Seq(T) /\ (bar # None => bar \in T)
    BY <1>2 DEF T, StoreInv, PresetsInv, PresetsTyped
  <2>2. ks # {} => Head(bin') \in T
    BY <1>2, <2>1
  <2>3. QED
    BY <2>1, <2>2 DEF T
<1>4. PresetsInv'
  BY <1>2, <1>3, DeletedKeeps DEF StoreInv
<1>5. PS!OverwriteIsConfirmedStep
  BY <1>2, NotShorter DEF StoreInv, PresetsInv, PresetsTyped
<1>6. ASSUME Cardinality(ks) <= MaxTombstones, NEW k \in Keys, PS!Replaced(k)
      PROVE  PS!Kept(k, presets[k].version)
  <2>1. presets'[k] = IF k \in ks THEN None ELSE presets[k]
    BY DEF PS!Deleted
  <2>2. k \in ks
    BY <1>6, <2>1, Touched
  <2>3. QED
    BY <1>2, <1>6, <2>2 DEF PS!Kept
<1>7. Cardinality(ks) <= MaxTombstones => PS!LostOnlySoStep
  BY <1>6, NothingLost
<1>8. QED
  BY <1>4, <1>5, <1>7 DEF StoreInv

\* A tombstone goes back into the store.
LEMMA ReviveKeeps ==
    ASSUME PS!StoreAssumption, StoreInv, now' = now, NEW i, PS!RestoreFree(i) \/ PS!ConfirmRestore(i)
    PROVE  StoreInv' /\ PS!LostOnlySoStep /\ PS!OverwriteIsConfirmedStep
<1> DEFINE e == bin[i]
<1>1. /\ i \in DOMAIN bin /\ UNCHANGED <<sel, bar, saves>>
      /\ presets' = [presets EXCEPT ![e.key] = e.version]
      /\ snaps' = [snaps EXCEPT ![e.key] = PS!First(@ \o e.snaps, MaxSnapshots)]
      /\ bin' = PS!RemoveAt(bin, i)
  BY DEF PS!RestoreFree, PS!ConfirmRestore, PS!Confirming, PS!RestoreTombstone
<1>2. e \in PS!Tombstone
  <2> DEFINE T == PS!Tombstone
  <2> HIDE DEF T
  <2>1. bin \in Seq(T)
    BY DEF T, StoreInv, PresetsInv, PresetsTyped
  <2>2. bin[i] \in T
    BY <1>1, <2>1
  <2>3. QED
    BY <2>2 DEF T
<1>3. presets[e.key] = None \/ (PS!ConfirmRestore(i) /\ asked # None /\ asked.key = e.key)
  BY DEF PS!RestoreFree, PS!ConfirmRestore, PS!Confirming
<1> HIDE DEF e
<1>4. PresetsInv'
  BY <1>1, <1>2, RestoredKeeps DEF StoreInv
<1>5. \A k \in Keys : PS!Replaced(k)
        => k = e.key /\ PS!ConfirmRestore(i) /\ asked # None /\ asked.key = k
  BY <1>1, <1>3, Touched DEF StoreInv, PresetsInv, PresetsTyped
<1>6. QED
  BY <1>1, <1>4, <1>5 DEF StoreInv, PS!LostOnlySoStep, PS!OverwriteIsConfirmedStep

LEMMA UndoDeleteKeeps ==
    ASSUME PS!StoreAssumption, StoreInv, now' = now, PS!UndoDelete
    PROVE  StoreInv' /\ PS!LostOnlySoStep /\ PS!OverwriteIsConfirmedStep
<1>1. /\ bar # None /\ bar \in PS!Tombstone /\ bar' = None /\ UNCHANGED <<bin, sel, saves>>
      /\ presets' = [presets EXCEPT ![bar.key] = bar.version]
      /\ snaps' = [snaps EXCEPT ![bar.key] = PS!First(@ \o bar.snaps, MaxSnapshots)]
  BY DEF PS!UndoDelete, StoreInv, PresetsInv, PresetsTyped
<1>2. PresetsInv'
  BY <1>1, RestoredKeeps DEF StoreInv
<1>3. Len(bin) <= Len(bin') /\ bin' \in Seq(PS!Tombstone) /\ bin \in Seq(PS!Tombstone)
  <2> DEFINE T == PS!Tombstone
  <2> HIDE DEF T
  <2>1. bin \in Seq(T) /\ bin' = bin
    BY <1>1 DEF T, StoreInv, PresetsInv, PresetsTyped
  <2>2. Len(bin) <= Len(bin')
    BY <2>1
  <2>3. QED
    BY <2>1, <2>2 DEF T
<1>4. PS!OverwriteIsConfirmedStep
  BY <1>3, NotShorter
<1>5. QED
  BY <1>1, <1>2, <1>4 DEF StoreInv, PS!LostOnlySoStep

\* The bin alone loses an entry, or nothing of the store changes.
LEMMA StoreRests ==
    ASSUME PS!StoreAssumption, StoreInv, now' \in Nat, UNCHANGED <<presets, snaps, saves>>, sel' \in Keys,
           bar' = bar \/ bar' = None,
           bin' = bin \/ bin' = << >> \/ \E i \in DOMAIN bin : bin' = PS!RemoveAt(bin, i)
    PROVE  StoreInv' /\ PS!LostOnlySoStep /\ PS!OverwriteIsConfirmedStep
<1> DEFINE T == PS!Tombstone
<1>1. /\ bin \in Seq(T) /\ Len(bin) <= MaxTombstones /\ MaxTombstones \in Nat
      /\ \A a, b \in DOMAIN bin : bin[a].key = bin[b].key => a = b
  BY DEF StoreInv, PresetsInv, PresetsTyped, Limited, OneTombstone, PS!StoreAssumption
<1> HIDE DEF T
<1>2. bin' \in Seq(T) /\ Len(bin') <= MaxTombstones
      /\ \A a, b \in DOMAIN bin' : bin'[a].key = bin'[b].key => a = b
  <2>1. CASE bin' = bin
    BY <1>1, <2>1
  <2>2. CASE bin' = << >>
    <3>1. bin' \in Seq(T) /\ Len(bin') = 0 /\ DOMAIN bin' = {}
      BY <2>2, FirstSteps
    <3>2. QED
      BY <1>1, <3>1
  <2>3. ASSUME NEW i \in DOMAIN bin, bin' = PS!RemoveAt(bin, i)
        PROVE  /\ bin' \in Seq(T) /\ Len(bin') <= MaxTombstones
               /\ \A a, b \in DOMAIN bin' : bin'[a].key = bin'[b].key => a = b
    <3>2. /\ bin' \in Seq(T) /\ Len(bin') = Len(bin) - 1
          /\ \A j \in 1..(Len(bin) - 1) : bin'[j] = IF j < i THEN bin[j] ELSE bin[j + 1]
      BY <1>1, <2>3, OneLess
    <3>3. DOMAIN bin = 1..Len(bin) /\ Len(bin) \in Nat /\ DOMAIN bin' = 1..(Len(bin) - 1)
      BY <1>1, <3>2
    <3>4. ASSUME NEW a \in DOMAIN bin', NEW b \in DOMAIN bin', bin'[a].key = bin'[b].key
          PROVE  a = b
      <4> DEFINE p(x) == IF x < i THEN x ELSE x + 1
      <4>1. p(a) \in DOMAIN bin /\ p(b) \in DOMAIN bin /\ bin'[a] = bin[p(a)] /\ bin'[b] = bin[p(b)]
        BY <3>2, <3>3
      <4>2. p(a) = p(b)
        BY <1>1, <3>4, <4>1
      <4>3. QED
        BY <3>3, <4>2
    <3>5. QED
      BY <1>1, <3>2, <3>3, <3>4
  <2>4. QED
    BY <2>1, <2>2, <2>3
<1>3. StoreInv'
  BY <1>2 DEF T, StoreInv, PresetsInv, PresetsTyped, Limited, OneTombstone
<1>4. \A k \in Keys : ~PS!Replaced(k)
  BY Touched
<1>5. QED
  BY <1>3, <1>4 DEF PS!LostOnlySoStep, PS!OverwriteIsConfirmedStep

LEMMA StoreSteps ==
    ASSUME PS!StoreAssumption, StoreInv, now' = now, PS!Step
    PROVE  StoreInv' /\ PS!LostOnlySoStep /\ PS!OverwriteIsConfirmedStep
<1> DEFINE Goal == StoreInv' /\ PS!LostOnlySoStep /\ PS!OverwriteIsConfirmedStep
<1>1. sel \in Keys /\ MaxTombstones \in Nat \ {0} /\ now' \in Nat
  BY DEF StoreInv, PresetsInv, PS!StoreAssumption
<1>2. CASE PS!ClearAndReset
  <2>1. /\ PS!Deleted({sel}) /\ {sel} \in SUBSET Keys /\ UNCHANGED <<bin, sel, bar, saves>>
    BY <1>1, <1>2 DEF PS!ClearAndReset
  <2>2. PresetsInv'
    BY <2>1, DeletedKeeps DEF StoreInv, PresetsInv, PresetsTyped, Limited, OneTombstone
  <2>3. Len(bin) <= Len(bin') /\ bin' \in Seq(PS!Tombstone) /\ bin \in Seq(PS!Tombstone)
    <3> DEFINE T == PS!Tombstone
    <3> HIDE DEF T
    <3>1. bin \in Seq(T) /\ bin' = bin
      BY <2>1 DEF T, StoreInv, PresetsInv, PresetsTyped
    <3>2. Len(bin) <= Len(bin')
      BY <3>1
    <3>3. QED
      BY <3>1, <3>2 DEF T
  <2>4. PS!LostOnlySoStep
    BY <1>2 DEF PS!LostOnlySoStep
  <2>5. QED
    BY <2>1, <2>2, <2>3, <2>4, NotShorter DEF StoreInv
<1>3. ASSUME NEW k \in Keys, presets[k] # None, PS!Deleted({k}), bin' = PS!Entombed({k}),
             UNCHANGED <<sel, saves>>, bar' = bar \/ bar' = Head(bin')
      PROVE  Goal
  <2>1. {k} \in SUBSET Keys /\ {k} # {} /\ Cardinality({k}) <= MaxTombstones
    BY <1>1, FS_Singleton
  <2>2. QED
    BY <1>3, <2>1, BuryKeeps
<1>4. CASE PS!DeleteOwn
  BY <1>1, <1>3, <1>4 DEF PS!DeleteOwn
<1>5. ASSUME NEW k \in Keys, PS!DeleteListed(k)
      PROVE  Goal
  BY <1>3, <1>5 DEF PS!DeleteListed
<1>6. CASE PS!CleanupDead
  <2>1. /\ PS!Dead \in SUBSET Keys /\ \A k \in PS!Dead : presets[k] # None
        /\ PS!Deleted(PS!Dead) /\ bin' = PS!Entombed(PS!Dead) /\ UNCHANGED <<sel, bar, saves>>
    BY <1>6 DEF PS!CleanupDead, PS!Dead
  <2>2. StoreInv' /\ PS!OverwriteIsConfirmedStep /\ (Cardinality(PS!Dead) <= MaxTombstones => PS!LostOnlySoStep)
    BY <2>1, BuryKeeps
  <2>3. \A S : PS!Cardinality(S) = Cardinality(S)
    BY Zenon DEF PS!Cardinality, Cardinality
  <2>4. Cardinality(PS!Dead) \in Nat
    <3>1. \A S : PS!IsFiniteSet(S) <=> IsFiniteSet(S)
      BY Zenon DEF PS!IsFiniteSet, IsFiniteSet
    <3>2. IsFiniteSet(PS!Dead)
      BY <2>1, <3>1, FS_Subset DEF PS!StoreAssumption
    <3>3. QED
      BY <3>2, FS_CardinalityType
  <2>5. Cardinality(PS!Dead) > MaxTombstones => PS!LostOnlySoStep
    BY <1>6, <2>3 DEF PS!LostOnlySoStep
  <2>6. QED
    BY <1>1, <2>2, <2>4, <2>5
<1>7. CASE PS!BarExpires \/ PS!RunAudit \/ PS!AuditAnswer \/ PS!ClearCache \/ PS!DismissRestore
           \/ PS!PurgeAll
  <2>1. /\ UNCHANGED <<presets, snaps, saves, sel>> /\ (bar' = bar \/ bar' = None)
        /\ (bin' = bin \/ bin' = << >>)
    BY <1>7 DEF PS!BarExpires, PS!RunAudit, PS!AuditAnswer, PS!ClearCache, PS!DismissRestore,
                PS!PurgeAll
  <2>2. QED
    BY <1>1, <2>1, StoreRests
<1>8. ASSUME NEW k \in Keys, PS!ChooseTable(k)
      PROVE  Goal
  BY <1>1, <1>8, StoreRests DEF PS!ChooseTable
<1>9. ASSUME NEW i, PS!AskRestore(i) \/ PS!Purge(i)
      PROVE  Goal
  <2>1. /\ UNCHANGED <<presets, snaps, saves, sel, bar>>
        /\ (bin' = bin \/ (i \in DOMAIN bin /\ bin' = PS!RemoveAt(bin, i)))
    BY <1>9 DEF PS!AskRestore, PS!Purge
  <2>2. QED
    BY <1>1, <2>1, StoreRests
<1>10. QED
  BY <1>2, <1>4, <1>5, <1>6, <1>7, <1>8, <1>9, SaveKeeps, ExchangeKeeps, ReviveKeeps, UndoDeleteKeeps
     DEF PS!Step

LEMMA PresetsGo ==
    ASSUME PS!StoreAssumption, StoreInv, [PS!Next]_(PS!vars)
    PROVE  StoreInv' /\ PS!LostOnlySoStep /\ PS!OverwriteIsConfirmedStep
<1>1. CASE PS!Step /\ UNCHANGED now
  BY <1>1, StoreSteps
<1>2. CASE PS!Tick \/ UNCHANGED PS!vars
  <2>1. /\ UNCHANGED <<presets, snaps, saves, sel, bar, bin>> /\ sel' \in Keys
        /\ now' \in Nat
    BY <1>2 DEF PS!Tick, PS!vars, StoreInv, PresetsInv
  <2>2. QED
    BY <2>1, StoreRests
<1>3. QED
  BY <1>1, <1>2 DEF PS!Next

-----------------------------------------------------------------------------
(* The run of an import.                                                   *)

\* The rows of an import come in the order of the file.
LEMMA RowsInOrder ==
    ASSUME IR!ImportAssumption, NEW some \in SUBSET ImportRows
    PROVE  /\ IR!InOrder(some) \in Seq(ImportRows)
           /\ Len(IR!InOrder(some)) \in Nat
           /\ Len(IR!InOrder(some)) <= IR!Cardinality(ImportRows)
<1> DEFINE m == Cardinality(ImportRows)
           n == Cardinality(some)
<1>1. /\ \A S : IR!Cardinality(S) = Cardinality(S) /\ IR!IsFiniteSet(S) = IsFiniteSet(S)
  BY Zenon DEF IR!Cardinality, Cardinality, IR!IsFiniteSet, IsFiniteSet
<1>2. IsFiniteSet(ImportRows) /\ ImportRows = 1..m /\ m \in Nat
  BY <1>1, FS_CardinalityType DEF IR!ImportAssumption
<1>3. /\ n \in Nat /\ n <= m
      /\ \A k \in 1..n : \E r \in some : Cardinality({i \in some : i <= r}) = k
  BY <1>2, NumbersInOrder
<1>4. IR!InOrder(some) = [k \in 1..n |-> IR!Nth(some, k)]
  BY <1>1 DEF IR!InOrder
<1>5. \A k \in 1..n : IR!Nth(some, k) \in ImportRows
  BY <1>1, <1>3 DEF IR!Nth
<1> HIDE DEF m, n
<1>6. IR!InOrder(some) \in [1..n -> ImportRows]
  BY <1>4, <1>5
<1>7. IR!InOrder(some) \in Seq(ImportRows) /\ Len(IR!InOrder(some)) = n
  BY <1>3, <1>6, EntriesMakeSeq
<1>8. QED
  BY <1>1, <1>3, <1>7 DEF m

\* The run and the transaction have their types.
RunTyped ==
    /\ run \in IR!Run \cup {None} /\ tx \in (SUBSET ImportRows) \cup {None}
    /\ skipFailed \in BOOLEAN
    /\ run # None => run.n <= Len(run.todo)

\* A run keeps the modal busy; closing it, the only step that sends a rollback
\* beside the run, happens once.
RunIsBusy ==
    /\ run # None => busy
    /\ open => ~undoing

\* A run that waits for its begin has no transaction yet.
BeginsClean == run # None /\ run.at = "begin" => tx = None

\* What the loop has done: nothing is kept before a commit, and each row that
\* it has looked at is in its transaction, if that is still there, or failed;
\* an aborted transaction holds nothing and has a failure.
LoopKnows ==
    run # None =>
        /\ history = None
        /\ kept = {} \/ (run.at = "abort" /\ "commit" \in lost)
        /\ tx # None /\ run.at # "begin" /\ "abort" \notin lost =>
             \A k \in 1..run.n : run.todo[k] \in tx \/ \E f \in run.bad : f.row = run.todo[k]
        /\ "abort" \in lost => run.bad # {} /\ tx \in {{}, None}
        /\ run.at = "begin" => run.n = 0 /\ run.bad = {}
        /\ run.at = "exec" => run.n < Len(run.todo)
        /\ run.at = "commit" => run.n = Len(run.todo) /\ (run.bad = {} \/ run.skip)

ImportInv ==
    RunTyped /\ RunIsBusy /\ BeginsClean /\ LoopKnows /\ IR!NoTxLeft /\ IR!HistoryIsTrue

LEMMA ImportStarts == IR!Init => ImportInv
<1> SUFFICES ASSUME IR!Init
             PROVE  ImportInv
  OBVIOUS
<1>1. run = None /\ tx = None /\ skipFailed = FALSE /\ undoing = FALSE /\ history = None
  BY DEF IR!Init
<1>2. QED
  BY <1>1 DEF ImportInv, RunTyped, RunIsBusy, BeginsClean, LoopKnows,
     IR!NoTxLeft, IR!HistoryIsTrue

LEMMA SkipIsBoolean ==
    ASSUME skipFailed \in BOOLEAN, [IR!Next]_(IR!vars)
    PROVE  skipFailed' \in BOOLEAN
BY DEF IR!Next, IR!Step, IR!vars, IR!choice, IR!Ends, IR!Enqueue, IR!PickFile, IR!LoadQueueNext,
       IR!FileRead, IR!AutoParse, IR!HandleParse, IR!Choose, IR!Goto, IR!SetSkipFailed,
       IR!RetryRows, IR!RunImport, IR!Begun, IR!BeginFails, IR!LoopHead, IR!Answer, IR!RolledBack,
       IR!CommitThrows, IR!UndoArrives, IR!Committed, IR!HandleCancelImport, IR!CancelQueue,
       IR!FinishAndClose

\* The steps of the modal that move neither the run nor the server.
LEMMA AsideRun ==
    ASSUME ImportInv, skipFailed' \in BOOLEAN, UNCHANGED <<run, busy, history, open, IR!server>>
    PROVE  ImportInv'
BY DEF ImportInv, RunTyped, RunIsBusy, BeginsClean, LoopKnows, IR!NoTxLeft,
       IR!HistoryIsTrue, IR!server

\* The end of a run that is not a commit: it has kept nothing, or the answer
\* of its commit was lost.
LEMMA EndKeeps ==
    ASSUME ImportInv, run # None, NEW status \in {"cancelled", "failed"}, NEW s, IR!Ends(status, s),
           UNCHANGED <<kept, undoing>>, lost \subseteq lost', tx' \in {tx, {}, None},
           run.at = "abort" => status = "failed",
           tx' # None => undoing \/ lost' \intersect {"begin", "rollback"} # {}
    PROVE  ImportInv'
<1>1. run' = None /\ open' = open /\ history'.status = status /\ skipFailed' = skipFailed
  BY DEF IR!Ends
<1>2. IR!HistoryIsTrue'
  BY <1>1 DEF ImportInv, LoopKnows, IR!HistoryIsTrue
<1>3. QED
  BY <1>1, <1>2 DEF ImportInv, RunTyped, RunIsBusy, BeginsClean, LoopKnows, IR!NoTxLeft

LEMMA ImportSteps ==
    ASSUME IR!ImportAssumption, ImportInv, [IR!Next]_(IR!vars)
    PROVE  ImportInv'
<1>a. None \notin SUBSET ImportRows /\ None \notin IR!Run
  BY DEF IR!ImportAssumption
<1>b. skipFailed \in BOOLEAN /\ skipFailed' \in BOOLEAN
  BY SkipIsBoolean DEF ImportInv, RunTyped
<1>1. CASE \/ \E f \in ImportFiles : IR!Enqueue(<<f>>) \/ IR!PickFile(f)
           \/ IR!LoadQueueNext \/ IR!FileRead \/ IR!AutoParse \/ IR!HandleParse \/ IR!Choose
  BY <1>1, <1>b, AsideRun DEF IR!choice, IR!Enqueue, IR!PickFile, IR!LoadQueueNext, IR!FileRead, IR!AutoParse,
     IR!HandleParse, IR!Choose
<1>2. CASE \/ \E s \in IR!Range(IR!Steps) : IR!Goto(s)
           \/ \E b \in BOOLEAN : IR!SetSkipFailed(b)
           \/ \E fs \in SUBSET failed : IR!RetryRows(fs)
           \/ IR!HandleCancelImport \/ IR!CancelQueue
  BY <1>2, <1>b, AsideRun
     DEF IR!choice, IR!Goto, IR!SetSkipFailed, IR!RetryRows, IR!HandleCancelImport, IR!CancelQueue
<1>3. CASE IR!RunImport
  <2>1. IR!Effective \in Seq(ImportRows) /\ Len(IR!Effective) \in Nat
    BY RowsInOrder DEF IR!Effective
  <2>2. /\ run' \in IR!Run /\ run'.at = "begin" /\ run'.n = 0 /\ run'.bad = {}
        /\ run'.todo = IR!Effective /\ skipFailed' = skipFailed
    BY <1>3, <1>b, <2>1 DEF IR!RunImport, IR!choice, IR!Run, IR!Ats
  <2>3. /\ run = None /\ busy' = TRUE /\ kept' = {} /\ history' = None /\ lost' = {} /\ tx' = None
        /\ UNCHANGED <<open, undoing>>
    BY <1>3 DEF IR!RunImport, ImportInv, RunIsBusy
  <2>4. QED
    BY <1>a, <1>b, <2>1, <2>2, <2>3 DEF ImportInv, RunTyped, RunIsBusy, BeginsClean, LoopKnows,
       IR!NoTxLeft, IR!HistoryIsTrue
<1>4. CASE IR!Begun
  <2>1. /\ run # None /\ run' = [run EXCEPT !.at = "head"] /\ tx' = {} /\ run \in IR!Run
        /\ UNCHANGED <<open, busy, history, kept, undoing, lost>>
    BY <1>4 DEF IR!Begun, ImportInv, RunTyped
  <2>2. /\ run' \in IR!Run /\ run'.at = "head" /\ run'.todo = run.todo /\ run'.n = run.n
        /\ run'.bad = run.bad
    BY <2>1 DEF IR!Run, IR!Ats
  <2>3. run.n = 0 /\ run.at = "begin"
    BY <1>4, <2>1 DEF IR!Begun, ImportInv, LoopKnows
  <2>4. QED
    BY <1>a, <1>b, <2>1, <2>2, <2>3 DEF ImportInv, RunTyped, RunIsBusy, BeginsClean, LoopKnows,
       IR!NoTxLeft, IR!HistoryIsTrue
<1>5. ASSUME NEW happens \in BOOLEAN, IR!BeginFails(happens)
      PROVE  ImportInv'
  <2>1. /\ run # None /\ run.at = "begin" /\ IR!Ends("failed", "preview") /\ UNCHANGED <<kept, undoing>>
        /\ tx' \in {tx, {}} /\ lost \subseteq lost' /\ (tx' # tx => "begin" \in lost')
    BY <1>5 DEF IR!BeginFails
  <2>2. tx = None
    BY <2>1 DEF ImportInv, BeginsClean
  <2>3. QED
    BY <2>1, <2>2, EndKeeps
<1>6. CASE IR!LoopHead
  <2>1. /\ run # None /\ run \in IR!Run /\ run.at = "head" /\ run.n \in Nat /\ run.n <= Len(run.todo)
        /\ UNCHANGED <<open, busy, history, tx, kept, undoing, lost>>
    BY <1>6 DEF IR!LoopHead, ImportInv, RunTyped, IR!server, IR!Run
  <2>2. PICK a \in {"cancelled", "exec", "failed", "commit"} :
            /\ run' = [run EXCEPT !.at = a]
            /\ a = "exec" => run.n < Len(run.todo)
            /\ a = "commit" => ~(run.n < Len(run.todo)) /\ (run.bad = {} \/ run.skip)
    BY <1>6 DEF IR!LoopHead
  <2>3. /\ run' \in IR!Run /\ run'.at = a /\ run'.todo = run.todo /\ run'.n = run.n
        /\ run'.bad = run.bad /\ run'.skip = run.skip /\ Len(run.todo) \in Nat
    BY <2>1, <2>2 DEF IR!Run, IR!Ats
  <2>4. QED
    BY <1>a, <1>b, <2>1, <2>2, <2>3 DEF ImportInv, RunTyped, RunIsBusy, BeginsClean, LoopKnows,
       IR!NoTxLeft, IR!HistoryIsTrue
<1>7. ASSUME NEW a \in {"ok", "zero", "error", "abort", "lost"}, IR!Answer(a)
      PROVE  ImportInv'
  <2> DEFINE row == run.todo[run.n + 1]
             good == a = "ok" \/ (a = "zero" /\ run.sql)
             bad == IF good THEN run.bad ELSE run.bad \cup {[row |-> row, idx |-> run.n + 1]}
  <2>1. /\ run # None /\ run \in IR!Run /\ run.at = "exec" /\ run.n \in Nat /\ run.n < Len(run.todo)
        /\ UNCHANGED <<open, busy, history, kept, undoing>>
        /\ Len(run.todo) \in Nat
    BY <1>7 DEF IR!Answer, ImportInv, RunTyped, LoopKnows, IR!Run
  <2>2. row \in ImportRows /\ run.n + 1 \in Nat
    BY <2>1 DEF IR!Run
  <2>3. /\ run' = [run EXCEPT !.at = "head", !.n = run.n + 1, !.bad = bad]
        /\ tx' = (CASE good \/ a = "lost" -> tx \cup {row} [] a = "abort" -> {} [] OTHER -> tx)
        /\ lost' = (IF a \in {"abort", "lost"} THEN lost \cup {IF a = "abort" THEN a ELSE "execute"} ELSE lost)
        /\ (tx = None \/ "abort" \in lost => a = "error" /\ ~good)
        /\ (a \in {"abort", "lost"} => ~good)
    BY <1>7, <2>1 DEF IR!Answer
  <2> HIDE DEF good
  <2>4. /\ run' \in IR!Run /\ run'.at = "head" /\ run'.todo = run.todo /\ run'.n = run.n + 1
        /\ run'.bad = bad
    <3>1. bad \in SUBSET IR!Failure
      BY <2>1, <2>2 DEF IR!Run, IR!Failure
    <3>2. run' = [run EXCEPT !.at = "head", !.n = run.n + 1, !.bad = bad] /\ run.n + 1 \in Nat
      BY <2>2, <2>3
    <3> HIDE DEF bad
    <3>3. QED
      BY <2>1, <3>1, <3>2 DEF IR!Run, IR!Ats
  <2>5. /\ tx' \in (SUBSET ImportRows) \cup {None} /\ (tx' # None <=> tx # None)
        /\ tx # None => tx' = (CASE good \/ a = "lost" -> tx \cup {row} [] a = "abort" -> {} [] OTHER -> tx)
        /\ lost \subseteq lost' /\ ("abort" \in lost' <=> "abort" \in lost \/ a = "abort")
        /\ a = "abort" => tx' = {}
    <3>1. tx \in (SUBSET ImportRows) \cup {None}
      BY DEF ImportInv, RunTyped
    <3> HIDE DEF row
    <3>2. QED
      BY <1>a, <2>2, <2>3, <3>1
  <2>6. LoopKnows'
    <3>1. ASSUME tx' # None, "abort" \notin lost', NEW k \in 1..(run.n + 1)
          PROVE  run.todo[k] \in tx' \/ \E f \in bad : f.row = run.todo[k]
      <4>1. CASE k = run.n + 1
        <5>1. row \in tx' \/ [row |-> row, idx |-> run.n + 1] \in bad
          BY <2>3
        <5>2. QED
          BY <4>1, <5>1
      <4>2. CASE k \in 1..run.n
        <5>1. tx \subseteq tx' /\ tx # None /\ "abort" \notin lost
          BY <2>5, <3>1
        <5>2. run.todo[k] \in tx \/ \E f \in run.bad : f.row = run.todo[k]
          BY <2>1, <4>2, <5>1 DEF ImportInv, LoopKnows
        <5>3. QED
          BY <5>1, <5>2
      <4>3. QED
        BY <2>1, <4>1, <4>2
    <3>2. history' = None /\ kept' = {}
      BY <2>1 DEF ImportInv, LoopKnows
    <3>3. "abort" \in lost' => bad # {} /\ tx' \in {{}, None}
      <4>1. CASE "abort" \in lost
        <5>1. run.bad # {} /\ tx \in {{}, None} /\ a = "error" /\ ~good
          BY <2>1, <2>3, <4>1 DEF ImportInv, LoopKnows
        <5>2. QED
          BY <2>3, <5>1
      <4>2. CASE a = "abort"
        BY <2>3, <2>5, <4>2
      <4>3. QED
        BY <2>5, <4>1, <4>2
    <3> HIDE DEF bad
    <3>4. QED
      BY <2>4, <3>1, <3>2, <3>3 DEF LoopKnows
  <2> HIDE DEF bad, row
  <2>7. run' # None /\ history' = None
    BY <1>a, <2>1, <2>4 DEF ImportInv, LoopKnows
  <2>8. RunTyped'
    BY <1>b, <2>1, <2>4, <2>5 DEF RunTyped
  <2>9. RunIsBusy' /\ BeginsClean'
    BY <2>1, <2>4 DEF ImportInv, RunIsBusy, BeginsClean
  <2>10. QED
    BY <2>6, <2>7, <2>8, <2>9 DEF ImportInv, IR!NoTxLeft, IR!HistoryIsTrue
<1>8. ASSUME NEW reaches \in BOOLEAN, IR!RolledBack(reaches)
      PROVE  ImportInv'
  <2>1. /\ run # None /\ lost \subseteq lost' /\ UNCHANGED <<kept, undoing>>
        /\ tx' \in {tx, None} /\ (tx' # None => "rollback" \in lost')
    BY <1>8 DEF IR!RolledBack
  <2>2. CASE run.at = "cancelled"
    <3>1. IR!Ends("cancelled", "preview")
      BY <1>8, <2>2 DEF IR!RolledBack
    <3>2. QED
      BY <2>1, <2>2, <3>1, EndKeeps
  <2>3. CASE run.at # "cancelled"
    <3>1. IR!Ends("failed", "preview")
      BY <1>8, <2>3 DEF IR!RolledBack
    <3>2. QED
      BY <2>1, <3>1, EndKeeps
  <2>4. QED
    BY <2>2, <2>3
<1>9. ASSUME NEW happens \in BOOLEAN, IR!CommitThrows(happens)
      PROVE  ImportInv'
  <2>1. /\ run # None /\ run \in IR!Run /\ run.at = "commit" /\ run' = [run EXCEPT !.at = "abort"]
        /\ UNCHANGED <<open, busy, history, undoing>>
    BY <1>9 DEF IR!CommitThrows, ImportInv, RunTyped
  <2>2. /\ run' \in IR!Run /\ run'.at = "abort" /\ run'.todo = run.todo /\ run'.n = run.n
        /\ run'.bad = run.bad
    BY <2>1 DEF IR!Run, IR!Ats
  <2>3. /\ tx' \in {tx, None} /\ lost' \in {lost, lost \cup {"commit"}}
        /\ kept' = kept \/ "commit" \in lost'
    BY <1>9 DEF IR!CommitThrows
  <2>4. kept' = {} \/ "commit" \in lost'
    BY <2>1, <2>3 DEF ImportInv, LoopKnows
  <2>5. QED
    BY <1>a, <1>b, <2>1, <2>2, <2>3, <2>4 DEF ImportInv, RunTyped, RunIsBusy, BeginsClean, LoopKnows,
       IR!NoTxLeft, IR!HistoryIsTrue
<1>10. CASE IR!Committed
  <2>1. /\ run # None /\ run \in IR!Run /\ run.at = "commit" /\ tx # None /\ kept' = tx /\ tx' = None
        /\ run' = None /\ UNCHANGED <<open, undoing, lost>>
    BY <1>10 DEF IR!Committed, IR!Ends, ImportInv, RunTyped
  <2>2. /\ history'.todo = {run.todo[k] : k \in DOMAIN run.todo} /\ history'.skip = run.skip
        /\ history'.bad = {f.row : f \in run.bad}
        /\ history'.status = IF run.bad # {} THEN "partial" ELSE "success"
    BY <1>10 DEF IR!Committed, IR!Ends, IR!Range
  <2>3. DOMAIN run.todo = 1..run.n /\ (run.skip \/ run.bad = {})
    BY <2>1 DEF ImportInv, LoopKnows, IR!Run
  <2>4. "abort" \notin lost => history'.todo \ history'.bad \subseteq kept'
    BY <2>1, <2>2, <2>3 DEF ImportInv, LoopKnows
  <2>5. "abort" \in lost => kept' = {} /\ run.bad # {}
    BY <2>1 DEF ImportInv, LoopKnows
  <2>6. IR!HistoryIsTrue'
    <3>1. CASE run.bad = {}
      BY <2>1, <2>2, <2>4, <2>5, <3>1 DEF IR!HistoryIsTrue
    <3>2. CASE run.bad # {}
      BY <2>1, <2>2, <2>3, <2>4, <2>5, <3>2 DEF IR!HistoryIsTrue
    <3>3. QED
      BY <3>1, <3>2
  <2>7. QED
    BY <1>b, <2>1, <2>6 DEF ImportInv, RunTyped, RunIsBusy, BeginsClean, LoopKnows, IR!NoTxLeft
<1>11. CASE IR!FinishAndClose
  BY <1>11, <1>b DEF IR!FinishAndClose, IR!choice, ImportInv, RunTyped, RunIsBusy, BeginsClean,
                     LoopKnows, IR!NoTxLeft, IR!HistoryIsTrue
<1>12. ASSUME NEW reaches \in BOOLEAN, IR!UndoArrives(reaches)
       PROVE  ImportInv'
  BY <1>12, <1>b DEF IR!UndoArrives, IR!choice, ImportInv, RunTyped, RunIsBusy, BeginsClean, LoopKnows,
     IR!NoTxLeft, IR!HistoryIsTrue
<1>13. CASE UNCHANGED IR!vars
  BY <1>13, <1>b, AsideRun DEF IR!vars, IR!server
<1>14. QED
  BY <1>1, <1>2, <1>3, <1>4, <1>5, <1>6, <1>7, <1>8, <1>9, <1>10, <1>11, <1>12, <1>13
     DEF IR!Next, IR!Step

-----------------------------------------------------------------------------
(* The pages of the table editor.                                          *)

\* The request that counts is for the page asked for last, by a commit or by
\* the render on display.
PagesInv ==
    /\ reqSeq \in Nat
    /\ \A l \in loads : l.seq \in 0..reqSeq /\ (l.seq = reqSeq => l.page = latest.page)
    /\ latest.page = page \/ latest.reload
    /\ TE!LastLoadWins

LEMMA PagesStart == TE!Init => PagesInv
BY DEF TE!Init, PagesInv, TE!LastLoadWins

\* Asking for a page is asking for the last time so far.
LEMMA LoadKeeps ==
    ASSUME PagesInv, NEW p, NEW reload \in BOOLEAN, TE!Load(p, reload), p = page' \/ reload
    PROVE  PagesInv'
<1> DEFINE new == [seq |-> reqSeq + 1, page |-> p]
<1>1. reqSeq' = reqSeq + 1 /\ loads' = loads \cup {new} /\ reqSeq \in Nat
  BY DEF TE!Load, PagesInv
<1>2. /\ new.seq = reqSeq + 1 /\ new.page = p
      /\ latest'.page = p /\ latest'.reload = reload
  BY DEF TE!Load
<1> HIDE DEF new
<1>3. ASSUME NEW l \in loads'
      PROVE  l.seq \in 0..reqSeq' /\ (l.seq = reqSeq' => l.page = latest'.page)
  <2>1. CASE l \in loads
    BY <1>1, <2>1 DEF PagesInv
  <2>2. CASE l = new
    BY <1>1, <1>2, <2>2
  <2>3. QED
    BY <1>1, <2>1, <2>2
<1>4. new \in {l \in loads' : l.seq = reqSeq'}
  BY <1>1, <1>2
<1>5. QED
  BY <1>1, <1>2, <1>3, <1>4 DEF PagesInv, TE!LastLoadWins

LEMMA PagesStay ==
    ASSUME PagesInv, UNCHANGED <<page, result, loads, reqSeq, latest>>
    PROVE  PagesInv'
BY DEF PagesInv, TE!LastLoadWins

LEMMA PagesSteps ==
    ASSUME PagesInv, [TE!Next]_(TE!vars)
    PROVE  PagesInv'
<1>1. ASSUME NEW q, NEW o, TE!Queued(q, o)
      PROVE  PagesInv'
  BY <1>1, PagesStay DEF TE!Queued
<1>2. CASE \/ \E r \in TableRows, c \in TableColumns, v \in TableCells : TE!EditCell(r, c, v)
           \/ \E r \in NewRows, c \in TableColumns, v \in TableCells : TE!EditNewCell(r, c, v)
           \/ \E r \in NewRows : TE!AddNewRow(r)
           \/ \E r \in TableRows : TE!DeleteRow(r)
  BY <1>1, <1>2 DEF TE!EditCell, TE!EditNewCell, TE!AddNewRow, TE!DeleteRow
<1>3. CASE \/ \E r \in TableRows : TE!Outside(r)
           \/ \E r \in TableRows \cup NewRows : TE!DiscardRow(r)
           \/ TE!Undo \/ TE!Revert \/ TE!DoCommit \/ TE!OpenReview
           \/ \E k \in DOMAIN commits : TE!Begin(k)
           \/ UNCHANGED TE!vars
  BY <1>3, PagesStay DEF TE!Outside, TE!DiscardRow, TE!Undo, TE!Revert, TE!DoCommit, TE!OpenReview,
     TE!Begin, TE!vars
<1>4. ASSUME NEW p \in TablePages, NEW b \in BOOLEAN, TE!ChangePage(p, b)
      PROVE  PagesInv'
  <2>1. page' = p /\ TE!Load(p, FALSE)
    BY <1>4 DEF TE!ChangePage
  <2>2. QED
    BY <2>1, LoadKeeps
<1>5. ASSUME NEW l \in loads, NEW ok \in BOOLEAN, TE!LoadAnswer(l, ok)
      PROVE  PagesInv'
  <2>1. /\ loads' = loads \ {l} /\ UNCHANGED <<page, reqSeq, latest>>
        /\ result' = IF l.seq # reqSeq THEN result ELSE IF ok THEN TE!Fetched(l.page) ELSE None
    BY <1>5 DEF TE!LoadAnswer
  <2>2. CASE l.seq # reqSeq
    BY <2>1, <2>2 DEF PagesInv, TE!LastLoadWins
  <2>3. CASE l.seq = reqSeq
    BY <2>1, <2>3 DEF PagesInv, TE!LastLoadWins, TE!Fetched
  <2>4. QED
    BY <2>2, <2>3
<1>6. ASSUME NEW k, NEW ok, TE!Ends(k, ok)
      PROVE  PagesInv'
  <2>1. CASE ok
    <3>1. TE!Load(commits[k].page, TRUE)
      BY <1>6, <2>1 DEF TE!Ends
    <3>2. QED
      BY <3>1, LoadKeeps
  <2>2. CASE ~ok
    BY <1>6, <2>2, PagesStay DEF TE!Ends
  <2>3. QED
    BY <2>1, <2>2
<1>7. ASSUME NEW k \in DOMAIN commits,
             TE!ExecInTx(k) \/ TE!Fails(k) \/ \E answered \in BOOLEAN : TE!Commit(k, answered)
      PROVE  PagesInv'
  BY <1>6, <1>7, PagesStay DEF TE!ExecInTx, TE!Fails, TE!Commit
<1>8. QED
  BY <1>2, <1>3, <1>4, <1>5, <1>7 DEF TE!Next

-----------------------------------------------------------------------------
(* The commits of the table editor.                                        *)

Partial == UNION {[D -> TableCells] : D \in SUBSET TableColumns}
Edit == [row : TableRows \cup NewRows, type : {"update", "delete", "insert"}, cells : Partial]
Step == [kind : {"cell", "row"}, row : TableRows \cup NewRows,
         type : {"update", "delete", "insert"}, column : TableColumns \cup {None}]
Contents == [TableRows -> TE!Row \cup {None}]
Call == [stmts : Seq(Edit), done : Nat, view : TE!View \cup {None}, page : TablePages,
         both : SUBSET TableRows, loaded : Contents, shown : Contents]

\* A queue has one change for each row and type; rows are added under names
\* of their own, with all their cells.
QueueOk(q) ==
    /\ q \in Seq(Edit)
    /\ \A i, j \in DOMAIN q : q[i].row = q[j].row /\ q[i].type = q[j].type => i = j
    /\ \A i \in DOMAIN q : IF q[i].type = "insert" THEN q[i].row \in NewRows /\ q[i].cells \in TE!Row
                                                   ELSE q[i].row \in TableRows

\* out is what the first n changes of q make of row r.
Makes(q, n, r, row, out) ==
    /\ \A i \in 1..n : TE!Is(q[i], r, "update") => out = TE!Over(row, q[i].cells)
    /\ \A i \in 1..n : TE!Is(q[i], r, "delete") => out = None
    /\ (\A i \in 1..n : ~TE!Is(q[i], r, "update") /\ ~TE!Is(q[i], r, "delete")) => out = row

Added(q, n) == Cardinality({i \in 1..n : q[i].type = "insert"})

\* What a call of doCommit took down at the click, and what it has done.
ClickOk(c) ==
    /\ QueueOk(c.stmts) /\ c.done <= Len(c.stmts) /\ (c.view = None => c.done = 0)
    /\ c.both = {r \in TableRows : TE!Has(c.stmts, r, "update") /\ TE!Has(c.stmts, r, "delete")}
    /\ \A r \in TableRows \ c.both : c.loaded[r] # None =>
         Makes(c.stmts, Len(c.stmts), r, c.loaded[r], c.shown[r])
ViewOk(c) ==
    /\ Len(c.view.added) = Len(table.added) + Added(c.stmts, c.done)
    /\ \A r \in TableRows \ c.both : table.rows[r] # None =>
         Makes(c.stmts, c.done, r, table.rows[r], c.view.rows[r])

PageTyped ==
    /\ page \in TablePages /\ loads \subseteq [seq : Nat, page : TablePages] /\ reqSeq \in Nat
    /\ latest \in [page : TablePages, reload : BOOLEAN]
    /\ result # None =>
         /\ result.rows \in Contents
         /\ \A r \in TableRows \ result.page : result.rows[r] = None

\* Only cells of a row on the page are undone one by one.
EditsTyped ==
    /\ QueueOk(queue)
    /\ undoStack \in Seq(Step)
    /\ \A i \in DOMAIN undoStack : undoStack[i].kind = "cell" => undoStack[i].type = "update"

\* One commit at a time is in its transaction, and nobody else writes then.
CommitsKnow ==
    /\ table \in TE!View /\ commits \in Seq(Call)
    /\ \A k \in DOMAIN commits : /\ ClickOk(commits[k])
                                 /\ commits[k].view # None => table.open /\ ViewOk(commits[k])
    /\ \A j, k \in DOMAIN commits : commits[j].view # None /\ commits[k].view # None => j = k

TableInv == PageTyped /\ EditsTyped /\ CommitsKnow

LEMMA FilteredOk ==
    ASSUME NEW S, NEW q \in Seq(S), NEW places \in SUBSET (DOMAIN q)
    PROVE  /\ TE!Keeping(q, places) \in Seq(S)
           /\ \A k \in DOMAIN TE!Keeping(q, places) : \E i \in places :
                /\ TE!Keeping(q, places)[k] = q[i]
                /\ RankIn(places, i) = k
<1> DEFINE n == Cardinality(places)
           order == TE!InOrder(places)
           some == TE!Keeping(q, places)
<1>1. \A T : TE!Cardinality(T) = Cardinality(T)
  BY Zenon DEF TE!Cardinality, Cardinality
<1>2. DOMAIN q = 1..Len(q) /\ Len(q) \in Nat /\ \A i \in DOMAIN q : q[i] \in S
  OBVIOUS
<1>3. n \in Nat /\ \A k \in 1..n : \E i \in places : Cardinality({j \in places : j <= i}) = k
  BY <1>2, NumbersInOrder
<1>4. ASSUME NEW k \in 1..n
      PROVE  /\ TE!Nth(places, k) \in places
             /\ Cardinality({j \in places : j <= TE!Nth(places, k)}) = k
  <2>1. PICK i \in places : Cardinality({j \in places : j <= i}) = k
    BY <1>3
  <2>2. TE!Cardinality({j \in places : j <= i}) = k
    BY <1>1, <2>1
  <2>3. /\ TE!Nth(places, k) \in places
        /\ TE!Cardinality({j \in places : j <= TE!Nth(places, k)}) = k
    BY <2>2 DEF TE!Nth
  <2>4. QED
    BY <1>1, <2>3
<1>5. order = [k \in 1..n |-> TE!Nth(places, k)]
  BY <1>1 DEF TE!InOrder
<1>6. some = [k \in DOMAIN order |-> q[order[k]]]
  BY DEF TE!Keeping
<1> HIDE DEF order, some
<1>7. DOMAIN some = 1..n /\ \A k \in 1..n : some[k] = q[TE!Nth(places, k)]
  BY <1>5, <1>6
<1>8. some \in [1..n -> S]
  BY <1>2, <1>4, <1>5, <1>6
<1> HIDE DEF n
<1>9. some \in Seq(S)
  BY <1>3, <1>8, EntriesMakeSeq
<1>10. QED
  BY <1>4, <1>7, <1>9 DEF some, RankIn

LEMMA KeptOk ==
    ASSUME NEW q, QueueOk(q), NEW places \in SUBSET (DOMAIN q)
    PROVE  /\ QueueOk(TE!Keeping(q, places))
           /\ \A k \in DOMAIN TE!Keeping(q, places) : \E i \in places :
                TE!Keeping(q, places)[k] = q[i]
<1> DEFINE some == TE!Keeping(q, places)
<1>1. q \in Seq(Edit)
  BY DEF QueueOk
<1>2. /\ some \in Seq(Edit)
      /\ \A k \in DOMAIN some : \E i \in places :
           some[k] = q[i] /\ RankIn(places, i) = k
  BY <1>1, FilteredOk
<1> HIDE DEF some
<1>3. ASSUME NEW i \in DOMAIN some, NEW j \in DOMAIN some,
             some[i].row = some[j].row, some[i].type = some[j].type
      PROVE  i = j
  <2>1. PICK a \in places : some[i] = q[a] /\ RankIn(places, a) = i
    BY <1>2
  <2>2. PICK b \in places : some[j] = q[b] /\ RankIn(places, b) = j
    BY <1>2
  <2>3. a = b
    BY <1>3, <2>1, <2>2 DEF QueueOk
  <2>4. QED
    BY <2>1, <2>2, <2>3
<1>4. ASSUME NEW i \in DOMAIN some
      PROVE  IF some[i].type = "insert" THEN some[i].row \in NewRows /\ some[i].cells \in TE!Row
                                        ELSE some[i].row \in TableRows
  <2>1. PICK a \in places : some[i] = q[a]
    BY <1>2
  <2>2. QED
    BY <2>1 DEF QueueOk
<1>5. QueueOk(some)
  BY <1>2, <1>3, <1>4 DEF QueueOk
<1>6. QED
  BY <1>2, <1>5 DEF some

LEMMA AppendedOk ==
    ASSUME NEW q, QueueOk(q), NEW ch \in Edit, ~TE!Has(q, ch.row, ch.type),
           IF ch.type = "insert" THEN ch.row \in NewRows /\ ch.cells \in TE!Row
                                 ELSE ch.row \in TableRows
    PROVE  QueueOk(Append(q, ch))
<1>1. /\ q \in Seq(Edit)
      /\ \A i, j \in DOMAIN q : q[i].row = q[j].row /\ q[i].type = q[j].type => i = j
      /\ \A i \in DOMAIN q : IF q[i].type = "insert" THEN q[i].row \in NewRows /\ q[i].cells \in TE!Row
                                                     ELSE q[i].row \in TableRows
      /\ \A i \in DOMAIN q : ~(q[i].row = ch.row /\ q[i].type = ch.type)
  BY DEF QueueOk, TE!Has, TE!Is
<1> DEFINE r == Append(q, ch)
<1>2. /\ r \in Seq(Edit) /\ DOMAIN r = 1..(Len(q) + 1) /\ DOMAIN q = 1..Len(q) /\ Len(q) \in Nat
      /\ r[Len(q) + 1] = ch /\ \A i \in 1..Len(q) : r[i] = q[i]
  BY <1>1
<1> HIDE DEF r
<1>3. \A i, j \in DOMAIN r : r[i].row = r[j].row /\ r[i].type = r[j].type => i = j
  <2> SUFFICES ASSUME NEW i \in DOMAIN r, NEW j \in DOMAIN r, r[i].row = r[j].row,
                      r[i].type = r[j].type
               PROVE  i = j
    OBVIOUS
  <2>1. i \in DOMAIN q \/ i = Len(q) + 1
    BY <1>2
  <2>2. j \in DOMAIN q \/ j = Len(q) + 1
    BY <1>2
  <2>3. QED
    BY <1>1, <1>2, <2>1, <2>2
<1>4. ASSUME NEW i \in DOMAIN r
      PROVE  IF r[i].type = "insert" THEN r[i].row \in NewRows /\ r[i].cells \in TE!Row
                                     ELSE r[i].row \in TableRows
  <2>1. i \in DOMAIN q \/ i = Len(q) + 1
    BY <1>2
  <2>2. QED
    BY <1>1, <1>2, <2>1
<1>5. QED
  BY <1>2, <1>3, <1>4 DEF QueueOk, r

\* Where an entry was before entry k was removed.
Was(k, j) == IF j < k THEN j ELSE j + 1

LEMMA RemovedOne ==
    ASSUME NEW S, NEW s \in Seq(S), NEW k \in DOMAIN s
    PROVE  /\ TE!RemoveAt(s, k) \in Seq(S) /\ Len(TE!RemoveAt(s, k)) = Len(s) - 1
           /\ \A j \in DOMAIN TE!RemoveAt(s, k) :
                /\ Was(k, j) \in DOMAIN s /\ Was(k, j) # k
                /\ TE!RemoveAt(s, k)[j] = s[Was(k, j)]
           /\ \A i, j \in DOMAIN TE!RemoveAt(s, k) : Was(k, i) = Was(k, j) => i = j
<1>1. k \in 1..Len(s) /\ Len(s) \in Nat /\ \A i \in 1..Len(s) : s[i] \in S
  OBVIOUS
<1> DEFINE head == SubSeq(s, 1, k - 1)
           tail == SubSeq(s, k + 1, Len(s))
<1>2. head \in Seq(S) /\ Len(head) = k - 1 /\ \A i \in 1..(k - 1) : head[i] = s[i]
  BY <1>1
<1>3. tail \in Seq(S) /\ Len(tail) = Len(s) - k /\ \A i \in 1..(Len(s) - k) : tail[i] = s[i + k]
  BY <1>1
<1>4. TE!RemoveAt(s, k) = head \o tail
  BY DEF TE!RemoveAt
<1> HIDE DEF head, tail
<1>5. /\ head \o tail \in Seq(S) /\ Len(head \o tail) = Len(s) - 1
      /\ DOMAIN (head \o tail) = 1..(Len(s) - 1)
      /\ \A j \in 1..(Len(s) - 1) : (head \o tail)[j] = IF j < k THEN head[j] ELSE tail[j - (k - 1)]
  <2>1. k \in Nat /\ Len(s) \in Nat /\ (k - 1) + (Len(s) - k) = Len(s) - 1
    BY <1>1
  <2>2. /\ head \o tail \in Seq(S) /\ Len(head \o tail) = Len(head) + Len(tail)
        /\ \A j \in 1..(Len(head) + Len(tail)) :
             (head \o tail)[j] = IF j <= Len(head) THEN head[j] ELSE tail[j - Len(head)]
    BY <1>2, <1>3, ConcatProperties
  <2>3. Len(head \o tail) = Len(s) - 1
    BY <1>2, <1>3, <2>1, <2>2
  <2>4. DOMAIN (head \o tail) = 1..(Len(s) - 1)
    BY <2>2, <2>3
  <2>5. ASSUME NEW j \in 1..(Len(s) - 1)
        PROVE  (head \o tail)[j] = IF j < k THEN head[j] ELSE tail[j - (k - 1)]
    <3>1. j \in Nat /\ (j < k <=> j <= k - 1)
      BY <2>1
    <3>2. (head \o tail)[j] = IF j <= k - 1 THEN head[j] ELSE tail[j - (k - 1)]
      BY <1>2, <1>3, <2>1, <2>2
    <3>3. QED
      BY <3>1, <3>2
  <2>6. QED
    BY <2>2, <2>3, <2>4, <2>5
<1>6. ASSUME NEW j \in 1..(Len(s) - 1)
      PROVE  Was(k, j) \in DOMAIN s /\ Was(k, j) # k /\ (head \o tail)[j] = s[Was(k, j)]
  <2>1. CASE j < k
    BY <1>1, <1>2, <1>5, <2>1 DEF Was
  <2>2. CASE ~(j < k)
    <3>1. j - (k - 1) \in 1..(Len(s) - k) /\ j - (k - 1) + k = j + 1
      BY <1>1, <2>2
    <3>2. tail[j - (k - 1)] = s[j + 1]
      BY <1>3, <3>1
    <3>3. j + 1 \in DOMAIN s /\ j + 1 # k
      BY <1>1, <2>2
    <3>4. QED
      BY <1>5, <2>2, <3>2, <3>3 DEF Was
  <2>3. QED
    BY <2>1, <2>2
<1>7. \A i, j \in 1..(Len(s) - 1) : Was(k, i) = Was(k, j) => i = j
  BY <1>1 DEF Was
<1>8. QED
  BY <1>4, <1>5, <1>6, <1>7

LEMMA RemovedOk ==
    ASSUME NEW q, QueueOk(q), NEW k \in DOMAIN q
    PROVE  QueueOk(TE!RemoveAt(q, k))
<1> DEFINE r == TE!RemoveAt(q, k)
<1>1. q \in Seq(Edit)
  BY DEF QueueOk
<1>2. /\ r \in Seq(Edit) /\ \A j \in DOMAIN r : Was(k, j) \in DOMAIN q /\ r[j] = q[Was(k, j)]
      /\ \A i, j \in DOMAIN r : Was(k, i) = Was(k, j) => i = j
  BY <1>1, RemovedOne
<1> HIDE DEF r
<1>3. \A i, j \in DOMAIN r : r[i].row = r[j].row /\ r[i].type = r[j].type => i = j
  BY <1>2 DEF QueueOk
<1>4. \A i \in DOMAIN r : IF r[i].type = "insert" THEN r[i].row \in NewRows /\ r[i].cells \in TE!Row
                                                  ELSE r[i].row \in TableRows
  BY <1>2 DEF QueueOk
<1>5. QED
  BY <1>2, <1>3, <1>4 DEF QueueOk, r

LEMMA CellsOk ==
    ASSUME NEW q, QueueOk(q), NEW i \in DOMAIN q, NEW cells \in Partial,
           q[i].type = "insert" => cells \in TE!Row
    PROVE  QueueOk(TE!SetCells(q, i, cells))
<1>1. CASE q[i].type = "update" /\ DOMAIN cells = {}
  BY <1>1, RemovedOk DEF TE!SetCells
<1>2. CASE ~(q[i].type = "update" /\ DOMAIN cells = {})
  <2> DEFINE ch == [q[i] EXCEPT !.cells = cells]
             r == [q EXCEPT ![i] = ch]
  <2>1. TE!SetCells(q, i, cells) = r
    BY <1>2 DEF TE!SetCells
  <2>2. q \in Seq(Edit) /\ q[i] \in Edit
    BY DEF QueueOk
  <2>3. ch \in Edit /\ ch.row = q[i].row /\ ch.type = q[i].type /\ ch.cells = cells
    BY <2>2 DEF Edit
  <2> HIDE DEF ch
  <2>4. r \in Seq(Edit) /\ DOMAIN r = DOMAIN q /\ r[i] = ch /\ \A j \in DOMAIN q : j # i => r[j] = q[j]
    BY <2>2, <2>3
  <2> HIDE DEF r
  <2>5. \A j \in DOMAIN q : r[j].row = q[j].row /\ r[j].type = q[j].type
    BY <2>3, <2>4
  <2>6. \A j, k \in DOMAIN r : r[j].row = r[k].row /\ r[j].type = r[k].type => j = k
    BY <2>4, <2>5 DEF QueueOk
  <2>7. ASSUME NEW j \in DOMAIN r
        PROVE  IF r[j].type = "insert" THEN r[j].row \in NewRows /\ r[j].cells \in TE!Row
                                       ELSE r[j].row \in TableRows
    BY <2>3, <2>4, <2>5 DEF QueueOk
  <2>8. QED
    BY <2>1, <2>4, <2>6, <2>7 DEF QueueOk
<1>3. QED
  BY <1>1, <1>2

\* Cells that are put in and taken out again.
LEMMA PartialCells ==
    /\ << >> \in Partial /\ DOMAIN << >> = {} /\ \A cells \in Partial : DOMAIN cells \subseteq TableColumns
    /\ \A cells \in Partial, c \in TableColumns, v \in TableCells :
         /\ TE!With(cells, c, v) \in Partial
         /\ cells \in TE!Row => TE!With(cells, c, v) \in TE!Row
    /\ \A cells \in Partial : \A c : TE!Drop(cells, c) \in Partial
    /\ TE!Row \subseteq Partial
    /\ \A row \in TE!Row, cells \in Partial : TE!Over(row, cells) \in TE!Row
<1>1. << >> \in Partial /\ DOMAIN << >> = {}
  <2>1. << >> \in [{} -> TableCells] /\ {} \in SUBSET TableColumns
    OBVIOUS
  <2>2. QED
    BY <2>1 DEF Partial
<1>2. ASSUME NEW cells \in Partial
      PROVE  /\ DOMAIN cells \in SUBSET TableColumns /\ cells \in [DOMAIN cells -> TableCells]
             /\ \A c \in DOMAIN cells : cells[c] \in TableCells
  <2>1. PICK D \in SUBSET TableColumns : cells \in [D -> TableCells]
    BY DEF Partial
  <2>2. QED
    BY <2>1
<1>3. \A D \in SUBSET TableColumns : [D -> TableCells] \subseteq Partial
  BY DEF Partial
<1>4. ASSUME NEW cells \in Partial, NEW c \in TableColumns, NEW v \in TableCells
      PROVE  /\ TE!With(cells, c, v) \in Partial
             /\ cells \in TE!Row => TE!With(cells, c, v) \in TE!Row
  <2> DEFINE new == TE!With(cells, c, v)
             D == DOMAIN cells \cup {c}
  <2>1. new \in [D -> TableCells] /\ D \in SUBSET TableColumns
    BY <1>2 DEF TE!With
  <2>2. new \in Partial
    BY <1>3, <2>1
  <2>3. cells \in TE!Row => D = TableColumns
    BY DEF TE!Row
  <2>4. QED
    BY <2>1, <2>2, <2>3 DEF TE!Row
<1>5. ASSUME NEW cells \in Partial, NEW c
      PROVE  TE!Drop(cells, c) \in Partial
  <2> DEFINE D == DOMAIN cells \ {c}
  <2>1. TE!Drop(cells, c) \in [D -> TableCells] /\ D \in SUBSET TableColumns
    BY <1>2 DEF TE!Drop
  <2>2. QED
    BY <1>3, <2>1
<1>6. TE!Row \subseteq Partial
  BY <1>3 DEF TE!Row
<1>7. \A row \in TE!Row, cells \in Partial : TE!Over(row, cells) \in TE!Row
  BY <1>2 DEF TE!Over, TE!Row
<1>8. QED
  BY <1>1, <1>2, <1>4, <1>5, <1>6, <1>7

LEMMA FoundAt ==
    ASSUME NEW q, NEW r, NEW type, TE!Has(q, r, type)
    PROVE  /\ TE!At(q, r, type) \in DOMAIN q
           /\ q[TE!At(q, r, type)].row = r /\ q[TE!At(q, r, type)].type = type
BY DEF TE!Has, TE!At, TE!Is

\* A change that replaces one of its row and type.
LEMMA PutOk ==
    ASSUME NEW q, QueueOk(q), NEW ch \in Edit,
           IF ch.type = "insert" THEN ch.row \in NewRows /\ ch.cells \in TE!Row
                                 ELSE ch.row \in TableRows
    PROVE  QueueOk(TE!Put(q, ch))
<1> DEFINE places == {i \in DOMAIN q : ~TE!Is(q[i], ch.row, ch.type)}
           some == TE!Keeping(q, places)
<1>1. places \in SUBSET (DOMAIN q) /\ \A i \in places : ~TE!Is(q[i], ch.row, ch.type)
  OBVIOUS
<1>2. TE!Put(q, ch) = Append(some, ch)
  BY DEF TE!Put, TE!Without
<1> HIDE DEF places
<1>3. QueueOk(some) /\ \A k \in DOMAIN some : \E i \in places : some[k] = q[i]
  BY <1>1, KeptOk
<1>4. ~TE!Has(some, ch.row, ch.type)
  BY <1>1, <1>3 DEF TE!Has
<1>5. QED
  BY <1>2, <1>3, <1>4, AppendedOk

LEMMA NoteSteps ==
    ASSUME NEW noted \in Step, noted.kind = "cell" => noted.type = "update",
           EditsTyped, QueueOk(queue'), undoStack' = Append(undoStack, noted)
    PROVE  EditsTyped'
BY DEF EditsTyped

LEMMA EditsKeep ==
    ASSUME PageTyped, EditsTyped,
           \/ \E r \in TableRows, c \in TableColumns, v \in TableCells : TE!EditCell(r, c, v)
           \/ \E r \in NewRows, c \in TableColumns, v \in TableCells : TE!EditNewCell(r, c, v)
           \/ \E r \in NewRows : TE!AddNewRow(r)
           \/ \E r \in TableRows : TE!DeleteRow(r)
    PROVE  /\ EditsTyped'
           /\ UNCHANGED <<table, page, result, loads, reqSeq, latest, commits>>
<1>0. QueueOk(queue) /\ queue \in Seq(Edit)
  BY DEF EditsTyped, QueueOk
<1>1. ASSUME NEW q, NEW noted \in Step, noted.kind = "cell" => noted.type = "update", QueueOk(q),
             TE!Queued(q, noted)
      PROVE  EditsTyped' /\ UNCHANGED <<table, page, result, loads, reqSeq, latest, commits>>
  BY <1>1, NoteSteps DEF TE!Queued
<1>2. ASSUME NEW r \in TableRows, NEW c \in TableColumns, NEW v \in TableCells, TE!EditCell(r, c, v)
      PROVE  EditsTyped' /\ UNCHANGED <<table, page, result, loads, reqSeq, latest, commits>>
  <2> DEFINE ch == TE!Change(r, "update", << >>)
             q == IF TE!Has(queue, r, "update") THEN queue ELSE Append(queue, ch)
             i == TE!At(q, r, "update")
             cells == IF v = result.rows[r][c] THEN TE!Drop(q[i].cells, c) ELSE TE!With(q[i].cells, c, v)
             noted == TE!CellOp(r, c)
  <2>1. TE!Queued(TE!SetCells(q, i, cells), noted)
    BY <1>2 DEF TE!EditCell
  <2>2. ch \in Edit /\ ch.row = r /\ ch.type = "update"
    BY PartialCells DEF TE!Change, Edit
  <2> HIDE DEF ch
  <2>3. QueueOk(q)
    BY <1>0, <2>2, AppendedOk
  <2>4. TE!Has(q, r, "update")
    <3>1. CASE TE!Has(queue, r, "update")
      BY <3>1
    <3>2. CASE ~TE!Has(queue, r, "update")
      <4>1. Len(queue) + 1 \in DOMAIN q /\ q[Len(queue) + 1] = ch
        BY <1>0, <3>2
      <4>2. QED
        BY <2>2, <4>1 DEF TE!Has, TE!Is
    <3>3. QED
      BY <3>1, <3>2
  <2> HIDE DEF q
  <2>5. i \in DOMAIN q /\ q[i].type = "update" /\ q[i] \in Edit
    BY <2>3, <2>4, FoundAt DEF QueueOk
  <2> HIDE DEF i
  <2>6. cells \in Partial
    BY <2>5, PartialCells DEF Edit
  <2> HIDE DEF cells
  <2>7. QueueOk(TE!SetCells(q, i, cells))
    BY <2>3, <2>5, <2>6, CellsOk
  <2>8. noted \in Step /\ noted.type = "update"
    BY DEF TE!CellOp, Step
  <2>9. QED
    BY <1>1, <2>1, <2>7, <2>8
<1>3. ASSUME NEW r \in NewRows, NEW c \in TableColumns, NEW v \in TableCells, TE!EditNewCell(r, c, v)
      PROVE  EditsTyped' /\ UNCHANGED <<table, page, result, loads, reqSeq, latest, commits>>
  <2> DEFINE i == TE!At(queue, r, "insert")
             cells == TE!With(queue[i].cells, c, v)
             noted == TE!RowOp(r, "insert")
  <2>1. TE!Has(queue, r, "insert") /\ TE!Queued(TE!SetCells(queue, i, cells), noted)
    BY <1>3 DEF TE!EditNewCell
  <2>2. i \in DOMAIN queue /\ queue[i].type = "insert" /\ queue[i] \in Edit /\ queue[i].cells \in TE!Row
    BY <1>0, <2>1, FoundAt DEF QueueOk
  <2> HIDE DEF i
  <2>3. cells \in Partial /\ cells \in TE!Row
    BY <2>2, PartialCells DEF Edit
  <2> HIDE DEF cells
  <2>4. QueueOk(TE!SetCells(queue, i, cells))
    BY <1>0, <2>2, <2>3, CellsOk
  <2>5. noted \in Step /\ noted.kind = "row"
    BY DEF TE!RowOp, Step
  <2>6. QED
    BY <1>1, <2>1, <2>4, <2>5
<1>4. ASSUME NEW r \in NewRows, TE!AddNewRow(r)
      PROVE  EditsTyped' /\ UNCHANGED <<table, page, result, loads, reqSeq, latest, commits>>
  <2> DEFINE noted == TE!RowOp(r, "insert")
             Ch(v) == TE!Change(r, "insert", [c \in TableColumns |-> v])
  <2>1. PICK v \in TableCells : TE!Queued(TE!Put(queue, Ch(v)), noted)
    BY <1>4 DEF TE!AddNewRow
  <2>2. /\ Ch(v) \in Edit /\ Ch(v).type = "insert" /\ Ch(v).row = r /\ Ch(v).cells \in TE!Row
    <3>1. [c \in TableColumns |-> v] \in TE!Row
      BY DEF TE!Row
    <3>2. [c \in TableColumns |-> v] \in Partial
      BY <3>1, PartialCells
    <3>3. QED
      BY <3>1, <3>2 DEF TE!Change, Edit
  <2>3. noted \in Step /\ noted.kind = "row"
    BY DEF TE!RowOp, Step
  <2> HIDE DEF noted, Ch
  <2>4. QueueOk(TE!Put(queue, Ch(v)))
    BY <1>0, <2>2, PutOk
  <2>5. QED
    BY <1>1, <2>1, <2>3, <2>4
<1>5. ASSUME NEW r \in TableRows, TE!DeleteRow(r)
      PROVE  EditsTyped' /\ UNCHANGED <<table, page, result, loads, reqSeq, latest, commits>>
  <2> DEFINE noted == TE!RowOp(r, "delete")
             ch == TE!Change(r, "delete", << >>)
  <2>1. TE!Queued(TE!Put(queue, ch), noted)
    BY <1>5 DEF TE!DeleteRow
  <2>2. ch \in Edit /\ ch.type = "delete" /\ ch.row = r
    BY PartialCells DEF TE!Change, Edit
  <2>3. noted \in Step /\ noted.kind = "row"
    BY DEF TE!RowOp, Step
  <2> HIDE DEF noted, ch
  <2>4. QueueOk(TE!Put(queue, ch))
    BY <1>0, <2>2, PutOk
  <2>5. QED
    BY <1>1, <2>1, <2>3, <2>4
<1>6. QED
  BY <1>2, <1>3, <1>4, <1>5

LEMMA UndoneOk ==
    ASSUME NEW noted \in Step, noted.kind = "cell" => noted.type = "update", QueueOk(queue)
    PROVE  QueueOk(TE!Undone(noted))
<1> DEFINE i == TE!At(queue, noted.row, noted.type)
<1>1. CASE ~TE!Has(queue, noted.row, noted.type)
  BY <1>1 DEF TE!Undone
<1>2. CASE TE!Has(queue, noted.row, noted.type) /\ noted.kind = "row"
  <2>1. TE!Undone(noted) = TE!Without(queue, noted.row, noted.type)
    BY <1>2 DEF TE!Undone
  <2>2. QED
    BY <2>1, KeptOk DEF TE!Without
<1>3. CASE TE!Has(queue, noted.row, noted.type) /\ noted.kind # "row"
  <2>1. TE!Undone(noted) = TE!SetCells(queue, i, TE!Drop(queue[i].cells, noted.column))
    BY <1>3 DEF TE!Undone
  <2>2. i \in DOMAIN queue /\ queue[i].type = "update" /\ queue[i] \in Edit
    <3>1. noted.type = "update"
      BY <1>3 DEF Step
    <3>2. QED
      BY <1>3, <3>1, FoundAt DEF QueueOk
  <2> HIDE DEF i
  <2>3. TE!Drop(queue[i].cells, noted.column) \in Partial
    BY <2>2, PartialCells DEF Edit
  <2>4. QED
    BY <2>1, <2>2, <2>3, CellsOk
<1>4. QED
  BY <1>1, <1>2, <1>3

LEMMA LessEdits ==
    ASSUME EditsTyped,
           \/ TE!Undo \/ TE!Revert \/ \E r \in TableRows \cup NewRows : TE!DiscardRow(r)
    PROVE  /\ EditsTyped'
           /\ UNCHANGED <<table, page, result, loads, reqSeq, latest, commits>>
<1>1. CASE TE!Undo
  <2> DEFINE noted == undoStack[Len(undoStack)]
  <2>1. /\ undoStack # << >> /\ undoStack \in Seq(Step)
        /\ queue' = TE!Undone(noted) /\ undoStack' = SubSeq(undoStack, 1, Len(undoStack) - 1)
        /\ UNCHANGED <<table, page, result, loads, reqSeq, latest, commits>>
    BY <1>1 DEF TE!Undo, EditsTyped
  <2>2. Len(undoStack) \in DOMAIN undoStack /\ noted \in Step
    BY <2>1
  <2>3. noted.kind = "cell" => noted.type = "update"
    BY <2>2 DEF EditsTyped
  <2> HIDE DEF noted
  <2>4. QueueOk(queue')
    BY <2>1, <2>2, <2>3, UndoneOk DEF EditsTyped
  <2>5. /\ undoStack' \in Seq(Step)
        /\ \A i \in DOMAIN undoStack' : i \in DOMAIN undoStack /\ undoStack'[i] = undoStack[i]
    BY <2>1
  <2>6. QED
    BY <2>1, <2>4, <2>5 DEF EditsTyped
<1>2. CASE TE!Revert
  <2>1. /\ queue' = << >> /\ undoStack' = << >>
        /\ UNCHANGED <<table, page, result, loads, reqSeq, latest, commits>>
    BY <1>2 DEF TE!Revert, TE!Clear
  <2>2. QED
    BY <2>1 DEF EditsTyped, QueueOk
<1>3. ASSUME NEW r, TE!DiscardRow(r)
      PROVE  EditsTyped' /\ UNCHANGED <<table, page, result, loads, reqSeq, latest, commits>>
  <2>1. /\ queue' = TE!Keeping(queue, {i \in DOMAIN queue : queue[i].row # r})
        /\ UNCHANGED <<table, page, result, loads, reqSeq, latest, undoStack, commits>>
    BY <1>3 DEF TE!DiscardRow
  <2>2. QueueOk(queue')
    BY <2>1, KeptOk DEF EditsTyped
  <2>3. QED
    BY <2>1, <2>2 DEF EditsTyped
<1>4. QED
  BY <1>1, <1>2, <1>3

\* The server's table and the calls of doCommit stay as they are.
LEMMA CommitsRest ==
    ASSUME CommitsKnow, UNCHANGED <<table, commits>>
    PROVE  CommitsKnow'
BY DEF CommitsKnow, ClickOk, ViewOk

\* Adding a change to the number of rows added.
LEMMA AddedOne ==
    ASSUME NEW q \in Seq(Edit), NEW n \in Nat, n + 1 <= Len(q)
    PROVE  /\ Added(q, n) \in Nat /\ Added(q, 0) = 0
           /\ Added(q, n + 1) = IF q[n + 1].type = "insert" THEN Added(q, n) + 1 ELSE Added(q, n)
<1> DEFINE Upto(m) == {i \in 1..m : q[i].type = "insert"}
<1>1. IsFiniteSet(1..n)
  <2>1. 1 \in Int /\ n \in Int
    OBVIOUS
  <2>2. QED
    BY <2>1, FS_Interval
<1>2. IsFiniteSet(Upto(n)) /\ Cardinality(Upto(n)) \in Nat
  BY <1>1, FS_Subset, FS_CardinalityType
<1>3. Upto(0) = {}
  OBVIOUS
<1>4. CASE q[n + 1].type = "insert"
  <2>1. Upto(n + 1) = Upto(n) \cup {n + 1} /\ n + 1 \notin Upto(n)
    BY <1>4
  <2>2. Cardinality(Upto(n + 1)) = Cardinality(Upto(n)) + 1
    <3> HIDE DEF Upto
    <3>1. QED
      BY <1>2, <2>1, FS_AddElement
  <2>3. Cardinality(Upto(0)) = 0
    BY <1>3, FS_EmptySet
  <2>4. QED
    BY <1>2, <1>4, <2>2, <2>3 DEF Added
<1>5. CASE q[n + 1].type # "insert"
  <2>1. Upto(n + 1) = Upto(n)
    BY <1>5
  <2>2. QED
    BY <1>2, <1>3, <1>5, <2>1, FS_EmptySet DEF Added
<1>6. QED
  BY <1>4, <1>5

\* What a row becomes is settled by the changes, unless it has two.
LEMMA MakesOne ==
    ASSUME NEW q, NEW r, NEW row, NEW a, NEW b, Makes(q, Len(q), r, row, a), Makes(q, Len(q), r, row, b)
    PROVE  a = b
BY DEF Makes

\* What the grid shows of a row is what its changes make of it.
LEMMA ShownIsMade ==
    ASSUME PageTyped, QueueOk(queue), NEW r \in TableRows, r \in TE!Loaded,
           ~(TE!Has(queue, r, "update") /\ TE!Has(queue, r, "delete"))
    PROVE  Makes(queue, Len(queue), r, result.rows[r], TE!Shown(r))
<1> DEFINE i == TE!At(queue, r, "update")
<1>1. DOMAIN queue = 1..Len(queue)
  BY DEF QueueOk
<1>2. CASE TE!Has(queue, r, "update")
  <2>1. i \in DOMAIN queue /\ queue[i].row = r /\ queue[i].type = "update"
    BY <1>2, FoundAt
  <2>2. TE!Shown(r) = TE!Over(result.rows[r], queue[i].cells)
    BY <1>2 DEF TE!Shown
  <2> HIDE DEF i
  <2>3. \A j \in DOMAIN queue : TE!Is(queue[j], r, "update") => j = i
    BY <2>1 DEF QueueOk, TE!Is
  <2>4. \A j \in DOMAIN queue : ~TE!Is(queue[j], r, "delete")
    BY <1>2 DEF TE!Has
  <2>5. TE!Is(queue[i], r, "update")
    BY <2>1 DEF TE!Is
  <2>6. QED
    BY <1>1, <2>1, <2>2, <2>3, <2>4, <2>5 DEF Makes
<1>3. CASE ~TE!Has(queue, r, "update") /\ TE!Has(queue, r, "delete")
  <2>1. TE!Shown(r) = None
    BY <1>3 DEF TE!Shown, TE!Deleted
  <2>2. QED
    BY <1>1, <1>3, <2>1 DEF Makes, TE!Has
<1>4. CASE ~TE!Has(queue, r, "update") /\ ~TE!Has(queue, r, "delete")
  <2>1. TE!Shown(r) = result.rows[r]
    BY <1>4 DEF TE!Shown, TE!Deleted
  <2>2. QED
    BY <1>1, <1>4, <2>1 DEF Makes, TE!Has
<1>5. QED
  BY <1>2, <1>3, <1>4

LEMMA ShownIsTyped ==
    ASSUME PageTyped, QueueOk(queue), NEW r \in TableRows, r \in TE!Loaded
    PROVE  TE!Shown(r) \in TE!Row \cup {None} /\ result # None
<1>1. result # None /\ result.rows[r] \in TE!Row
  BY DEF TE!Loaded, PageTyped, Contents
<1>2. CASE TE!Has(queue, r, "update")
  <2>1. queue[TE!At(queue, r, "update")] \in Edit
    BY <1>2, FoundAt DEF QueueOk
  <2>2. queue[TE!At(queue, r, "update")].cells \in Partial
    BY <2>1 DEF Edit
  <2>3. QED
    BY <1>1, <1>2, <2>2, PartialCells DEF TE!Shown
<1>3. CASE ~TE!Has(queue, r, "update")
  BY <1>1, <1>3 DEF TE!Shown
<1>4. QED
  BY <1>1, <1>2, <1>3

\* A call more, or one call changed, or one less, about the same table.
LEMMA ClickKeeps ==
    ASSUME TableInv, TE!DoCommit
    PROVE  CommitsKnow'
<1> DEFINE Both == {r \in TableRows : TE!Has(queue, r, "update") /\ TE!Has(queue, r, "delete")}
           Rows0 == IF result = None THEN TE!NoRow ELSE result.rows
           Shown0 == [r \in TableRows |-> IF r \in TE!Loaded THEN TE!Shown(r) ELSE None]
           c == [stmts |-> queue, done |-> 0, view |-> None, page |-> page, both |-> Both,
                 loaded |-> Rows0, shown |-> Shown0]
<1>1. commits' = Append(commits, c) /\ table' = table
  BY DEF TE!DoCommit
<1>2. QueueOk(queue) /\ queue \in Seq(Edit) /\ PageTyped
  BY DEF TableInv, EditsTyped, QueueOk
<1>3. Rows0 \in Contents
  BY <1>2 DEF PageTyped, Contents, TE!NoRow
<1>4. Shown0 \in Contents
  BY <1>2, ShownIsTyped DEF Contents
<1>5. ASSUME NEW r \in TableRows \ Both, Rows0[r] # None
      PROVE  Makes(queue, Len(queue), r, Rows0[r], Shown0[r])
  <2>1. result # None /\ Rows0[r] = result.rows[r]
    BY <1>5 DEF TE!NoRow
  <2>2. r \in TE!Loaded
    BY <1>2, <1>5, <2>1 DEF PageTyped, TE!Loaded
  <2>3. ~(TE!Has(queue, r, "update") /\ TE!Has(queue, r, "delete"))
    BY <1>5
  <2>4. Shown0[r] = TE!Shown(r)
    BY <2>2
  <2>5. QED
    BY <1>2, <2>1, <2>2, <2>3, <2>4, ShownIsMade
<1>6. Both \in SUBSET TableRows
  OBVIOUS
<1>7. Both = {r \in TableRows : TE!Has(queue, r, "update") /\ TE!Has(queue, r, "delete")}
  OBVIOUS
<1> HIDE DEF Both, Rows0, Shown0
<1>8. c \in Call
  BY <1>2, <1>3, <1>4, <1>6 DEF Call, PageTyped
<1>9. /\ c.stmts = queue /\ c.done = 0 /\ c.view = None /\ c.both = Both /\ c.loaded = Rows0
      /\ c.shown = Shown0
  OBVIOUS
<1> HIDE DEF c
<1>10. ClickOk(c)
  <2>1. c.done <= Len(c.stmts)
    BY <1>2, <1>9
  <2>2. QED
    BY <1>2, <1>5, <1>7, <1>9, <2>1 DEF ClickOk
<1>11. commits \in Seq(Call) /\ Len(commits) \in Nat /\ DOMAIN commits = 1..Len(commits)
  BY DEF TableInv, CommitsKnow
<1>12. /\ commits' \in Seq(Call) /\ DOMAIN commits' = 1..(Len(commits) + 1)
       /\ \A k \in DOMAIN commits' : \/ k \in DOMAIN commits /\ commits'[k] = commits[k]
                                     \/ commits'[k] = c
  BY <1>1, <1>8, <1>11
<1>13. QED
  BY <1>1, <1>9, <1>10, <1>12 DEF TableInv, CommitsKnow, ClickOk, ViewOk

LEMMA BeginKeeps ==
    ASSUME TE!EditAssumption, CommitsKnow, NEW k \in DOMAIN commits, TE!Begin(k)
    PROVE  CommitsKnow'
<1>1. /\ commits[k].view = None /\ ~table.open
      /\ table' = [table EXCEPT !.open = TRUE] /\ commits' = [commits EXCEPT ![k].view = table]
  BY DEF TE!Begin
<1>2. /\ table \in TE!View /\ commits \in Seq(Call) /\ commits[k] \in Call
      /\ \A j \in DOMAIN commits : ClickOk(commits[j]) /\ commits[j].view = None
  BY <1>1 DEF CommitsKnow
<1> DEFINE c == [commits[k] EXCEPT !.view = table]
<1>3. /\ c \in Call /\ c.view = table /\ c.stmts = commits[k].stmts /\ c.done = commits[k].done
      /\ c.both = commits[k].both /\ c.loaded = commits[k].loaded /\ c.shown = commits[k].shown
  BY <1>2 DEF Call
<1>4. table # None /\ c.done = 0 /\ ClickOk(c)
  BY <1>1, <1>2, <1>3 DEF ClickOk, TE!EditAssumption
<1> HIDE DEF c
<1>5. /\ commits' \in Seq(Call) /\ DOMAIN commits' = DOMAIN commits
      /\ commits'[k] = c /\ \A j \in DOMAIN commits : j # k => commits'[j] = commits[j]
  BY <1>1, <1>2, <1>3 DEF c
<1>6. /\ table' \in TE!View /\ table'.open /\ table'.rows = table.rows /\ table'.added = table.added
  BY <1>1, <1>2 DEF TE!View
<1>7. c.stmts \in Seq(Edit) /\ Added(c.stmts, 0) = 0 /\ Len(table.added) \in Nat
  <2>1. {i \in 1..0 : c.stmts[i].type = "insert"} = {}
    OBVIOUS
  <2>2. Added(c.stmts, 0) = 0
    BY <2>1, FS_EmptySet DEF Added
  <2>3. table.added \in Seq(TE!Row)
    BY <1>2 DEF TE!View
  <2>4. QED
    BY <1>3, <2>2, <2>3 DEF Call
<1>8. \A r \in TableRows : Makes(c.stmts, 0, r, table.rows[r], table.rows[r])
  BY DEF Makes
<1>9. \A j \in DOMAIN commits' : ClickOk(commits'[j]) /\ (commits'[j].view # None => j = k)
  BY <1>2, <1>4, <1>5
<1>10. /\ Len(c.view.added) = Len(table'.added) + Added(c.stmts, c.done)
       /\ \A r \in TableRows \ c.both : table'.rows[r] # None =>
            Makes(c.stmts, c.done, r, table'.rows[r], c.view.rows[r])
  BY <1>3, <1>4, <1>6, <1>7, <1>8
<1>11. QED
  BY <1>5, <1>6, <1>9, <1>10 DEF CommitsKnow, ClickOk, ViewOk

\* A change of another row, and one of a row without changes so far.
LEMMA MakesMore ==
    ASSUME NEW q, NEW n \in Nat, NEW r, NEW row, NEW out
    PROVE  /\ (/\ ~TE!Is(q[n + 1], r, "update") /\ ~TE!Is(q[n + 1], r, "delete")
               /\ Makes(q, n, r, row, out))
                => Makes(q, n + 1, r, row, out)
           /\ (/\ \A i \in 1..n : ~TE!Is(q[i], r, "update") /\ ~TE!Is(q[i], r, "delete")
               /\ TE!Is(q[n + 1], r, "update") => out = TE!Over(row, q[n + 1].cells)
               /\ TE!Is(q[n + 1], r, "delete") => out = None
               /\ TE!Is(q[n + 1], r, "update") \/ TE!Is(q[n + 1], r, "delete"))
                => Makes(q, n + 1, r, row, out)
<1>1. n + 1 \in 1..(n + 1) /\ \A i \in 1..(n + 1) : i \in 1..n \/ i = n + 1
  OBVIOUS
<1>2. 1..n \subseteq 1..(n + 1)
  OBVIOUS
<1>3. QED
  BY <1>1, <1>2 DEF Makes

\* What a statement makes of a row and of the rows added.
LEMMA RunsOne ==
    ASSUME NEW c \in Call, ClickOk(c), ViewOk(c), c.view # None, c.done < Len(c.stmts),
           table \in TE!View
    PROVE  LET ch == c.stmts[c.done + 1]  seen == TE!Applied(c.view, ch) IN
           /\ seen \in TE!View
           /\ Len(seen.added) = Len(table.added) + Added(c.stmts, c.done + 1)
           /\ \A r \in TableRows \ c.both : table.rows[r] # None =>
                Makes(c.stmts, c.done + 1, r, table.rows[r], seen.rows[r])
<1> DEFINE q == c.stmts
           n == c.done
           ch == q[n + 1]
           old == c.view
           seen == TE!Applied(old, ch)
<1>1. /\ q \in Seq(Edit) /\ Len(q) \in Nat /\ DOMAIN q = 1..Len(q) /\ n \in Nat /\ n + 1 \in 1..Len(q)
      /\ ch \in Edit /\ old \in TE!View
  BY DEF Call
<1>2. /\ \A i, j \in DOMAIN q : q[i].row = q[j].row /\ q[i].type = q[j].type => i = j
      /\ IF ch.type = "insert" THEN ch.row \in NewRows /\ ch.cells \in TE!Row
                               ELSE ch.row \in TableRows
  BY <1>1 DEF ClickOk, QueueOk
<1>3. Len(table.added) \in Nat /\ Added(q, n) \in Nat
      /\ Added(q, n + 1) = IF ch.type = "insert" THEN Added(q, n) + 1 ELSE Added(q, n)
  <2>1. table.added \in Seq(TE!Row)
    BY DEF TE!View
  <2>2. QED
    BY <1>1, <2>1, AddedOne
<1>4. old.added \in Seq(TE!Row) /\ old.rows \in Contents /\ ch.cells \in Partial
      /\ ch.type \in {"insert", "update", "delete"} /\ Len(old.added) = Len(table.added) + Added(q, n)
  BY <1>1 DEF TE!View, Contents, Edit, ViewOk
<1>5. c.both = {r \in TableRows : TE!Has(q, r, "update") /\ TE!Has(q, r, "delete")}
      /\ \A r \in TableRows \ c.both : table.rows[r] # None => Makes(q, n, r, table.rows[r], old.rows[r])
  BY DEF ClickOk, ViewOk
<1> HIDE DEF q, n, ch, old
<1> DEFINE Goal == /\ seen \in TE!View
                   /\ Len(seen.added) = Len(table.added) + Added(q, n + 1)
                   /\ \A r \in TableRows \ c.both : table.rows[r] # None =>
                        Makes(q, n + 1, r, table.rows[r], seen.rows[r])
<1> SUFFICES Goal
  BY DEF q, n, ch, old
<1>6. CASE ch.type = "insert"
  <2> DEFINE more == Append(old.added, ch.cells)
  <2>1. seen = [old EXCEPT !.added = more]
    BY <1>6 DEF TE!Applied
  <2> HIDE DEF seen
  <2>2. more \in Seq(TE!Row) /\ Len(more) = Len(old.added) + 1
    BY <1>2, <1>4, <1>6
  <2> HIDE DEF more
  <2>3. /\ seen \in TE!View /\ seen.rows = old.rows /\ Len(seen.added) = Len(old.added) + 1
    BY <1>1, <2>1, <2>2 DEF TE!View
  <2>4. ASSUME NEW r \in TableRows \ c.both, table.rows[r] # None
        PROVE  Makes(q, n + 1, r, table.rows[r], seen.rows[r])
    <3>1. ~TE!Is(q[n + 1], r, "update") /\ ~TE!Is(q[n + 1], r, "delete")
      BY <1>6 DEF TE!Is, ch
    <3>2. QED
      BY <1>1, <1>5, <2>3, <2>4, <3>1, MakesMore
  <2>5. Len(seen.added) = Len(table.added) + Added(q, n + 1)
    BY <1>3, <1>4, <1>6, <2>3
  <2>6. QED
    BY <2>3, <2>4, <2>5
<1>7. CASE ch.type # "insert"
  <2> DEFINE new == IF ch.type = "delete" THEN None ELSE TE!Over(old.rows[ch.row], ch.cells)
  <2>0. ch.row \in TableRows
    BY <1>2, <1>7
  <2>1. /\ seen \in TE!View /\ seen.added = old.added
        /\ \A r \in TableRows : r # ch.row => seen.rows[r] = old.rows[r]
        /\ old.rows[ch.row] # None => seen.rows[ch.row] = new
    <3>1. CASE old.rows[ch.row] = None
      <4>1. seen = old
        BY <1>7, <3>1 DEF TE!Applied
      <4>2. QED
        BY <1>1, <3>1, <4>1
    <3>2. CASE old.rows[ch.row] # None
      <4>1. seen = [old EXCEPT !.rows = [@ EXCEPT ![ch.row] = new]]
        BY <1>7, <3>2 DEF TE!Applied
      <4>2. old.rows[ch.row] \in TE!Row
        BY <1>4, <2>0, <3>2 DEF Contents
      <4>3. new \in TE!Row \cup {None}
        BY <1>4, <4>2, PartialCells
      <4> HIDE DEF new
      <4>4. QED
        BY <1>1, <2>0, <4>1, <4>3 DEF TE!View
    <3>3. QED
      BY <3>1, <3>2
  <2> HIDE DEF new, seen
  <2>3. ASSUME NEW r \in TableRows \ c.both, table.rows[r] # None, r # ch.row
        PROVE  Makes(q, n + 1, r, table.rows[r], seen.rows[r])
    <3>1. ~TE!Is(q[n + 1], r, "update") /\ ~TE!Is(q[n + 1], r, "delete")
      BY <2>3 DEF TE!Is, ch
    <3>2. QED
      BY <1>1, <1>5, <2>1, <2>3, <3>1, MakesMore
  <2>4. ASSUME NEW r \in TableRows \ c.both, table.rows[r] # None, r = ch.row
        PROVE  Makes(q, n + 1, r, table.rows[r], seen.rows[r])
    <3>1. ASSUME NEW i \in 1..n
          PROVE  ~TE!Is(q[i], r, "update") /\ ~TE!Is(q[i], r, "delete")
      <4>1. i \in DOMAIN q /\ n + 1 \in DOMAIN q /\ i # n + 1
        BY <1>1, <3>1
      <4>2. q[i].row = r => q[i].type # ch.type
        BY <1>2, <2>4, <4>1 DEF ch
      <4>3. TE!Is(ch, r, "update") \/ TE!Is(ch, r, "delete")
        BY <1>4, <1>7, <2>4 DEF TE!Is
      <4>4. ~(TE!Has(q, r, "update") /\ TE!Has(q, r, "delete"))
        BY <1>5, <2>4
      <4>5. QED
        BY <4>1, <4>2, <4>3, <4>4 DEF TE!Has, TE!Is, ch
    <3>2. old.rows[r] = table.rows[r]
      BY <1>5, <2>4, <3>1 DEF Makes
    <3>3. seen.rows[r] = IF ch.type = "delete" THEN None ELSE TE!Over(table.rows[r], ch.cells)
      BY <2>1, <2>4, <3>2 DEF new
    <3>4. TE!Is(q[n + 1], r, "update") \/ TE!Is(q[n + 1], r, "delete")
      BY <1>4, <1>7, <2>4 DEF TE!Is, ch
    <3>5. TE!Is(q[n + 1], r, "update") => seen.rows[r] = TE!Over(table.rows[r], q[n + 1].cells)
      BY <3>3 DEF TE!Is, ch
    <3>6. TE!Is(q[n + 1], r, "delete") => seen.rows[r] = None
      BY <3>3 DEF TE!Is, ch
    <3>7. QED
      BY <1>1, <3>1, <3>4, <3>5, <3>6, MakesMore
  <2>5. Len(seen.added) = Len(table.added) + Added(q, n + 1)
    BY <1>3, <1>4, <1>7, <2>1
  <2>6. QED
    BY <2>1, <2>3, <2>4, <2>5
<1>8. QED
  BY <1>6, <1>7

LEMMA OneChanged ==
    ASSUME NEW S, NEW s \in Seq(S), NEW k \in DOMAIN s, NEW x \in S, NEW t, t = [s EXCEPT ![k] = x]
    PROVE  /\ t \in Seq(S) /\ DOMAIN t = DOMAIN s /\ t[k] = x
           /\ \A j \in DOMAIN s : j # k => t[j] = s[j]
BY SMTT(30)

LEMMA ExecKeeps ==
    ASSUME TE!EditAssumption, CommitsKnow, NEW k \in DOMAIN commits, NEW old, old = commits[k],
           old.view # None, old.done < Len(old.stmts), NEW seen, NEW c,
           seen = TE!Applied(old.view, old.stmts[old.done + 1]),
           NEW mid, mid = [old EXCEPT !.done = old.done + 1], c = [mid EXCEPT !.view = seen],
           table' = table, commits' = [commits EXCEPT ![k] = c]
    PROVE  CommitsKnow'
<1>1. /\ old.view # None /\ old.done < Len(old.stmts)
      /\ commits' = [commits EXCEPT ![k] = c]
  OBVIOUS
<1>2. /\ table \in TE!View /\ commits \in Seq(Call) /\ old \in Call /\ ClickOk(old) /\ ViewOk(old)
      /\ table.open
  BY DEF CommitsKnow
<1>3. /\ seen \in TE!View
      /\ Len(seen.added) = Len(table.added) + Added(old.stmts, old.done + 1)
      /\ \A r \in TableRows \ old.both : table.rows[r] # None =>
           Makes(old.stmts, old.done + 1, r, table.rows[r], seen.rows[r])
  BY <1>1, <1>2, RunsOne
<1>4. /\ c \in Call /\ c.view = seen /\ c.done = old.done + 1 /\ c.stmts = old.stmts
      /\ c.both = old.both /\ c.loaded = old.loaded /\ c.shown = old.shown
  <2>1. old \in Call /\ seen \in TE!View
    BY <1>2, <1>3
  <2>2. old.done \in Nat
    BY <2>1 DEF Call
  <2>3. /\ mid \in Call /\ mid.view = old.view /\ mid.done = old.done + 1 /\ mid.stmts = old.stmts
        /\ mid.both = old.both /\ mid.loaded = old.loaded /\ mid.shown = old.shown
    BY <2>1, <2>2 DEF Call
  <2>4. QED
    BY <2>1, <2>3 DEF Call
<1>5. /\ commits' \in Seq(Call) /\ DOMAIN commits' = DOMAIN commits
      /\ commits'[k] = c /\ \A j \in DOMAIN commits : j # k => commits'[j] = commits[j]
  BY <1>1, <1>2, <1>4, OneChanged
<1>6. old.done \in Nat /\ Len(old.stmts) \in Nat /\ c.done <= Len(c.stmts) /\ c.view # None
  <2>1. old.done \in Nat /\ old.stmts \in Seq(Edit)
    BY <1>2 DEF Call
  <2>2. seen # None
    BY <1>3 DEF TE!EditAssumption
  <2>3. QED
    BY <1>1, <1>4, <2>1, <2>2
<1>7. ClickOk(c)
  BY <1>2, <1>4, <1>6 DEF ClickOk
<1>8. ViewOk(c)
  BY <1>3, <1>4 DEF ViewOk
<1>9. \A j \in DOMAIN commits : j # k => commits[j].view = None
  BY <1>1 DEF CommitsKnow
<1>10. \A j \in DOMAIN commits' : /\ ClickOk(commits'[j])
                                  /\ commits'[j].view # None => j = k /\ ViewOk(commits'[j])
  BY <1>5, <1>7, <1>8, <1>9 DEF CommitsKnow
<1>11. QED
  BY <1>2, <1>5, <1>10 DEF CommitsKnow, ClickOk, ViewOk

\* A call that ends takes its transaction along.
LEMMA CallEndKeeps ==
    ASSUME CommitsKnow, NEW k \in DOMAIN commits, commits' = TE!RemoveAt(commits, k),
           \/ commits[k].view = None /\ table' = table
           \/ commits[k].view # None /\ table' \in TE!View
    PROVE  CommitsKnow'
<1>1. table \in TE!View /\ commits \in Seq(Call)
  BY DEF CommitsKnow
<1>2. /\ commits' \in Seq(Call)
      /\ \A j \in DOMAIN commits' : /\ Was(k, j) \in DOMAIN commits /\ Was(k, j) # k
                                    /\ commits'[j] = commits[Was(k, j)]
      /\ \A i, j \in DOMAIN commits' : Was(k, i) = Was(k, j) => i = j
  BY <1>1, RemovedOne
<1>5. \A j \in DOMAIN commits' : ClickOk(commits'[j])
  BY <1>2 DEF CommitsKnow
<1>6. \A i, j \in DOMAIN commits' : commits'[i].view # None /\ commits'[j].view # None => i = j
  <2> SUFFICES ASSUME NEW i \in DOMAIN commits', NEW j \in DOMAIN commits',
                      commits'[i].view # None, commits'[j].view # None
               PROVE  i = j
    OBVIOUS
  <2>1. Was(k, i) = Was(k, j)
    BY <1>2 DEF CommitsKnow
  <2>2. QED
    BY <1>2, <2>1
<1>7. CASE commits[k].view = None /\ table' = table
  BY <1>2, <1>5, <1>6, <1>7 DEF CommitsKnow, ClickOk, ViewOk
<1>8. CASE commits[k].view # None /\ table' \in TE!View
  <2>1. \A j \in DOMAIN commits' : commits'[j].view = None
    BY <1>2, <1>8 DEF CommitsKnow
  <2>2. QED
    BY <1>2, <1>5, <1>6, <1>8, <2>1 DEF CommitsKnow, ClickOk
<1>9. QED
  BY <1>7, <1>8

LEMMA OutsideKeeps ==
    ASSUME CommitsKnow, NEW r \in TableRows, TE!Outside(r)
    PROVE  CommitsKnow'
<1>1. ~table.open /\ table' = [table EXCEPT !.rows[r] = None] /\ commits' = commits
  BY DEF TE!Outside
<1>2. table' \in TE!View
  BY <1>1 DEF CommitsKnow, TE!View
<1>3. \A k \in DOMAIN commits : commits[k].view = None
  BY <1>1 DEF CommitsKnow
<1>4. QED
  BY <1>1, <1>2, <1>3 DEF CommitsKnow, ClickOk

LEMMA ExecGoesOn ==
    ASSUME TE!EditAssumption, CommitsKnow, NEW k \in DOMAIN commits, TE!ExecInTx(k),
           TE!Expected(commits[k].stmts[commits[k].done + 1],
                       TE!Affected(commits[k].view, commits[k].stmts[commits[k].done + 1]))
    PROVE  CommitsKnow'
<1>a. PICK old : old = commits[k]
  OBVIOUS
<1>b. PICK seen : seen = TE!Applied(old.view, old.stmts[old.done + 1])
  OBVIOUS
<1>c. PICK mid : mid = [old EXCEPT !.done = old.done + 1]
  OBVIOUS
<1>d. PICK c : c = [mid EXCEPT !.view = seen]
  OBVIOUS
<1>1. old.view # None /\ old.done < Len(old.stmts) /\ table' = table
  BY <1>a DEF TE!ExecInTx
<1>2. commits' = [commits EXCEPT ![k] = c]
  BY Zenon, <1>a, <1>b, <1>c, <1>d DEF TE!ExecInTx
<1>3. QED
  BY <1>1, <1>2, <1>a, <1>b, <1>c, <1>d, ExecKeeps

LEMMA PagesTyped ==
    ASSUME TE!EditAssumption, PageTyped, table \in TE!View,
           \/ \E p \in TablePages, guarded \in BOOLEAN : TE!ChangePage(p, guarded)
           \/ \E l \in loads, ok \in BOOLEAN : TE!LoadAnswer(l, ok)
    PROVE  PageTyped' /\ UNCHANGED <<table, commits>>
<1>1. CASE \E p \in TablePages, guarded \in BOOLEAN : TE!ChangePage(p, guarded)
  <2>1. PICK p \in TablePages : page' = p /\ TE!Load(p, FALSE) /\ UNCHANGED <<table, result, commits>>
    BY <1>1 DEF TE!ChangePage
  <2>2. QED
    BY <2>1 DEF PageTyped, TE!Load
<1>2. CASE \E l \in loads, ok \in BOOLEAN : TE!LoadAnswer(l, ok)
  <2>1. PICK l \in loads, ok \in BOOLEAN : TE!LoadAnswer(l, ok)
    BY <1>2
  <2>2. l.page \in TablePages
    BY DEF PageTyped
  <2>3. TE!Fetched(l.page).rows = [r \in TableRows |-> IF r \in l.page THEN table.rows[r] ELSE None]
        /\ TE!Fetched(l.page).page = l.page
    BY DEF TE!Fetched
  <2>4. table.rows \in Contents
    BY DEF TE!View, Contents
  <2>5. /\ TE!Fetched(l.page).rows \in Contents
        /\ \A r \in TableRows \ l.page : TE!Fetched(l.page).rows[r] = None
    BY <2>3, <2>4 DEF Contents
  <2>6. /\ result' \in {result, None, TE!Fetched(l.page)} /\ loads' \subseteq loads
        /\ UNCHANGED <<table, page, reqSeq, latest, commits>>
    BY <2>1 DEF TE!LoadAnswer
  <2>7. QED
    BY <2>3, <2>5, <2>6 DEF PageTyped
<1>3. QED
  BY <1>1, <1>2

\* The end of a call: the page and the edits, and the calls left.
LEMMA EndsKeep ==
    ASSUME TableInv, NEW k \in DOMAIN commits, NEW ok \in BOOLEAN, TE!Ends(k, ok),
           \/ commits[k].view = None /\ table' = table
           \/ commits[k].view # None /\ table' \in TE!View
    PROVE  TableInv'
<1>1. commits' = TE!RemoveAt(commits, k) /\ UNCHANGED <<page, result>>
  BY DEF TE!Ends
<1>2. CommitsKnow'
  BY <1>1, CallEndKeeps DEF TableInv
<1>3. CASE ok
  <2>1. queue' = << >> /\ undoStack' = << >> /\ TE!Load(commits[k].page, TRUE)
    BY <1>3 DEF TE!Ends, TE!Clear
  <2>5. commits[k].page \in TablePages
    <3>1. commits[k] \in Call
      BY DEF TableInv, CommitsKnow
    <3>2. QED
      BY <3>1 DEF Call
  <2>2. EditsTyped'
    BY <2>1 DEF EditsTyped, QueueOk
  <2>3. PageTyped'
    BY <1>1, <2>1, <2>5 DEF TableInv, PageTyped, TE!Load
  <2>4. QED
    BY <1>2, <2>2, <2>3 DEF TableInv
<1>4. CASE ~ok
  <2>1. UNCHANGED <<queue, undoStack, loads, reqSeq, latest>>
    BY <1>4 DEF TE!Ends
  <2>2. QED
    BY <1>1, <1>2, <2>1 DEF TableInv, EditsTyped, PageTyped, QueueOk
<1>5. QED
  BY <1>3, <1>4

LEMMA ClosedIsView ==
    ASSUME NEW seen \in TE!View
    PROVE  /\ [seen EXCEPT !.open = FALSE] \in TE!View
           /\ [seen EXCEPT !.open = FALSE].rows = seen.rows
           /\ [seen EXCEPT !.open = FALSE].added = seen.added
BY DEF TE!View

LEMMA TransactionsKeep ==
    ASSUME TE!EditAssumption, TableInv, NEW k \in DOMAIN commits,
           TE!Begin(k) \/ TE!ExecInTx(k) \/ TE!Fails(k) \/ \E answered \in BOOLEAN : TE!Commit(k, answered)
    PROVE  TableInv'
<1>1. /\ PageTyped /\ EditsTyped /\ CommitsKnow /\ table \in TE!View
      /\ commits[k].view # None => commits[k].view \in TE!View
  <2>1. PageTyped /\ EditsTyped /\ CommitsKnow /\ table \in TE!View /\ commits \in Seq(Call)
    BY DEF TableInv, CommitsKnow
  <2>2. commits[k] \in Call
    BY <2>1
  <2>3. commits[k].view \in TE!View \cup {None}
    BY <2>2 DEF Call
  <2>4. QED
    BY <2>1, <2>3
<1>2. UNCHANGED <<page, result, loads, reqSeq, latest, queue, undoStack>> /\ CommitsKnow' => TableInv'
  BY <1>1 DEF TableInv, PageTyped, EditsTyped, QueueOk
<1>3. CASE TE!Begin(k)
  <2>1. UNCHANGED <<page, result, loads, reqSeq, latest, queue, undoStack>>
    BY <1>3 DEF TE!Begin
  <2>2. QED
    BY <1>1, <1>2, <1>3, <2>1, BeginKeeps
<1>4. CASE TE!ExecInTx(k)
  <2> DEFINE ch == commits[k].stmts[commits[k].done + 1]
             Fine == TE!Expected(ch, TE!Affected(commits[k].view, ch))
  <2>1. CASE Fine
    <3>1. UNCHANGED <<page, result, loads, reqSeq, latest, queue, undoStack>>
      BY <1>4, <2>1 DEF TE!ExecInTx
    <3>2. QED
      BY <1>1, <1>2, <1>4, <2>1, <3>1, ExecGoesOn
  <2>2. CASE ~Fine
    <3>1. table' = [table EXCEPT !.open = FALSE] /\ commits[k].view # None /\ TE!Ends(k, FALSE)
      BY <1>4, <2>2 DEF TE!ExecInTx
    <3>2. table' \in TE!View
      BY <1>1, <3>1, ClosedIsView
    <3>3. QED
      BY <3>1, <3>2, EndsKeep
  <2>3. QED
    BY <2>1, <2>2
<1>5. CASE TE!Fails(k)
  <2>1. TE!Ends(k, FALSE)
        /\ table' = IF commits[k].view = None THEN table ELSE [table EXCEPT !.open = FALSE]
    BY <1>5 DEF TE!Fails
  <2>2. QED
    BY <1>1, <2>1, ClosedIsView, EndsKeep
<1>6. CASE \E answered \in BOOLEAN : TE!Commit(k, answered)
  <2>1. PICK answered \in BOOLEAN : TE!Commit(k, answered)
    BY <1>6
  <2>2. /\ commits[k].view # None /\ table' = [commits[k].view EXCEPT !.open = FALSE]
        /\ TE!Ends(k, answered)
    BY <2>1 DEF TE!Commit
  <2>3. QED
    BY <1>1, <2>2, ClosedIsView, EndsKeep
<1>7. QED
  BY <1>3, <1>4, <1>5, <1>6

LEMMA TableStarts ==
    ASSUME TE!EditAssumption, TE!Init
    PROVE  TableInv
<1>1. PICK row \in TE!Row :
        table = [rows |-> [r \in TableRows |-> row], added |-> << >>, open |-> FALSE]
  BY DEF TE!Init
<1>2. table \in TE!View
  BY <1>1 DEF TE!View
<1>3. /\ page \in TablePages /\ result = None /\ loads = {[seq |-> 1, page |-> page]} /\ reqSeq = 1
      /\ latest = [page |-> page, reload |-> FALSE]
      /\ queue = << >> /\ undoStack = << >> /\ commits = << >>
  BY DEF TE!Init
<1>4. PageTyped
  BY <1>3 DEF PageTyped
<1>5. EditsTyped
  BY <1>3 DEF EditsTyped, QueueOk
<1>6. CommitsKnow
  BY <1>2, <1>3 DEF CommitsKnow
<1>7. QED
  BY <1>4, <1>5, <1>6 DEF TableInv

LEMMA TableGoesOn ==
    ASSUME TE!EditAssumption, TableInv, [TE!Next]_(TE!vars)
    PROVE  TableInv'
<1>1. PageTyped /\ EditsTyped /\ CommitsKnow /\ table \in TE!View
  BY DEF TableInv, CommitsKnow
<1>2. /\ UNCHANGED <<page, result, loads, reqSeq, latest>> => PageTyped'
      /\ UNCHANGED <<queue, undoStack>> => EditsTyped'
      /\ UNCHANGED <<table, commits>> => CommitsKnow'
  BY <1>1, CommitsRest DEF PageTyped, EditsTyped, QueueOk
<1>3. CASE \/ \E r \in TableRows, c \in TableColumns, v \in TableCells : TE!EditCell(r, c, v)
           \/ \E r \in NewRows, c \in TableColumns, v \in TableCells : TE!EditNewCell(r, c, v)
           \/ \E r \in NewRows : TE!AddNewRow(r)
           \/ \E r \in TableRows : TE!DeleteRow(r)
  BY <1>1, <1>2, <1>3, EditsKeep DEF TableInv
<1>4. CASE TE!Undo \/ TE!Revert \/ \E r \in TableRows \cup NewRows : TE!DiscardRow(r)
  BY <1>1, <1>2, <1>4, LessEdits DEF TableInv
<1>5. CASE TE!DoCommit
  <2>1. UNCHANGED <<page, result, loads, reqSeq, latest, queue, undoStack>>
    BY <1>5 DEF TE!DoCommit
  <2>2. QED
    BY <1>2, <1>5, <2>1, ClickKeeps DEF TableInv
<1>6. CASE TE!OpenReview
  BY <1>2, <1>6 DEF TE!OpenReview, TableInv
<1>7. CASE \/ \E p \in TablePages, guarded \in BOOLEAN : TE!ChangePage(p, guarded)
           \/ \E l \in loads, ok \in BOOLEAN : TE!LoadAnswer(l, ok)
  <2>1. PageTyped' /\ CommitsKnow'
    BY <1>1, <1>2, <1>7, PagesTyped
  <2>2. \/ UNCHANGED <<queue, undoStack>>
        \/ queue' = << >> /\ undoStack' = << >>
    BY <1>7 DEF TE!ChangePage, TE!LoadAnswer, TE!Clear
  <2>3. EditsTyped'
    <3>1. CASE queue' = << >> /\ undoStack' = << >>
      BY <3>1 DEF EditsTyped, QueueOk
    <3>2. QED
      BY <1>2, <2>2, <3>1
  <2>4. QED
    BY <2>1, <2>3 DEF TableInv
<1>8. CASE \E r \in TableRows : TE!Outside(r)
  <2>1. PICK r \in TableRows : TE!Outside(r)
    BY <1>8
  <2>2. UNCHANGED <<page, result, loads, reqSeq, latest, queue, undoStack>>
    BY <2>1 DEF TE!Outside
  <2>3. QED
    BY <1>1, <1>2, <2>1, <2>2, OutsideKeeps DEF TableInv
<1>9. CASE \E k \in DOMAIN commits :
             TE!Begin(k) \/ TE!ExecInTx(k) \/ TE!Fails(k)
             \/ \E answered \in BOOLEAN : TE!Commit(k, answered)
  BY <1>9, TransactionsKeep
<1>10. CASE UNCHANGED TE!vars
  BY <1>2, <1>10 DEF TE!vars, TableInv
<1>11. QED
  BY <1>3, <1>4, <1>5, <1>6, <1>7, <1>8, <1>9, <1>10 DEF TE!Next

LEMMA TableSteps ==
    ASSUME TE!EditAssumption, TableInv
    PROVE  TE!CommittedIsShownStep
<1> SUFFICES ASSUME NEW k \in DOMAIN commits, TE!Commit(k, TRUE) \/ TE!Commit(k, FALSE)
             PROVE  LET c == commits[k] IN
                    /\ \A r \in TableRows \ c.both :
                         table.rows[r] = c.loaded[r] /\ table.rows[r] # None =>
                           table'.rows[r] = c.shown[r]
                    /\ Len(table'.added) = Len(table.added)
                         + TE!Cardinality({i \in DOMAIN c.stmts : c.stmts[i].type = "insert"})
  BY DEF TE!CommittedIsShownStep
<1>1. PICK c : c = commits[k]
  OBVIOUS
<1>2. c.view # None /\ c.done = Len(c.stmts) /\ table' = [c.view EXCEPT !.open = FALSE]
  BY <1>1 DEF TE!Commit
<1>3. c \in Call /\ ClickOk(c) /\ ViewOk(c)
  BY <1>1, <1>2 DEF TableInv, CommitsKnow
<1>4. c.view \in TE!View /\ DOMAIN c.stmts = 1..Len(c.stmts)
  BY <1>2, <1>3 DEF Call
<1>5. table'.rows = c.view.rows /\ table'.added = c.view.added
  BY <1>2, <1>4, ClosedIsView
<1>6. ASSUME NEW r \in TableRows \ c.both, table.rows[r] = c.loaded[r], table.rows[r] # None
      PROVE  table'.rows[r] = c.shown[r]
  <2>1. Makes(c.stmts, Len(c.stmts), r, table.rows[r], c.shown[r])
    BY <1>3, <1>6 DEF ClickOk
  <2>2. Makes(c.stmts, Len(c.stmts), r, table.rows[r], c.view.rows[r])
    BY <1>2, <1>3, <1>6 DEF ViewOk
  <2>3. QED
    BY <1>5, <2>1, <2>2, MakesOne
<1>7. \A T : TE!Cardinality(T) = Cardinality(T)
  BY Zenon DEF TE!Cardinality, Cardinality
<1>8. Len(c.view.added) = Len(table.added) + Added(c.stmts, Len(c.stmts))
  BY <1>2, <1>3 DEF ViewOk
<1>9. Added(c.stmts, Len(c.stmts))
        = TE!Cardinality({i \in DOMAIN c.stmts : c.stmts[i].type = "insert"})
  BY <1>4, <1>7 DEF Added
<1>10. QED
  BY <1>1, <1>5, <1>6, <1>8, <1>9

-----------------------------------------------------------------------------
(* The result grid.                                                        *)

LEMMA GridOrders ==
    /\ \A S : RG!Cardinality(S) = Cardinality(S)
    /\ \A ns : RG!InOrder(ns) = InOrder(ns)
    /\ \A ns, prior : RG!Ranked(ns, prior) = Ranked(ns, prior)
    /\ \A s, places : RG!Keeping(s, places) = Keeping(s, places)
    /\ \A f : RG!Range(f) = {f[x] : x \in DOMAIN f}
<1>1. \A S : RG!Cardinality(S) = Cardinality(S)
  BY Zenon DEF RG!Cardinality, Cardinality
<1>2. \A ns : RG!InOrder(ns) = InOrder(ns)
  BY Zenon DEF RG!InOrder, InOrder, RG!Nth, Nth, RG!Cardinality, Cardinality
<1>3. \A ns, prior : RG!Ranked(ns, prior) = Ranked(ns, prior)
  BY Zenon DEF RG!Ranked, Ranked, RG!Cardinality, Cardinality
<1>4. \A s, places : RG!Keeping(s, places) = Keeping(s, places)
  BY <1>2 DEF RG!Keeping, Keeping
<1>5. QED
  BY <1>1, <1>2, <1>3, <1>4 DEF RG!Range

LEMMA GridSums ==
    /\ \A f, S : RG!SumFunctionOnSet(f, S) = SumFunctionOnSet(f, S)
    /\ \A f : RG!SumFunction(f) = SumFunctionOnSet(f, DOMAIN f)
<1>1. \A f, S : RG!SumFunctionOnSet(f, S) = SumFunctionOnSet(f, S)
  BY DEF RG!SumFunctionOnSet, RG!FoldFunctionOnSet, RG!MapThenFoldSet,
         SumFunctionOnSet, FoldFunctionOnSet, MapThenFoldSet
<1>2. QED
  BY <1>1 DEF RG!SumFunction

\* What is selected was clicked in the result on display.
GridInv ==
    /\ result \in RG!Results \cup {None} /\ sel \subseteq picked /\ held.result = result

LEMMA GridStarts == RG!Init => GridInv
BY DEF RG!Init, RG!Clean, GridInv

\* A step that leaves the result, and what was clicked in it.
LEMMA SameResult ==
    ASSUME GridInv, UNCHANGED <<result, picked>>, held' \in {held, RG!view}, sel' \in {sel, {}}
    PROVE  GridInv'
BY DEF GridInv, RG!view

LEMMA GridKeeps == GridInv /\ RG!Next => GridInv'
<1> SUFFICES ASSUME GridInv, RG!Next
             PROVE  GridInv'
  OBVIOUS
<1>1. ASSUME NEW r \in RG!Results \cup {None}, RG!NewResult(r)
      PROVE  GridInv'
  BY <1>1 DEF RG!NewResult, RG!Effect, RG!view, GridInv
<1>2. ASSUME NEW c, RG!OnSort(c) \/ RG!ToggleColumn(c) \/ \E f : RG!SetFilter(c, f)
      PROVE  GridInv'
  BY <1>2, SameResult DEF RG!OnSort, RG!ToggleColumn, RG!SetFilter, RG!Edits, RG!Steady
<1>3. ASSUME NEW i, NEW b, RG!ToggleRow(i, b)
      PROVE  GridInv'
  BY <1>3 DEF RG!ToggleRow, RG!SymDiff, GridInv
<1>4. ASSUME NEW i, NEW c, RG!OpenMenu(i, c)
      PROVE  GridInv'
  BY <1>4, SameResult DEF RG!OpenMenu, RG!viewVars
<1>5. CASE RG!ClearFilters \/ RG!ShowAllColumns \/ RG!HideAllColumns \/ RG!ClearSelection
  BY <1>5, SameResult DEF RG!ClearFilters, RG!ShowAllColumns, RG!HideAllColumns,
     RG!ClearSelection, RG!Edits, RG!Steady
<1>6. CASE RG!Scroll
  BY <1>6, SameResult DEF RG!Scroll, RG!viewVars
<1>7. CASE RG!MenuToggleColumn \/ RG!MenuFilter \/ \E d : RG!MenuSort(d)
  BY <1>7, SameResult DEF RG!MenuToggleColumn, RG!MenuFilter, RG!MenuSort, RG!FromMenu
<1>8. CASE RG!ToggleInspector \/ \E m : RG!SetMode(m) \/ RG!PaletteMode(m)
  BY <1>8, SameResult DEF RG!ToggleInspector, RG!SetMode, RG!PaletteMode, RG!ChangesView,
     RG!viewVars
<1>9. CASE RG!SetChart \/ RG!Type
  BY <1>9, SameResult DEF RG!SetChart, RG!Type, RG!viewVars
<1>10. QED
  BY <1>1, <1>2, <1>3, <1>4, <1>5, <1>6, <1>7, <1>8, <1>9 DEF RG!Next

\* The numbers of the rows.
LEMMA RowsAre ==
    ASSUME RG!GridAssumption, NEW r \in RG!Results \cup {None}
    PROVE  /\ \E m \in Nat : RG!RowsOf(r) = 1..m
           /\ IsFiniteSet(RG!RowsOf(r)) /\ Cardinality(RG!RowsOf(r)) \in Nat
           /\ RG!RowsOf(r) = 1..Cardinality(RG!RowsOf(r))
           /\ \A i \in RG!RowsOf(r), c \in RG!ColumnsOf(r) : RG!Cell(r, i, c) \in RG!Texts \cup {None}
<1>1. CASE r = None
  <2>1. RG!RowsOf(r) = 1..0 /\ RG!ColumnsOf(r) = {}
    BY <1>1 DEF RG!RowsOf, RG!ColumnsOf
  <2>2. IsFiniteSet(1..0) /\ Cardinality(1..0) = 0
    BY FS_Interval
  <2>3. QED
    BY <2>1, <2>2
<1>2. CASE r # None
  <2> DEFINE rows == Data[r].rows
             m == Len(rows)
  <2>1. rows \in Seq([1..Data[r].width -> RG!Texts \cup {None}])
    BY <1>2 DEF RG!GridAssumption
  <2>2. m \in Nat /\ DOMAIN rows = 1..m
        /\ \A i \in 1..m : rows[i] \in [1..Data[r].width -> RG!Texts \cup {None}]
    BY <2>1
  <2>3. RG!RowsOf(r) = DOMAIN rows /\ RG!ColumnsOf(r) = 1..Data[r].width
    BY <1>2 DEF RG!RowsOf, RG!ColumnsOf
  <2>4. \A i \in RG!RowsOf(r), c \in RG!ColumnsOf(r) : RG!Cell(r, i, c) = rows[i][c]
    BY DEF RG!Cell
  <2> HIDE DEF m, rows
  <2>5. IsFiniteSet(1..m) /\ Cardinality(1..m) = m
    <3>1. 1 \in Int /\ m \in Int /\ (IF 1 > m THEN 0 ELSE m - 1 + 1) = m
      BY <2>2
    <3>2. QED
      BY <3>1, FS_Interval
  <2>6. RG!RowsOf(r) = 1..m
    BY <2>2, <2>3
  <2>7. \A i \in RG!RowsOf(r), c \in RG!ColumnsOf(r) : RG!Cell(r, i, c) \in RG!Texts \cup {None}
    <3> SUFFICES ASSUME NEW i \in RG!RowsOf(r), NEW c \in RG!ColumnsOf(r)
                 PROVE  rows[i][c] \in RG!Texts \cup {None}
      BY <2>4
    <3>1. rows[i] \in [1..Data[r].width -> RG!Texts \cup {None}] /\ c \in 1..Data[r].width
      BY <2>2, <2>3
    <3>2. QED
      BY <3>1
  <2>8. QED
    BY <2>2, <2>5, <2>6, <2>7
<1>3. QED
  BY <1>1, <1>2

\* The entries of an array at some places.
EntriesAt(s, places) == {s[n] : n \in places}

\* What filter() leaves of an array has the entries at the places kept.
LEMMA KeepingHas ==
    ASSUME NEW m \in Nat, NEW s, DOMAIN s = 1..m, NEW places \in SUBSET (1..m)
    PROVE  EntriesAt(Keeping(s, places), DOMAIN Keeping(s, places)) = EntriesAt(s, places)
<1> DEFINE at == InOrder(places)
           c == Cardinality(places)
<1>1. /\ at \in [1..c -> places]
      /\ \A n \in places : \E k \in 1..c : at[k] = n
  BY InOrderIs
<1>2. Keeping(s, places) = [k \in DOMAIN at |-> s[at[k]]]
  BY DEF Keeping
<1> HIDE DEF at, c
<1>3. Keeping(s, places) = [k \in 1..c |-> s[at[k]]]
  BY <1>1, <1>2
<1>4. DOMAIN Keeping(s, places) = 1..c /\ \A k \in 1..c : Keeping(s, places)[k] = s[at[k]]
  BY <1>3
<1>5. \A x : (\E k \in 1..c : x = s[at[k]]) <=> \E n \in places : x = s[n]
  BY <1>1
<1>6. QED
  BY <1>4, <1>5 DEF EntriesAt

\* Of the rows on display those selected are exported.
LEMMA ExportedAre ==
    ASSUME RG!GridAssumption, NEW v, v.result \in RG!Results \cup {None}, v.sel # {}
    PROVE  RG!Range(RG!Exported(v)) = v.sel \cap RG!Range(RG!Displayed(v))
<1> DEFINE d == RG!Displayed(v)
           places == {n \in DOMAIN d : v.sel = {} \/ d[n] \in v.sel}
<1>1. PICK m \in Nat : DOMAIN d = 1..m
  <2>1. \E ns \in SUBSET RG!RowsOf(v.result) : \E prior : d = Ranked(ns, prior)
    BY GridOrders DEF RG!Displayed
  <2>2. PICK ns \in SUBSET RG!RowsOf(v.result) : \E prior : d = Ranked(ns, prior)
    BY <2>1
  <2>3. IsFiniteSet(ns)
    BY RowsAre, FS_Subset
  <2>4. Cardinality(ns) \in Nat
    BY <2>3, FS_CardinalityType
  <2>5. DOMAIN d = 1..Cardinality(ns)
    BY <2>2 DEF Ranked
  <2>6. QED
    BY <2>4, <2>5
<1>2. RG!Exported(v) = Keeping(d, places)
  BY GridOrders DEF RG!Exported
<1> HIDE DEF d
<1>3. places \in SUBSET (1..m)
  BY <1>1
<1>4. RG!Range(RG!Exported(v)) = {d[n] : n \in places}
  <2> HIDE DEF places
  <2>1. EntriesAt(Keeping(d, places), DOMAIN Keeping(d, places)) = EntriesAt(d, places)
    BY <1>1, <1>3, KeepingHas
  <2>2. \A f : RG!Range(f) = EntriesAt(f, DOMAIN f)
    BY GridOrders DEF EntriesAt
  <2>3. QED
    BY <1>2, <2>1, <2>2 DEF EntriesAt
<1>5. RG!Range(d) = {d[n] : n \in DOMAIN d}
  BY GridOrders
<1>6. QED
  BY <1>4, <1>5 DEF d

\* What is exported, copied or inspected was chosen on the result on display.
LEMMA PickedIsExported == RG!GridAssumption /\ GridInv => RG!ExportIsPicked
<1> SUFFICES ASSUME RG!GridAssumption, GridInv
             PROVE  RG!ExportIsPicked
  OBVIOUS
<1>1. RG!view.result = result /\ RG!view.sel = sel
  BY DEF RG!view
<1>2. sel # {} => RG!Range(RG!Exported(RG!view)) = sel \cap RG!Range(RG!Displayed(RG!view))
  BY <1>1, ExportedAre DEF GridInv
<1>3. RG!Copied \subseteq sel /\ RG!Inspected \subseteq sel
  BY DEF RG!Copied, RG!Inspected
<1>4. QED
  BY <1>2, <1>3 DEF RG!ExportIsPicked, GridInv

\* The bars: the number at each row, and what a label stands for.
Bars == [i \in RG!RowsOf(result) |-> RG!Number(result, i, RG!ChartY)]
CellsAt(c) == [i \in RG!RowsOf(result) |-> RG!Cell(result, i, c)]
WithLabel(n) == {i \in RG!RowsOf(result) : RG!Cell(result, i, chart.x) = RG!Labels[n]}

LEMMA BarsAre ==
    ASSUME RG!GridAssumption, GridInv
    PROVE  /\ IsFiniteSet(RG!RowsOf(result)) /\ \A i \in RG!RowsOf(result) : Bars[i] \in Nat
           /\ \A S : RG!AddUp(S) = SumFunctionOnSet(Bars, S)
<1>1. \A i \in RG!RowsOf(result) : RG!Number(result, i, RG!ChartY) \in Nat
  <2> SUFFICES ASSUME NEW i \in RG!RowsOf(result)
               PROVE  RG!Number(result, i, RG!ChartY) \in Nat
    OBVIOUS
  <2> DEFINE x == RG!Cell(result, i, RG!ChartY)
  <2>1. x \in RG!Texts \cup {None}
    <3>1. RG!ChartY \in RG!ColumnsOf(result) => x \in RG!Texts \cup {None}
      BY RowsAre DEF GridInv
    <3>2. RG!ChartY \notin RG!ColumnsOf(result) => x = None
      BY DEF RG!Cell
    <3>3. QED
      BY <3>1, <3>2
  <2>2. \A t \in RG!Texts : Rank[t] \in Nat
    BY DEF RG!GridAssumption, RG!Texts
  <2>3. RG!Number(result, i, RG!ChartY) = IF x = None THEN 0 ELSE Rank[x]
    BY DEF RG!Number
  <2> HIDE DEF x
  <2>4. QED
    BY <2>1, <2>2, <2>3
<1>2. QED
  BY <1>1, RowsAre, GridSums DEF GridInv, Bars, RG!AddUp

LEMMA GroupsAddUp ==
    ASSUME RG!GridAssumption, GridInv, RG!Grouped, NEW n \in DOMAIN RG!Labels
    PROVE  RG!SumFunction([g \in DOMAIN RG!Series |-> RG!Series[g][n]]) = RG!AddUp(WithLabel(n))
<1> DEFINE rows == RG!RowsOf(result)
           S == WithLabel(n)
           p == CellsAt(chart.group)
           T == {p[i] : i \in rows}
           f == [g \in DOMAIN RG!Series |-> RG!Series[g][n]]
<1>1. IsFiniteSet(rows) /\ \A i \in rows : Bars[i] \in Nat
  BY BarsAre
<1>2. S \in SUBSET rows
  BY DEF WithLabel
<1>3. IsFiniteSet(S)
  BY <1>1, <1>2, FS_Subset
<1>4. IsFiniteSet(T)
  <2>1. p \in Surjection(rows, T)
    BY DEF CellsAt, Surjection
  <2> HIDE DEF p, T, rows
  <2>2. QED
    BY <1>1, <2>1, FS_Surjection
<1>5. DOMAIN f = T /\ \A t \in T : f[t] = RG!AddUp(At(S, p, t))
  <2>1. T = {RG!Cell(result, i, chart.group) : i \in RG!RowsOf(result)}
    BY DEF CellsAt
  <2>2. DOMAIN RG!Series = T
    BY <2>1 DEF RG!Series
  <2>3. ASSUME NEW t \in T
        PROVE  RG!Series[t][n] = RG!AddUp(At(S, p, t))
    <3>1. RG!Series[t] = [k \in DOMAIN RG!Labels |->
                            RG!AddUp({i \in RG!RowsOf(result) :
                                        /\ RG!Cell(result, i, chart.group) = t
                                        /\ RG!Cell(result, i, chart.x) = RG!Labels[k]})]
      BY <2>1 DEF RG!Series
    <3>2. At(S, p, t) = {i \in RG!RowsOf(result) : /\ RG!Cell(result, i, chart.group) = t
                                                   /\ RG!Cell(result, i, chart.x) = RG!Labels[n]}
      BY DEF At, WithLabel, CellsAt
    <3>3. QED
      BY <3>1, <3>2
  <2>4. QED
    BY <2>2, <2>3
<1>6. \A i \in S : p[i] \in T /\ Bars[i] \in Nat
  BY <1>1, <1>2
<1>7. \A U : RG!AddUp(U) = SumFunctionOnSet(Bars, U)
  BY BarsAre
<1> HIDE DEF rows, S, p, T, f
<1>8. \A t \in T : f[t] = SumFunctionOnSet(Bars, At(S, p, t))
  BY <1>5, <1>7
<1>9. SumFunctionOnSet(f, T) = SumFunctionOnSet(Bars, S)
  BY <1>3, <1>4, <1>6, <1>8, SumOfParts
<1>10. RG!SumFunction(f) = SumFunctionOnSet(f, T)
  BY <1>5, GridSums
<1>11. RG!SumFunction(f) = RG!AddUp(S)
  BY <1>7, <1>9, <1>10
<1>12. QED
  BY <1>11 DEF f, S

\* Without a repetition every row has a label of its own.
LEMMA LabelsAreRows ==
    ASSUME RG!GridAssumption, GridInv, Len(RG!Labels) = Cardinality(RG!RowsOf(result)),
           NEW n \in DOMAIN RG!Labels
    PROVE  n \in RG!RowsOf(result) /\ WithLabel(n) = {n}
<1> DEFINE rows == RG!RowsOf(result)
           c == Cardinality(rows)
           seen == CellsAt(chart.x)
           T == {seen[i] : i \in rows}
<1>1. rows = 1..c /\ c \in Nat /\ IsFiniteSet(rows)
  BY RowsAre DEF GridInv
<1>2. seen \in Surjection(rows, T)
  BY DEF CellsAt, Surjection
<1>3. IsFiniteSet(T) /\ Cardinality(T) \in Nat
      /\ (Cardinality(T) = c => seen \in Injection(rows, T))
  <2> HIDE DEF seen, T, rows
  <2>1. QED
    BY <1>1, <1>2, FS_Surjection, FS_CardinalityType
<1>4. /\ RG!Range(seen) = T /\ RG!Cardinality(T) = Cardinality(T)
  BY GridOrders DEF CellsAt
<1>5. RG!Labels = [k \in 1..Cardinality(T) |->
                     seen[CHOOSE i \in DOMAIN seen :
                            /\ \A j \in 1..i - 1 : seen[j] # seen[i]
                            /\ RG!Cardinality({seen[j] : j \in 1..i}) = k]]
  BY <1>4 DEF RG!Labels, CellsAt
<1>6. Len(RG!Labels) = Cardinality(T) /\ DOMAIN RG!Labels = 1..Cardinality(T)
  <2> DEFINE L == RG!Labels
             e(k) == L[k]
  <2>1. DOMAIN L = 1..Cardinality(T) /\ L \in [1..Cardinality(T) -> {e(k) : k \in 1..Cardinality(T)}]
    BY <1>5
  <2> HIDE DEF L, e, T
  <2>2. QED
    BY <1>3, <2>1, EntriesMakeSeq DEF L
<1>7. seen \in Injection(rows, T) /\ n \in 1..c
  BY <1>3, <1>6
<1>8. \A i, j \in rows : seen[i] = seen[j] => i = j
  BY <1>7 DEF Injection, IsInjective
<1>9. \A i \in rows : RG!Cardinality({seen[j] : j \in 1..i}) = i
  <2> SUFFICES ASSUME NEW i \in rows
               PROVE  RG!Cardinality({seen[j] : j \in 1..i}) = i
    OBVIOUS
  <2> DEFINE U == {seen[j] : j \in 1..i}
             g == [j \in 1..i |-> seen[j]]
  <2>1. \A j \in 1..i : j \in rows
    BY <1>1
  <2>2. g \in Surjection(1..i, U) /\ g \in Injection(1..i, U)
    BY <1>8, <2>1 DEF Surjection, Injection, IsInjective
  <2>3. IsFiniteSet(1..i) /\ Cardinality(1..i) = i
    <3>1. 1 \in Int /\ i \in Int /\ (IF 1 > i THEN 0 ELSE i - 1 + 1) = i
      BY <1>1
    <3>2. QED
      BY <3>1, FS_Interval
  <2> HIDE DEF g, U
  <2>4. Cardinality(U) = i
    BY <2>2, <2>3, FS_Surjection
  <2>5. RG!Cardinality(U) = i
    BY <2>4, GridOrders
  <2>6. QED
    BY <2>5 DEF U
<1>10. RG!Labels[n] = seen[n] /\ n \in rows
  <2>1. DOMAIN seen = rows
    BY DEF CellsAt
  <2>2. \A i \in rows, k \in 1..c :
          (\A j \in 1..i - 1 : seen[j] # seen[i]) /\ RG!Cardinality({seen[j] : j \in 1..i}) = k
            <=> i = k
    <3>1. \A i \in rows : \A j \in 1..i - 1 : seen[j] # seen[i]
      BY <1>1, <1>8
    <3>2. QED
      BY <1>9, <3>1
  <2>3. n \in rows
    BY <1>1, <1>7
  <2> DEFINE Is(i) == /\ \A j \in 1..i - 1 : seen[j] # seen[i]
                      /\ RG!Cardinality({seen[j] : j \in 1..i}) = n
  <2>4. \A i \in rows : Is(i) <=> i = n
    BY <1>7, <2>2
  <2>5. RG!Labels[n] = seen[CHOOSE i \in rows : Is(i)]
    BY <1>5, <1>6, <2>1
  <2> HIDE DEF Is, seen, rows
  <2>6. (CHOOSE i \in rows : Is(i)) = n
    BY <2>3, <2>4
  <2>7. QED
    BY <2>3, <2>5, <2>6
<1>11. \A i \in rows : seen[i] = RG!Cell(result, i, chart.x)
  BY DEF CellsAt
<1> HIDE DEF seen
<1>12. QED
  BY <1>8, <1>10, <1>11 DEF WithLabel

LEMMA SinglesAddUp ==
    ASSUME RG!GridAssumption, GridInv, ~RG!Grouped, NEW n \in RG!RowsOf(result)
    PROVE  RG!SumFunction([g \in DOMAIN RG!Series |-> RG!Series[g][n]]) = RG!AddUp({n})
<1> DEFINE f == [g \in DOMAIN RG!Series |-> RG!Series[g][n]]
<1>1. DOMAIN f = {""} /\ f[""] = Bars[n] /\ Bars[n] \in Nat
  BY BarsAre DEF RG!Series, Bars
<1>2. IsFiniteSet({""}) /\ IsFiniteSet({n}) /\ IsFiniteSet({})
  BY FS_Singleton, FS_EmptySet
<1>3. {""} \ {""} = {} /\ {n} \ {n} = {}
  OBVIOUS
<1> HIDE DEF f
<1>4. SumFunctionOnSet(f, {""}) = f[""]
  <2>1. SumFunctionOnSet(f, {}) = 0
    BY <1>2, SumIs
  <2>2. SumFunctionOnSet(f, {""}) = f[""] + SumFunctionOnSet(f, {""} \ {""})
    BY <1>1, <1>2, SumIs
  <2>3. SumFunctionOnSet(f, {""} \ {""}) = 0
    BY <1>3, <2>1
  <2>4. \A k \in Nat : k + 0 = k
    OBVIOUS
  <2>5. QED
    BY <1>1, <2>2, <2>3, <2>4
<1>5. SumFunctionOnSet(Bars, {n}) = Bars[n]
  <2>1. SumFunctionOnSet(Bars, {}) = 0
    BY <1>2, SumIs
  <2>2. SumFunctionOnSet(Bars, {n}) = Bars[n] + SumFunctionOnSet(Bars, {n} \ {n})
    BY <1>1, <1>2, SumIs
  <2>3. SumFunctionOnSet(Bars, {n} \ {n}) = 0
    BY <1>3, <2>1
  <2>4. \A k \in Nat : k + 0 = k
    OBVIOUS
  <2>5. QED
    BY <1>1, <2>2, <2>3, <2>4
<1>6. RG!SumFunction(f) = SumFunctionOnSet(f, {""}) /\ RG!AddUp({n}) = SumFunctionOnSet(Bars, {n})
  BY <1>1, GridSums, BarsAre
<1>7. QED
  BY <1>1, <1>4, <1>5, <1>6 DEF f

\* The bars of a chart add up to the rows that have their labels.
LEMMA BarsAddUp == RG!GridAssumption /\ GridInv => RG!ChartAddsUp
<1> SUFFICES ASSUME RG!GridAssumption, GridInv,
                    RG!Grouped \/ Len(RG!Labels) = Cardinality(RG!RowsOf(result)),
                    NEW n \in DOMAIN RG!Labels
             PROVE  RG!SumFunction([g \in DOMAIN RG!Series |-> RG!Series[g][n]])
                      = RG!AddUp({i \in RG!RowsOf(result) :
                                    RG!Cell(result, i, chart.x) = RG!Labels[n]})
  BY GridOrders DEF RG!ChartAddsUp
<1>1. QED
  BY GroupsAddUp, LabelsAreRows, SinglesAddUp DEF WithLabel

-----------------------------------------------------------------------------
(* The query log.                                                          *)

LEMMA LogOrders ==
    /\ \A S : QL!Cardinality(S) = Cardinality(S)
    /\ \A ns : QL!InOrder(ns) = InOrder(ns)
    /\ \A ns, prior : QL!Ranked(ns, prior) = Ranked(ns, prior)
    /\ \A s, places : QL!Keeping(s, places) = Keeping(s, places)
    /\ \A f : QL!Range(f) = {f[x] : x \in DOMAIN f}
<1>1. \A S : QL!Cardinality(S) = Cardinality(S)
  BY Zenon DEF QL!Cardinality, Cardinality
<1>2. \A ns : QL!InOrder(ns) = InOrder(ns)
  BY Zenon DEF QL!InOrder, InOrder, QL!Nth, Nth, QL!Cardinality, Cardinality
<1>3. \A ns, prior : QL!Ranked(ns, prior) = Ranked(ns, prior)
  BY Zenon DEF QL!Ranked, Ranked, QL!Cardinality, Cardinality
<1>4. \A s, places : QL!Keeping(s, places) = Keeping(s, places)
  BY <1>2 DEF QL!Keeping, Keeping
<1>5. QED
  BY <1>1, <1>2, <1>3, <1>4 DEF QL!Range

LEMMA LogSums ==
    \A f : QL!SumFunction(f) = SumFunctionOnSet(f, DOMAIN f)
BY DEF QL!SumFunction, QL!SumFunctionOnSet, QL!FoldFunctionOnSet, QL!MapThenFoldSet,
       SumFunctionOnSet, FoldFunctionOnSet, MapThenFoldSet

\* Newest first.
Falling(s) == \A i, j \in DOMAIN s : i < j => s[j].ts < s[i].ts

\* Every entry stands for a query that was run, the newest first, and each
\* query that is forgotten is older than those kept of its statement.
LogInv ==
    /\ log \in Seq(QL!Entry) /\ Falling(log) /\ runs \in Nat /\ desc \in BOOLEAN
    /\ \A i \in DOMAIN log : log[i] \in ran
    /\ \A e \in ran : e \in QL!Entry /\ e.ts <= runs
    /\ QL!KeepsNewest

LEMMA LogStarts == QL!Init => LogInv
<1>1. << >> \in Seq(QL!Entry) /\ DOMAIN << >> = {}
  OBVIOUS
<1>2. QED
  BY <1>1, LogOrders DEF QL!Init, LogInv, Falling, QL!KeepsNewest

\* One entry before an array.
LEMMA WithFirst ==
    ASSUME NEW S, NEW s \in Seq(S), NEW e \in S, NEW t, t = <<e>> \o s
    PROVE  /\ t \in Seq(S) /\ Len(t) = Len(s) + 1 /\ t[1] = e
           /\ \A i \in DOMAIN s : t[i + 1] = s[i]
           /\ \A i \in DOMAIN t : i = 1 \/ (i - 1 \in DOMAIN s /\ t[i] = s[i - 1])
OBVIOUS

\* The places that Capped keeps, and the entries before one of its hash.
Same(s, i) == {j \in 1..i - 1 : QL!HashOf(s[j]) = QL!HashOf(s[i])}
Fits(s) == {i \in DOMAIN s : Cardinality(Same(s, i)) < MaxPerHash}

LEMMA CappedIs == \A s : QL!Capped(s) = Keeping(s, Fits(s))
BY LogOrders DEF QL!Capped, Fits, Same

\* Entries of an array, at places in its order: the first is one of them, and
\* one that is not has all of its hash before it.
KeptAt(t, s, at) ==
    /\ at \in [DOMAIN t -> DOMAIN s]
    /\ \A k \in DOMAIN t : t[k] = s[at[k]]
    /\ \A k, l \in DOMAIN t : k < l => at[k] < at[l]
    /\ \E k \in DOMAIN t : at[k] = 1
    /\ \A i \in DOMAIN s : (\A k \in DOMAIN t : at[k] # i) =>
         \A k \in DOMAIN t : QL!HashOf(s[at[k]]) = QL!HashOf(s[i]) => at[k] < i

LEMMA KeptOf ==
    ASSUME NEW s \in Seq(QL!Entry), Len(s) > 0, MaxPerHash \in Nat \ {0}, MaxTotal \in Nat \ {0},
           NEW t, t = QL!FirstOf(QL!Capped(s), MaxTotal)
    PROVE  /\ t \in Seq(QL!Entry)
           /\ \E at : KeptAt(t, s, at)
<1> DEFINE places == Fits(s)
           c == Cardinality(places)
           u == Keeping(s, places)
           in == InOrder(places)
<1>1. places \in SUBSET (DOMAIN s)
  BY DEF Fits
<1>2. /\ u \in Seq(QL!Entry) /\ c \in Nat /\ Len(u) = c
      /\ \A k \in 1..c : in[k] \in places /\ u[k] = s[in[k]]
      /\ \A n \in places : \E k \in 1..c : in[k] = n
      /\ \A k, l \in 1..c : k < l => in[k] < in[l]
  BY <1>1, KeepingIs
<1>3. t = SubSeq(u, 1, IF Len(u) < MaxTotal THEN Len(u) ELSE MaxTotal)
  BY CappedIs DEF QL!FirstOf
<1>4. DOMAIN s = 1..Len(s) /\ Len(s) \in Nat /\ 1 \in DOMAIN s
  OBVIOUS
<1>5. \A i \in DOMAIN s : IsFiniteSet(Same(s, i)) /\ Cardinality(Same(s, i)) \in Nat
  <2>1. \A i \in DOMAIN s : IsFiniteSet(1..i - 1) /\ Same(s, i) \in SUBSET (1..i - 1)
    <3> SUFFICES ASSUME NEW i \in DOMAIN s
                 PROVE  IsFiniteSet(1..i - 1) /\ Same(s, i) \in SUBSET (1..i - 1)
      OBVIOUS
    <3>1. 1 \in Int /\ i - 1 \in Int
      BY <1>4
    <3>2. IsFiniteSet(1..i - 1)
      BY <3>1, FS_Interval
    <3>3. QED
      BY <3>2 DEF Same
  <2>2. QED
    BY <2>1, FS_Subset, FS_CardinalityType
<1>6. 1 \in places
  <2>1. Same(s, 1) = {}
    BY DEF Same
  <2>2. QED
    <3>1. Cardinality({}) = 0
      BY FS_EmptySet
    <3>2. 0 < MaxPerHash
      OBVIOUS
    <3>3. Cardinality(Same(s, 1)) < MaxPerHash
      BY <2>1, <3>1, <3>2
    <3>4. QED
      BY <1>4, <3>3 DEF Fits
<1>7. \A i \in DOMAIN s, j \in places :
        i \notin places /\ QL!HashOf(s[j]) = QL!HashOf(s[i]) => j < i
  <2> SUFFICES ASSUME NEW i \in DOMAIN s, NEW j \in places, i \notin places,
                      QL!HashOf(s[j]) = QL!HashOf(s[i]), i < j
               PROVE  FALSE
    BY <1>1, <1>4
  <2>1. j \in DOMAIN s /\ i \in Nat /\ j \in Nat
    BY <1>1, <1>4
  <2>2. Same(s, i) \in SUBSET Same(s, j)
    BY <2>1 DEF Same
  <2>3. Cardinality(Same(s, i)) <= Cardinality(Same(s, j))
    BY <1>5, <2>1, <2>2, FS_Subset
  <2>4. Cardinality(Same(s, j)) < MaxPerHash /\ ~(Cardinality(Same(s, i)) < MaxPerHash)
    BY DEF Fits
  <2>5. QED
    BY <1>5, <2>1, <2>3, <2>4
<1> HIDE DEF places, c, u, in
<1>8. PICK n \in Nat : /\ t \in Seq(QL!Entry) /\ DOMAIN t = 1..n
                       /\ n <= c /\ (n = c \/ n = MaxTotal)
                       /\ \A k \in 1..n : t[k] = u[k]
  <2>1. /\ t \in Seq(QL!Entry) /\ Len(t) <= c /\ (Len(t) = c \/ Len(t) = MaxTotal)
        /\ \A k \in 1..Len(t) : t[k] = u[k]
    BY <1>2, <1>3, Front
  <2>2. Len(t) \in Nat /\ DOMAIN t = 1..Len(t)
    BY <2>1
  <2>3. QED
    BY <2>1, <2>2
<1>9. c > 0
  BY <1>2, <1>6
<1>10. 1 \in DOMAIN t
  <2>1. n > 0 /\ DOMAIN t = 1..n
    BY <1>8, <1>9
  <2>2. QED
    BY <2>1
<1>11. in[1] = 1
  <2>1. PICK k \in 1..c : in[k] = 1
    BY <1>2, <1>6
  <2>2. 1 \in 1..c /\ in[1] \in places /\ k \in Nat
    BY <1>2, <1>9
  <2>3. in[1] \in Nat /\ in[1] >= 1
    BY <1>1, <1>4, <2>2
  <2>4. k > 1 => in[1] < in[k]
    BY <1>2, <2>2
  <2>5. QED
    BY <2>1, <2>2, <2>3, <2>4
<1> DEFINE at == [k \in DOMAIN t |-> in[k]]
<1>12. \A k \in DOMAIN t : k \in 1..c /\ at[k] = in[k] /\ in[k] \in places /\ in[k] \in DOMAIN s
  <2>1. \A k \in 1..n : k \in 1..c
    BY <1>2, <1>8
  <2>2. \A k \in 1..c : in[k] \in places /\ in[k] \in DOMAIN s
    BY <1>1, <1>2
  <2>3. QED
    BY <1>8, <2>1, <2>2
<1>13. at \in [DOMAIN t -> DOMAIN s] /\ at[1] = 1
  BY <1>10, <1>11, <1>12
<1>14. \A k \in DOMAIN t : t[k] = s[at[k]]
  BY <1>2, <1>8, <1>12
<1>15. \A k, l \in DOMAIN t : k < l => at[k] < at[l]
  BY <1>2, <1>12
<1>16. ASSUME NEW i \in DOMAIN s, \A k \in DOMAIN t : at[k] # i, NEW k \in DOMAIN t,
              QL!HashOf(s[at[k]]) = QL!HashOf(s[i])
       PROVE  at[k] < i
  <2>1. CASE i \notin places
    BY <1>7, <1>12, <1>16, <2>1
  <2>2. CASE i \in places
    <3>1. PICK l \in 1..c : in[l] = i
      BY <1>2, <2>2
    <3>2. l \notin DOMAIN t
      BY <1>12, <1>16, <3>1
    <3>3. k < l
      <4>1. k \in 1..n /\ l \notin 1..n /\ l \in 1..c
        BY <1>8, <3>2
      <4>2. QED
        BY <1>2, <4>1
    <3>4. QED
      BY <1>2, <1>12, <3>1, <3>3
  <2>3. QED
    BY <2>1, <2>2
<1> HIDE DEF at
<1>17. QED
  BY <1>8, <1>10, <1>13, <1>14, <1>15, <1>16 DEF KeptAt

LEMMA LogGrows ==
    ASSUME QL!LogAssumption, LogInv,
           NEW x \in LogTexts, NEW c \in Conns, NEW d \in Durations, QL!Run(x, c, d)
    PROVE  LogInv'
<1> DEFINE e == [text |-> x, conn |-> c, ms |-> d, ts |-> runs']
           s == <<e>> \o log
<1>1. /\ runs' = runs + 1 /\ log' = QL!Added(e) /\ ran' = ran \union {e} /\ desc' = desc
      /\ runs \in Nat
  BY DEF QL!Run, LogInv
<1>2. e \in QL!Entry /\ e.ts = runs' /\ runs' \in Nat
  BY <1>1 DEF QL!Entry
<1>3. log' = QL!FirstOf(QL!Capped(s), MaxTotal)
  BY <1>1 DEF QL!Added
<1> HIDE DEF e
<1>4. /\ s \in Seq(QL!Entry) /\ Len(s) = Len(log) + 1 /\ s[1] = e
      /\ \A i \in DOMAIN log : s[i + 1] = log[i]
      /\ \A i \in DOMAIN s : i = 1 \/ (i - 1 \in DOMAIN log /\ s[i] = log[i - 1])
  <2>1. log \in Seq(QL!Entry)
    BY DEF LogInv
  <2>2. QED
    BY <1>2, <2>1, WithFirst
<1> HIDE DEF s
<1>5. DOMAIN log = 1..Len(log) /\ Len(log) \in Nat /\ DOMAIN s = 1..Len(log) + 1
  BY <1>4 DEF LogInv
<1>6. \A y \in ran : y \in QL!Entry /\ y.ts \in Nat /\ y.ts < e.ts
  BY <1>1, <1>2 DEF LogInv, QL!Entry
<1>7. Falling(s)
  <2> SUFFICES ASSUME NEW i \in DOMAIN s, NEW j \in DOMAIN s, i < j
               PROVE  s[j].ts < s[i].ts
    BY DEF Falling
  <2>1. i \in Nat /\ j \in Nat /\ j # 1 /\ j - 1 \in DOMAIN log /\ s[j] = log[j - 1]
        /\ i >= 1
    BY <1>4, <1>5
  <2>2. CASE i = 1
    BY <1>4, <1>6, <2>1, <2>2 DEF LogInv
  <2>3. CASE i # 1
    <3>1. i - 1 \in DOMAIN log /\ s[i] = log[i - 1] /\ i - 1 < j - 1
      BY <1>4, <2>1, <2>3
    <3>2. QED
      BY <2>1, <3>1 DEF LogInv, Falling
  <2>4. QED
    BY <2>2, <2>3
<1>8. \A i \in DOMAIN s : s[i] \in ran'
  BY <1>1, <1>4 DEF LogInv
<1> DEFINE t == log'
<1>9. t \in Seq(QL!Entry) /\ \E at : KeptAt(t, s, at)
  <2>1. Len(s) > 0 /\ MaxPerHash \in Nat \ {0} /\ MaxTotal \in Nat \ {0}
    BY <1>4, <1>5 DEF QL!LogAssumption
  <2>2. t = QL!FirstOf(QL!Capped(s), MaxTotal)
    BY <1>3
  <2> HIDE DEF t
  <2>3. QED
    BY <1>4, <2>1, <2>2, KeptOf
<1>16. PICK at : KeptAt(t, s, at)
  BY <1>9
<1>17. \A k \in DOMAIN log' : at[k] \in DOMAIN s /\ log'[k] = s[at[k]]
  BY <1>16 DEF KeptAt
<1>18. \A k, l \in DOMAIN log' : k < l => at[k] < at[l]
  BY <1>16 DEF KeptAt
<1>19. \E k \in DOMAIN log' : at[k] = 1
  BY <1>16 DEF KeptAt
<1>20. \A i \in DOMAIN s : (\A k \in DOMAIN log' : at[k] # i) =>
         \A k \in DOMAIN log' : QL!HashOf(s[at[k]]) = QL!HashOf(s[i]) => at[k] < i
  BY <1>16 DEF KeptAt
<1>10. Falling(log')
  BY <1>7, <1>17, <1>18 DEF Falling
<1>11. \A i \in DOMAIN log' : log'[i] \in ran'
  BY <1>8, <1>17
<1>12. \A y \in ran' : y \in QL!Entry /\ y.ts <= runs'
  <2>1. \A y \in ran : y \in QL!Entry /\ y.ts <= runs'
    <3>1. \A y \in ran : y \in QL!Entry /\ y.ts \in Nat /\ y.ts <= runs
      BY DEF LogInv, QL!Entry
    <3>2. QED
      BY <1>1, <3>1
  <2>2. e.ts <= runs'
    BY <1>2
  <2>3. QED
    BY <1>1, <1>2, <2>1, <2>2
<1>13. ASSUME NEW y \in ran', \A k \in DOMAIN log' : log'[k] # y,
              NEW k \in DOMAIN log', QL!HashOf(log'[k]) = QL!HashOf(y)
       PROVE  log'[k].ts > y.ts
  <2>1. y # e /\ y \in ran
    <3>1. \E l \in DOMAIN log' : log'[l] = e
      <4>1. PICK l \in DOMAIN log' : at[l] = 1
        BY <1>19
      <4>2. log'[l] = s[at[l]]
        BY <1>17
      <4>3. QED
        BY <1>4, <4>1, <4>2
    <3>2. QED
      BY <1>1, <1>13, <3>1
  <2>2. log'[k] = s[at[k]] /\ at[k] \in DOMAIN s
    BY <1>17
  <2>3. CASE \E i \in DOMAIN log : log[i] = y
    <3>1. PICK i \in DOMAIN s : s[i] = y
      <4>1. PICK i \in DOMAIN log : log[i] = y
        BY <2>3
      <4>2. i + 1 \in DOMAIN s /\ s[i + 1] = y
        BY <1>4, <1>5, <4>1
      <4>3. QED
        BY <4>2
    <3>2. \A l \in DOMAIN log' : at[l] # i
      BY <1>13, <1>17, <3>1
    <3>3. at[k] < i
      <4>1. QL!HashOf(s[at[k]]) = QL!HashOf(s[i])
        BY <1>13, <2>2, <3>1
      <4>2. QED
        BY <1>20, <3>2, <4>1
    <3>4. s[i].ts < s[at[k]].ts
      BY <1>7, <2>2, <3>3 DEF Falling
    <3>5. s[i].ts \in Nat /\ s[at[k]].ts \in Nat
      <4>1. \A j \in DOMAIN s : s[j].ts \in Nat
        BY <1>8, <1>12 DEF QL!Entry
      <4>2. QED
        BY <2>2, <4>1
    <3>6. QED
      BY <2>2, <3>1, <3>4, <3>5
  <2>4. CASE \A i \in DOMAIN log : log[i] # y
    <3>1. CASE at[k] = 1
      <4>1. log'[k] = e
        BY <1>4, <2>2, <3>1
      <4>2. y.ts \in Nat /\ e.ts \in Nat /\ y.ts < e.ts
        BY <1>2, <1>6, <2>1
      <4>3. QED
        BY <4>1, <4>2
    <3>2. CASE at[k] # 1
      <4>1. PICK i \in DOMAIN log : log'[k] = log[i]
        BY <1>4, <2>2, <3>2
      <4>2. \A z \in ran : (\A j \in DOMAIN log : log[j] # z) =>
              \A j \in DOMAIN log : QL!HashOf(log[j]) = QL!HashOf(z) => log[j].ts > z.ts
        BY LogOrders DEF LogInv, QL!KeepsNewest
      <4>3. QED
        BY <1>13, <2>1, <2>4, <4>1, <4>2
    <3>3. QED
      BY <3>1, <3>2
  <2>5. QED
    BY <2>3, <2>4
<1>14. (QL!KeepsNewest)'
  BY <1>13, LogOrders DEF QL!KeepsNewest
<1>15. QED
  BY <1>1, <1>2, <1>9, <1>10, <1>11, <1>12, <1>14 DEF LogInv

LEMMA LogKeeps == QL!LogAssumption /\ LogInv /\ QL!Next => LogInv'
<1> SUFFICES ASSUME QL!LogAssumption, LogInv, QL!Next
             PROVE  LogInv'
  OBVIOUS
<1>1. CASE QL!Clear
  <2>1. log' = << >> /\ ran' = {} /\ runs' = runs /\ desc' = desc
    BY <1>1 DEF QL!Clear
  <2>2. << >> \in Seq(QL!Entry) /\ DOMAIN << >> = {}
    OBVIOUS
  <2>3. (QL!KeepsNewest)'
    BY <2>1 DEF QL!KeepsNewest
  <2>4. QED
    BY <2>1, <2>2, <2>3 DEF LogInv, Falling
<1>2. ASSUME UNCHANGED <<log, ran, runs>>, desc' \in BOOLEAN
      PROVE  LogInv'
  BY <1>2 DEF LogInv, Falling, QL!KeepsNewest
<1>3. ASSUME NEW c, QL!FilterConn(c) \/ QL!FilterLeast(c) \/ QL!ToggleSort(c)
      PROVE  LogInv'
  <2>1. UNCHANGED <<log, ran, runs>> /\ desc' \in BOOLEAN
    BY <1>3 DEF QL!FilterConn, QL!FilterLeast, QL!ToggleSort, LogInv
  <2>2. QED
    BY <1>2, <2>1
<1>4. QED
  BY <1>1, <1>3, LogGrows DEF QL!Next

\* What the filter lets through of the log, and a part of it.
Part(s) == /\ s \in Seq(QL!Entry) /\ Falling(s)
           /\ \A i \in DOMAIN s : s[i] \in ran

LEMMA PartOf ==
    ASSUME NEW s, Part(s), NEW places \in SUBSET (DOMAIN s)
    PROVE  Part(Keeping(s, places))
<1> DEFINE t == Keeping(s, places)
           at == InOrder(places)
           c == Cardinality(places)
<1>1. s \in Seq(QL!Entry) /\ Falling(s) /\ \A i \in DOMAIN s : s[i] \in ran
  BY DEF Part
<1>2. /\ t \in Seq(QL!Entry) /\ DOMAIN t = 1..c
      /\ \A k \in 1..c : at[k] \in places /\ t[k] = s[at[k]]
      /\ \A k, l \in 1..c : k < l => at[k] < at[l]
  BY <1>1, KeepingIs
<1> HIDE DEF t, at, c
<1>3. \A k \in 1..c : at[k] \in DOMAIN s
  BY <1>2
<1>4. Falling(t)
  BY <1>1, <1>2, <1>3 DEF Falling
<1>5. \A k \in DOMAIN t : t[k] \in ran
  BY <1>1, <1>2, <1>3
<1>6. QED
  BY <1>2, <1>4, <1>5 DEF Part, t

LEMMA FilteredIs == LogInv => Part(QL!Filtered)
<1> SUFFICES ASSUME LogInv
             PROVE  Part(QL!Filtered)
  OBVIOUS
<1> DEFINE places == {i \in DOMAIN log : conn \in {None, log[i].conn} /\ log[i].ms >= least}
<1>1. Part(log)
  BY DEF LogInv, Part
<1>2. QL!Filtered = Keeping(log, places)
  BY LogOrders DEF QL!Filtered
<1>3. places \in SUBSET (DOMAIN log)
  OBVIOUS
<1> HIDE DEF places
<1>4. QED
  BY <1>1, <1>2, <1>3, PartOf

\* The order of sort() with a number for each entry, equal ones as they were.
By(s, value, falling) ==
    {p \in QL!Pairs(s) : IF value[p[1]] = value[p[2]] THEN p[1] < p[2]
                         ELSE falling = (value[p[1]] > value[p[2]])}

LEMMA ByOrders ==
    ASSUME NEW S, NEW s \in Seq(S), NEW value, \A i \in DOMAIN s : value[i] \in Nat,
           NEW falling \in BOOLEAN
    PROVE  Orders(DOMAIN s, By(s, value, falling))
<1> DEFINE b == By(s, value, falling)
<1>1. \A i, j \in DOMAIN s :
        <<i, j>> \in b <=> IF value[i] = value[j] THEN i < j ELSE falling = (value[i] > value[j])
  BY DEF By, QL!Pairs
<1>2. \A i \in DOMAIN s : i \in Nat /\ value[i] \in Nat
  OBVIOUS
<1> HIDE DEF b
<1>3. CASE falling = TRUE
  <2>1. \A i, j \in DOMAIN s :
          <<i, j>> \in b <=> \/ value[i] = value[j] /\ i < j
                             \/ value[i] > value[j]
    <3> SUFFICES ASSUME NEW i \in DOMAIN s, NEW j \in DOMAIN s
                 PROVE  <<i, j>> \in b <=> \/ value[i] = value[j] /\ i < j
                                           \/ value[i] > value[j]
      OBVIOUS
    <3>1. value[i] \in Nat /\ value[j] \in Nat
      BY <1>2
    <3>2. <<i, j>> \in b <=> IF value[i] = value[j] THEN i < j ELSE falling = (value[i] > value[j])
      BY <1>1
    <3>3. (falling = (value[i] > value[j])) <=> value[i] > value[j]
      BY <1>3, <3>1
    <3>4. QED
      BY <3>2, <3>3, <3>1
  <2>2. QED
    BY <1>2, <2>1, SMTT(30) DEF Orders, b
<1>4. CASE falling = FALSE
  <2>1. \A i, j \in DOMAIN s :
          <<i, j>> \in b <=> \/ value[i] = value[j] /\ i < j
                             \/ value[i] < value[j]
    <3> SUFFICES ASSUME NEW i \in DOMAIN s, NEW j \in DOMAIN s
                 PROVE  <<i, j>> \in b <=> \/ value[i] = value[j] /\ i < j
                                           \/ value[i] < value[j]
      OBVIOUS
    <3>1. value[i] \in Nat /\ value[j] \in Nat
      BY <1>2
    <3>2. <<i, j>> \in b <=> IF value[i] = value[j] THEN i < j ELSE falling = (value[i] > value[j])
      BY <1>1
    <3>3. QED
      BY <1>4, <3>1, <3>2
  <2>2. QED
    BY <1>2, <2>1, SMTT(30) DEF Orders, b
<1>5. QED
  BY <1>3, <1>4

\* The entries of the detail view are runs.
LEMMA DetailIs ==
    ASSUME QL!LogAssumption, LogInv
    PROVE  \A i \in DOMAIN QL!Detail : QL!Detail[i] \in ran
<1> DEFINE s == QL!Filtered
           value == [i \in DOMAIN s |-> IF key = "ts" THEN s[i].ts ELSE s[i].ms]
           b == By(s, value, desc)
           order == Ranked(DOMAIN s, b)
           u == [k \in DOMAIN s |-> s[order[k]]]
<1>1. Part(s)
  BY FilteredIs
<1>2. s \in Seq(QL!Entry) /\ DOMAIN s = 1..Len(s) /\ Len(s) \in Nat
      /\ \A i \in DOMAIN s : s[i] \in QL!Entry /\ s[i] \in ran
  BY <1>1 DEF Part
<1>3. \A i \in DOMAIN s : value[i] \in Nat
  BY <1>2 DEF QL!Entry, QL!LogAssumption
<1>4. QL!Detail = QL!FirstOf(u, Limit)
  <2> DEFINE B == {p \in QL!Pairs(s) :
                     LET i == p[1]
                         j == p[2]
                         Value(n) == IF key = "ts" THEN s[n].ts ELSE s[n].ms
                     IN  IF Value(i) = Value(j) THEN i < j ELSE desc = (Value(i) > Value(j))}
  <2>1. QL!Detail = QL!FirstOf(QL!SortedBy(s, B), Limit)
    BY DEF QL!Detail
  <2>2. B = b
    BY DEF By, QL!Pairs
  <2>3. QL!SortedBy(s, b) = u
    BY LogOrders DEF QL!SortedBy
  <2> HIDE DEF b, u, s, value, B
  <2>4. QED
    BY <2>1, <2>2, <2>3
<1>5. order \in [DOMAIN s -> DOMAIN s]
  <2>1. Orders(DOMAIN s, b)
    <3> HIDE DEF s, value
    <3>1. QED
      BY <1>2, <1>3, ByOrders DEF LogInv
  <2>2. IsFiniteSet(DOMAIN s) /\ Cardinality(DOMAIN s) = Len(s)
    <3>1. 1 \in Int /\ Len(s) \in Int /\ (IF 1 > Len(s) THEN 0 ELSE Len(s) - 1 + 1) = Len(s)
      BY <1>2
    <3>2. QED
      BY <1>2, <3>1, FS_Interval
  <2> HIDE DEF s, b
  <2>3. QED
    BY <1>2, <2>1, <2>2, RankedIs
<1> HIDE DEF order, s
<1>6. u \in [1..Len(s) -> ran]
  BY <1>2, <1>5
<1> HIDE DEF u
<1>7. u \in Seq(ran)
  BY <1>2, <1>6, EntriesMakeSeq
<1>8. Limit \in Nat
  BY DEF QL!LogAssumption
<1>9. QED
  <2> DEFINE t == QL!Detail
  <2>1. t = SubSeq(u, 1, IF Len(u) < Limit THEN Len(u) ELSE Limit)
    BY <1>4 DEF QL!FirstOf
  <2> HIDE DEF t
  <2>2. t \in Seq(ran)
    BY <1>7, <1>8, <2>1, Front
  <2>3. \A i \in DOMAIN t : t[i] \in ran
    BY <2>2
  <2>4. QED
    BY <2>3 DEF t

\* The percentiles of some entries are durations, and rise.
LEMMA PercentilesRise ==
    ASSUME QL!LogAssumption, NEW es \in Seq(QL!Entry), Len(es) > 0
    PROVE  /\ QL!Percentile(es, 0) <= QL!Percentile(es, 50)
           /\ QL!Percentile(es, 50) <= QL!Percentile(es, 95)
           /\ QL!Percentile(es, 95) <= QL!Percentile(es, 100)
           /\ QL!Percentile(es, 95) \in Nat
<1> DEFINE value == [i \in DOMAIN es |-> es[i].ms]
           b == By(es, value, FALSE)
           n == Len(es)
           order == Ranked(DOMAIN es, b)
           at(p) == IF (p * n) \div 100 < n THEN (p * n) \div 100 + 1 ELSE n
<1>1. n \in Nat /\ n > 0 /\ DOMAIN es = 1..n /\ \A i \in DOMAIN es : es[i] \in QL!Entry
  OBVIOUS
<1>2. \A i \in DOMAIN es : value[i] \in Nat /\ value[i] = es[i].ms
  BY <1>1 DEF QL!Entry, QL!LogAssumption
<1>3. QL!Sorted(es) = [k \in DOMAIN es |-> es[order[k]]]
  <2> DEFINE B == {p \in QL!Pairs(es) : \/ es[p[1]].ms < es[p[2]].ms
                                        \/ es[p[1]].ms = es[p[2]].ms /\ p[1] < p[2]}
  <2>1. QL!Sorted(es) = QL!SortedBy(es, B)
    BY Zenon DEF QL!Sorted
  <2>2. B = b
    <3>1. \A p \in QL!Pairs(es) : /\ p[1] \in DOMAIN es /\ p[2] \in DOMAIN es
                                  /\ es[p[1]].ms \in Nat /\ es[p[2]].ms \in Nat
                                  /\ value[p[1]] = es[p[1]].ms /\ value[p[2]] = es[p[2]].ms
      BY <1>2 DEF QL!Pairs
    <3> HIDE DEF value
    <3>2. \A p \in QL!Pairs(es) :
            (\/ es[p[1]].ms < es[p[2]].ms
             \/ es[p[1]].ms = es[p[2]].ms /\ p[1] < p[2])
              <=> IF value[p[1]] = value[p[2]] THEN p[1] < p[2]
                  ELSE FALSE = (value[p[1]] > value[p[2]])
      BY <3>1
    <3>3. QED
      BY <3>2, Zenon DEF By
  <2> HIDE DEF B, b
  <2>3. QED
    BY <2>1, <2>2, LogOrders DEF QL!SortedBy
<1>4. /\ order \in [1..n -> 1..n]
      /\ \A k, l \in 1..n : k < l => <<order[k], order[l]>> \in b
  <2>1. Orders(DOMAIN es, b)
    <3> HIDE DEF value
    <3>1. QED
      BY <1>2, ByOrders
  <2>2. IsFiniteSet(DOMAIN es) /\ Cardinality(DOMAIN es) = n
    <3>1. 1 \in Int /\ n \in Int /\ (IF 1 > n THEN 0 ELSE n - 1 + 1) = n
      BY <1>1
    <3>2. QED
      BY <1>1, <3>1, FS_Interval
  <2> HIDE DEF n, b
  <2>3. QED
    BY <1>1, <2>1, <2>2, RankedIs
<1> HIDE DEF order, n
<1>5. \A k \in 1..n : QL!Sorted(es)[k] = es[order[k]] /\ order[k] \in DOMAIN es
  BY <1>1, <1>3, <1>4
<1>6. ASSUME NEW k \in 1..n, NEW l \in 1..n, k <= l
      PROVE  QL!Sorted(es)[k].ms <= QL!Sorted(es)[l].ms
  <2>1. value[order[k]] \in Nat /\ value[order[l]] \in Nat
        /\ QL!Sorted(es)[k].ms = value[order[k]] /\ QL!Sorted(es)[l].ms = value[order[l]]
    BY <1>2, <1>5
  <2>2. CASE k = l
    BY <2>1, <2>2
  <2>3. CASE k # l
    <3>1. k < l
      BY <1>1, <1>6, <2>3
    <3>2. <<order[k], order[l]>> \in b
      BY <1>4, <3>1
    <3>3. \/ value[order[k]] = value[order[l]]
          \/ FALSE = (value[order[k]] > value[order[l]])
      BY <3>2, Zenon DEF By
    <3> HIDE DEF value
    <3>4. QED
      BY <2>1, <3>3
  <2>4. QED
    BY <2>2, <2>3
<1>7. \A p \in {0, 50, 95, 100} : QL!Percentile(es, p) = QL!Sorted(es)[at(p)].ms
  BY DEF QL!Percentile, n
<1>8. /\ at(0) \in 1..n /\ at(50) \in 1..n /\ at(95) \in 1..n /\ at(100) \in 1..n
      /\ at(0) <= at(50) /\ at(50) <= at(95) /\ at(95) <= at(100)
  <2>1. /\ (0 * n) \div 100 = 0 /\ (100 * n) \div 100 = n
        /\ (50 * n) \div 100 \in 0..n - 1 /\ (95 * n) \div 100 \in 0..n - 1
        /\ (50 * n) \div 100 <= (95 * n) \div 100
    BY <1>1
  <2>2. QED
    BY <1>1, <2>1
<1>9. \A k \in 1..n : QL!Sorted(es)[k].ms \in Nat
  BY <1>2, <1>5
<1> HIDE DEF at
<1>10. QED
  BY <1>6, <1>7, <1>8, <1>9

\* The entries of a hash and of a connection.
HashPlaces(h) == {i \in DOMAIN QL!Filtered : QL!HashOf(QL!Filtered[i]) = h}
ConnPlaces(c) == {i \in DOMAIN QL!Filtered : QL!Filtered[i].conn = c}

\* The rows of the two views.
SqlRow(h) ==
    [text |-> (CHOOSE e \in QL!Range(QL!OfHash(h)) :
                 \A x \in QL!Range(QL!OfHash(h)) : x.ts <= e.ts).text,
     conn |-> Head(QL!OfHash(h)).conn, sum |-> QL!Summary(h)]
ConnRow(c) ==
    [conn |-> c, count |-> Len(QL!OfConn(c)), p95 |-> QL!Percentile(QL!OfConn(c), 95),
     total |-> QL!SumFunction([i \in DOMAIN QL!OfConn(c) |-> QL!OfConn(c)[i].ms])]

LEMMA RowsOfViews ==
    /\ QL!SqlAgg = {SqlRow(h) : h \in {QL!HashOf(e) : e \in QL!Range(QL!Filtered)}}
    /\ QL!ConnRows = {ConnRow(c) : c \in {e.conn : e \in QL!Range(QL!Filtered)}}
BY DEF QL!SqlAgg, QL!ConnRows, SqlRow, ConnRow

\* Of the entries of one hash the first is the newest.
LEMMA SqlRowIs ==
    ASSUME LogInv, NEW h, HashPlaces(h) # {}
    PROVE  /\ QL!OfHash(h) \in Seq(QL!Entry) /\ Len(QL!OfHash(h)) = Cardinality(HashPlaces(h))
           /\ Len(QL!OfHash(h)) > 0
           /\ \E e \in ran : /\ QL!HashOf(e) = h
                             /\ SqlRow(h).text = e.text /\ SqlRow(h).conn = e.conn
<1> DEFINE s == QL!Filtered
           places == HashPlaces(h)
           es == QL!OfHash(h)
           c == Cardinality(places)
           at == InOrder(places)
<1>1. Part(s) /\ s \in Seq(QL!Entry)
  BY FilteredIs DEF Part
<1>2. es = Keeping(s, places) /\ places \in SUBSET (DOMAIN s)
  BY LogOrders DEF QL!OfHash, HashPlaces
<1>3. /\ es \in Seq(QL!Entry) /\ c \in Nat /\ Len(es) = c /\ DOMAIN es = 1..c
      /\ \A k \in 1..c : at[k] \in places /\ es[k] = s[at[k]]
      /\ \A n \in places : \E k \in 1..c : at[k] = n
  <2> HIDE DEF s, places
  <2>1. QED
    BY <1>1, <1>2, KeepingIs
<1>4. Part(es)
  <2> HIDE DEF s, places
  <2>1. QED
    BY <1>1, <1>2, PartOf
<1>5. \A i \in places : QL!HashOf(s[i]) = h
  BY DEF HashPlaces
<1>6. places # {}
  OBVIOUS
<1> HIDE DEF s, places, c, at
<1>7. c > 0 /\ 1 \in DOMAIN es
  BY <1>3, <1>6
<1>8. \A k \in DOMAIN es : QL!HashOf(es[k]) = h /\ es[k] \in ran /\ es[k].ts \in Nat
  <2>1. \A k \in DOMAIN es : es[k] \in ran /\ es[k] \in QL!Entry
    BY <1>3, <1>4 DEF Part
  <2>2. QED
    BY <1>3, <1>5, <2>1 DEF QL!Entry
<1>9. \A k \in DOMAIN es : k = 1 \/ es[k].ts < es[1].ts
  BY <1>3, <1>4, <1>7 DEF Part, Falling
<1> DEFINE newest == CHOOSE e \in QL!Range(es) : \A x \in QL!Range(es) : x.ts <= e.ts
<1>10. newest = es[1]
  <2>1. QL!Range(es) = {es[k] : k \in DOMAIN es}
    BY LogOrders
  <2>2. es[1] \in QL!Range(es) /\ \A x \in QL!Range(es) : x.ts <= es[1].ts
    BY <1>7, <1>8, <1>9, <2>1
  <2>3. newest \in QL!Range(es) /\ \A x \in QL!Range(es) : x.ts <= newest.ts
    BY <2>2
  <2> HIDE DEF newest, es
  <2>4. PICK k \in DOMAIN es : newest = es[k]
    BY <2>1, <2>3
  <2>5. es[1].ts <= es[k].ts
    BY <2>2, <2>3, <2>4
  <2>6. k = 1
    BY <1>7, <1>8, <1>9, <2>5
  <2>7. QED
    BY <2>4, <2>6
<1>11. Head(es) = es[1]
  BY <1>3
<1>12. SqlRow(h).text = newest.text /\ SqlRow(h).conn = Head(es).conn
  BY DEF SqlRow
<1> HIDE DEF newest
<1>13. \E e \in ran : QL!HashOf(e) = h /\ SqlRow(h).text = e.text /\ SqlRow(h).conn = e.conn
  BY <1>7, <1>8, <1>10, <1>11, <1>12
<1>14. Len(es) > 0 /\ Len(es) = Cardinality(HashPlaces(h))
  BY <1>3, <1>7 DEF c, places
<1>15. QED
  BY <1>3, <1>13, <1>14 DEF es

LEMMA FilteredPlaces ==
    ASSUME LogInv
    PROVE  /\ IsFiniteSet(DOMAIN QL!Filtered)
           /\ Cardinality(DOMAIN QL!Filtered) = Len(QL!Filtered)
           /\ {QL!HashOf(e) : e \in QL!Range(QL!Filtered)}
                = {QL!HashOf(QL!Filtered[i]) : i \in DOMAIN QL!Filtered}
           /\ {e.conn : e \in QL!Range(QL!Filtered)}
                = {QL!Filtered[i].conn : i \in DOMAIN QL!Filtered}
<1> DEFINE s == QL!Filtered
<1>1. s \in Seq(QL!Entry)
  BY FilteredIs DEF Part
<1>2. QL!Range(s) = {s[i] : i \in DOMAIN s}
  BY LogOrders
<1> HIDE DEF s
<1>3. DOMAIN s = 1..Len(s) /\ Len(s) \in Nat
  BY <1>1
<1>4. IsFiniteSet(DOMAIN s) /\ Cardinality(DOMAIN s) = Len(s)
  <2>1. 1 \in Int /\ Len(s) \in Int /\ (IF 1 > Len(s) THEN 0 ELSE Len(s) - 1 + 1) = Len(s)
    BY <1>3
  <2>2. QED
    BY <1>3, <2>1, FS_Interval
<1>5. /\ {QL!HashOf(e) : e \in QL!Range(s)} = {QL!HashOf(s[i]) : i \in DOMAIN s}
      /\ {e.conn : e \in QL!Range(s)} = {s[i].conn : i \in DOMAIN s}
  BY <1>2
<1>6. QED
  BY <1>4, <1>5 DEF s

\* A view whose rows are those of the parts of the log counts every entry once.
LEMMA RowsCountAll ==
    ASSUME NEW places, IsFiniteSet(places),
           NEW row, NEW rows, rows = {row[i] : i \in places},
           NEW count, \A i \in places : count[row[i]] = Cardinality(At(places, row, row[i]))
    PROVE  SumFunctionOnSet(count, rows) = Cardinality(places)
<1> DEFINE one == [i \in places |-> 1]
           p == [i \in places |-> row[i]]
<1>1. IsFiniteSet(rows)
  <2>1. p \in Surjection(places, rows)
    BY DEF Surjection
  <2> HIDE DEF p
  <2>2. QED
    BY <2>1, FS_Surjection
<1>2. \A t : IsFiniteSet(At(places, row, t)) /\ At(places, row, t) \in SUBSET places
  BY FS_Subset DEF At
<1>3. \A t \in rows : count[t] = SumFunctionOnSet(one, At(places, row, t))
  <2> SUFFICES ASSUME NEW t \in rows
               PROVE  count[t] = SumFunctionOnSet(one, At(places, row, t))
    OBVIOUS
  <2>1. count[t] = Cardinality(At(places, row, t))
    OBVIOUS
  <2>2. \A x \in At(places, row, t) : one[x] = 1
    BY <1>2
  <2> HIDE DEF one
  <2>3. QED
    BY <1>2, <2>1, <2>2, CountIsSum
<1>4. \A i \in places : one[i] \in Nat /\ one[i] = 1 /\ row[i] \in rows
  OBVIOUS
<1> HIDE DEF one
<1>5. SumFunctionOnSet(count, rows) = SumFunctionOnSet(one, places)
  BY <1>1, <1>3, <1>4, SumOfParts
<1>6. QED
  BY <1>4, <1>5, CountIsSum

LEMMA ViewsCountAll ==
    ASSUME LogInv
    PROVE  /\ QL!SumFunction([r \in QL!SqlAgg |-> r.sum.count]) = Len(QL!Filtered)
           /\ QL!SumFunction([r \in QL!ConnRows |-> r.count]) = Len(QL!Filtered)
<1> DEFINE s == QL!Filtered
           places == DOMAIN s
           sql == [i \in places |-> SqlRow(QL!HashOf(s[i]))]
           conns == [i \in places |-> ConnRow(s[i].conn)]
<1>1. IsFiniteSet(places) /\ Cardinality(places) = Len(s)
  BY FilteredPlaces
<1>2. QL!SqlAgg = {sql[i] : i \in places} /\ QL!ConnRows = {conns[i] : i \in places}
  <2>1. /\ QL!SqlAgg = {SqlRow(h) : h \in {QL!HashOf(s[i]) : i \in places}}
        /\ QL!ConnRows = {ConnRow(c) : c \in {s[i].conn : i \in places}}
    BY RowsOfViews, FilteredPlaces
  <2>2. QED
    BY <2>1
<1>3. ASSUME NEW i \in places
      PROVE  sql[i].sum.count = Cardinality(At(places, sql, sql[i]))
  <2> DEFINE h == QL!HashOf(s[i])
  <2>1. \A j \in places : sql[j] = SqlRow(QL!HashOf(s[j])) /\ HashPlaces(QL!HashOf(s[j])) # {}
    BY DEF HashPlaces
  <2>2. \A j \in places : Hash[sql[j].text] = QL!HashOf(s[j])
    <3>1. ASSUME NEW j \in places
          PROVE  Hash[SqlRow(QL!HashOf(s[j])).text] = QL!HashOf(s[j])
      <4> DEFINE g == QL!HashOf(s[j])
      <4>1. HashPlaces(g) # {}
        BY <2>1
      <4> HIDE DEF g
      <4>2. PICK e \in ran : QL!HashOf(e) = g /\ SqlRow(g).text = e.text
        BY <4>1, SqlRowIs
      <4>3. QED
        BY <4>2 DEF QL!HashOf, g
    <3>2. QED
      BY <2>1, <3>1
  <2>3. At(places, sql, sql[i]) = HashPlaces(h)
    <3>1. \A j \in places : sql[j] = sql[i] <=> QL!HashOf(s[j]) = h
      <4> HIDE DEF sql, s
      <4>1. QED
        BY <2>1, <2>2 DEF h
    <3> HIDE DEF sql
    <3>2. QED
      BY <3>1 DEF At, HashPlaces
  <2>4. sql[i].sum.count = Len(QL!OfHash(h))
    BY <2>1 DEF SqlRow, QL!Summary
  <2>5. Len(QL!OfHash(h)) = Cardinality(HashPlaces(h))
    BY <2>1, SqlRowIs
  <2> HIDE DEF sql, h
  <2>6. QED
    BY <2>3, <2>4, <2>5
<1>4. ASSUME NEW i \in places
      PROVE  conns[i].count = Cardinality(At(places, conns, conns[i]))
  <2> DEFINE c == s[i].conn
  <2>1. \A j \in places : conns[j] = ConnRow(s[j].conn) /\ conns[j].conn = s[j].conn
    BY DEF ConnRow
  <2>2. At(places, conns, conns[i]) = ConnPlaces(c)
    <3>1. \A j \in places : conns[j] = conns[i] <=> s[j].conn = c
      <4> HIDE DEF conns, s
      <4>1. QED
        BY <2>1 DEF c
    <3> HIDE DEF conns
    <3>2. QED
      BY <3>1 DEF At, ConnPlaces
  <2>3. conns[i].count = Len(QL!OfConn(c))
    BY <2>1 DEF ConnRow
  <2>4. Len(QL!OfConn(c)) = Cardinality(ConnPlaces(c))
    <3>1. QL!OfConn(c) = Keeping(s, ConnPlaces(c)) /\ ConnPlaces(c) \in SUBSET (DOMAIN s)
      BY LogOrders DEF QL!OfConn, ConnPlaces
    <3>2. s \in Seq(QL!Entry)
      BY FilteredIs DEF Part
    <3> HIDE DEF s, c
    <3>3. QED
      BY <3>1, <3>2, KeepingIs
  <2> HIDE DEF conns, c
  <2>5. QED
    BY <2>2, <2>3, <2>4
<1> DEFINE sqlCount == [r \in QL!SqlAgg |-> r.sum.count]
           connCount == [r \in QL!ConnRows |-> r.count]
<1>5. /\ \A i \in places : sqlCount[sql[i]] = Cardinality(At(places, sql, sql[i]))
      /\ \A i \in places : connCount[conns[i]] = Cardinality(At(places, conns, conns[i]))
  <2> HIDE DEF sql, conns, places
  <2>1. QED
    BY <1>2, <1>3, <1>4
<1>6. DOMAIN sqlCount = QL!SqlAgg /\ DOMAIN connCount = QL!ConnRows
  OBVIOUS
<1> HIDE DEF sql, conns, places, sqlCount, connCount
<1>7. /\ SumFunctionOnSet(sqlCount, QL!SqlAgg) = Cardinality(places)
      /\ SumFunctionOnSet(connCount, QL!ConnRows) = Cardinality(places)
  BY <1>1, <1>2, <1>5, RowsCountAll
<1>8. /\ QL!SumFunction(sqlCount) = SumFunctionOnSet(sqlCount, QL!SqlAgg)
      /\ QL!SumFunction(connCount) = SumFunctionOnSet(connCount, QL!ConnRows)
  BY <1>6, LogSums
<1>9. QED
  BY <1>1, <1>7, <1>8 DEF sqlCount, connCount

\* The rows of the statements are finitely many, and their percentiles are in order.
LEMMA SqlAggIs ==
    ASSUME QL!LogAssumption, LogInv
    PROVE  /\ IsFiniteSet(QL!SqlAgg)
           /\ \A r \in QL!SqlAgg :
                /\ r.sum.min <= r.sum.p50 /\ r.sum.p50 <= r.sum.p95 /\ r.sum.p95 <= r.sum.max
                /\ r.sum.p95 \in Nat
                /\ \E e \in ran : r.text = e.text /\ r.conn = e.conn
<1>1. IsFiniteSet(QL!SqlAgg)
  <2> DEFINE places == DOMAIN QL!Filtered
             row == [i \in places |-> SqlRow(QL!HashOf(QL!Filtered[i]))]
  <2>1. IsFiniteSet(places)
    BY FilteredPlaces
  <2>2. QL!SqlAgg = {row[i] : i \in places}
    BY RowsOfViews, FilteredPlaces
  <2>3. row \in Surjection(places, QL!SqlAgg)
    BY <2>2 DEF Surjection
  <2> HIDE DEF row, places
  <2>4. QED
    BY <2>1, <2>3, FS_Surjection
<1>2. ASSUME NEW r \in QL!SqlAgg
      PROVE  /\ r.sum.min <= r.sum.p50 /\ r.sum.p50 <= r.sum.p95 /\ r.sum.p95 <= r.sum.max
             /\ r.sum.p95 \in Nat
             /\ \E e \in ran : r.text = e.text /\ r.conn = e.conn
  <2>1. PICK i \in DOMAIN QL!Filtered : r = SqlRow(QL!HashOf(QL!Filtered[i]))
    BY RowsOfViews, FilteredPlaces
  <2> DEFINE h == QL!HashOf(QL!Filtered[i])
             es == QL!OfHash(h)
  <2>2. HashPlaces(h) # {} /\ r = SqlRow(h)
    BY <2>1 DEF HashPlaces
  <2> HIDE DEF h
  <2>3. es \in Seq(QL!Entry) /\ Len(es) > 0
        /\ \E e \in ran : SqlRow(h).text = e.text /\ SqlRow(h).conn = e.conn
    BY <2>2, SqlRowIs
  <2>4. r.sum = [count |-> Len(es), min |-> QL!Percentile(es, 0), p50 |-> QL!Percentile(es, 50),
                 p95 |-> QL!Percentile(es, 95), max |-> QL!Percentile(es, 100)]
    BY <2>2 DEF SqlRow, QL!Summary
  <2> HIDE DEF es
  <2>5. QED
    BY <2>2, <2>3, <2>4, PercentilesRise
<1>3. QED
  BY <1>1, <1>2

\* The rows of the statements that come above one of them.
RowsAbove(r) == {s \in QL!SqlAgg : QL!Above(s, r)}

\* Rows that fit the view are all shown, and one that is cut off is no slower
\* than any that is shown: what is above a slower row is above it as well.
LEMMA SqlRowsAre ==
    ASSUME QL!LogAssumption, LogInv
    PROVE  /\ QL!SqlRows \subseteq QL!SqlAgg
           /\ QL!Cardinality(QL!SqlAgg) <= Limit => QL!SqlRows = QL!SqlAgg
           /\ \A r \in QL!SqlRows, s \in QL!SqlAgg \ QL!SqlRows : s.sum.p95 <= r.sum.p95
<1>1. QL!SqlRows = {r \in QL!SqlAgg : Cardinality(RowsAbove(r)) < Limit}
  BY LogOrders DEF QL!SqlRows, RowsAbove
<1>2. /\ IsFiniteSet(QL!SqlAgg) /\ Cardinality(QL!SqlAgg) \in Nat
      /\ \A r \in QL!SqlAgg : r.sum.p95 \in Nat
  BY SqlAggIs, FS_CardinalityType
<1>3. \A r \in QL!SqlAgg :
        /\ RowsAbove(r) \in SUBSET QL!SqlAgg
        /\ IsFiniteSet(RowsAbove(r)) /\ Cardinality(RowsAbove(r)) \in Nat
  BY <1>2, FS_Subset, FS_CardinalityType DEF RowsAbove
<1>4. Limit \in Nat
  BY DEF QL!LogAssumption
<1>5. ASSUME NEW r \in QL!SqlAgg
      PROVE  Cardinality(RowsAbove(r)) < Cardinality(QL!SqlAgg)
  <2>1. ~QL!Above(r, r)
    <3>1. \A j \in DOMAIN QL!Filtered : j \in 1..j
      BY FilteredIs DEF Part
    <3>2. QED
      BY <1>2, <3>1 DEF QL!Above
  <2>2. r \notin RowsAbove(r)
    BY <2>1 DEF RowsAbove
  <2>3. QED
    BY <1>2, <1>3, <2>2, FS_Subset
<1>6. ASSUME QL!Cardinality(QL!SqlAgg) <= Limit
      PROVE  QL!SqlRows = QL!SqlAgg
  <2>1. Cardinality(QL!SqlAgg) <= Limit
    BY <1>6, LogOrders
  <2>2. \A r \in QL!SqlAgg : Cardinality(RowsAbove(r)) < Limit
    BY <1>2, <1>3, <1>4, <1>5, <2>1
  <2>3. QED
    BY <1>1, <2>2
<1>7. ASSUME NEW r \in QL!SqlRows, NEW s \in QL!SqlAgg \ QL!SqlRows
      PROVE  s.sum.p95 <= r.sum.p95
  <2>1. /\ r \in QL!SqlAgg /\ Cardinality(RowsAbove(r)) < Limit
        /\ s \in QL!SqlAgg /\ ~(Cardinality(RowsAbove(s)) < Limit)
    BY <1>1
  <2>2. CASE s.sum.p95 > r.sum.p95
    <3>1. RowsAbove(s) \subseteq RowsAbove(r)
      <4>1. \A t \in QL!SqlAgg : t.sum.p95 >= s.sum.p95 => QL!Above(t, r)
        BY <1>2, <2>1, <2>2 DEF QL!Above
      <4>2. \A t \in QL!SqlAgg : QL!Above(t, s) => t.sum.p95 >= s.sum.p95
        BY <1>2, <2>1 DEF QL!Above
      <4>3. QED
        BY <4>1, <4>2 DEF RowsAbove
    <3>2. Cardinality(RowsAbove(s)) <= Cardinality(RowsAbove(r))
      BY <1>3, <2>1, <3>1, FS_Subset
    <3>3. QED
      BY <1>3, <1>4, <2>1, <3>2
  <2>3. QED
    BY <1>2, <2>1, <2>2
<1>8. QED
  BY <1>1, <1>6, <1>7

\* What either view shows of the log adds up to it, and is of it.
LEMMA ViewsAreOfLog == QL!LogAssumption /\ LogInv => QL!ViewsAddUp
<1> SUFFICES ASSUME QL!LogAssumption, LogInv
             PROVE  QL!ViewsAddUp
  OBVIOUS
<1>1. \A r \in QL!SqlAgg :
        /\ r.sum.min <= r.sum.p50 /\ r.sum.p50 <= r.sum.p95 /\ r.sum.p95 <= r.sum.max
        /\ <<r.text, r.conn>> \in {<<e.text, e.conn>> : e \in ran}
  BY SqlAggIs
<1>2. \A e \in QL!Range(QL!Detail) : e \in ran
  BY DetailIs, LogOrders
<1>3. QL!Picks \subseteq {<<e.text, e.conn>> : e \in ran}
  <2>1. QL!SqlRows \subseteq QL!SqlAgg
    BY SqlRowsAre
  <2>2. QED
    BY <1>1, <1>2, <2>1 DEF QL!Picks
<1>4. QED
  BY <1>1, <1>3, SqlRowsAre, ViewsCountAll DEF QL!ViewsAddUp

-----------------------------------------------------------------------------
(* The mapping of an import.                                               *)

LEMMA MapOrders ==
    /\ \A S : MS!Cardinality(S) = Cardinality(S)
    /\ \A ns : MS!InOrder(ns) = InOrder(ns)
    /\ \A s, places : MS!Keeping(s, places) = Keeping(s, places)
    /\ \A f : MS!Range(f) = {f[x] : x \in DOMAIN f}
<1>1. \A S : MS!Cardinality(S) = Cardinality(S)
  BY Zenon DEF MS!Cardinality, Cardinality
<1>2. \A ns : MS!InOrder(ns) = InOrder(ns)
  BY Zenon DEF MS!InOrder, InOrder, MS!Nth, Nth, MS!Cardinality, Cardinality
<1>3. \A s, places : MS!Keeping(s, places) = Keeping(s, places)
  BY <1>2 DEF MS!Keeping, Keeping
<1>4. QED
  BY <1>1, <1>2, <1>3 DEF MS!Range

\* A row typed over has the columns of the file.
MapInv ==
    /\ mode \in MS!Modes
    /\ overrides \in [DOMAIN FileRows -> [MS!Columns -> MS!Cells] \cup {None}]

LEMMA MapStarts == MS!Init => MapInv
<1> SUFFICES ASSUME MS!Init
             PROVE  MapInv
  OBVIOUS
<1>1. mode \in MS!Modes
  BY DEF MS!Init, MS!Modes
<1>2. overrides = [r \in DOMAIN FileRows |-> None]
  BY DEF MS!Init
<1>3. QED
  BY <1>1, <1>2 DEF MapInv

\* The rows that are imported are rows of the file.
LEMMA ColumnsAre ==
    ASSUME MS!MappingAssumption
    PROVE  \E n \in Nat : n = Len(SameName) /\ MS!Columns = 1..n
BY Zenon DEF MS!MappingAssumption

LEMMA EffectiveAre ==
    ASSUME MS!MappingAssumption
    PROVE  \A k \in DOMAIN MS!EffectiveRows :
             MS!EffectiveRows[k] \in DOMAIN FileRows /\ MS!Kept(MS!EffectiveRows[k])
<1> DEFINE ns == {r \in DOMAIN FileRows : MS!Kept(r)}
           m == Len(FileRows)
<1>1. m \in Nat /\ DOMAIN FileRows = 1..m
  BY DEF MS!MappingAssumption
<1>2. MS!EffectiveRows = InOrder(ns)
  BY MapOrders DEF MS!EffectiveRows
<1>3. ns \in SUBSET (1..m) /\ \A r \in ns : r \in DOMAIN FileRows /\ MS!Kept(r)
  BY <1>1
<1> HIDE DEF ns, m
<1>4. InOrder(ns) \in [1..Cardinality(ns) -> ns]
  BY <1>1, <1>3, InOrderIs
<1>5. QED
  BY <1>2, <1>3, <1>4

LEMMA StatementsAre ==
    ASSUME MS!MappingAssumption, NEW k \in DOMAIN MS!Statements
    PROVE  \E r \in DOMAIN FileRows :
             /\ MS!Kept(r) /\ MS!Statements[k] = [origIdx |-> r, params |-> MS!Params(r)]
<1>1. DOMAIN << >> = {}
  OBVIOUS
<1>2. /\ k \in DOMAIN MS!EffectiveRows
      /\ MS!Statements[k] = [origIdx |-> MS!EffectiveRows[k], params |-> MS!Params(MS!EffectiveRows[k])]
  BY <1>1 DEF MS!Statements
<1>3. QED
  BY <1>2, EffectiveAre

LEMMA MapKeeps == MS!MappingAssumption /\ MapInv /\ MS!Next => MapInv'
<1> SUFFICES ASSUME MS!MappingAssumption, MapInv, MS!Next
             PROVE  MapInv'
  OBVIOUS
<1>1. ASSUME UNCHANGED overrides, mode' \in {mode} \cup MS!Modes
      PROVE  MapInv'
  BY <1>1 DEF MapInv
<1>2. ASSUME NEW i, NEW t, MS!MapTo(i, t)
      PROVE  MapInv'
  BY <1>1, <1>2 DEF MS!MapTo, MS!optVars
<1>3. CASE MS!ApplySuggestions \/ MS!ToggleStrict \/ MS!ClearSettings \/ MS!ApplyToSelection
  BY <1>1, <1>3 DEF MS!ApplySuggestions, MS!ToggleStrict, MS!ClearSettings,
     MS!ApplyToSelection, MS!SetTransform, MS!optVars
<1>4. CASE MS!InvertSelection \/ MS!Deselect \/ MS!JumpToUnmapped
  BY <1>1, <1>4 DEF MS!InvertSelection, MS!Deselect, MS!JumpToUnmapped, MS!optVars
<1>5. ASSUME NEW i, MS!SetRule(i) \/ MS!ClickRow(i) \/ MS!ShiftClickRow(i) \/ MS!SetFilter(i)
                    \/ MS!ShowOnly(i) \/ MS!SelectAll(i)
      PROVE  MapInv'
  BY <1>1, <1>5 DEF MS!SetRule, MS!ClickRow, MS!ShiftClickRow, MS!SetFilter, MS!ShowOnly,
     MS!SelectAll, MS!optVars
<1>6. ASSUME NEW m \in MS!Modes, MS!SetMode(m)
      PROVE  MapInv'
  BY <1>1, <1>6 DEF MS!SetMode
<1>7. ASSUME NEW is, NEW x, MS!SetTransform(is, x) \/ MS!SetPolicy(is, x)
      PROVE  MapInv'
  BY <1>1, <1>7 DEF MS!SetTransform, MS!SetPolicy
<1>8. ASSUME NEW k \in DOMAIN FileRows, MS!OverrideRow(k)
      PROVE  MapInv'
  <2>1. mode' = mode
    BY <1>8 DEF MS!OverrideRow, MS!optVars
  <2>2. PICK r \in DOMAIN FileRows : MS!Statements[k].origIdx = r
    <3>1. k \in DOMAIN MS!Statements
      BY <1>8 DEF MS!OverrideRow
    <3>2. QED
      BY <3>1, StatementsAre
  <2>3. FileRows[r] \in [MS!Columns -> MS!Cells]
    BY DEF MS!MappingAssumption
  <2>4. overrides' = [overrides EXCEPT ![k] = IF @ = None THEN FileRows[r] ELSE @]
    BY <1>8, <2>2 DEF MS!OverrideRow
  <2>5. QED
    BY <2>1, <2>3, <2>4 DEF MapInv
<1>9. ASSUME NEW k \in DOMAIN FileRows, NEW i \in MS!Columns, NEW cell \in MS!Cells,
             MS!TypeOver(k, i, cell)
      PROVE  MapInv'
  <2>1. mode' = mode /\ overrides[k] # None
        /\ overrides' = [overrides EXCEPT ![k] = [overrides[k] EXCEPT ![i] = cell]]
    BY <1>9 DEF MS!TypeOver, MS!optVars
  <2>2. overrides[k] \in [MS!Columns -> MS!Cells]
    BY <2>1 DEF MapInv
  <2>3. PICK row \in [MS!Columns -> MS!Cells] : row = [overrides[k] EXCEPT ![i] = cell]
    BY <2>2
  <2>4. QED
    BY <2>1, <2>3 DEF MapInv
<1>10. ASSUME NEW ks, MS!DropOverrides(ks)
       PROVE  MapInv'
  BY <1>10 DEF MS!DropOverrides, MS!optVars, MapInv
<1>11. QED
  <2>1. CASE \/ MS!ApplySuggestions \/ MS!ToggleStrict \/ MS!ClearSettings \/ MS!ApplyToSelection
             \/ MS!InvertSelection \/ MS!Deselect \/ MS!JumpToUnmapped
    BY <1>3, <1>4, <2>1
  <2>2. CASE \/ \E i \in MS!Columns : MS!SetRule(i) \/ MS!ClickRow(i) \/ MS!ShiftClickRow(i)
             \/ \E i \in MS!Columns, t \in MS!Range(MapTargets) \cup {None} : MS!MapTo(i, t)
             \/ \E i \in MS!Columns \cup {0} : MS!SetFilter(i)
             \/ \E m \in MS!Modes : MS!SetMode(m)
    BY <1>2, <1>5, <1>6, <2>2
  <2>3. CASE \E is, x : MS!SetTransform(is, x) \/ MS!SetPolicy(is, x)
    BY <1>7, <2>3
  <2>4. CASE \/ \E k \in DOMAIN FileRows : MS!OverrideRow(k) \/ MS!DropOverrides({k})
             \/ MS!DropOverrides(DOMAIN FileRows)
             \/ \E k \in DOMAIN FileRows, i \in MS!Columns, cell \in MS!Cells :
                  MS!TypeOver(k, i, cell)
    BY <1>8, <1>9, <1>10, <2>4
  <2>5. CASE \E v : MS!ShowOnly(v) \/ MS!SelectAll(v)
    BY <1>5, <2>5
  <2>6. QED
    BY <2>1, <2>2, <2>3, <2>4, <2>5 DEF MS!Next

-----------------------------------------------------------------------------

\* Columns in order: each once, with the number of them before it.
LEMMA ColumnsInOrder ==
    ASSUME MS!MappingAssumption, NEW ns \in SUBSET MS!Columns
    PROVE  /\ MS!InOrder(ns) \in Seq(ns) /\ Len(MS!InOrder(ns)) = Cardinality(ns)
           /\ DOMAIN MS!InOrder(ns) = 1..Cardinality(ns) /\ Cardinality(ns) \in Nat
           /\ \A k \in DOMAIN MS!InOrder(ns) : MS!InOrder(ns)[k] \in ns
           /\ \A c \in ns : \E k \in DOMAIN MS!InOrder(ns) : MS!InOrder(ns)[k] = c
<1> DEFINE at == InOrder(ns)
           c == Cardinality(ns)
<1>1. PICK n \in Nat : MS!Columns = 1..n
  BY ColumnsAre
<1>2. at \in [1..c -> ns] /\ \A i \in ns : \E k \in 1..c : at[k] = i
  BY <1>1, InOrderIs
<1>3. c \in Nat
  BY <1>1, NumbersInOrder
<1> HIDE DEF at, c
<1>4. at \in Seq(ns) /\ Len(at) = c /\ DOMAIN at = 1..c
  BY <1>2, <1>3, EntriesMakeSeq
<1>5. MS!InOrder(ns) = at
  BY MapOrders DEF at
<1>6. QED
  BY <1>2, <1>3, <1>4, <1>5 DEF c

LEMMA MappedAre ==
    /\ MS!Mapped \in SUBSET MS!Columns /\ MS!KeyColumns \in SUBSET MS!Mapped
    /\ \A i \in MS!Mapped : mapping[i] # None
    /\ \A i \in MS!Columns : mapping[i] # None => i \in MS!Mapped
    /\ \A i \in MS!Mapped : i \in MS!KeyColumns <=> mapping[i] \in TargetKeys
BY DEF MS!Mapped, MS!KeyColumns

\* What is put in order for the statements.
LEMMA ListsAre ==
    ASSUME MS!MappingAssumption
    PROVE  /\ MS!Active \in Seq(MS!Mapped) /\ MS!DataColumns \in Seq(MS!Mapped)
           /\ MS!InOrder(MS!KeyColumns) \in Seq(MS!Mapped) /\ MS!KeysFirst \in Seq(MS!Mapped)
           /\ \A p \in DOMAIN MS!KeyNames : MS!KeyNames[p] \in TargetKeys
           /\ \E S : MS!KeyNames \in Seq(S)
<1>1. MS!Active \in Seq(MS!Mapped)
  BY MappedAre, ColumnsInOrder DEF MS!Active
<1>2. MS!InOrder(MS!KeyColumns) \in Seq(MS!Mapped) /\ MS!DataColumns \in Seq(MS!Mapped)
  <2>1. MS!KeyColumns \in SUBSET MS!Columns /\ MS!Mapped \ MS!KeyColumns \in SUBSET MS!Columns
    BY MappedAre
  <2>2. /\ MS!InOrder(MS!KeyColumns) \in Seq(MS!KeyColumns)
        /\ MS!DataColumns \in Seq(MS!Mapped \ MS!KeyColumns)
    BY <2>1, ColumnsInOrder DEF MS!DataColumns
  <2>3. QED
    BY <2>2, MappedAre
<1>3. MS!KeysFirst \in Seq(MS!Mapped)
  BY <1>2 DEF MS!KeysFirst
<1>4. /\ \A p \in DOMAIN MS!KeyNames : MS!KeyNames[p] \in TargetKeys
      /\ MS!KeyNames \in Seq(MS!Range(MapTargets))
  <2> DEFINE places == {p \in DOMAIN MapTargets : MapTargets[p] \in TargetKeys}
             S == MS!Range(MapTargets)
             t == MS!KeyNames
  <2>1. MapTargets \in Seq(S)
    BY DEF MS!MappingAssumption
  <2>2. t = Keeping(MapTargets, places)
    BY MapOrders DEF MS!KeyNames
  <2>3. places \in SUBSET (DOMAIN MapTargets) /\ \A p \in places : MapTargets[p] \in TargetKeys
    OBVIOUS
  <2> HIDE DEF places, S
  <2>4. /\ t \in Seq(S) /\ DOMAIN t = 1..Cardinality(places)
        /\ \A k \in 1..Cardinality(places) :
             /\ InOrder(places)[k] \in places
             /\ t[k] = MapTargets[InOrder(places)[k]]
    BY <2>1, <2>2, <2>3, KeepingIs
  <2>5. QED
    BY <2>3, <2>4 DEF S
<1>5. QED
  BY <1>1, <1>2, <1>3, <1>4

LEMMA NamesAre ==
    ASSUME NEW S, NEW s \in Seq(S)
    PROVE  /\ \E T : MS!Names(s) \in Seq(T)
           /\ Len(MS!Names(s)) = Len(s) /\ DOMAIN MS!Names(s) = DOMAIN s
           /\ \A p \in DOMAIN s : MS!Names(s)[p] = mapping[s[p]]
<1> DEFINE f == [p \in DOMAIN s |-> mapping[s[p]]]
           T == {mapping[s[p]] : p \in DOMAIN s}
<1>1. Len(s) \in Nat /\ DOMAIN s = 1..Len(s)
  OBVIOUS
<1>2. f \in [1..Len(s) -> T]
  BY <1>1
<1>3. MS!Names(s) = f /\ DOMAIN f = DOMAIN s /\ \A p \in DOMAIN s : f[p] = mapping[s[p]]
  BY DEF MS!Names
<1> HIDE DEF f, T
<1>4. f \in Seq(T) /\ Len(f) = Len(s)
  BY <1>1, <1>2, EntriesMakeSeq
<1>5. QED
  BY <1>3, <1>4

\* The least and the greatest of some numbers.
LEMMA EndsAre ==
    ASSUME NEW m \in Nat, NEW ns \in SUBSET (1..m), ns # {}
    PROVE  /\ MS!Min(ns) \in ns /\ \A n \in ns : MS!Min(ns) <= n
           /\ MS!Max(ns) \in ns /\ \A n \in ns : n <= MS!Max(ns)
<1> DEFINE at == InOrder(ns)
           c == Cardinality(ns)
<1>1. /\ at \in [1..c -> ns] /\ \A n \in ns : \E k \in 1..c : at[k] = n
      /\ \A k, l \in 1..c : k < l => at[k] < at[l]
  BY InOrderIs
<1>2. c \in Nat
  BY NumbersInOrder
<1> HIDE DEF at, c
<1>3. c > 0 /\ 1 \in 1..c /\ c \in 1..c
  <2>1. PICK n \in ns : TRUE
    OBVIOUS
  <2>2. PICK k \in 1..c : at[k] = n
    BY <1>1, <2>1
  <2>3. k \in Nat /\ 1 <= k /\ k <= c
    BY <1>2, <2>2
  <2>4. QED
    BY <1>2, <2>3
<1>4. \A k \in 1..c : /\ at[k] \in Nat /\ (k = 1 \/ at[1] < at[k])
                     /\ (k = c \/ at[k] < at[c])
  <2> SUFFICES ASSUME NEW k \in 1..c
               PROVE  /\ at[k] \in Nat /\ (k = 1 \/ at[1] < at[k])
                      /\ (k = c \/ at[k] < at[c])
    OBVIOUS
  <2>1. at[k] \in ns /\ (k = 1 \/ 1 < k) /\ (k = c \/ k < c)
    BY <1>1, <1>2
  <2>2. \A n \in ns : n \in Nat
    OBVIOUS
  <2>3. QED
    BY <1>1, <1>3, <2>1, <2>2
<1>5. /\ at[1] \in ns /\ \A n \in ns : at[1] <= n
      /\ at[c] \in ns /\ \A n \in ns : at[c] >= n
  <2>1. at[1] \in ns /\ at[c] \in ns
    BY <1>1, <1>3
  <2>2. ASSUME NEW n \in ns
        PROVE  at[1] <= n /\ at[c] >= n
    <3>1. PICK k \in 1..c : at[k] = n
      BY <1>1
    <3>2. at[k] \in Nat /\ at[1] \in Nat /\ at[c] \in Nat
      BY <1>3, <1>4
    <3>3. QED
      BY <1>4, <3>1, <3>2
  <2>3. QED
    BY <2>1, <2>2
<1>6. /\ \E x \in ns : \A y \in ns : x <= y
      /\ \E x \in ns : \A y \in ns : x >= y
  BY <1>5
<1>7. MS!Min(ns) \in ns /\ \A n \in ns : MS!Min(ns) <= n
  BY <1>6 DEF MS!Min
<1>8. MS!Max(ns) \in ns /\ \A n \in ns : MS!Max(ns) >= n
  BY <1>6 DEF MS!Max
<1>9. \A n \in ns : n \in Nat
  OBVIOUS
<1>10. QED
  BY <1>7, <1>8, <1>9

\* The first column mapped to a target, if there is one.
LEMMA FirstColumnIs ==
    ASSUME MS!MappingAssumption, NEW t, t # None
    PROVE  /\ MS!First(t) \in Nat /\ MS!First(t) # 0
           /\ MS!First(t) > Len(SameName) => \A i \in MS!Columns : mapping[i] # t
           /\ ~(MS!First(t) > Len(SameName)) =>
                MS!First(t) \in MS!Mapped /\ mapping[MS!First(t)] = t
<1>1. PICK n \in Nat : n = Len(SameName) /\ MS!Columns = 1..n
  BY ColumnsAre
<1> DEFINE ns == {i \in MS!Mapped : mapping[i] = t} \cup {n + 1}
<1>2. ns \in SUBSET (1..n + 1) /\ ns # {} /\ n + 1 \in Nat
  <2>1. n + 1 \in Nat /\ n + 1 \in 1..n + 1 /\ \A i \in 1..n : i \in 1..n + 1
    OBVIOUS
  <2>2. \A i \in MS!Mapped : i \in 1..n + 1
    BY <1>1, <2>1, MappedAre
  <2>3. QED
    BY <2>1, <2>2
<1>3. MS!First(t) = MS!Min(ns)
  BY <1>1 DEF MS!First
<1>4. MS!Min(ns) \in ns /\ \A i \in ns : MS!Min(ns) <= i
  <2> HIDE DEF ns
  <2>1. QED
    BY <1>2, EndsAre
<1>5. MS!First(t) \in ns /\ MS!First(t) \in 1..n + 1 /\ \A i \in ns : MS!First(t) <= i
  BY <1>2, <1>3, <1>4
<1>6. ASSUME MS!First(t) > n, NEW i \in MS!Columns
      PROVE  mapping[i] # t
  <2>1. mapping[i] = t => i \in ns
    BY MappedAre
  <2>2. i \in Nat /\ i <= n
    BY <1>1
  <2>3. QED
    BY <1>5, <1>6, <2>1, <2>2
<1>7. ~(MS!First(t) > n) => MS!First(t) \in MS!Mapped /\ mapping[MS!First(t)] = t
  <2>1. ~(n + 1 <= n)
    OBVIOUS
  <2>2. MS!First(t) # n + 1 => MS!First(t) \in MS!Mapped /\ mapping[MS!First(t)] = t
    BY <1>5
  <2>3. QED
    BY <1>5, <2>2
<1> HIDE DEF ns
<1>8. QED
  BY <1>1, <1>5, <1>6, <1>7

\* The columns that the text of an update names.
LEMMA UpdateNames ==
    ASSUME MS!MappingAssumption, mode = "update"
    PROVE  /\ MS!Bound = MS!Names(MS!DataColumns) \o MS!KeyNames
           /\ DOMAIN MS!Meant = DOMAIN MS!Bound
           /\ \A p \in DOMAIN MS!Bound :
                /\ MS!Bound[p] # None
                /\ MS!Meant[p] = IF MS!First(MS!Bound[p]) > Len(SameName) THEN 0
                                   ELSE MS!First(MS!Bound[p])
<1> DEFINE a == MS!Names(MS!DataColumns)
           b == MS!KeyNames
<1>1. MS!Bound = a \o b
  BY DEF MS!Bound
<1>2. MS!Meant = [p \in DOMAIN MS!Bound |->
                      IF MS!First(MS!Bound[p]) > Len(SameName) THEN 0 ELSE MS!First(MS!Bound[p])]
  BY DEF MS!Meant
<1>3. PICK S, T : /\ a \in Seq(S) /\ b \in Seq(T)
                  /\ \A p \in DOMAIN a : a[p] # None
                  /\ \A p \in DOMAIN b : b[p] # None
  <2>1. MS!DataColumns \in Seq(MS!Mapped) /\ (\E T : b \in Seq(T))
        /\ \A p \in DOMAIN b : b[p] \in TargetKeys
    BY ListsAre
  <2>2. (\E S : a \in Seq(S)) /\ DOMAIN a = DOMAIN MS!DataColumns
        /\ \A p \in DOMAIN a : a[p] = mapping[MS!DataColumns[p]]
    BY <2>1, NamesAre
  <2>3. \A p \in DOMAIN a : a[p] # None
    BY <2>1, <2>2, MappedAre
  <2>4. \A p \in DOMAIN b : b[p] # None
    BY <2>1 DEF MS!MappingAssumption
  <2>5. QED
    BY <2>1, <2>2, <2>3, <2>4
<1> HIDE DEF a, b
<1>4. \A p \in DOMAIN (a \o b) : (a \o b)[p] # None
  <2>1. /\ DOMAIN a = 1..Len(a) /\ DOMAIN b = 1..Len(b) /\ Len(a) \in Nat /\ Len(b) \in Nat
        /\ DOMAIN (a \o b) = 1..Len(a) + Len(b)
        /\ \A p \in 1..Len(a) + Len(b) :
             (a \o b)[p] = IF p <= Len(a) THEN a[p] ELSE b[p - Len(a)]
    BY <1>3
  <2>2. QED
    BY <1>3, <2>1
<1>5. QED
  BY <1>1, <1>2, <1>4 DEF a, b

\* Where a column goes is where the parameters are taken from.
LEMMA BoundAre ==
    ASSUME MS!MappingAssumption, mode # "update"
    PROVE  /\ MS!Meant = IF mode = "upsert" THEN MS!KeysFirst ELSE MS!Active
           /\ MS!Meant \in Seq(MS!Mapped)
           /\ DOMAIN MS!Bound = DOMAIN MS!Meant
           /\ \A p \in DOMAIN MS!Bound : MS!Bound[p] = mapping[MS!Meant[p]]
<1>1. MS!Meant = IF mode = "upsert" THEN MS!KeysFirst ELSE MS!Active
  BY DEF MS!Meant
<1>2. MS!Bound = MS!Names(MS!Meant)
  BY <1>1 DEF MS!Bound
<1>3. MS!Meant \in Seq(MS!Mapped)
  BY <1>1, ListsAre
<1>4. QED
  BY <1>1, <1>2, <1>3, NamesAre

LEMMA ParametersMatch ==
    ASSUME MS!MappingAssumption, NEW p \in DOMAIN MS!Bound
    PROVE  IF MS!Meant[p] = 0 THEN \A i \in MS!Columns : mapping[i] # MS!Bound[p]
           ELSE mapping[MS!Meant[p]] = MS!Bound[p] /\ MS!Meant[p] \in MS!Columns
<1>1. CASE mode = "update"
  BY <1>1, UpdateNames, FirstColumnIs, MappedAre
<1>2. CASE mode # "update"
  <2>1. mapping[MS!Meant[p]] = MS!Bound[p]
    BY <1>2, BoundAre
  <2>2. MS!Meant[p] \in MS!Mapped
    BY <1>2, BoundAre
  <2>3. MS!Meant[p] \in MS!Columns
    BY <2>2, MappedAre
  <2>4. MS!Meant[p] # 0
    BY <2>3, ColumnsAre
  <2>5. QED
    BY <2>1, <2>3, <2>4
<1>3. QED
  BY <1>1, <1>2

LEMMA OneColumnEach ==
    ASSUME MS!MappingAssumption, MS!OneEach, NEW i \in MS!Mapped, NEW j \in MS!Mapped,
           mapping[i] = mapping[j]
    PROVE  i = j
<1>1. i \in MS!Columns /\ j \in MS!Columns /\ mapping[i] # None /\ mapping[j] # None
  BY MappedAre
<1>2. i \in Nat /\ j \in Nat
  BY <1>1, ColumnsAre
<1>3. ~(j > i) /\ ~(i > j)
  BY <1>1 DEF MS!OneEach, MS!Shadowed
<1>4. QED
  BY <1>2, <1>3

\* The labels name the columns the parameters are taken from.
LEMMA LabelsMatch ==
    ASSUME MS!MappingAssumption, MS!OneEach, MS!KeysInOrder
    PROVE  MS!ParamOrder = MS!Meant
<1>1. CASE mode = "update"
  <2> DEFINE d == MS!DataColumns
             k == MS!InOrder(MS!KeyColumns)
             o == MS!ParamOrder
  <2>1. o = d \o k
    BY <1>1 DEF MS!ParamOrder
  <2>2. d \in Seq(MS!Mapped) /\ k \in Seq(MS!Mapped)
    BY ListsAre
  <2>3. MS!Bound = MS!Names(d) \o MS!Names(k)
    BY <1>1, UpdateNames DEF MS!KeysInOrder
  <2>4. /\ (\E S : MS!Names(d) \in Seq(S)) /\ Len(MS!Names(d)) = Len(d)
        /\ \A p \in DOMAIN d : MS!Names(d)[p] = mapping[d[p]]
        /\ (\E S : MS!Names(k) \in Seq(S)) /\ Len(MS!Names(k)) = Len(k)
        /\ \A p \in DOMAIN k : MS!Names(k)[p] = mapping[k[p]]
    BY <2>2, NamesAre
  <2> HIDE DEF d, k, o
  <2>5. /\ o \in Seq(MS!Mapped) /\ DOMAIN o = 1..Len(d) + Len(k)
        /\ Len(d) \in Nat /\ Len(k) \in Nat
        /\ \A p \in 1..Len(d) + Len(k) : o[p] = IF p <= Len(d) THEN d[p] ELSE k[p - Len(d)]
    BY <2>1, <2>2
  <2>6. /\ DOMAIN MS!Bound = 1..Len(d) + Len(k)
        /\ \A p \in 1..Len(d) + Len(k) :
             MS!Bound[p] = IF p <= Len(d) THEN MS!Names(d)[p] ELSE MS!Names(k)[p - Len(d)]
    BY <2>3, <2>4, <2>5
  <2>7. ASSUME NEW p \in DOMAIN o
        PROVE  MS!Meant[p] = o[p]
    <3>1. o[p] \in MS!Mapped
      BY <2>5
    <3>2. MS!Bound[p] = mapping[o[p]]
      <4>1. CASE p <= Len(d)
        <5>1. p \in DOMAIN d
          BY <2>2, <2>5, <4>1
        <5>2. QED
          BY <2>4, <2>5, <2>6, <4>1, <5>1
      <4>2. CASE ~(p <= Len(d))
        <5>1. p - Len(d) \in DOMAIN k
          BY <2>2, <2>5, <4>2
        <5>2. QED
          BY <2>4, <2>5, <2>6, <4>2, <5>1
      <4>3. QED
        BY <4>1, <4>2
    <3>3. MS!Bound[p] # None
      BY <3>1, <3>2, MappedAre
    <3>4. ~(MS!First(MS!Bound[p]) > Len(SameName))
      BY <3>1, <3>2, <3>3, FirstColumnIs, MappedAre
    <3>5. MS!First(MS!Bound[p]) \in MS!Mapped /\ mapping[MS!First(MS!Bound[p])] = mapping[o[p]]
      BY <3>2, <3>3, <3>4, FirstColumnIs
    <3>6. MS!First(MS!Bound[p]) = o[p]
      BY <3>1, <3>5, OneColumnEach
    <3>7. QED
      BY <1>1, <2>5, <2>6, <3>4, <3>6, UpdateNames
  <2>8. MS!Meant = [p \in DOMAIN MS!Bound |-> MS!Meant[p]]
    BY <1>1 DEF MS!Meant
  <2>9. o = [p \in DOMAIN o |-> o[p]]
    BY <2>5
  <2>10. QED
    BY <2>5, <2>6, <2>7, <2>8, <2>9 DEF o
<1>2. CASE mode = "upsert"
  <2>1. MS!Meant = MS!KeysFirst
    BY <1>2, BoundAre
  <2>2. CASE TargetKeys # {}
    BY <1>2, <2>1, <2>2 DEF MS!ParamOrder
  <2>3. CASE TargetKeys = {}
    <3>1. MS!KeyColumns = {} /\ MS!Mapped \ MS!KeyColumns = MS!Mapped
      BY <2>3 DEF MS!KeyColumns
    <3>2. MS!InOrder(MS!KeyColumns) = << >>
      <4>1. Cardinality({}) = 0
        BY FS_EmptySet
      <4>2. MS!KeyColumns \in SUBSET MS!Columns
        BY MappedAre
      <4>3. Len(MS!InOrder(MS!KeyColumns)) = 0 /\ MS!InOrder(MS!KeyColumns) \in Seq(MS!KeyColumns)
        BY <3>1, <4>1, <4>2, ColumnsInOrder
      <4>4. QED
        BY <4>3
    <3>3. MS!DataColumns = MS!Active
      BY <3>1 DEF MS!DataColumns, MS!Active
    <3>4. MS!KeysFirst = MS!Active
      <4>1. MS!KeysFirst = << >> \o MS!Active
        BY <3>2, <3>3 DEF MS!KeysFirst
      <4>2. MS!Active \in Seq(MS!Mapped)
        BY ListsAre
      <4>3. QED
        BY <4>1, <4>2
    <3>5. MS!ParamOrder = MS!Active
      BY <1>2, <2>3 DEF MS!ParamOrder
    <3>6. QED
      BY <2>1, <3>4, <3>5
  <2>4. QED
    BY <2>2, <2>3
<1>3. CASE mode # "update" /\ mode # "upsert"
  BY <1>3, BoundAre DEF MS!ParamOrder
<1>4. QED
  BY <1>1, <1>2, <1>3

\* The numbers of an interval in order: each at its own place.
LEMMA AllInOrder ==
    ASSUME NEW m \in Nat
    PROVE  Cardinality(1..m) = m /\ \A k \in 1..m : InOrder(1..m)[k] = k
<1>1. \A n \in Nat : Cardinality(1..n) = n
  <2> SUFFICES ASSUME NEW n \in Nat
               PROVE  Cardinality(1..n) = n
    OBVIOUS
  <2>1. 1 \in Int /\ n \in Int /\ (IF 1 > n THEN 0 ELSE n - 1 + 1) = n
    OBVIOUS
  <2>2. Cardinality(1..n) = IF 1 > n THEN 0 ELSE n - 1 + 1
    BY <2>1, FS_Interval
  <2>3. QED
    BY <2>1, <2>2
<1>2. ASSUME NEW k \in 1..m
      PROVE  InOrder(1..m)[k] = k
  <2>1. \A n \in 1..m : {i \in 1..m : i <= n} = 1..n /\ n \in Nat
    OBVIOUS
  <2>2. \A n \in 1..m : Cardinality({i \in 1..m : i <= n}) = n
    BY <1>1, <2>1
  <2>3. k \in 1..Cardinality(1..m)
    BY <1>1
  <2>4. InOrder(1..m)[k] = CHOOSE n \in 1..m : Cardinality({i \in 1..m : i <= n}) = k
    BY <2>3 DEF InOrder, Nth
  <2>5. (CHOOSE n \in 1..m : Cardinality({i \in 1..m : i <= n}) = k) = k
    BY <2>2
  <2>6. QED
    BY <2>4, <2>5
<1>3. QED
  BY <1>1, <1>2

\* With no gap before the last of them the columns are at their own places.
LEMMA NoGap ==
    ASSUME MS!MappingAssumption, \A i \in 1..MS!Max(MS!Mapped) : mapping[i] # None,
           NEW i \in MS!Mapped
    PROVE  i \in DOMAIN MS!Active /\ MS!Active[i] = i
<1>1. PICK n \in Nat : MS!Columns = 1..n
  BY ColumnsAre
<1> DEFINE m == MS!Max(MS!Mapped)
<1>2. MS!Mapped \in SUBSET (1..n) /\ MS!Mapped # {}
  BY <1>1, MappedAre
<1>3. m \in MS!Mapped /\ \A j \in MS!Mapped : j <= m
  BY <1>1, <1>2, EndsAre
<1>4. \A j \in 1..m : mapping[j] # None
  OBVIOUS
<1> HIDE DEF m
<1>5. m \in Nat /\ m <= n
  BY <1>1, <1>2, <1>3
<1>6. MS!Mapped = 1..m
  <2>1. ASSUME NEW j \in 1..m
        PROVE  j \in MS!Mapped
    <3>1. j \in MS!Columns
      BY <1>1, <1>5
    <3>2. QED
      BY <1>4, <3>1, MappedAre
  <2>2. ASSUME NEW j \in MS!Mapped
        PROVE  j \in 1..m
    <3>1. j \in 1..n /\ j <= m
      BY <1>2, <1>3
    <3>2. QED
      BY <1>5, <3>1
  <2>3. QED
    BY <2>1, <2>2
<1>7. MS!Active = InOrder(1..m)
  BY <1>6, MapOrders DEF MS!Active
<1>8. DOMAIN MS!Active = 1..m
  <2>1. DOMAIN InOrder(1..m) = 1..Cardinality(1..m)
    BY DEF InOrder
  <2>2. QED
    BY <1>5, <1>7, <2>1, AllInOrder
<1>9. QED
  BY <1>5, <1>6, <1>7, <1>8, AllInOrder

\* The check of the keys reads all of the key that is imported.
LEMMA KeysAreChecked ==
    ASSUME MS!MappingAssumption, mode = "insert"
    PROVE  {MS!Bound[p] : p \in MS!CheckedPlaces} = TargetKeys \cap MS!Range(MS!Bound)
<1>1. /\ MS!Meant = MS!Active /\ DOMAIN MS!Bound = DOMAIN MS!Active
      /\ \A p \in DOMAIN MS!Bound : MS!Bound[p] = mapping[MS!Active[p]]
  <2>1. MS!Meant = MS!Active
    BY BoundAre
  <2>2. QED
    BY <2>1, BoundAre
<1>2. \A p \in DOMAIN MS!Active : MS!Active[p] \in MS!Mapped
  BY ListsAre
<1>3. \A p \in DOMAIN MS!Active :
        p \in MS!CheckedPlaces <=> MS!Bound[p] \in TargetKeys
  BY <1>1, <1>2, MappedAre DEF MS!CheckedPlaces
<1>4. \A p \in MS!CheckedPlaces : p \in DOMAIN MS!Active
  BY DEF MS!CheckedPlaces
<1>5. MS!Range(MS!Bound) = {MS!Bound[p] : p \in DOMAIN MS!Active}
  BY <1>1, MapOrders
<1>6. QED
  BY <1>3, <1>4, <1>5

\* The rows shown after the import are looked up by their key.
LEMMA KeysArePreviewed ==
    ASSUME MS!MappingAssumption, mode \in MS!Modes, MS!KeysInOrder,
           MS!Gapless
    PROVE  [j \in DOMAIN MS!PreviewPlaces |-> MS!Bound[MS!PreviewPlaces[j]]] = MS!KeyNames
<1> DEFINE keys == MS!InOrder(MS!KeyColumns)
           at == MS!PreviewPlaces
<1>1. keys \in Seq(MS!Mapped)
  BY ListsAre
<1>2. /\ MS!KeyNames = MS!Names(keys) /\ MS!Names(keys) = [j \in DOMAIN keys |-> mapping[keys[j]]]
      /\ \A j \in DOMAIN keys : keys[j] \in MS!Mapped
  BY <1>1 DEF MS!KeysInOrder, MS!Names
<1>3. at = [j \in DOMAIN keys |->
              CASE mode = "insert" -> keys[j]
                [] mode = "update" -> Len(MS!DataColumns) + j
                [] OTHER -> j]
  BY DEF MS!PreviewPlaces
<1> HIDE DEF keys, at
<1>4. ASSUME NEW j \in DOMAIN keys
      PROVE  MS!Bound[at[j]] = mapping[keys[j]]
  <2>1. CASE mode = "insert"
    <3>1. at[j] = keys[j] /\ MS!Meant = MS!Active
      BY <1>3, <2>1, BoundAre
    <3>2. keys[j] \in DOMAIN MS!Active /\ MS!Active[keys[j]] = keys[j]
      BY <1>2, NoGap DEF MS!Gapless
    <3>3. QED
      BY <2>1, <3>1, <3>2, BoundAre
  <2>2. CASE mode = "update"
    <3> DEFINE a == MS!Names(MS!DataColumns)
               b == MS!KeyNames
    <3>1. MS!Bound = a \o b /\ at[j] = Len(MS!DataColumns) + j
      BY <1>3, <2>2, UpdateNames
    <3>2. MS!DataColumns \in Seq(MS!Mapped) /\ \E T : b \in Seq(T)
      BY ListsAre
    <3>3. (\E S : a \in Seq(S)) /\ Len(a) = Len(MS!DataColumns)
      BY <3>2, NamesAre
    <3>4. DOMAIN b = DOMAIN keys /\ b[j] = mapping[keys[j]]
      BY <1>2
    <3> HIDE DEF a, b
    <3>5. /\ Len(a) \in Nat /\ DOMAIN b = 1..Len(b) /\ Len(b) \in Nat
          /\ \A p \in 1..Len(a) + Len(b) :
               (a \o b)[p] = IF p <= Len(a) THEN a[p] ELSE b[p - Len(a)]
      BY <3>2, <3>3
    <3>6. j \in Nat /\ 1 <= j /\ j <= Len(b)
      BY <3>4, <3>5
    <3>7. /\ Len(a) + j \in 1..Len(a) + Len(b) /\ ~(Len(a) + j <= Len(a))
          /\ Len(a) + j - Len(a) = j
      BY <3>5, <3>6
    <3>8. (a \o b)[Len(a) + j] = b[j]
      <4> DEFINE p == Len(a) + j
      <4>1. (a \o b)[p] = IF p <= Len(a) THEN a[p] ELSE b[p - Len(a)]
        BY <3>5, <3>7
      <4>2. ~(p <= Len(a)) /\ p - Len(a) = j
        BY <3>5, <3>6
      <4>3. QED
        BY <4>1, <4>2
    <3>9. QED
      BY <3>1, <3>3, <3>4, <3>8
  <2>3. CASE mode = "upsert"
    <3>1. at[j] = j /\ MS!Meant = MS!KeysFirst
      BY <1>3, <2>3, BoundAre
    <3>2. MS!KeysFirst = keys \o MS!DataColumns /\ MS!DataColumns \in Seq(MS!Mapped)
      BY ListsAre DEF MS!KeysFirst, keys
    <3>3. j \in DOMAIN MS!KeysFirst /\ MS!KeysFirst[j] = keys[j]
      BY <1>1, <3>2
    <3>4. QED
      BY <2>3, <3>1, <3>3, BoundAre
  <2>4. QED
    BY <2>1, <2>2, <2>3 DEF MS!Modes
<1>5. DOMAIN at = DOMAIN keys
  BY <1>3
<1>6. [j \in DOMAIN at |-> MS!Bound[at[j]]] = [j \in DOMAIN keys |-> mapping[keys[j]]]
  BY <1>4, <1>5
<1>7. QED
  BY <1>2, <1>6 DEF at

\* Without a gap, and always in an insert, the values come from the columns
\* they are meant to come from.
LEMMA SourcesAre ==
    ASSUME MS!MappingAssumption
    PROVE  /\ DOMAIN MS!Sources = DOMAIN MS!Bound
           /\ \A p \in DOMAIN MS!Bound : MS!Sources[p] = 0 \/ MS!Sources[p] \in MS!Columns
           /\ mode = "insert" \/ MS!Gapless => MS!Sources = MS!Meant
<1>1. DOMAIN MS!Meant = DOMAIN MS!Bound
  BY UpdateNames, BoundAre
<1>2. \A p \in DOMAIN MS!Bound : MS!Meant[p] = 0 \/ MS!Meant[p] \in MS!Mapped
  <2>1. CASE mode = "update"
    BY <2>1, UpdateNames, FirstColumnIs
  <2>2. CASE mode # "update"
    BY <2>2, BoundAre
  <2>3. QED
    BY <2>1, <2>2
<1>3. \A p \in DOMAIN MS!Active : MS!Active[p] \in MS!Columns
  BY ListsAre, MappedAre
<1>4. 0 \notin DOMAIN MS!Active
  BY ListsAre
<1>5. MS!Meant = [p \in DOMAIN MS!Meant |-> MS!Meant[p]]
  <2>1. CASE mode = "update"
    BY <2>1 DEF MS!Meant
  <2>2. CASE mode # "update"
    BY <2>2, BoundAre
  <2>3. QED
    BY <2>1, <2>2
<1>6. CASE mode = "insert"
  <2>1. MS!Sources = MS!Meant
    BY <1>6 DEF MS!Sources
  <2>2. QED
    BY <1>1, <1>2, <2>1, MappedAre
<1>7. CASE mode # "insert"
  <2> DEFINE From(p) == IF MS!Meant[p] \in DOMAIN MS!Active THEN MS!Active[MS!Meant[p]] ELSE 0
  <2>1. MS!Sources = [p \in DOMAIN MS!Meant |-> From(p)]
    BY <1>7 DEF MS!Sources
  <2>2. ASSUME MS!Gapless, NEW p \in DOMAIN MS!Meant
        PROVE  From(p) = MS!Meant[p]
    <3>1. CASE MS!Meant[p] = 0
      BY <1>4, <3>1
    <3>2. CASE MS!Meant[p] \in MS!Mapped
      BY <2>2, <3>2, NoGap DEF MS!Gapless
    <3>3. QED
      BY <1>1, <1>2, <3>1, <3>2
  <2>3. \A p \in DOMAIN MS!Meant : From(p) = 0 \/ From(p) \in MS!Columns
    BY <1>3
  <2> HIDE DEF From
  <2>4. QED
    BY <1>1, <1>5, <1>7, <2>1, <2>2, <2>3
<1>8. QED
  BY <1>6, <1>7

LEMMA ParamsAreMeant == MS!MappingAssumption /\ MapInv => MS!ParamsMeanTheirColumns
<1> SUFFICES ASSUME MS!MappingAssumption, MapInv
             PROVE  MS!ParamsMeanTheirColumns
  OBVIOUS
<1>1. mode = "insert" \/ MS!Gapless =>
        \A p \in DOMAIN MS!Bound :
          IF MS!Sources[p] = 0 THEN \A i \in MS!Columns : mapping[i] # MS!Bound[p]
          ELSE mapping[MS!Sources[p]] = MS!Bound[p]
  BY SourcesAre, ParametersMatch
<1>2. mode = "insert" \/ MS!Gapless =>
        (MS!OneEach /\ MS!KeysInOrder => MS!ParamOrder = MS!Sources)
  BY SourcesAre, LabelsMatch
<1>3. mode = "insert" =>
        {MS!Bound[p] : p \in MS!CheckedPlaces} = TargetKeys \cap MS!Range(MS!Bound)
  BY KeysAreChecked
<1>4. MS!OneEach /\ MS!KeysInOrder /\ MS!Gapless
      => [j \in DOMAIN MS!PreviewPlaces |-> MS!Bound[MS!PreviewPlaces[j]]] = MS!KeyNames
  BY KeysArePreviewed DEF MapInv
<1>5. QED
  BY <1>1, <1>2, <1>3, <1>4 DEF MS!ParamsMeanTheirColumns

\* The cells of a row that is imported.
LEMMA CellsAre ==
    ASSUME MS!MappingAssumption, MapInv, NEW r \in DOMAIN FileRows, NEW i \in MS!Columns
    PROVE  MS!EffectiveRow(r)[i] \in MS!Cells
<1>1. FileRows[r] \in [MS!Columns -> MS!Cells]
  BY DEF MS!MappingAssumption
<1>2. overrides[r] # None => overrides[r] \in [MS!Columns -> MS!Cells]
  BY DEF MapInv
<1>3. MS!EffectiveRow(r) \in [MS!Columns -> MS!Cells]
  BY <1>1, <1>2 DEF MS!EffectiveRow
<1>4. QED
  BY <1>3

LEMMA SkippedStay ==
    ASSUME MS!MappingAssumption, MapInv, \A i \in trims : policy[i] # "skip-row",
           NEW r \in DOMAIN FileRows, MS!Kept(r)
    PROVE  "skip" \notin MS!Range(MS!Params(r))
<1> SUFFICES ASSUME NEW p \in DOMAIN MS!Sources
             PROVE  MS!Params(r)[p] # "skip"
  BY MapOrders DEF MS!Params
<1>1. CASE MS!Sources[p] = 0
  BY <1>1 DEF MS!Params
<1>2. CASE MS!Sources[p] # 0
  <2> DEFINE i == MS!Sources[p]
             cell == MS!EffectiveRow(r)[i]
  <2>1. MS!Params(r)[p] = MS!ConvertValue(cell, i)
    BY <1>2 DEF MS!Params
  <2>2. p \in DOMAIN MS!Bound
    BY SourcesAre
  <2>3. i \in MS!Columns
    BY <1>2, <2>2, SourcesAre
  <2>4. cell \in MS!Cells
    BY <2>3, CellsAre
  <2>5. policy[i] = "skip-row" => cell # "e" /\ i \notin trims
    BY <2>3 DEF MS!Kept
  <2> HIDE DEF i, cell
  <2>6. MS!ConvertValue(cell, i) # "skip"
    BY <2>4, <2>5 DEF MS!ConvertValue, MS!Cells
  <2>7. QED
    BY <2>1, <2>6
<1>3. QED
  BY <1>1, <1>2

LEMMA LeftOutStay == MS!MappingAssumption /\ MapInv => MS!LeftOutStaysOut
<1> SUFFICES ASSUME MS!MappingAssumption, MapInv, NEW k \in DOMAIN MS!Statements
             PROVE  LET row == MS!EffectiveRow(MS!Statements[k].origIdx) IN
                    /\ filter # 0 => row[filter] = "v"
                    /\ strict => \A i \in rules : row[i] \notin {"e", "z"}
                    /\ (\A i \in trims : policy[i] # "skip-row") =>
                          "skip" \notin MS!Range(MS!Statements[k].params)
  BY DEF MS!LeftOutStaysOut
<1>1. PICK r \in DOMAIN FileRows :
        MS!Kept(r) /\ MS!Statements[k] = [origIdx |-> r, params |-> MS!Params(r)]
  BY StatementsAre
<1>2. MS!Statements[k].origIdx = r /\ MS!Statements[k].params = MS!Params(r)
  BY <1>1
<1>3. /\ filter # 0 => MS!EffectiveRow(r)[filter] = "v"
      /\ strict => \A i \in rules : MS!EffectiveRow(r)[i] \notin {"e", "z"}
  BY <1>1 DEF MS!Kept, MS!Invalid
<1>4. (\A i \in trims : policy[i] # "skip-row") => "skip" \notin MS!Range(MS!Params(r))
  BY <1>1, SkippedStay
<1>5. QED
  BY <1>2, <1>3, <1>4

-----------------------------------------------------------------------------
(* The types of the machines.                                               *)

-----------------------------------------------------------------------------
(* The types of the result grid.                                           *)

ChosenTyped ==
    /\ sel \subseteq RG!RowsOf(result) /\ hidden \subseteq RG!ColumnsOf(result)
    /\ DOMAIN filters \subseteq RG!ColumnsOf(result)
    /\ sort = None \/ sort \in [col : RG!ColumnsOf(result), dir : {"asc", "desc"}]

PaneTyped == mode \in RG!Modes /\ limit \in Nat /\ limit >= Window /\ steps \in 0..GridSteps

GridTyped == ChosenTyped /\ PaneTyped

LEMMA GridStartsTyped == RG!GridAssumption /\ RG!Init => GridTyped
<1> SUFFICES ASSUME RG!GridAssumption, RG!Init
             PROVE  GridTyped
  OBVIOUS
<1>1. ChosenTyped
  <2>1. sel = {} /\ hidden = {} /\ sort = None /\ filters = RG!NoFilters
    BY DEF RG!Init
  <2>2. DOMAIN filters = {}
    BY <2>1 DEF RG!NoFilters
  <2>3. QED
    BY <2>1, <2>2 DEF ChosenTyped
<1>2. PaneTyped
  <2>1. mode = "table" /\ limit = Window /\ steps = 0
    BY DEF RG!Init
  <2>2. mode \in RG!Modes
    BY <2>1 DEF RG!Modes
  <2>3. limit \in Nat /\ limit >= Window /\ steps \in 0..GridSteps
    <3>1. Window \in Nat /\ GridSteps \in Nat
      BY DEF RG!GridAssumption
    <3>2. QED
      BY <2>1, <3>1
  <2>4. QED
    BY <2>2, <2>3 DEF PaneTyped
<1>3. QED
  BY <1>1, <1>2 DEF GridTyped

\* The last column, and how many rows there are to scroll to.
LEMMA LastColumn ==
    ASSUME RG!GridAssumption, result \in RG!Results, RG!ColumnsOf(result) # {}
    PROVE  RG!Max(RG!ColumnsOf(result)) \in RG!ColumnsOf(result)
<1> DEFINE n == Data[result].width
<1>1. result # None /\ n \in Nat /\ RG!ColumnsOf(result) = 1..n
  BY DEF RG!GridAssumption, RG!ColumnsOf
<1> HIDE DEF n
<1>2. n \in 1..n /\ \A y \in 1..n : n >= y
  BY <1>1
<1>3. RG!Max(1..n) = CHOOSE x \in 1..n : \A y \in 1..n : x >= y
  BY DEF RG!Max
<1>4. QED
  BY <1>1, <1>2, <1>3

LEMMA DisplayedRows ==
    ASSUME RG!GridAssumption, GridInv
    PROVE  Len(RG!Displayed(RG!view)) \in Nat
<1>1. PICK ns, prior : ns \in SUBSET RG!RowsOf(result) /\ RG!Displayed(RG!view) = Ranked(ns, prior)
  <2>1. RG!view.result = result
    BY DEF RG!view
  <2>2. QED
    BY <2>1, GridOrders DEF RG!Displayed
<1>2. Cardinality(ns) \in Nat
  <2>1. result \in RG!Results \cup {None}
    BY DEF GridInv
  <2>2. IsFiniteSet(RG!RowsOf(result))
    BY <2>1, RowsAre
  <2>3. IsFiniteSet(ns)
    BY <1>1, <2>2, FS_Subset
  <2>4. QED
    BY <2>3, FS_CardinalityType
<1> DEFINE f == Ranked(ns, prior)
<1>3. DOMAIN f = 1..Cardinality(ns) /\ f \in [1..Cardinality(ns) -> ns \cup {f[k] : k \in DOMAIN f}]
  <2> DEFINE Ranks(k) == CHOOSE n \in ns : Cardinality({i \in ns : <<i, n>> \in prior}) = k - 1
  <2>1. f = [k \in 1..Cardinality(ns) |-> Ranks(k)]
    BY DEF Ranked
  <2> HIDE DEF Ranks
  <2>2. QED
    BY <2>1
<1> HIDE DEF f
<1>4. Len(f) = Cardinality(ns)
  BY <1>2, <1>3, EntriesMakeSeq
<1>5. QED
  BY <1>1, <1>2, <1>4 DEF f

LEMMA ScrollIsTyped ==
    ASSUME RG!GridAssumption, GridInv, PaneTyped, RG!Scroll
    PROVE  limit' \in Nat /\ limit' >= Window
<1> DEFINE n == Len(RG!Displayed(RG!view))
           a == limit + Window
<1>1. n \in Nat
  BY DisplayedRows
<1>2. limit < n /\ limit' = RG!Min({a, n})
  BY DEF RG!Scroll
<1>3. limit \in Nat /\ Window \in Nat /\ limit >= Window /\ a = limit + Window
  BY DEF PaneTyped, RG!GridAssumption
<1> HIDE DEF n, a
<1>4. a \in Nat /\ a >= Window /\ n >= Window
  BY <1>1, <1>2, <1>3
<1>5. RG!Min({a, n}) = CHOOSE x \in {a, n} : \A y \in {a, n} : x =< y
  BY DEF RG!Min
<1>6. \E x \in {a, n} : \A y \in {a, n} : x =< y
  BY <1>1, <1>4
<1>7. limit' \in {a, n}
  BY <1>2, <1>5, <1>6
<1>8. QED
  BY <1>1, <1>4, <1>7

\* A step counts at most to its bound, and leaves the window or starts it again.
LEMMA ActsAreTyped ==
    ASSUME RG!GridAssumption, PaneTyped, RG!Acts \/ steps' = steps,
           mode' \in RG!Modes, limit' \in {limit, Window}
    PROVE  PaneTyped'
<1>1. steps' \in 0..GridSteps
  BY DEF RG!Acts, PaneTyped, RG!GridAssumption
<1>2. limit' \in Nat /\ limit' >= Window
  BY DEF PaneTyped, RG!GridAssumption
<1>3. QED
  BY <1>1, <1>2 DEF PaneTyped

LEMMA PaneIsTyped ==
    ASSUME RG!GridAssumption, GridInv, PaneTyped, RG!Next
    PROVE  PaneTyped'
<1>0. mode \in RG!Modes /\ {"table", "chart"} \subseteq RG!Modes
  BY DEF PaneTyped, RG!Modes
<1>1. ASSUME NEW r, RG!NewResult(r)
      PROVE  PaneTyped'
  BY <1>0, <1>1, ActsAreTyped DEF RG!NewResult
<1>2. ASSUME NEW keep, RG!Acts, RG!Edits(keep)
      PROVE  PaneTyped'
  BY <1>0, <1>2, ActsAreTyped DEF RG!Edits, RG!Rewind
<1>3. ASSUME NEW c, RG!OnSort(c) \/ RG!ToggleColumn(c) \/ \E f : RG!SetFilter(c, f)
      PROVE  PaneTyped'
  BY <1>2, <1>3 DEF RG!OnSort, RG!ToggleColumn, RG!SetFilter
<1>4. ASSUME NEW i, NEW b, RG!ToggleRow(i, b)
      PROVE  PaneTyped'
  BY <1>0, <1>4, ActsAreTyped DEF RG!ToggleRow
<1>5. ASSUME NEW i, NEW c, RG!OpenMenu(i, c)
      PROVE  PaneTyped'
  BY <1>0, <1>5, ActsAreTyped DEF RG!OpenMenu
<1>6. CASE RG!ClearFilters \/ RG!ShowAllColumns \/ RG!HideAllColumns \/ RG!ClearSelection
  BY <1>2, <1>6 DEF RG!ClearFilters, RG!ShowAllColumns, RG!HideAllColumns, RG!ClearSelection
<1>7. CASE RG!Scroll
  <2>1. limit' \in Nat /\ limit' >= Window
    BY <1>7, ScrollIsTyped
  <2>2. mode' = mode /\ steps' = steps
    BY <1>7 DEF RG!Scroll
  <2>3. QED
    BY <2>1, <2>2 DEF PaneTyped
<1>8. ASSUME NEW keep, RG!FromMenu(keep)
      PROVE  PaneTyped'
  BY <1>0, <1>8, ActsAreTyped DEF RG!FromMenu, RG!Rewind
<1>9. CASE RG!MenuToggleColumn \/ RG!MenuFilter \/ \E d : RG!MenuSort(d)
  BY <1>8, <1>9 DEF RG!MenuToggleColumn, RG!MenuFilter, RG!MenuSort
<1>10. CASE RG!ToggleInspector \/ \E m \in RG!Modes : RG!SetMode(m) \/ RG!PaletteMode(m)
  <2>1. mode' \in RG!Modes /\ RG!ChangesView
    BY <1>0, <1>10 DEF RG!ToggleInspector, RG!SetMode, RG!PaletteMode
  <2>2. QED
    BY <2>1, ActsAreTyped DEF RG!ChangesView
<1>11. CASE RG!SetChart \/ RG!Type
  BY <1>0, <1>11, ActsAreTyped DEF RG!SetChart, RG!Type
<1>12. QED
  BY <1>1, <1>3, <1>4, <1>5, <1>6, <1>7, <1>9, <1>10, <1>11 DEF RG!Next

LEMMA ChosenIsTyped ==
    ASSUME RG!GridAssumption, GridInv, ChosenTyped, RG!Next
    PROVE  ChosenTyped'
<1>1. ASSUME NEW r, RG!NewResult(r)
      PROVE  ChosenTyped'
  <2>1. DOMAIN RG!NoFilters = {}
    BY DEF RG!NoFilters
  <2>2. /\ result' = r /\ sort' = None /\ filters' = RG!NoFilters /\ sel' = {}
        /\ hidden' = hidden \cap RG!ColumnsOf(r)
    BY <1>1 DEF RG!NewResult, RG!Effect
  <2>3. QED
    BY <2>1, <2>2 DEF ChosenTyped
<1>2. ASSUME NEW c, RG!OnSort(c)
      PROVE  ChosenTyped'
  <2>1. c \in RG!ColumnsOf(result)
    BY <1>2 DEF RG!OnSort, RG!Visible, RG!view
  <2>2. result' = result /\ filters' = filters /\ hidden' = hidden /\ sel' = sel
    BY <1>2 DEF RG!OnSort, RG!Edits
  <2>3. sort' = None \/ sort' \in [col : RG!ColumnsOf(result), dir : {"asc", "desc"}]
    BY <1>2, <2>1 DEF RG!OnSort, ChosenTyped
  <2>4. QED
    BY <2>2, <2>3 DEF ChosenTyped
<1>3. ASSUME NEW c, NEW f, RG!SetFilter(c, f)
      PROVE  ChosenTyped'
  <2>1. c \in RG!ColumnsOf(result)
    BY <1>3 DEF RG!SetFilter, RG!Visible, RG!view
  <2>2. result' = result /\ sort' = sort /\ hidden' = hidden /\ sel' = sel
    BY <1>3 DEF RG!SetFilter, RG!Edits
  <2>3. DOMAIN filters' \subseteq (DOMAIN filters) \cup {c}
    BY <1>3 DEF RG!SetFilter
  <2>4. QED
    BY <2>1, <2>2, <2>3 DEF ChosenTyped
<1>4. ASSUME NEW c, RG!ToggleColumn(c)
      PROVE  ChosenTyped'
  BY <1>4 DEF RG!ToggleColumn, RG!SymDiff, RG!Edits, ChosenTyped
<1>5. ASSUME NEW i \in RG!RowsOf(result), NEW b, RG!ToggleRow(i, b)
      PROVE  ChosenTyped'
  <2>1. UNCHANGED <<result, sort, filters, hidden>> /\ sel' \subseteq sel \cup {i}
    BY <1>5 DEF RG!ToggleRow, RG!SymDiff
  <2>2. QED
    BY <2>1 DEF ChosenTyped
<1>6. CASE RG!ClearFilters \/ RG!ShowAllColumns \/ RG!ClearSelection
  <2>1. DOMAIN RG!NoFilters = {}
    BY DEF RG!NoFilters
  <2>2. QED
    BY <1>6, <2>1 DEF RG!ClearFilters, RG!ShowAllColumns, RG!ClearSelection, RG!Edits, ChosenTyped
<1>7. CASE RG!HideAllColumns
  <2>1. RG!ColumnsOf(result) # {} /\ hidden' = {RG!Max(RG!ColumnsOf(result))}
        /\ UNCHANGED <<result, sort, filters, sel>>
    BY <1>7 DEF RG!HideAllColumns, RG!Edits
  <2>2. result \in RG!Results
    BY <2>1 DEF RG!ColumnsOf, GridInv
  <2>3. hidden' \subseteq RG!ColumnsOf(result)
    BY <2>1, <2>2, LastColumn
  <2>4. QED
    BY <2>1, <2>3 DEF ChosenTyped
<1>8. CASE RG!MenuToggleColumn \/ RG!MenuFilter \/ \E d \in {"asc", "desc"} : RG!MenuSort(d)
  <2>1. RG!Target # None /\ result' = result /\ sel' = sel
    BY <1>8 DEF RG!MenuToggleColumn, RG!MenuFilter, RG!MenuSort, RG!FromMenu
  <2>2. RG!Target.col \in RG!ColumnsOf(result)
    BY <2>1 DEF RG!Target
  <2>3. CASE RG!MenuToggleColumn
    BY <2>1, <2>2, <2>3 DEF RG!MenuToggleColumn, RG!FromMenu, RG!SymDiff, ChosenTyped
  <2>4. CASE RG!MenuFilter
    <3>1. DOMAIN filters' \subseteq (DOMAIN filters) \cup {RG!Target.col}
      BY <2>4 DEF RG!MenuFilter
    <3>2. sort' = sort /\ hidden' = hidden
      BY <2>4 DEF RG!MenuFilter, RG!FromMenu
    <3>3. QED
      BY <2>1, <2>2, <3>1, <3>2 DEF ChosenTyped
  <2>5. CASE \E d \in {"asc", "desc"} : RG!MenuSort(d)
    <3>1. sort' \in [col : RG!ColumnsOf(result), dir : {"asc", "desc"}]
      BY <2>2, <2>5 DEF RG!MenuSort
    <3>2. filters' = filters /\ hidden' = hidden
      BY <2>5 DEF RG!MenuSort, RG!FromMenu
    <3>3. QED
      BY <2>1, <3>1, <3>2 DEF ChosenTyped
  <2>6. QED
    BY <1>8, <2>3, <2>4, <2>5
<1>9. CASE \/ RG!Scroll \/ RG!ToggleInspector \/ RG!SetChart \/ RG!Type
           \/ \E m : RG!SetMode(m) \/ RG!PaletteMode(m)
           \/ \E i, c : RG!OpenMenu(i, c)
  <2>1. UNCHANGED <<result, sort, filters, hidden, sel>>
    BY <1>9 DEF RG!Scroll, RG!ToggleInspector, RG!SetChart, RG!Type, RG!SetMode,
                RG!PaletteMode, RG!ChangesView, RG!OpenMenu, RG!viewVars
  <2>2. QED
    BY <2>1 DEF ChosenTyped
<1>10. QED
  BY <1>1, <1>2, <1>3, <1>4, <1>5, <1>6, <1>7, <1>8, <1>9 DEF RG!Next

LEMMA GridIsTyped ==
    ASSUME RG!GridAssumption, GridInv, GridTyped, [RG!Next]_(RG!gridVars)
    PROVE  GridTyped'
<1>1. CASE RG!Next
  BY <1>1, PaneIsTyped, ChosenIsTyped DEF GridTyped
<1>2. CASE UNCHANGED RG!gridVars
  BY <1>2 DEF RG!gridVars, GridTyped, ChosenTyped, PaneTyped
<1>3. QED
  BY <1>1, <1>2

LEMMA GridTypes == GridInv /\ GridTyped => RG!TypeOK
BY DEF GridInv, GridTyped, ChosenTyped, PaneTyped, RG!TypeOK

-----------------------------------------------------------------------------
(* The types of the query log.                                             *)

LogTyped ==
    /\ Len(log) <= MaxTotal /\ conn \in Conns \cup {None} /\ least \in Nat /\ key \in {"ts", "ms"}

LEMMA LogStartsTyped == QL!LogAssumption /\ QL!Init => LogTyped
<1> SUFFICES ASSUME QL!LogAssumption, QL!Init
             PROVE  LogTyped
  OBVIOUS
<1>1. log = << >> /\ conn = None /\ least = 0 /\ key = "ts" /\ MaxTotal \in Nat
  BY DEF QL!Init, QL!LogAssumption
<1>2. Len(log) = 0
  BY <1>1
<1>3. QED
  BY <1>1, <1>2 DEF LogTyped

LEMMA LogIsTyped ==
    ASSUME QL!LogAssumption, LogInv, LogTyped, [QL!Next]_(QL!vars)
    PROVE  LogTyped'
<1>1. ASSUME NEW x \in LogTexts, NEW c \in Conns, NEW d \in Durations, QL!Run(x, c, d)
      PROVE  LogTyped'
  <2> DEFINE e == [text |-> x, conn |-> c, ms |-> d, ts |-> runs']
             s == <<e>> \o log
             t == QL!Capped(s)
  <2>1. /\ log' = QL!FirstOf(t, MaxTotal) /\ runs' = runs + 1 /\ runs \in Nat
        /\ conn' = conn /\ least' = least /\ key' = key
    BY <1>1 DEF QL!Run, QL!Added, LogInv
  <2>2. e \in QL!Entry
    BY <2>1 DEF QL!Entry
  <2> HIDE DEF e
  <2>3. s \in Seq(QL!Entry)
    BY <2>2, WithFirst DEF LogInv
  <2> HIDE DEF s
  <2>4. t = Keeping(s, Fits(s)) /\ Fits(s) \in SUBSET (DOMAIN s)
    BY CappedIs DEF Fits
  <2>5. t \in Seq(QL!Entry)
    BY <2>3, <2>4, KeepingIs
  <2> HIDE DEF t
  <2>6. MaxTotal \in Nat
    BY DEF QL!LogAssumption
  <2>7. Len(log') <= MaxTotal
    BY <2>1, <2>5, <2>6, Front DEF QL!FirstOf
  <2>8. QED
    BY <2>1, <2>7 DEF LogTyped
<1>2. CASE QL!Clear
  <2>1. log' = << >> /\ conn' = conn /\ least' = least /\ key' = key
    BY <1>2 DEF QL!Clear
  <2>2. Len(log') = 0 /\ MaxTotal \in Nat
    BY <2>1 DEF QL!LogAssumption
  <2>3. QED
    BY <2>1, <2>2 DEF LogTyped
<1>3. CASE \/ \E c \in Conns \cup {None} : QL!FilterConn(c)
           \/ \E d \in Durations : QL!FilterLeast(d)
           \/ \E k \in {"ts", "ms"} : QL!ToggleSort(k)
  BY <1>3 DEF QL!FilterConn, QL!FilterLeast, QL!ToggleSort, QL!LogAssumption, LogTyped
<1>4. CASE UNCHANGED QL!vars
  BY <1>4 DEF QL!vars, LogTyped
<1>5. QED
  BY <1>1, <1>2, <1>3, <1>4 DEF QL!Next

LEMMA LogTypes == LogInv /\ LogTyped => QL!TypeOK
<1> SUFFICES ASSUME LogInv, LogTyped
             PROVE  QL!TypeOK
  OBVIOUS
<1>1. log \in Seq(QL!Entry) /\ desc \in BOOLEAN
  BY DEF LogInv
<1>2. QED
  BY <1>1 DEF LogTyped, QL!TypeOK

-----------------------------------------------------------------------------
(* The types of the store of the presets.                                  *)

AskTyped ==
    /\ now \in 0..MaxTime
    /\ asked # None => asked \in [idx : 1..MaxTombstones, key : Keys]
    /\ results \in [Keys -> PS!Verdicts] /\ auditing \subseteq Keys

LEMMA AskStartsTyped == PS!StoreAssumption /\ PS!Init => AskTyped
BY DEF PS!StoreAssumption, PS!Init, PS!Verdicts, AskTyped

LEMMA AskIsTyped ==
    ASSUME PS!StoreAssumption, PresetsInv, AskTyped, [PS!Next]_(PS!vars)
    PROVE  AskTyped'
<1>0. now' \in 0..MaxTime
  <2>1. now' = now \/ (now < MaxTime /\ now' = now + 1)
    BY DEF PS!Next, PS!Tick, PS!vars
  <2>2. QED
    BY <2>1 DEF AskTyped, PS!StoreAssumption
<1>1. CASE \/ PS!ClearAndReset \/ PS!DeleteOwn \/ PS!UndoDelete \/ PS!BarExpires \/ PS!PurgeAll
           \/ \E v \in Versions : PS!SavePreset(v)
           \/ \E k \in Keys : PS!ChooseTable(k)
           \/ \E i \in 1..MaxSnapshots : PS!RestoreSnapshot(i)
           \/ \E i \in 1..MaxTombstones : PS!RestoreFree(i) \/ PS!Purge(i)
  <2>1. UNCHANGED <<asked, results, auditing>>
    BY <1>1 DEF PS!ClearAndReset, PS!DeleteOwn, PS!UndoDelete, PS!BarExpires, PS!PurgeAll,
                PS!SavePreset, PS!ChooseTable, PS!RestoreSnapshot, PS!RestoreFree, PS!Purge,
                PS!RestoreTombstone
  <2>2. QED
    BY <1>0, <2>1 DEF AskTyped
<1>2. CASE PS!RunAudit \/ PS!AuditAnswer
  BY <1>0, <1>2 DEF PS!RunAudit, PS!AuditAnswer, PS!Verdicts, AskTyped
<1>3. CASE PS!CleanupDead \/ PS!ClearCache \/ \E k \in Keys : PS!DeleteListed(k)
  BY <1>0, <1>3 DEF PS!CleanupDead, PS!ClearCache, PS!DeleteListed, PS!Verdicts, AskTyped
<1>4. ASSUME NEW i \in 1..MaxTombstones, PS!AskRestore(i)
      PROVE  AskTyped'
  <2>1. i \in DOMAIN bin /\ bin \in Seq(PS!Tombstone)
    BY <1>4 DEF PS!AskRestore, PresetsInv, PresetsTyped
  <2>2. bin[i] \in PS!Tombstone
    BY <2>1
  <2>3. bin[i].key \in Keys
    BY <2>2 DEF PS!Tombstone
  <2>4. asked' = [idx |-> i, key |-> bin[i].key] /\ results' = results /\ auditing' = auditing
    BY <1>4 DEF PS!AskRestore
  <2>5. QED
    BY <1>0, <2>3, <2>4 DEF AskTyped
<1>5. CASE PS!DismissRestore \/ \E i \in 1..MaxTombstones : PS!ConfirmRestore(i)
  <2>1. asked' = None /\ results' = results /\ auditing' = auditing
    BY <1>5 DEF PS!DismissRestore, PS!ConfirmRestore, PS!RestoreTombstone
  <2>2. QED
    BY <1>0, <2>1 DEF AskTyped
<1>6. CASE PS!Tick \/ UNCHANGED PS!vars
  BY <1>0, <1>6 DEF PS!Tick, PS!vars, AskTyped
<1>7. QED
  BY <1>1, <1>2, <1>3, <1>4, <1>5, <1>6 DEF PS!Next, PS!Step

LEMMA PresetTypes == PresetsInv /\ AskTyped => PS!TypeOK
<1> SUFFICES ASSUME PresetsInv, AskTyped
             PROVE  PS!TypeOK
  OBVIOUS
<1>1. \A i \in DOMAIN bin : bin[i] \in PS!Tombstone
  BY DEF PresetsInv, PresetsTyped
<1>2. \A k \in Keys : snaps[k] \in Seq(PS!Saved)
  BY DEF PresetsInv, PresetsTyped
<1>3. QED
  BY <1>1, <1>2 DEF PresetsInv, PresetsTyped, Limited, AskTyped, PS!TypeOK

-----------------------------------------------------------------------------
(* The types of the table editor: an update in the queue has a cell.        *)

HasCells(q) == \A i \in DOMAIN q : q[i].type = "update" => DOMAIN q[i].cells # {}

LEMMA KeptHaveCells ==
    ASSUME NEW q, QueueOk(q), HasCells(q), NEW places \in SUBSET (DOMAIN q)
    PROVE  HasCells(TE!Keeping(q, places))
<1>1. \A k \in DOMAIN TE!Keeping(q, places) : \E i \in places : TE!Keeping(q, places)[k] = q[i]
  BY KeptOk
<1>2. QED
  BY <1>1 DEF HasCells

LEMMA PutHasCells ==
    ASSUME NEW q, QueueOk(q), HasCells(q), NEW ch, ch.type # "update"
    PROVE  HasCells(TE!Put(q, ch))
<1> DEFINE places == {i \in DOMAIN q : ~TE!Is(q[i], ch.row, ch.type)}
           some == TE!Keeping(q, places)
<1>1. TE!Put(q, ch) = Append(some, ch)
  BY DEF TE!Put, TE!Without
<1>2. places \in SUBSET (DOMAIN q)
  OBVIOUS
<1> HIDE DEF places
<1>3. some \in Seq(Edit) /\ HasCells(some)
  BY <1>2, KeptOk, KeptHaveCells DEF QueueOk
<1> HIDE DEF some
<1>4. \A i \in DOMAIN Append(some, ch) :
        Append(some, ch)[i] = ch \/ (i \in DOMAIN some /\ Append(some, ch)[i] = some[i])
  BY <1>3
<1>5. QED
  BY <1>1, <1>3, <1>4 DEF HasCells

\* The cells of one change are set; the others have theirs.
LEMMA SetHasCells ==
    ASSUME NEW q, QueueOk(q), NEW i \in DOMAIN q, NEW cells,
           \A j \in DOMAIN q : j # i /\ q[j].type = "update" => DOMAIN q[j].cells # {}
    PROVE  HasCells(TE!SetCells(q, i, cells))
<1>0. q \in Seq(Edit) /\ q[i] \in Edit
  BY DEF QueueOk
<1>1. CASE q[i].type = "update" /\ DOMAIN cells = {}
  <2>1. TE!SetCells(q, i, cells) = TE!RemoveAt(q, i)
    BY <1>1 DEF TE!SetCells
  <2>2. \A j \in DOMAIN TE!RemoveAt(q, i) :
          Was(i, j) \in DOMAIN q /\ Was(i, j) # i /\ TE!RemoveAt(q, i)[j] = q[Was(i, j)]
    BY <1>0, RemovedOne
  <2>3. QED
    BY <2>1, <2>2 DEF HasCells
<1>2. CASE ~(q[i].type = "update" /\ DOMAIN cells = {})
  <2> DEFINE ch == [q[i] EXCEPT !.cells = cells]
             r == [q EXCEPT ![i] = ch]
  <2>1. TE!SetCells(q, i, cells) = r
    BY <1>2 DEF TE!SetCells
  <2>2. ch.type = q[i].type /\ ch.cells = cells
    BY <1>0 DEF Edit
  <2> HIDE DEF ch
  <2>3. DOMAIN r = DOMAIN q /\ r[i] = ch /\ \A j \in DOMAIN q : j # i => r[j] = q[j]
    BY <1>0
  <2> HIDE DEF r
  <2>4. ASSUME NEW j \in DOMAIN r, r[j].type = "update"
        PROVE  DOMAIN r[j].cells # {}
    <3>1. CASE j = i
      BY <1>2, <2>2, <2>3, <2>4, <3>1
    <3>2. CASE j # i
      BY <2>3, <2>4, <3>2
    <3>3. QED
      BY <3>1, <3>2
  <2>5. QED
    BY <2>1, <2>4 DEF HasCells
<1>3. QED
  BY <1>1, <1>2

LEMMA NoCellsNeeded == HasCells(<< >>)
BY DEF HasCells

LEMMA EditHasCells ==
    ASSUME QueueOk(queue), HasCells(queue),
           NEW r \in TableRows, NEW c \in TableColumns, NEW v \in TableCells, TE!EditCell(r, c, v)
    PROVE  HasCells(queue')
<1> DEFINE ch == TE!Change(r, "update", << >>)
           q == IF TE!Has(queue, r, "update") THEN queue ELSE Append(queue, ch)
           i == TE!At(q, r, "update")
           cells == IF v = result.rows[r][c] THEN TE!Drop(q[i].cells, c) ELSE TE!With(q[i].cells, c, v)
<1>1. queue' = TE!SetCells(q, i, cells)
  BY DEF TE!EditCell, TE!Queued
<1> HIDE DEF cells
<1>2. ch \in Edit /\ ch.row = r /\ ch.type = "update"
  BY PartialCells DEF TE!Change, Edit
<1> HIDE DEF ch
<1>3. CASE TE!Has(queue, r, "update")
  <2>1. q = queue
    BY <1>3
  <2> HIDE DEF q
  <2>2. i \in DOMAIN q
    BY <1>3, <2>1, FoundAt
  <2> HIDE DEF i
  <2>3. \A j \in DOMAIN q : j # i /\ q[j].type = "update" => DOMAIN q[j].cells # {}
    BY <2>1 DEF HasCells
  <2>4. QED
    BY <1>1, <2>1, <2>2, <2>3, SetHasCells
<1>4. CASE ~TE!Has(queue, r, "update")
  <2>1. q = Append(queue, ch) /\ queue \in Seq(Edit)
    BY <1>4 DEF QueueOk
  <2> HIDE DEF q
  <2>2. QueueOk(q)
    BY <1>2, <1>4, <2>1, AppendedOk
  <2>3. /\ DOMAIN q = 1..(Len(queue) + 1) /\ DOMAIN queue = 1..Len(queue) /\ Len(queue) \in Nat
        /\ q[Len(queue) + 1] = ch /\ \A j \in 1..Len(queue) : q[j] = queue[j]
    BY <1>2, <2>1
  <2>4. TE!Has(q, r, "update")
    BY <1>2, <2>3 DEF TE!Has, TE!Is
  <2>5. i \in DOMAIN q /\ q[i].row = r /\ q[i].type = "update"
    BY <2>4, FoundAt
  <2> HIDE DEF i
  <2>6. i = Len(queue) + 1
    <3>1. CASE i \in 1..Len(queue)
      BY <1>4, <2>3, <2>5, <3>1 DEF TE!Has, TE!Is
    <3>2. QED
      BY <2>3, <2>5, <3>1
  <2>7. \A j \in DOMAIN q : j # i /\ q[j].type = "update" => DOMAIN q[j].cells # {}
    BY <2>3, <2>6 DEF HasCells
  <2>8. QED
    BY <1>1, <2>2, <2>5, <2>7, SetHasCells
<1>5. QED
  BY <1>3, <1>4

LEMMA QueueHasCells ==
    ASSUME TableInv, HasCells(queue), TE!Next
    PROVE  HasCells(queue')
<1>0. QueueOk(queue)
  BY DEF TableInv, EditsTyped
<1>1. ASSUME NEW r \in NewRows, NEW c \in TableColumns, NEW v \in TableCells, TE!EditNewCell(r, c, v)
      PROVE  HasCells(queue')
  <2> DEFINE i == TE!At(queue, r, "insert")
             cells == TE!With(queue[i].cells, c, v)
  <2>1. queue' = TE!SetCells(queue, i, cells) /\ TE!Has(queue, r, "insert")
    BY <1>1 DEF TE!EditNewCell, TE!Queued
  <2>2. i \in DOMAIN queue
    BY <2>1, FoundAt
  <2> HIDE DEF i, cells
  <2>3. QED
    BY <1>0, <2>1, <2>2, SetHasCells DEF HasCells
<1>2. ASSUME NEW r \in NewRows, TE!AddNewRow(r)
      PROVE  HasCells(queue')
  <2> DEFINE Ch(v) == TE!Change(r, "insert", [c \in TableColumns |-> v])
  <2>1. PICK v \in TableCells : queue' = TE!Put(queue, Ch(v))
    BY <1>2 DEF TE!AddNewRow, TE!Queued
  <2>2. Ch(v).type # "update"
    BY DEF TE!Change
  <2> HIDE DEF Ch
  <2>3. QED
    BY <1>0, <2>1, <2>2, PutHasCells
<1>3. ASSUME NEW r \in TableRows, TE!DeleteRow(r)
      PROVE  HasCells(queue')
  <2> DEFINE ch == TE!Change(r, "delete", << >>)
  <2>1. queue' = TE!Put(queue, ch)
    BY <1>3 DEF TE!DeleteRow, TE!Queued
  <2>2. ch.type # "update"
    BY DEF TE!Change
  <2> HIDE DEF ch
  <2>3. QED
    BY <1>0, <2>1, <2>2, PutHasCells
<1>4. ASSUME NEW r, TE!DiscardRow(r)
      PROVE  HasCells(queue')
  BY <1>0, <1>4, KeptHaveCells DEF TE!DiscardRow
<1>5. CASE TE!Undo
  <2> DEFINE gone == undoStack[Len(undoStack)]
             i == TE!At(queue, gone.row, gone.type)
             cells == TE!Drop(queue[i].cells, gone.column)
  <2>1. queue' = TE!Undone(gone)
    BY <1>5 DEF TE!Undo
  <2> HIDE DEF gone
  <2>2. CASE ~TE!Has(queue, gone.row, gone.type)
    BY <2>1, <2>2 DEF TE!Undone
  <2>3. CASE TE!Has(queue, gone.row, gone.type) /\ gone.kind = "row"
    BY <1>0, <2>1, <2>3, KeptHaveCells DEF TE!Undone, TE!Without
  <2>4. CASE TE!Has(queue, gone.row, gone.type) /\ gone.kind # "row"
    <3>1. queue' = TE!SetCells(queue, i, cells)
      BY <2>1, <2>4 DEF TE!Undone
    <3>2. i \in DOMAIN queue
      BY <2>4, FoundAt
    <3> HIDE DEF i, cells
    <3>3. QED
      BY <1>0, <3>1, <3>2, SetHasCells DEF HasCells
  <2>5. QED
    BY <2>2, <2>3, <2>4
<1>6. ASSUME queue' = queue \/ queue' = << >>
      PROVE  HasCells(queue')
  BY <1>6, NoCellsNeeded
<1>7. ASSUME NEW k, NEW ok, TE!Ends(k, ok)
      PROVE  HasCells(queue')
  BY <1>6, <1>7 DEF TE!Ends, TE!Clear
<1>8. CASE \/ TE!Revert \/ TE!DoCommit \/ TE!OpenReview \/ \E r : TE!Outside(r)
           \/ \E p, guarded : TE!ChangePage(p, guarded) \/ \E l, ok : TE!LoadAnswer(l, ok)
  BY <1>6, <1>8 DEF TE!Revert, TE!DoCommit, TE!OpenReview, TE!Outside, TE!ChangePage, TE!LoadAnswer,
                    TE!Clear
<1>9. ASSUME NEW k, TE!Begin(k) \/ TE!ExecInTx(k) \/ TE!Fails(k) \/ \E a : TE!Commit(k, a)
      PROVE  HasCells(queue')
  BY <1>6, <1>7, <1>9 DEF TE!Begin, TE!ExecInTx, TE!Fails, TE!Commit
<1>10. QED
  BY <1>0, <1>1, <1>2, <1>3, <1>4, <1>5, <1>8, <1>9, EditHasCells DEF TE!Next

TableTyped ==
    /\ reqSeq \in Nat \ {0} /\ review \in BOOLEAN /\ committing \in BOOLEAN /\ HasCells(queue)

LEMMA TableStartsTyped ==
    ASSUME TE!EditAssumption, TE!Init
    PROVE  TableTyped
<1>1. reqSeq = 1 /\ queue = << >> /\ review = FALSE /\ committing = FALSE
  BY DEF TE!Init
<1>2. reqSeq \in Nat \ {0}
  BY <1>1 DEF TE!EditAssumption
<1>3. review \in BOOLEAN
  BY <1>1
<1>4. committing \in BOOLEAN
  BY <1>1
<1>5. QED
  BY <1>1, <1>2, <1>3, <1>4, NoCellsNeeded DEF TableTyped

LEMMA TableIsTyped ==
    ASSUME TE!EditAssumption, TableInv, TableTyped, [TE!Next]_(TE!vars)
    PROVE  TableTyped'
<1>0. MaxLoads \in Nat
  BY DEF TE!EditAssumption
<1>1. CASE TE!Next
  <2>1. ASSUME NEW p, NEW reload, TE!Load(p, reload)
        PROVE  reqSeq' \in Nat \ {0}
    BY <1>0, <2>1 DEF TE!Load, TableTyped
  <2>2. ASSUME NEW q, NEW gone, TE!Queued(q, gone)
        PROVE  UNCHANGED <<reqSeq, review, committing>>
    BY <2>2 DEF TE!Queued
  <2>3. ASSUME NEW k, NEW ok, TE!Ends(k, ok)
        PROVE  reqSeq' \in Nat \ {0} /\ review' \in {FALSE, review} /\ committing' = FALSE
    BY <2>1, <2>3 DEF TE!Ends, TableTyped
  <2>4. /\ reqSeq' \in Nat \ {0} /\ review' \in {TRUE, FALSE, review}
        /\ committing' \in {TRUE, FALSE, committing}
    <3>1. CASE \/ \E r, c, v : TE!EditCell(r, c, v) \/ TE!EditNewCell(r, c, v)
               \/ \E r : TE!AddNewRow(r) \/ TE!DeleteRow(r)
      <4>1. UNCHANGED <<reqSeq, review, committing>>
        BY <2>2, <3>1 DEF TE!EditCell, TE!EditNewCell, TE!AddNewRow, TE!DeleteRow
      <4>2. QED
        BY <4>1 DEF TableTyped
    <3>2. CASE \/ \E r : TE!Outside(r) \/ TE!DiscardRow(r)
               \/ TE!Undo \/ TE!Revert \/ TE!DoCommit \/ TE!OpenReview
               \/ \E l, ok : TE!LoadAnswer(l, ok)
      BY <3>2 DEF TE!Outside, TE!DiscardRow, TE!Undo, TE!Revert, TE!DoCommit, TE!OpenReview,
                  TE!LoadAnswer, TableTyped
    <3>3. CASE \E p, guarded : TE!ChangePage(p, guarded)
      BY <2>1, <3>3 DEF TE!ChangePage
    <3>4. ASSUME NEW k, TE!Begin(k) \/ TE!ExecInTx(k) \/ TE!Fails(k) \/ \E a : TE!Commit(k, a)
          PROVE  /\ reqSeq' \in Nat \ {0} /\ review' \in {TRUE, FALSE, review}
                 /\ committing' \in {TRUE, FALSE, committing}
      <4>1. UNCHANGED <<reqSeq, review, committing>> \/ \E ok : TE!Ends(k, ok)
        BY <3>4 DEF TE!Begin, TE!ExecInTx, TE!Fails, TE!Commit
      <4>2. QED
        BY <2>3, <4>1 DEF TableTyped
    <3>5. QED
      BY <1>1, <3>1, <3>2, <3>3, <3>4 DEF TE!Next
  <2>5. HasCells(queue')
    BY <1>1, QueueHasCells DEF TableTyped
  <2>6. review' \in BOOLEAN
    BY <2>4 DEF TableTyped
  <2>7. committing' \in BOOLEAN
    BY <2>4 DEF TableTyped
  <2>8. QED
    BY <2>4, <2>5, <2>6, <2>7 DEF TableTyped
<1>2. CASE UNCHANGED TE!vars
  BY <1>2 DEF TE!vars, TableTyped, HasCells
<1>3. QED
  BY <1>1, <1>2

LEMMA TableTypes == TableInv /\ TableTyped => TE!TypeOK
<1> SUFFICES ASSUME TableInv, TableTyped
             PROVE  TE!TypeOK
  OBVIOUS
<1>1. /\ page \in TablePages /\ table \in TE!View /\ QueueOk(queue)
      /\ latest \in [page : TablePages, reload : BOOLEAN]
  BY DEF TableInv, PageTyped, CommitsKnow, EditsTyped
<1>2. \A i, j \in DOMAIN queue : TE!Is(queue[i], queue[j].row, queue[j].type) => i = j
  BY <1>1 DEF QueueOk, TE!Is
<1>3. review \in BOOLEAN
  BY DEF TableTyped
<1>4. committing \in BOOLEAN
  BY DEF TableTyped
<1>5. QED
  BY <1>1, <1>2, <1>3, <1>4 DEF TableTyped, HasCells, TE!TypeOK

-----------------------------------------------------------------------------
(* The types of the mapping of an import.                                  *)

\* What holds of 0, and of a number when it holds of the one before.
LEMMA CountingUp ==
    ASSUME NEW n \in Nat, NEW Good, 0 \in Good, \A k \in 1..n : k - 1 \in Good => k \in Good
    PROVE  n \in Good
<1> DEFINE Sets == {T \in SUBSET (1..n) : \A k \in 0..n : T = 1..k => k \in Good}
<1>1. {} \in Sets
  <2>1. \A k \in 0..n : {} = 1..k => k = 0
    <3> SUFFICES ASSUME NEW k \in 0..n, k # 0
                 PROVE  {} # 1..k
      OBVIOUS
    <3>1. k \in 1..k
      OBVIOUS
    <3>2. QED
      BY <3>1
  <2>2. QED
    BY <2>1
<1>2. ASSUME NEW T \in SUBSET (1..n), T # {}, \A x \in T : T \ {x} \in Sets
      PROVE  T \in Sets
  <2> SUFFICES ASSUME NEW k \in 0..n, T = 1..k
               PROVE  k \in Good
    OBVIOUS
  <2>1. k \in 1..n /\ k \in T
    BY <1>2
  <2>2. T \ {k} = 1..(k - 1) /\ k - 1 \in 0..n
    BY <2>1
  <2>3. k - 1 \in Good
    BY <1>2, <2>1, <2>2
  <2>4. QED
    BY <2>1, <2>3
<1>3. IsFiniteSet(1..n)
  BY FS_Interval
<1>4. 1..n \in Sets
  <2> HIDE DEF Sets
  <2>1. QED
    BY <1>1, <1>2, <1>3, SubsetInduction
<1>5. QED
  BY <1>4

\* A value goes through some steps; there is a function that has all it was.
StepsOf(n, V) == [1..n -> [V -> V]]
GoesThrough(n, V, v, turn, f) ==
    /\ f \in [0..n -> V] /\ f[0] = v
    /\ \A k \in 1..n : f[k] = turn[k][f[k - 1]]

LEMMA StepByStep ==
    ASSUME NEW n \in Nat, NEW V, NEW v \in V, NEW turn \in StepsOf(n, V)
    PROVE  \E f : GoesThrough(n, V, v, turn, f)
<1> DEFINE Good == {m \in 0..n : \E f \in [0..m -> V] :
                                  f[0] = v /\ \A k \in 1..m : f[k] = turn[k][f[k - 1]]}
<1>0. turn \in [1..n -> [V -> V]]
  BY DEF StepsOf
<1>1. 0 \in Good
  <2> DEFINE f == [k \in 0..0 |-> v]
  <2>1. f \in [0..0 -> V] /\ f[0] = v /\ \A k \in 1..0 : f[k] = turn[k][f[k - 1]]
    OBVIOUS
  <2>2. 0 \in 0..n
    OBVIOUS
  <2> HIDE DEF f
  <2>3. QED
    BY <2>1, <2>2
<1>2. ASSUME NEW m \in 1..n, m - 1 \in Good
      PROVE  m \in Good
  <2>1. PICK f \in [0..(m - 1) -> V] : f[0] = v /\ \A k \in 1..(m - 1) : f[k] = turn[k][f[k - 1]]
    BY <1>2
  <2> DEFINE g == [k \in 0..m |-> IF k = m THEN turn[m][f[m - 1]] ELSE f[k]]
  <2>2. f[m - 1] \in V /\ turn[m] \in [V -> V]
    BY <1>0, <2>1
  <2>3. g \in [0..m -> V] /\ g[0] = v
    <3>1. \A k \in 0..m : k # m => f[k] \in V
      BY <2>1
    <3>2. QED
      BY <2>1, <2>2, <3>1
  <2>4. ASSUME NEW k \in 1..m
        PROVE  g[k] = turn[k][g[k - 1]]
    <3>1. k - 1 # m /\ k - 1 \in 0..m /\ g[k - 1] = f[k - 1]
      OBVIOUS
    <3>2. CASE k = m
      BY <3>1, <3>2
    <3>3. CASE k # m
      <4>1. k \in 1..(m - 1)
        BY <3>3
      <4>2. QED
        BY <2>1, <3>1, <3>3, <4>1
    <3>4. QED
      BY <3>2, <3>3
  <2>5. m \in 0..n
    OBVIOUS
  <2> HIDE DEF g
  <2>6. QED
    BY <2>3, <2>4, <2>5
<1>3. n \in Good
  <2> HIDE DEF Good
  <2>1. QED
    BY <1>1, <1>2, CountingUp
<1>4. QED
  BY <1>3 DEF GoesThrough

\* Of some places one has the highest score.
LEMMA OneIsBest ==
    ASSUME NEW S, IsFiniteSet(S), S # {}, NEW f, \A x \in S : f[x] \in Nat
    PROVE  \E x \in S : \A y \in S : f[y] <= f[x]
<1> DEFINE Good == {T \in SUBSET S : T # {} => \E x \in T : \A y \in T : f[y] <= f[x]}
<1>1. {} \in Good
  OBVIOUS
<1>2. ASSUME NEW T \in SUBSET S, T # {}, \A x \in T : T \ {x} \in Good
      PROVE  T \in Good
  <2>1. PICK x \in T : TRUE
    BY <1>2
  <2>2. CASE T = {x}
    BY <2>2
  <2>3. CASE T \ {x} # {}
    <3>1. PICK y \in T \ {x} : \A z \in T \ {x} : f[z] <= f[y]
      BY <1>2, <2>3
    <3>2. \A z \in T : f[z] \in Nat
      OBVIOUS
    <3>3. CASE f[x] <= f[y]
      BY <3>1, <3>3
    <3>4. CASE ~(f[x] <= f[y])
      <4>1. \A z \in T : f[z] <= f[x]
        BY <3>1, <3>2, <3>4
      <4>2. QED
        BY <4>1
    <3>5. QED
      BY <3>3, <3>4
  <2>4. QED
    BY <2>2, <2>3
<1>3. S \in Good
  <2> HIDE DEF Good
  <2>1. QED
    BY <1>1, <1>2, SubsetInduction
<1>4. QED
  BY <1>3

Mappings == [MS!Columns -> MS!Range(MapTargets) \cup {None}]

\* A column without a target gets one of the table's, or none.
LEMMA SuggestIsTyped ==
    ASSUME MS!MappingAssumption, NEW i \in MS!Columns, NEW m \in Mappings
    PROVE  MS!Suggest(i, m) \in Mappings
<1> DEFINE free == {p \in DOMAIN MapTargets :
                      /\ MapTargets[p] \notin AutoInc /\ Score[i][MapTargets[p]] > 0
                      /\ \A j \in MS!Columns : m[j] # MapTargets[p]}
           best == {p \in free : \A q \in free :
                      Score[i][MapTargets[q]] <= Score[i][MapTargets[p]]}
<1>1. MS!Suggest(i, m) = IF m[i] # None \/ free = {} THEN m
                         ELSE [m EXCEPT ![i] = MapTargets[MS!Min(best)]]
  BY SMTT(30) DEF MS!Suggest
<1>2. PICK n \in Nat : DOMAIN MapTargets = 1..n
  <2>1. MapTargets \in Seq(MS!Range(MapTargets))
    BY DEF MS!MappingAssumption
  <2>2. Len(MapTargets) \in Nat /\ DOMAIN MapTargets = 1..Len(MapTargets)
    BY <2>1
  <2>3. QED
    BY <2>2
<1>3. \A p \in DOMAIN MapTargets : MapTargets[p] \in MS!Range(MapTargets)
  BY DEF MS!Range
<1>4. ASSUME free # {}
      PROVE  MS!Min(best) \in DOMAIN MapTargets
  <2> DEFINE f == [p \in free |-> Score[i][MapTargets[p]]]
  <2>1. free \in SUBSET (1..n)
    BY <1>2
  <2>2. IsFiniteSet(free)
    <3>1. IsFiniteSet(1..n)
      BY FS_Interval
    <3>2. QED
      BY <2>1, <3>1, FS_Subset
  <2>3. \A p \in free : f[p] \in Nat
    <3>1. Score[i] \in [MS!Range(MapTargets) -> Nat]
      BY DEF MS!MappingAssumption
    <3>2. QED
      BY <1>3, <3>1
  <2>4. \E p \in free : \A q \in free : f[q] <= f[p]
    <3> HIDE DEF free, f
    <3>1. QED
      BY <1>4, <2>2, <2>3, OneIsBest
  <2>5. best # {} /\ best \in SUBSET (1..n)
    BY <2>1, <2>4
  <2>6. MS!Min(best) \in best
    <3> HIDE DEF best
    <3>1. QED
      BY <2>5, EndsAre
  <2>7. QED
    BY <2>6
<1> HIDE DEF free, best
<1>5. QED
  BY <1>1, <1>3, <1>4 DEF Mappings

\* The suggestions are taken column by column.
UpTo(up) == up = [i \in 0..Len(SameName) |-> IF i = 0 THEN mapping ELSE MS!Suggest(i, up[i - 1])]

LEMMA SuggestedIsUpTo ==
    MS!Suggested = (CHOOSE up : UpTo(up))[Len(SameName)]
BY DEF MS!Suggested, UpTo

LEMMA SuggestedIsTyped ==
    ASSUME MS!MappingAssumption, mapping \in Mappings
    PROVE  MS!Suggested \in Mappings
<1>1. PICK n \in Nat : n = Len(SameName) /\ MS!Columns = 1..n
  BY ColumnsAre
<1> DEFINE turn == [i \in 1..n |-> [m \in Mappings |-> MS!Suggest(i, m)]]
<1>2. turn \in [1..n -> [Mappings -> Mappings]]
  BY <1>1, SuggestIsTyped
<1>3. \E f : GoesThrough(n, Mappings, mapping, turn, f)
  <2>1. turn \in StepsOf(n, Mappings)
    BY <1>2 DEF StepsOf
  <2> HIDE DEF turn
  <2>2. QED
    BY <2>1, StepByStep
<1>4. PICK f \in [0..n -> Mappings] : f[0] = mapping /\ \A i \in 1..n : f[i] = turn[i][f[i - 1]]
  BY <1>3 DEF GoesThrough
<1>5. UpTo(f)
  <2>1. ASSUME NEW i \in 0..n
        PROVE  f[i] = IF i = 0 THEN mapping ELSE MS!Suggest(i, f[i - 1])
    <3>1. CASE i = 0
      BY <1>4, <3>1
    <3>2. CASE i # 0
      <4>1. i \in 1..n /\ i - 1 \in 0..n /\ f[i - 1] \in Mappings
        BY <3>2
      <4>2. QED
        BY <1>4, <3>2, <4>1
    <3>3. QED
      BY <3>1, <3>2
  <2>2. f = [i \in 0..n |-> f[i]]
    OBVIOUS
  <2>3. f = [i \in 0..n |-> IF i = 0 THEN mapping ELSE MS!Suggest(i, f[i - 1])]
    BY <2>1, <2>2
  <2>4. QED
    BY <1>1, <2>3, SMTT(30) DEF UpTo
<1>6. PICK up : up = (CHOOSE u : UpTo(u)) /\ UpTo(up)
  BY <1>5
<1>7. \A k \in 0..n : up[k] = IF k = 0 THEN mapping ELSE MS!Suggest(k, up[k - 1])
  <2>1. up = [k \in 0..n |-> IF k = 0 THEN mapping ELSE MS!Suggest(k, up[k - 1])]
    BY <1>1, <1>6 DEF UpTo
  <2>2. QED
    BY <2>1
<1>8. up[0] = mapping
  <2>1. 0 \in 0..n
    BY <1>1
  <2>2. QED
    BY <1>7, <2>1
<1> DEFINE Good == {i \in 0..n : up[i] \in Mappings}
<1>9. 0 \in Good
  BY <1>1, <1>8
<1>10. ASSUME NEW i \in 1..n, i - 1 \in Good
       PROVE  i \in Good
  <2>1. i \in 0..n /\ i # 0
    OBVIOUS
  <2>2. up[i] = MS!Suggest(i, up[i - 1])
    BY <1>7, <2>1
  <2>3. MS!Suggest(i, up[i - 1]) \in Mappings
    BY <1>1, <1>10, SuggestIsTyped
  <2>4. QED
    BY <2>1, <2>2, <2>3
<1>11. n \in Good
  <2> HIDE DEF Good
  <2>1. QED
    BY <1>9, <1>10, CountingUp
<1>12. QED
  BY <1>1, <1>6, <1>11, SuggestedIsUpTo

ChoicesTyped ==
    /\ mapping \in Mappings
    /\ trims \subseteq MS!Columns /\ rules \subseteq MS!Columns
    /\ policy \in [MS!Columns -> MS!Policies]
    /\ strict \in BOOLEAN
    /\ filter \in MS!Columns \cup {0}

PickedTyped ==
    /\ sel \subseteq MS!Columns
    /\ anchor \in MS!Columns \cup {0} /\ cursor \in MS!Columns \cup {0}

LEMMA MapStartsTyped ==
    ASSUME MS!MappingAssumption, MS!Init
    PROVE  ChoicesTyped /\ PickedTyped /\ steps \in 0..MappingSteps
<1>1. SameName \in [MS!Columns -> MS!Range(MapTargets) \cup {None}] /\ MappingSteps \in Nat
  BY DEF MS!MappingAssumption
<1>2. mapping \in Mappings
  BY <1>1 DEF MS!Init, MS!InferMapping, Mappings
<1>3. /\ trims \subseteq MS!Columns /\ rules \subseteq MS!Columns
      /\ policy \in [MS!Columns -> MS!Policies] /\ filter \in MS!Columns \cup {0}
  BY DEF MS!Init, MS!Policies
<1>4. strict \in BOOLEAN
  BY DEF MS!Init
<1>5. PickedTyped
  BY DEF MS!Init, PickedTyped
<1>6. steps \in 0..MappingSteps
  BY <1>1 DEF MS!Init
<1>7. QED
  BY <1>2, <1>3, <1>4, <1>5, <1>6 DEF ChoicesTyped

LEMMA ChoicesAreTyped ==
    ASSUME MS!MappingAssumption, ChoicesTyped, PickedTyped, MS!Next
    PROVE  ChoicesTyped'
<1>1. ASSUME mapping' \in Mappings, UNCHANGED <<trims, policy, rules, strict, filter>>
      PROVE  ChoicesTyped'
  BY <1>1 DEF ChoicesTyped, Mappings, MS!Columns, MS!Range, MS!Policies
<1>2. CASE \E i \in MS!Columns, t \in MS!Range(MapTargets) \cup {None} : MS!MapTo(i, t)
  BY <1>1, <1>2 DEF MS!MapTo, MS!optVars, ChoicesTyped, Mappings
<1>3. CASE MS!ApplySuggestions
  <2>1. mapping' \in Mappings
    BY <1>3, SuggestedIsTyped DEF MS!ApplySuggestions, ChoicesTyped
  <2>2. QED
    BY <1>1, <1>3, <2>1 DEF MS!ApplySuggestions, MS!optVars
<1>4. ASSUME UNCHANGED <<mapping, strict, filter>>,
             trims' \subseteq MS!Columns, rules' \subseteq MS!Columns,
             policy' \in [MS!Columns -> MS!Policies]
      PROVE  ChoicesTyped'
  BY <1>4 DEF ChoicesTyped, Mappings, MS!Columns, MS!Range, MS!Policies
<1>5. ASSUME NEW is \in SUBSET MS!Columns, NEW on \in BOOLEAN, MS!SetTransform(is, on)
      PROVE  ChoicesTyped'
  <2>1. trims' \subseteq MS!Columns
    BY <1>5 DEF MS!SetTransform, ChoicesTyped
  <2>2. QED
    BY <1>4, <1>5, <2>1 DEF MS!SetTransform, ChoicesTyped
<1>6. ASSUME NEW is \in SUBSET MS!Columns, NEW p \in MS!Policies, MS!SetPolicy(is, p)
      PROVE  ChoicesTyped'
  <2>1. policy' \in [MS!Columns -> MS!Policies]
    BY <1>6 DEF MS!SetPolicy, ChoicesTyped
  <2>2. QED
    BY <1>4, <1>6, <2>1 DEF MS!SetPolicy, ChoicesTyped
<1>7. CASE MS!ClearSettings
  <2>1. policy' \in [MS!Columns -> MS!Policies]
    <3>1. "null" \in MS!Policies
      BY DEF MS!Policies
    <3>2. QED
      BY <1>7, <3>1 DEF MS!ClearSettings, ChoicesTyped
  <2>2. trims' \subseteq MS!Columns /\ rules' \subseteq MS!Columns
    BY <1>7 DEF MS!ClearSettings, ChoicesTyped
  <2>3. QED
    BY <1>4, <1>7, <2>1, <2>2 DEF MS!ClearSettings
<1>8. CASE \E i \in MS!Columns : MS!SetRule(i)
  <2>1. rules' \subseteq MS!Columns
    BY <1>8 DEF MS!SetRule, ChoicesTyped
  <2>2. QED
    BY <1>4, <1>8, <2>1 DEF MS!SetRule, ChoicesTyped
<1>9. CASE \E i \in MS!Columns \cup {0} : MS!SetFilter(i)
  <2>1. UNCHANGED <<mapping, trims, policy, rules, strict>> /\ filter' \in MS!Columns \cup {0}
    BY <1>9 DEF MS!SetFilter
  <2>2. QED
    BY <2>1 DEF ChoicesTyped, Mappings, MS!Columns, MS!Range, MS!Policies
<1>10. CASE MS!ToggleStrict
  <2>1. UNCHANGED <<mapping, trims, policy, rules, filter>> /\ strict' = ~strict
    BY <1>10 DEF MS!ToggleStrict
  <2>2. strict' \in BOOLEAN
    BY <2>1 DEF ChoicesTyped
  <2>3. QED
    BY <2>1, <2>2 DEF ChoicesTyped, Mappings, MS!Columns, MS!Range, MS!Policies
<1>11. ASSUME UNCHANGED <<mapping, trims, policy, rules, strict, filter>>
       PROVE  ChoicesTyped'
  BY <1>11 DEF ChoicesTyped, Mappings, MS!Columns, MS!Range, MS!Policies
<1>12. CASE \/ \E m \in MS!Modes : MS!SetMode(m)
            \/ MS!InvertSelection \/ MS!Deselect \/ MS!JumpToUnmapped
            \/ \E i \in MS!Columns : MS!ClickRow(i) \/ MS!ShiftClickRow(i)
  BY <1>11, <1>12 DEF MS!SetMode, MS!InvertSelection, MS!Deselect, MS!JumpToUnmapped,
     MS!ClickRow, MS!ShiftClickRow, MS!optVars
<1>13. CASE \/ \E k \in DOMAIN FileRows : MS!OverrideRow(k) \/ MS!DropOverrides({k})
            \/ MS!DropOverrides(DOMAIN FileRows)
            \/ \E k \in DOMAIN FileRows, i \in MS!Columns, cell \in MS!Cells :
                 MS!TypeOver(k, i, cell)
            \/ \E v : MS!ShowOnly(v) \/ MS!SelectAll(v)
  BY <1>11, <1>13 DEF MS!OverrideRow, MS!DropOverrides, MS!TypeOver, MS!ShowOnly, MS!SelectAll,
     MS!optVars
<1>14. CASE MS!ApplyToSelection
  <2>1. sel \in SUBSET MS!Columns
    BY DEF PickedTyped
  <2>2. PICK is \in SUBSET MS!Columns : MS!SetTransform(is, TRUE)
    BY <1>14, <2>1 DEF MS!ApplyToSelection
  <2>3. QED
    BY <1>5, <2>2
<1>15. CASE \E is \in {sel} \cup {{i} : i \in MS!Columns} :
              \/ \E on \in BOOLEAN : MS!SetTransform(is, on)
              \/ \E p \in MS!Policies : MS!SetPolicy(is, p)
  <2>1. sel \in SUBSET MS!Columns
    BY DEF PickedTyped
  <2>2. PICK is \in {sel} \cup {{i} : i \in MS!Columns} :
              \/ \E on \in BOOLEAN : MS!SetTransform(is, on)
              \/ \E p \in MS!Policies : MS!SetPolicy(is, p)
    BY <1>15
  <2>3. is \in SUBSET MS!Columns
    BY <2>1
  <2>4. QED
    BY <1>5, <1>6, <2>2, <2>3
<1>16. QED
  BY <1>2, <1>3, <1>7, <1>8, <1>9, <1>10, <1>12, <1>13, <1>14, <1>15 DEF MS!Next

LEMMA ShownAreColumns ==
    ASSUME ChoicesTyped,
           NEW is \in {MS!Visible, trims, rules, {i \in MS!Columns : MS!HasEmpty(i)}}
    PROVE  is \subseteq MS!Columns
<1>1. MS!Visible \subseteq MS!Columns
  BY DEF MS!Visible
<1>2. QED
  BY <1>1 DEF ChoicesTyped

LEMMA PickedIsTyped ==
    ASSUME MS!MappingAssumption, ChoicesTyped, PickedTyped, MS!Next
    PROVE  PickedTyped'
<1>1. PICK n \in Nat : MS!Columns = 1..n
  BY ColumnsAre
<1>2. \A is \in SUBSET MS!Columns : is # {} => MS!Min(is) \in is
  BY <1>1, EndsAre
<1>3. ASSUME sel' \subseteq MS!Columns, anchor' \in MS!Columns \cup {0},
             cursor' \in MS!Columns \cup {0}
      PROVE  PickedTyped'
  BY <1>3 DEF PickedTyped, MS!Columns
<1>4. CASE \E is \in {MS!Visible, trims, rules, {i \in MS!Columns : MS!HasEmpty(i)}} :
             MS!SelectAll(is)
  <2>1. PICK is \in SUBSET MS!Columns : MS!SelectAll(is)
    BY <1>4, ShownAreColumns
  <2>2. QED
    BY <1>2, <1>3, <2>1 DEF MS!SelectAll, PickedTyped
<1>5. CASE \E i \in MS!Columns : MS!ClickRow(i)
  BY <1>3, <1>5 DEF MS!ClickRow, PickedTyped
<1>6. CASE \E i \in MS!Columns : MS!ShiftClickRow(i)
  <2>1. PICK i \in MS!Columns : MS!ShiftClickRow(i)
    BY <1>6
  <2>2. anchor \in MS!Columns /\ i \in 1..n /\ anchor \in 1..n
    BY <1>1, <2>1 DEF MS!ShiftClickRow, PickedTyped
  <2>3. (anchor..i) \cup (i..anchor) \subseteq 1..n
    BY <2>2
  <2>4. QED
    BY <1>1, <1>3, <2>1, <2>3 DEF MS!ShiftClickRow, PickedTyped
<1>7. CASE MS!InvertSelection \/ MS!Deselect
  <2>1. sel' \in SUBSET MS!Columns
    BY <1>7 DEF MS!InvertSelection, MS!Deselect
  <2>2. anchor' \in MS!Columns \cup {0}
    BY <1>2, <1>7, <2>1 DEF MS!InvertSelection, MS!Deselect
  <2>3. QED
    BY <1>3, <1>7, <2>1, <2>2 DEF MS!InvertSelection, MS!Deselect, PickedTyped
<1>8. CASE MS!JumpToUnmapped
  <2> DEFINE unmapped == {i \in MS!Columns : mapping[i] = None}
             later == {i \in unmapped : i > cursor}
             next == IF cursor \in unmapped /\ later # {} THEN MS!Min(later) ELSE MS!Min(unmapped)
  <2>1. unmapped # {} /\ cursor' = next /\ sel' = {next} /\ anchor' = next
    BY <1>8 DEF MS!JumpToUnmapped
  <2>2. unmapped \in SUBSET MS!Columns /\ later \in SUBSET MS!Columns
    OBVIOUS
  <2>3. next \in MS!Columns
    <3>1. MS!Min(unmapped) \in MS!Columns
      BY <1>2, <2>1, <2>2
    <3>2. later # {} => MS!Min(later) \in MS!Columns
      BY <1>2, <2>2
    <3> HIDE DEF unmapped, later
    <3>3. QED
      BY <3>1, <3>2
  <2> HIDE DEF next
  <2>4. QED
    BY <1>3, <2>1, <2>3
<1>9. ASSUME UNCHANGED <<sel, anchor, cursor>>
      PROVE  PickedTyped'
  BY <1>9 DEF PickedTyped, MS!Columns
<1>10. CASE \/ MS!ApplySuggestions \/ MS!ToggleStrict \/ MS!ClearSettings \/ MS!ApplyToSelection
            \/ \E i : MS!SetRule(i) \/ MS!SetFilter(i)
            \/ \E i, t : MS!MapTo(i, t)
            \/ \E m : MS!SetMode(m) \/ MS!ShowOnly(m)
  BY <1>9, <1>10 DEF MS!ApplySuggestions, MS!ToggleStrict, MS!ClearSettings,
     MS!ApplyToSelection, MS!SetTransform, MS!SetRule, MS!SetFilter, MS!MapTo, MS!SetMode,
     MS!ShowOnly, MS!viewVars
<1>11. CASE \E is, x : MS!SetTransform(is, x) \/ MS!SetPolicy(is, x)
  BY <1>9, <1>11 DEF MS!SetTransform, MS!SetPolicy, MS!viewVars
<1>12. CASE \/ \E k \in DOMAIN FileRows : MS!OverrideRow(k) \/ MS!DropOverrides({k})
            \/ MS!DropOverrides(DOMAIN FileRows)
            \/ \E k \in DOMAIN FileRows, i \in MS!Columns, cell \in MS!Cells :
                 MS!TypeOver(k, i, cell)
  BY <1>9, <1>12 DEF MS!OverrideRow, MS!DropOverrides, MS!TypeOver, MS!viewVars
<1>13. QED
  BY <1>4, <1>5, <1>6, <1>7, <1>8, <1>10, <1>11, <1>12 DEF MS!Next

MapTyped == ChoicesTyped /\ PickedTyped /\ steps \in 0..MappingSteps

LEMMA MapIsTyped ==
    ASSUME MS!MappingAssumption, MapTyped, [MS!Next]_(MS!mapVars)
    PROVE  MapTyped'
<1>1. CASE MS!Next
  <2>1. ChoicesTyped' /\ PickedTyped'
    BY <1>1, ChoicesAreTyped, PickedIsTyped DEF MapTyped
  <2>2. MS!Acts
    BY <1>1 DEF MS!Next, MS!MapTo, MS!ApplySuggestions, MS!SetMode, MS!SetFilter, MS!ToggleStrict,
       MS!SetRule, MS!SetTransform, MS!SetPolicy, MS!ClearSettings, MS!ApplyToSelection,
       MS!OverrideRow, MS!TypeOver, MS!DropOverrides, MS!ShowOnly, MS!SelectAll, MS!ClickRow,
       MS!ShiftClickRow, MS!InvertSelection, MS!Deselect, MS!JumpToUnmapped
  <2>3. steps' \in 0..MappingSteps
    BY <2>2 DEF MS!Acts, MS!MappingAssumption, MapTyped
  <2>4. QED
    BY <2>1, <2>3 DEF MapTyped
<1>2. CASE UNCHANGED MS!mapVars
  BY <1>2 DEF MS!mapVars, MapTyped, ChoicesTyped, PickedTyped, Mappings, MS!Columns, MS!Range,
     MS!Policies
<1>3. QED
  BY <1>1, <1>2

LEMMA MapTypes ==
    ASSUME MapInv, MapTyped
    PROVE  MS!TypeOK
BY DEF MapInv, MapTyped, ChoicesTyped, PickedTyped, Mappings, MS!TypeOK

-----------------------------------------------------------------------------
(* The types of the target of an import.                                   *)

LoadTyped ==
    /\ loading \in IT!Targets \cup {None}
    /\ asked \in BOOLEAN /\ pending \in BOOLEAN /\ arming \in BOOLEAN /\ stray \in BOOLEAN

LEMMA LoadStartsTyped == IT!Init => LoadTyped
<1> SUFFICES ASSUME IT!Init
             PROVE  LoadTyped
  OBVIOUS
<1>1. loading = None /\ asked = FALSE /\ pending = FALSE /\ arming = FALSE /\ stray = FALSE
  BY DEF IT!Init
<1>2. QED
  BY <1>1 DEF LoadTyped

LEMMA MovedIsTyped ==
    ASSUME LoadTyped, NEW s,
           NEW k \in (ImportSchemas \cup {None}) \X (Tables \cup {None}), IT!Moved(s, k)
    PROVE  loading' \in IT!Targets \cup {None} /\ asked' \in BOOLEAN /\ arming' \in BOOLEAN
<1>1. loading' \in IT!Targets \cup {None}
  <2>1. loading' \in {loading, None} \/ (None \notin IT!Range(k) /\ loading' = k)
    BY DEF IT!Moved
  <2>2. IT!Range(k) = {k[1], k[2]}
    <3>1. DOMAIN k = {1, 2}
      OBVIOUS
    <3>2. QED
      BY <3>1 DEF IT!Range
  <2>3. None \notin IT!Range(k) => k \in IT!Targets
    BY <2>2 DEF IT!Targets
  <2>4. QED
    BY <2>1, <2>3 DEF LoadTyped
<1>2. asked' \in BOOLEAN
  BY DEF IT!Moved
<1>3. arming' \in BOOLEAN
  BY DEF IT!Moved
<1>4. QED
  BY <1>1, <1>2, <1>3

LEMMA LoadIsTyped ==
    ASSUME IT!TargetAssumption, TargetInv, LoadTyped, [IT!Next]_(IT!vars)
    PROVE  LoadTyped'
<1>0. /\ schema \in ImportSchemas \cup {None} /\ table \in Tables \cup {None}
      /\ FirstSchema \in ImportSchemas
  BY DEF TargetInv, ConfigOfColumns, IT!TargetAssumption
<1>1. ASSUME NEW s, NEW k \in (ImportSchemas \cup {None}) \X (Tables \cup {None}), IT!Moved(s, k),
             pending' = pending, stray' \in BOOLEAN
      PROVE  LoadTyped'
  BY <1>1, MovedIsTyped DEF LoadTyped
<1>2. ASSUME NEW s, IT!Goto(s)
      PROVE  LoadTyped'
  <2>1. IT!Sel \in (ImportSchemas \cup {None}) \X (Tables \cup {None})
    BY <1>0 DEF IT!Sel
  <2>2. IT!Moved(s, IT!Sel) /\ pending' = pending
    BY <1>2 DEF IT!Goto
  <2>3. stray' \in BOOLEAN
    BY <1>2 DEF IT!Goto
  <2>4. QED
    BY <1>1, <2>1, <2>2, <2>3
<1>3. ASSUME NEW s \in ImportSchemas, IT!PickSchema(s)
      PROVE  LoadTyped'
  <2>1. IT!Moved(step, <<s, None>>) /\ pending' = pending /\ stray' = stray
    BY <1>3 DEF IT!PickSchema
  <2>2. <<s, None>> \in (ImportSchemas \cup {None}) \X (Tables \cup {None})
    OBVIOUS
  <2>3. QED
    BY <1>1, <2>1, <2>2 DEF LoadTyped
<1>4. ASSUME NEW t \in Tables, IT!PickTable(t)
      PROVE  LoadTyped'
  <2>1. IT!Moved(step, <<schema, t>>) /\ pending' = pending /\ stray' = stray
    BY <1>4 DEF IT!PickTable
  <2>2. <<schema, t>> \in (ImportSchemas \cup {None}) \X (Tables \cup {None})
    BY <1>0
  <2>3. QED
    BY <1>1, <2>1, <2>2 DEF LoadTyped
<1>5. ASSUME NEW k \in IT!Targets, IT!PickRecent(k) \/ IT!JumpTo(k) \/ IT!JumpToPreset(k)
      PROVE  LoadTyped'
  <2>1. k \in (ImportSchemas \cup {None}) \X (Tables \cup {None})
    BY DEF IT!Targets
  <2>2. pending' = pending /\ stray' = stray /\ \E s : IT!Moved(s, k)
    BY <1>5 DEF IT!PickRecent, IT!JumpTo, IT!JumpToPreset
  <2>3. QED
    BY <1>1, <2>1, <2>2 DEF LoadTyped
<1>6. CASE IT!SchemasArrive
  <2>1. loading' \in {loading, None} \/ (table # None /\ loading' = <<FirstSchema, table>>)
    BY <1>6 DEF IT!SchemasArrive
  <2>2. loading' \in IT!Targets \cup {None}
    BY <1>0, <2>1 DEF LoadTyped, IT!Targets
  <2>3. asked' = FALSE /\ pending' = pending /\ arming' = arming
    BY <1>6 DEF IT!SchemasArrive, IT!panels
  <2>4. stray' \in BOOLEAN
    BY <1>6 DEF IT!SchemasArrive
  <2>5. asked' \in BOOLEAN
    BY <2>3
  <2>6. QED
    BY <2>2, <2>3, <2>4, <2>5 DEF LoadTyped
<1>7. CASE IT!AcceptSuggestions \/ IT!ColumnsFail \/ \E k \in IT!Targets : IT!ColumnsArrive(k)
  <2>1. /\ loading' \in {loading, None} /\ asked' = asked /\ arming' = arming /\ stray' = stray
        /\ pending' \in {TRUE, FALSE, pending}
    BY <1>7 DEF IT!AcceptSuggestions, IT!ColumnsFail, IT!ColumnsArrive, IT!panels
  <2>2. pending' \in BOOLEAN
    BY <2>1 DEF LoadTyped
  <2>3. QED
    BY <2>1, <2>2 DEF LoadTyped
<1>8. CASE \/ \E i \in DOMAIN FileColumns, c \in cols \cup {None} : IT!EditMap(i, c)
           \/ \E o \in IT!Options : IT!EditOpts(o)
           \/ IT!ClearAndReset \/ IT!CompareCurrent \/ IT!UndoFix
           \/ \E i \in 1..MaxSnapshots : IT!RestoreHere(i) \/ IT!RestoreAligned(i) \/ IT!AskRestore(i)
           \/ IT!ConfirmRestore \/ IT!DismissRestore \/ IT!ArmApply \/ IT!ApplyOld
           \/ IT!Imported \/ IT!DisarmApply
  <2>1. /\ loading' = loading /\ asked' = asked /\ pending' = pending /\ stray' = stray
        /\ arming' \in {TRUE, FALSE, arming}
    BY <1>8 DEF IT!EditMap, IT!EditOpts, IT!ClearAndReset, IT!CompareCurrent, IT!UndoFix,
                IT!RestoreHere, IT!RestoreAligned, IT!AskRestore, IT!ConfirmRestore,
                IT!DismissRestore, IT!ArmApply, IT!ApplyOld, IT!Imported, IT!DisarmApply, IT!Acts,
                IT!panels
  <2>2. arming' \in BOOLEAN
    BY <2>1 DEF LoadTyped
  <2>3. QED
    BY <2>1, <2>2 DEF LoadTyped
<1>9. CASE UNCHANGED IT!vars
  BY <1>9 DEF IT!vars, IT!panels, LoadTyped
<1>10. QED
  BY <1>2, <1>3, <1>4, <1>5, <1>6, <1>7, <1>8, <1>9 DEF IT!Next

LEMMA TargetTypes ==
    ASSUME IT!TargetAssumption, TargetInv, LoadTyped
    PROVE  IT!TypeOK
<1>1. step \in IT!Range(IT!Steps)
  BY StepsInOrder DEF TargetInv, ConfigOfColumns
<1>2. cols \subseteq IT!Columns
  <2>1. CASE colsOf = None
    BY <2>1 DEF TargetInv, ConfigOfColumns
  <2>2. CASE colsOf # None
    <3>1. colsOf \in IT!Targets /\ cols = Exists[colsOf]
      BY <2>2 DEF TargetInv, ConfigOfColumns
    <3>2. QED
      BY <3>1, ColumnsKnown
  <2>3. QED
    BY <2>1, <2>2
<1>3. {asked, pending, arming, stray} \subseteq BOOLEAN
  BY DEF LoadTyped
<1>4. QED
  BY <1>1, <1>2, <1>3 DEF TargetInv, StoreTyped, ConfigOfColumns, LoadTyped, IT!TypeOK

-----------------------------------------------------------------------------
(* The types of the run of an import.                                      *)

\* A failure is of a row and at a place among the rows of the file.
Failures == [row : ImportRows, idx : ImportRows]

InputTyped ==
    /\ sqlFiles \subseteq ImportFiles /\ step \in {"input", "table", "map", "preview", "done"}
    /\ queue \in Seq(ImportFiles)
    /\ reading \in ImportFiles \cup {None} /\ text \in ImportFiles \cup {None}
    /\ parsed \in (ImportFiles \ sqlFiles) \cup {None}

FlagsTyped ==
    /\ open \in BOOLEAN /\ ready \in BOOLEAN /\ busy \in BOOLEAN /\ cancel \in BOOLEAN
    /\ txRef \in BOOLEAN /\ undoing \in BOOLEAN

FailuresTyped ==
    /\ failed \subseteq Failures /\ retry \in (SUBSET ImportRows) \cup {None}
    /\ run # None => run.bad \subseteq Failures /\ Len(run.todo) <= IR!Cardinality(ImportRows)

ServerTyped ==
    /\ kept \subseteq ImportRows /\ runs \in 0..ImportRuns
    /\ lost \subseteq {"begin", "execute", "abort", "commit", "rollback"}

LEMMA RowsAreCounted ==
    ASSUME IR!ImportAssumption
    PROVE  IR!Cardinality(ImportRows) \in Nat
<1>1. IsFiniteSet(ImportRows)
  BY Zenon DEF IR!ImportAssumption, IR!IsFiniteSet, IsFiniteSet
<1>2. IR!Cardinality(ImportRows) = Cardinality(ImportRows)
  BY Zenon DEF IR!Cardinality, Cardinality
<1>3. QED
  BY <1>1, <1>2, FS_CardinalityType

LEMMA ImportStartsTyped ==
    ASSUME IR!ImportAssumption, IR!Init
    PROVE  InputTyped /\ FlagsTyped /\ FailuresTyped /\ ServerTyped
<1>1. InputTyped
  BY DEF IR!Init, InputTyped
<1>2. open = TRUE /\ ready = FALSE /\ busy = FALSE /\ cancel = FALSE /\ txRef = FALSE /\ undoing = FALSE
  BY DEF IR!Init
<1>3. FlagsTyped
  BY <1>2 DEF FlagsTyped
<1>4. FailuresTyped
  BY DEF IR!Init, FailuresTyped
<1>5. ServerTyped
  <2>1. kept = {} /\ lost = {} /\ runs = 0 /\ ImportRuns \in Nat
    BY DEF IR!Init, IR!ImportAssumption
  <2>2. QED
    BY <2>1 DEF ServerTyped
<1>6. QED
  BY <1>1, <1>3, <1>4, <1>5

LEMMA FiveSteps == IR!Range(IR!Steps) = {"input", "table", "map", "preview", "done"}
<1>1. DOMAIN IR!Steps = 1..5
  BY DEF IR!Steps
<1>2. \A i \in 1..5 : i = 1 \/ i = 2 \/ i = 3 \/ i = 4 \/ i = 5
  OBVIOUS
<1>3. /\ IR!Steps[1] = "input" /\ IR!Steps[2] = "table" /\ IR!Steps[3] = "map"
      /\ IR!Steps[4] = "preview" /\ IR!Steps[5] = "done"
  BY DEF IR!Steps
<1>4. QED
  BY <1>1, <1>2, <1>3 DEF IR!Range

\* The steps that end the run, the steps of the modal, and the others.
LEMMA InputIsTyped ==
    ASSUME InputTyped, [IR!Next]_(IR!vars)
    PROVE  InputTyped'
<1>0. sqlFiles' = sqlFiles
  BY DEF IR!Next, IR!vars
<1>1. ASSUME NEW f \in ImportFiles, IR!Enqueue(<<f>>) \/ IR!PickFile(f)
      PROVE  InputTyped'
  <2>1. <<f>> \in Seq(ImportFiles) /\ queue \in Seq(ImportFiles)
    BY DEF InputTyped
  <2>2. queue \o <<f>> \in Seq(ImportFiles)
    BY <2>1
  <2>3. CASE IR!Enqueue(<<f>>)
    BY <1>0, <2>1, <2>2, <2>3 DEF IR!Enqueue, InputTyped
  <2>4. CASE IR!PickFile(f)
    BY <1>0, <2>1, <2>4 DEF IR!PickFile, InputTyped
  <2>5. QED
    BY <1>1, <2>3, <2>4
<1>2. CASE IR!LoadQueueNext \/ IR!CancelQueue
  <2>1. queue \in Seq(ImportFiles) /\ queue # << >>
    BY <1>2 DEF IR!LoadQueueNext, IR!CancelQueue, InputTyped
  <2>2. Head(queue) \in ImportFiles /\ Tail(queue) \in Seq(ImportFiles) /\ << >> \in Seq(ImportFiles)
    BY <2>1
  <2>3. QED
    BY <1>0, <1>2, <2>2 DEF IR!LoadQueueNext, IR!CancelQueue, InputTyped
<1>3. CASE IR!FileRead \/ IR!AutoParse \/ IR!HandleParse \/ IR!Choose
  BY <1>0, <1>3 DEF IR!FileRead, IR!AutoParse, IR!HandleParse, IR!Choose, IR!input, InputTyped
<1>4. CASE \/ \E s \in IR!Range(IR!Steps) : IR!Goto(s)
           \/ \E b \in BOOLEAN : IR!SetSkipFailed(b)
           \/ \E fs \in SUBSET failed : IR!RetryRows(fs)
  BY <1>0, <1>4, FiveSteps DEF IR!Goto, IR!SetSkipFailed, IR!RetryRows, IR!input, InputTyped
<1>5. ASSUME NEW status, NEW s \in {"preview", "done"}, IR!Ends(status, s)
      PROVE  InputTyped'
  BY <1>0, <1>5 DEF IR!Ends, IR!input, InputTyped
<1>6. CASE IR!Committed \/ \E b \in BOOLEAN : IR!BeginFails(b) \/ IR!RolledBack(b)
  BY <1>5, <1>6, SMTT(30) DEF IR!BeginFails, IR!Committed, IR!RolledBack
<1>7. CASE \/ IR!RunImport \/ IR!Begun \/ IR!LoopHead \/ \E a : IR!Answer(a)
           \/ \E b : IR!CommitThrows(b) \/ IR!UndoArrives(b)
           \/ IR!HandleCancelImport \/ IR!FinishAndClose
  BY <1>0, <1>7 DEF IR!RunImport, IR!Begun, IR!LoopHead, IR!Answer, IR!CommitThrows, IR!UndoArrives,
                    IR!HandleCancelImport, IR!FinishAndClose, IR!input, InputTyped
<1>8. CASE UNCHANGED IR!vars
  BY <1>8 DEF IR!vars, IR!input, InputTyped
<1>9. QED
  BY <1>1, <1>2, <1>3, <1>4, <1>6, <1>7, <1>8 DEF IR!Next, IR!Step

LEMMA FlagsAreTyped ==
    ASSUME FlagsTyped, [IR!Next]_(IR!vars)
    PROVE  FlagsTyped'
<1>1. CASE IR!Step
  <2>1. /\ open' \in {open, FALSE} /\ ready' \in {ready, TRUE}
        /\ busy' \in {busy, TRUE, FALSE} /\ cancel' \in {cancel, TRUE, FALSE}
        /\ txRef' \in {txRef, TRUE, FALSE} /\ undoing' \in {undoing, txRef, FALSE}
    BY <1>1 DEF IR!Step, IR!choice, IR!server, IR!Ends, IR!Enqueue, IR!PickFile, IR!LoadQueueNext,
       IR!FileRead, IR!AutoParse, IR!HandleParse, IR!Choose, IR!Goto, IR!SetSkipFailed,
       IR!RetryRows, IR!RunImport, IR!Begun, IR!BeginFails, IR!LoopHead, IR!Answer, IR!RolledBack,
       IR!CommitThrows, IR!UndoArrives, IR!Committed, IR!HandleCancelImport, IR!CancelQueue,
       IR!FinishAndClose
  <2>2. open' \in BOOLEAN
    BY <2>1 DEF FlagsTyped
  <2>3. ready' \in BOOLEAN
    BY <2>1 DEF FlagsTyped
  <2>4. busy' \in BOOLEAN
    BY <2>1 DEF FlagsTyped
  <2>5. cancel' \in BOOLEAN
    BY <2>1 DEF FlagsTyped
  <2>6. txRef' \in BOOLEAN
    BY <2>1 DEF FlagsTyped
  <2>7. undoing' \in BOOLEAN
    BY <2>1 DEF FlagsTyped
  <2>8. QED
    BY <2>2, <2>3, <2>4, <2>5, <2>6, <2>7 DEF FlagsTyped
<1>2. CASE UNCHANGED IR!vars
  BY <1>2 DEF IR!vars, IR!choice, IR!server, FlagsTyped
<1>3. QED
  BY <1>1, <1>2 DEF IR!Next

LEMMA FailuresAreTyped ==
    ASSUME IR!ImportAssumption, ImportInv, FailuresTyped, [IR!Next]_(IR!vars)
    PROVE  FailuresTyped'
<1>1. CASE IR!RunImport
  <2>1. Len(IR!Effective) <= IR!Cardinality(ImportRows)
    BY RowsInOrder DEF IR!Effective
  <2>2. /\ failed' = {} /\ retry' = retry /\ run'.bad = {} /\ run'.todo = IR!Effective
    BY <1>1 DEF IR!RunImport, IR!choice
  <2>3. QED
    BY <2>1, <2>2 DEF FailuresTyped
<1>2. ASSUME NEW fs \in SUBSET failed, IR!RetryRows(fs)
      PROVE  FailuresTyped'
  <2>1. retry' = {f.idx : f \in fs} /\ failed' = failed /\ run' = run
    BY <1>2 DEF IR!RetryRows
  <2>2. \A f \in fs : f.idx \in ImportRows
    BY DEF FailuresTyped, Failures
  <2>3. QED
    BY <2>1, <2>2 DEF FailuresTyped
<1>3. CASE IR!LoopHead
  <2>1. run # None /\ run \in IR!Run /\ retry' = retry /\ failed' \in {failed, run.bad}
    BY <1>3 DEF IR!LoopHead, IR!choice, ImportInv, RunTyped
  <2>2. \E a : run' = [run EXCEPT !.at = a]
    BY <1>3 DEF IR!LoopHead
  <2>3. run'.bad = run.bad /\ run'.todo = run.todo
    BY <2>1, <2>2 DEF IR!Run
  <2>4. QED
    BY <2>1, <2>3 DEF FailuresTyped
<1>4. ASSUME NEW a, IR!Answer(a)
      PROVE  FailuresTyped'
  <2> DEFINE row == run.todo[run.n + 1]
             good == a = "ok" \/ (a = "zero" /\ run.sql)
             new == [row |-> row, idx |-> run.n + 1]
             bad == IF good THEN run.bad ELSE run.bad \cup {new}
  <2>1. /\ run # None /\ run \in IR!Run /\ run.at = "exec" /\ run.n \in Nat /\ run.n < Len(run.todo)
        /\ UNCHANGED <<retry, failed>> /\ Len(run.todo) \in Nat
    BY <1>4 DEF IR!Answer, IR!choice, ImportInv, RunTyped, LoopKnows, IR!Run
  <2>2. row \in ImportRows
    BY <2>1 DEF IR!Run
  <2>3. run.n + 1 \in ImportRows
    <3>1. Len(run.todo) <= IR!Cardinality(ImportRows) /\ ImportRows = 1..IR!Cardinality(ImportRows)
      BY <2>1 DEF FailuresTyped, IR!ImportAssumption
    <3>2. IR!Cardinality(ImportRows) \in Nat
      BY RowsAreCounted
    <3>3. QED
      BY <2>1, <3>1, <3>2
  <2>4. new \in Failures
    BY <2>2, <2>3 DEF Failures
  <2>5. run' = [run EXCEPT !.at = "head", !.n = run.n + 1, !.bad = bad]
    BY <1>4, <2>1 DEF IR!Answer
  <2>6. bad \subseteq Failures
    BY <2>1, <2>4 DEF FailuresTyped
  <2> HIDE DEF bad
  <2>7. run'.bad = bad /\ run'.todo = run.todo
    BY <2>1, <2>5 DEF IR!Run
  <2>8. QED
    BY <2>1, <2>6, <2>7 DEF FailuresTyped
<1>5. ASSUME NEW status, NEW s, IR!Ends(status, s), retry' \in {retry, None}, failed' = failed
      PROVE  FailuresTyped'
  BY <1>5 DEF IR!Ends, FailuresTyped
<1>6. CASE IR!Committed \/ \E b \in BOOLEAN : IR!BeginFails(b) \/ IR!RolledBack(b)
  BY <1>5, <1>6, SMTT(30) DEF IR!BeginFails, IR!Committed, IR!RolledBack
<1>7. CASE IR!Begun \/ \E b : IR!CommitThrows(b)
  <2>1. /\ run # None /\ run \in IR!Run /\ (\E a : run' = [run EXCEPT !.at = a])
        /\ failed' = failed /\ retry' = retry
    BY <1>7 DEF IR!Begun, IR!CommitThrows, IR!choice, ImportInv, RunTyped
  <2>2. run'.bad = run.bad /\ run'.todo = run.todo
    BY <2>1 DEF IR!Run
  <2>3. QED
    BY <2>1, <2>2 DEF FailuresTyped
<1>8. CASE \/ \E f \in ImportFiles : IR!Enqueue(<<f>>) \/ IR!PickFile(f)
           \/ IR!LoadQueueNext \/ IR!CancelQueue \/ IR!FileRead \/ IR!AutoParse \/ IR!HandleParse
           \/ IR!Choose \/ \E s \in IR!Range(IR!Steps) : IR!Goto(s)
           \/ \E b \in BOOLEAN : IR!SetSkipFailed(b) \/ IR!UndoArrives(b)
           \/ IR!HandleCancelImport \/ IR!FinishAndClose
  <2>1. UNCHANGED <<failed, retry, run>>
    BY <1>8 DEF IR!Enqueue, IR!PickFile, IR!LoadQueueNext, IR!CancelQueue, IR!FileRead,
                IR!AutoParse, IR!HandleParse, IR!Choose, IR!Goto, IR!SetSkipFailed,
                IR!UndoArrives, IR!HandleCancelImport, IR!FinishAndClose, IR!choice
  <2>2. QED
    BY <2>1 DEF FailuresTyped
<1>9. CASE UNCHANGED IR!vars
  BY <1>9 DEF IR!vars, IR!choice, FailuresTyped
<1>10. QED
  BY <1>1, <1>2, <1>3, <1>4, <1>6, <1>7, <1>8, <1>9 DEF IR!Next, IR!Step

LEMMA ServerIsTyped ==
    ASSUME IR!ImportAssumption, ImportInv, ServerTyped, [IR!Next]_(IR!vars)
    PROVE  ServerTyped'
<1>0. tx \in (SUBSET ImportRows) \cup {None} /\ ImportRuns \in Nat
  BY DEF ImportInv, RunTyped, IR!ImportAssumption
<1>1. CASE IR!RunImport
  <2>1. kept' = {} /\ lost' = {}
    BY <1>1 DEF IR!RunImport
  <2>2. runs' \in 0..ImportRuns
    BY <1>0, <1>1 DEF IR!RunImport, ServerTyped
  <2>3. QED
    BY <2>1, <2>2 DEF ServerTyped
<1>2. ASSUME runs' = runs, kept' = kept \/ (tx # None /\ kept' = tx),
             lost' \subseteq lost \cup {"begin", "execute", "abort", "commit", "rollback"}
      PROVE  ServerTyped'
  BY <1>0, <1>2, SMTT(30) DEF ServerTyped
<1>3. CASE \/ IR!Begun \/ IR!LoopHead \/ (\E a : IR!Answer(a)) \/ IR!Committed
           \/ \E b \in BOOLEAN : IR!BeginFails(b) \/ IR!CommitThrows(b) \/ IR!UndoArrives(b) \/ IR!RolledBack(b)
  BY <1>2, <1>3 DEF IR!Begun, IR!BeginFails, IR!LoopHead, IR!Answer, IR!Committed, IR!CommitThrows,
                    IR!UndoArrives, IR!RolledBack, IR!Ends, IR!server
<1>4. CASE \/ \E f \in ImportFiles : IR!Enqueue(<<f>>) \/ IR!PickFile(f)
           \/ IR!LoadQueueNext \/ IR!CancelQueue \/ IR!FileRead \/ IR!AutoParse \/ IR!HandleParse
           \/ IR!Choose \/ \E s \in IR!Range(IR!Steps) : IR!Goto(s)
           \/ \E b \in BOOLEAN : IR!SetSkipFailed(b)
           \/ \E fs \in SUBSET failed : IR!RetryRows(fs)
           \/ IR!HandleCancelImport \/ IR!FinishAndClose
  BY <1>2, <1>4 DEF IR!Enqueue, IR!PickFile, IR!LoadQueueNext, IR!CancelQueue, IR!FileRead,
                    IR!AutoParse, IR!HandleParse, IR!Choose, IR!Goto, IR!SetSkipFailed,
                    IR!RetryRows, IR!HandleCancelImport, IR!FinishAndClose, IR!server
<1>5. CASE UNCHANGED IR!vars
  BY <1>2, <1>5 DEF IR!vars, IR!server
<1>6. QED
  BY <1>1, <1>3, <1>4, <1>5 DEF IR!Next, IR!Step

ImportTyped == InputTyped /\ FlagsTyped /\ FailuresTyped /\ ServerTyped

LEMMA ImportIsTyped ==
    ASSUME IR!ImportAssumption, ImportInv, ImportTyped, [IR!Next]_(IR!vars)
    PROVE  ImportTyped'
BY InputIsTyped, FlagsAreTyped, FailuresAreTyped, ServerIsTyped DEF ImportTyped

LEMMA ImportTypes ==
    ASSUME IR!ImportAssumption, ImportInv, ImportTyped
    PROVE  IR!TypeOK
<1>1. failed \subseteq IR!Failure
  <2>1. ImportRows \subseteq Nat
    <3>1. ImportRows = 1..IR!Cardinality(ImportRows)
      BY DEF IR!ImportAssumption
    <3>2. QED
      BY <3>1, RowsAreCounted
  <2>2. QED
    BY <2>1 DEF ImportTyped, FailuresTyped, Failures, IR!Failure
<1>2. {ready, skipFailed, busy, cancel, txRef, undoing} \subseteq BOOLEAN
  BY DEF ImportTyped, FlagsTyped, ImportInv, RunTyped
<1>3. open \in BOOLEAN
  BY DEF ImportTyped, FlagsTyped
<1>4. step \in IR!Range(IR!Steps)
  BY FiveSteps DEF ImportTyped, InputTyped
<1>5. QED
  BY <1>1, <1>2, <1>3, <1>4 DEF ImportTyped, InputTyped, FailuresTyped, ServerTyped, ImportInv, RunTyped,
                                IR!TypeOK
=============================================================================
