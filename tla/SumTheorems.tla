------------------------------ MODULE SumTheorems ------------------------------
(***************************************************************************)
(* Facts about the totals of the model.  Every SUM of the services is      *)
(* written with MapThenSumSet, which adds in an order that CHOOSE picks;   *)
(* SumFunctionOnSet(f, S) is the same total with the amounts as a function *)
(* (a component's proofs turn its sums into that one first).  The order    *)
(* does not matter, and totals over finite sets can be split, compared,    *)
(* counted under other names and grouped.                                  *)
(***************************************************************************)
EXTENDS Integers, FiniteSetsExt, FiniteSetTheorems, WellFoundedInduction, TLAPS

\* What holds of a set whenever it holds of its proper subsets, holds of every
\* finite set; Good is the set of those it holds of.
LEMMA SubsetInduction ==
    ASSUME NEW S, IsFiniteSet(S), NEW Good,
           \A T \in SUBSET S : (\A U \in SUBSET T : U # T => U \in Good) => T \in Good
    PROVE  \A T \in SUBSET S : T \in Good
  <1> DEFINE Bad == (SUBSET S) \ Good
  <1> SUFFICES ASSUME Bad # {} PROVE FALSE
    OBVIOUS
  <1>1. IsWellFoundedOn(StrictSubsetOrdering(S), SUBSET S)
    <2>1. IsWellFoundedOn(StrictSubsetOrdering(S), FiniteSubsetsOf(S))
      BY FS_StrictSubsetOrderingWellFounded
    <2>2. FiniteSubsetsOf(S) = SUBSET S
      BY FS_FiniteSubsetsOfFinite
    <2> QED BY <2>1, <2>2
  <1>2. PICK T \in Bad : \A U \in Bad : ~(<<U, T>> \in StrictSubsetOrdering(S))
    <2> HIDE DEF Bad
    <2>1. Bad \subseteq SUBSET S
      BY DEF Bad
    <2> QED BY <1>1, <2>1, WFMin
  <1>3. \A U \in SUBSET T : U # T => U \in Good
    BY <1>2 DEF StrictSubsetOrdering
  <1> QED BY <1>2, <1>3

\* What holds of {} and is kept by one element more holds of every finite set.
LEMMA OneMoreInduction ==
    ASSUME NEW S, IsFiniteSet(S), NEW Good, {} \in Good,
           \A T \in SUBSET S : \A x \in T : T \ {x} \in Good => T \in Good
    PROVE  S \in Good
  <1>1. ASSUME NEW T \in SUBSET S, \A U \in SUBSET T : U # T => U \in Good
        PROVE  T \in Good
    <2>1. CASE T = {}
      BY <2>1
    <2>2. CASE T # {}
      <3>1. PICK x \in T : TRUE
        BY <2>2
      <3>2. T \ {x} \in SUBSET T /\ T \ {x} # T
        BY <3>1
      <3> QED BY <1>1, <3>2
    <2> QED BY <2>1, <2>2
  <1>2. \A T \in SUBSET S : T \in Good
    BY <1>1, SubsetInduction
  <1> QED BY <1>2

-----------------------------------------------------------------------------
(* The recursive function behind a total                                   *)

FirstOf(s) == CHOOSE x \in s : TRUE
AddsUp(g, f, S) ==
    g = [s \in SUBSET S |-> IF s = {} THEN 0 ELSE f[FirstOf(s)] + g[s \ {FirstOf(s)}]]

LEMMA SumUnfolded ==
    ASSUME NEW f, NEW S PROVE SumFunctionOnSet(f, S) = (CHOOSE g : AddsUp(g, f, S))[S]
  BY Zenon DEF SumFunctionOnSet, FoldFunctionOnSet, MapThenFoldSet, AddsUp, FirstOf

LEMMA FirstIn == ASSUME NEW s, s # {} PROVE FirstOf(s) \in s
  BY DEF FirstOf

LEMMA AddsUnique ==
    ASSUME NEW f, NEW S, IsFiniteSet(S), NEW V \in SUBSET S, NEW g, NEW h,
           AddsUp(g, f, S), AddsUp(h, f, V)
    PROVE  \A s \in SUBSET V : g[s] = h[s]
  <1> DEFINE Good == {s \in SUBSET V : g[s] = h[s]}
  <1>1. IsFiniteSet(V)
    BY FS_Subset
  <1>2. ASSUME NEW s \in SUBSET V, \A u \in SUBSET s : u # s => u \in Good
        PROVE  s \in Good
    <2>1. CASE s = {}
      BY <2>1 DEF AddsUp
    <2>2. CASE s # {}
      <3>1. s \ {FirstOf(s)} \in SUBSET s /\ s \ {FirstOf(s)} # s
        BY <2>2, FirstIn
      <3>2. g[s \ {FirstOf(s)}] = h[s \ {FirstOf(s)}]
        BY <1>2, <3>1
      <3>3. /\ g[s] = f[FirstOf(s)] + g[s \ {FirstOf(s)}]
            /\ h[s] = f[FirstOf(s)] + h[s \ {FirstOf(s)}]
        BY <2>2, Zenon DEF AddsUp
      <3> QED BY <3>2, <3>3
    <2> QED BY <2>1, <2>2
  <1>3. \A s \in SUBSET V : s \in Good
    <2> HIDE DEF Good
    <2> QED BY <1>1, <1>2, SubsetInduction
  <1> QED BY <1>3

LEMMA AddsExists ==
    ASSUME NEW f, NEW S, IsFiniteSet(S)
    PROVE  \E g : AddsUp(g, f, S)
  <1> DEFINE Sum(T) == SumFunctionOnSet(f, T)
             Good == {T \in SUBSET S : \E g : AddsUp(g, f, T)}
  <1>1. ASSUME NEW T \in SUBSET S, \A U \in SUBSET T : U # T => U \in Good
        PROVE  T \in Good
    <2> DEFINE g == [s \in SUBSET T |-> IF s = {} THEN 0 ELSE f[FirstOf(s)] + Sum(s \ {FirstOf(s)})]
    <2>1. ASSUME NEW U \in SUBSET T, U # T
          PROVE  g[U] = Sum(U)
      <3> DEFINE G == CHOOSE h : AddsUp(h, f, U)
      <3>1. AddsUp(G, f, U)
        BY <1>1, <2>1
      <3>2. Sum(U) = G[U]
        BY SumUnfolded, Zenon
      <3>3. CASE U = {}
        BY <3>1, <3>2, <3>3 DEF AddsUp
      <3>4. CASE U # {}
        <4> DEFINE V == U \ {FirstOf(U)}
                   H == CHOOSE h : AddsUp(h, f, V)
        <4>1. V \in SUBSET U /\ V \in SUBSET T /\ V # T
          BY <2>1
        <4>2. AddsUp(H, f, V)
          BY <1>1, <4>1
        <4>3. Sum(V) = H[V]
          BY SumUnfolded, Zenon
        <4>4. IsFiniteSet(U)
          BY FS_Subset
        <4>5. G[V] = H[V]
          <5> HIDE DEF G, H, V
          <5> QED BY <3>1, <4>1, <4>2, <4>4, AddsUnique
        <4>6. G[U] = f[FirstOf(U)] + G[V]
          <5> HIDE DEF G
          <5> QED BY <3>1, <3>4, Zenon DEF AddsUp
        <4>7. g[U] = f[FirstOf(U)] + Sum(V)
          <5> HIDE DEF Sum
          <5> QED BY <3>4, Zenon
        <4> QED BY <3>2, <4>3, <4>5, <4>6, <4>7, Zenon
      <3> QED BY <3>3, <3>4
    <2>2. ASSUME NEW s \in SUBSET T, s # {} PROVE Sum(s \ {FirstOf(s)}) = g[s \ {FirstOf(s)}]
      <3>1. s \ {FirstOf(s)} \in SUBSET T /\ s \ {FirstOf(s)} # T
        BY <2>2, FirstIn
      <3> HIDE DEF g, Sum
      <3> QED BY <2>1, <3>1
    <2>3. AddsUp(g, f, T)
      <3>1. g = [s \in SUBSET T |-> IF s = {} THEN 0 ELSE f[FirstOf(s)] + g[s \ {FirstOf(s)}]]
        <4>1. \A s \in SUBSET T : (IF s = {} THEN 0 ELSE f[FirstOf(s)] + Sum(s \ {FirstOf(s)}))
                                = (IF s = {} THEN 0 ELSE f[FirstOf(s)] + g[s \ {FirstOf(s)}])
          <5> HIDE DEF g, Sum
          <5> QED BY <2>2, Zenon
        <4> HIDE DEF Sum
        <4> QED BY <4>1, Zenon
      <3> HIDE DEF g
      <3> QED BY <3>1, Zenon DEF AddsUp
    <2> QED BY <2>3
  <1>2. \A T \in SUBSET S : T \in Good
    <2> HIDE DEF Good
    <2> QED BY <1>1, SubsetInduction
  <1> QED BY <1>2
-----------------------------------------------------------------------------
(* One element more or less                                                *)

LEMMA SumEmpty ==
    ASSUME NEW f PROVE SumFunctionOnSet(f, {}) = 0
  <1> DEFINE G == CHOOSE g : AddsUp(g, f, {})
  <1>1. IsFiniteSet({})
    BY FS_EmptySet
  <1>2. AddsUp(G, f, {})
    BY <1>1, AddsExists
  <1>3. SumFunctionOnSet(f, {}) = G[{}]
    BY SumUnfolded, Zenon
  <1> HIDE DEF G
  <1> QED BY <1>2, <1>3 DEF AddsUp

LEMMA SumFirst ==
    ASSUME NEW f, NEW S, IsFiniteSet(S), S # {}
    PROVE  SumFunctionOnSet(f, S) = f[FirstOf(S)] + SumFunctionOnSet(f, S \ {FirstOf(S)})
  <1> DEFINE V == S \ {FirstOf(S)}
             G == CHOOSE g : AddsUp(g, f, S)
             H == CHOOSE g : AddsUp(g, f, V)
  <1>1. IsFiniteSet(V) /\ V \in SUBSET S
    BY FS_Subset
  <1>2. AddsUp(G, f, S) /\ AddsUp(H, f, V)
    BY <1>1, AddsExists
  <1>3. SumFunctionOnSet(f, S) = G[S] /\ SumFunctionOnSet(f, V) = H[V]
    BY SumUnfolded, Zenon
  <1>4. G[V] = H[V]
    <2> HIDE DEF G, H, V
    <2> QED BY <1>1, <1>2, AddsUnique
  <1>5. G[S] = f[FirstOf(S)] + G[V]
    <2> HIDE DEF G
    <2> QED BY <1>2, Zenon DEF AddsUp
  <1> QED BY <1>3, <1>4, <1>5, Zenon

\* A total of integers is an integer.
LEMMA SumType ==
    ASSUME NEW f, NEW S, IsFiniteSet(S), \A x \in S : f[x] \in Int
    PROVE  SumFunctionOnSet(f, S) \in Int
  <1> DEFINE Good == {T \in SUBSET S : SumFunctionOnSet(f, T) \in Int}
  <1>1. ASSUME NEW T \in SUBSET S, \A U \in SUBSET T : U # T => U \in Good
        PROVE  T \in Good
    <2>1. CASE T = {}
      BY <2>1, SumEmpty
    <2>2. CASE T # {}
      <3>1. FirstOf(T) \in T /\ IsFiniteSet(T)
        BY <2>2, FirstIn, FS_Subset
      <3>2. T \ {FirstOf(T)} \in Good
        BY <1>1, <3>1
      <3>3. SumFunctionOnSet(f, T) = f[FirstOf(T)] + SumFunctionOnSet(f, T \ {FirstOf(T)})
        BY <2>2, <3>1, SumFirst
      <3> QED BY <3>1, <3>2, <3>3
    <2> QED BY <2>1, <2>2
  <1>2. \A T \in SUBSET S : T \in Good
    <2> HIDE DEF Good
    <2> QED BY <1>1, SubsetInduction
  <1> QED BY <1>2

\* The order does not matter: any element may be added first.
LEMMA SumAny ==
    ASSUME NEW f, NEW S, IsFiniteSet(S), \A x \in S : f[x] \in Int, NEW x \in S
    PROVE  SumFunctionOnSet(f, S) = f[x] + SumFunctionOnSet(f, S \ {x})
  <1> DEFINE Sum(T) == SumFunctionOnSet(f, T)
             Good == {T \in SUBSET S : \A y \in T : Sum(T) = f[y] + Sum(T \ {y})}
  <1>1. ASSUME NEW T \in SUBSET S, \A U \in SUBSET T : U # T => U \in Good
        PROVE  T \in Good
    <2> SUFFICES ASSUME NEW y \in T PROVE Sum(T) = f[y] + Sum(T \ {y})
      OBVIOUS
    <2> DEFINE z == FirstOf(T)
    <2>1. z \in T /\ IsFiniteSet(T)
      BY FirstIn, FS_Subset
    <2>2. Sum(T) = f[z] + Sum(T \ {z})
      BY <2>1, SumFirst
    <2>3. CASE y = z
      BY <2>2, <2>3
    <2>4. CASE y # z
      <3> HIDE DEF z
      <3> DEFINE R == T \ {y, z}
      <3>1. R = (T \ {z}) \ {y} /\ R = (T \ {y}) \ {z}
        OBVIOUS
      <3>2. T \ {z} \in Good /\ T \ {y} \in Good
        BY <1>1, <2>1
      <3>3. Sum(T \ {z}) = f[y] + Sum(R)
        BY <2>1, <2>4, <3>1, <3>2
      <3>4. Sum(T \ {y}) = f[z] + Sum(R)
        BY <2>1, <2>4, <3>1, <3>2
      <3>5. Sum(R) \in Int /\ f[y] \in Int /\ f[z] \in Int
        <4>1. IsFiniteSet(R) /\ \A w \in R : f[w] \in Int
          BY <2>1, FS_Subset
        <4> QED BY <2>1, <4>1, SumType
      <3> HIDE DEF Sum, R
      <3> QED BY <2>2, <3>3, <3>4, <3>5
    <2> QED BY <2>3, <2>4
  <1>2. \A T \in SUBSET S : T \in Good
    <2> HIDE DEF Good
    <2> QED BY <1>1, SubsetInduction
  <1> QED BY <1>2
LEMMA SumMore ==
    ASSUME NEW f, NEW S, IsFiniteSet(S), NEW x, x \notin S, \A y \in S \cup {x} : f[y] \in Int
    PROVE  SumFunctionOnSet(f, S \cup {x}) = SumFunctionOnSet(f, S) + f[x]
  <1>1. IsFiniteSet(S \cup {x}) /\ (S \cup {x}) \ {x} = S
    BY FS_AddElement
  <1>2. SumFunctionOnSet(f, S \cup {x}) = f[x] + SumFunctionOnSet(f, S)
    BY <1>1, SumAny
  <1>3. SumFunctionOnSet(f, S) \in Int /\ f[x] \in Int
    BY SumType
  <1> QED BY <1>2, <1>3

LEMMA SumOne ==
    ASSUME NEW f, NEW x, f[x] \in Int
    PROVE  SumFunctionOnSet(f, {x}) = f[x]
  <1>1. SumFunctionOnSet(f, {} \cup {x}) = SumFunctionOnSet(f, {}) + f[x]
    BY FS_EmptySet, SumMore
  <1>2. {} \cup {x} = {x}
    OBVIOUS
  <1> QED BY <1>1, <1>2, SumEmpty

-----------------------------------------------------------------------------
(* Comparing totals over one set                                           *)

LEMMA SumSame ==
    ASSUME NEW f, NEW g, NEW S, IsFiniteSet(S), \A x \in S : f[x] = g[x]
    PROVE  SumFunctionOnSet(f, S) = SumFunctionOnSet(g, S)
  <1> DEFINE Good == {T \in SUBSET S : SumFunctionOnSet(f, T) = SumFunctionOnSet(g, T)}
  <1>1. ASSUME NEW T \in SUBSET S, \A U \in SUBSET T : U # T => U \in Good
        PROVE  T \in Good
    <2>1. CASE T = {}
      BY <2>1, SumEmpty
    <2>2. CASE T # {}
      <3>1. FirstOf(T) \in T /\ IsFiniteSet(T)
        BY <2>2, FirstIn, FS_Subset
      <3>2. T \ {FirstOf(T)} \in Good
        BY <1>1, <3>1
      <3>3. /\ SumFunctionOnSet(f, T) = f[FirstOf(T)] + SumFunctionOnSet(f, T \ {FirstOf(T)})
            /\ SumFunctionOnSet(g, T) = g[FirstOf(T)] + SumFunctionOnSet(g, T \ {FirstOf(T)})
        BY <2>2, <3>1, SumFirst
      <3> QED BY <3>1, <3>2, <3>3
    <2> QED BY <2>1, <2>2
  <1>2. \A T \in SUBSET S : T \in Good
    <2> HIDE DEF Good
    <2> QED BY <1>1, SubsetInduction
  <1> QED BY <1>2

LEMMA SumZero ==
    ASSUME NEW f, NEW S, IsFiniteSet(S), \A x \in S : f[x] = 0
    PROVE  SumFunctionOnSet(f, S) = 0
  <1> DEFINE Good == {T \in SUBSET S : SumFunctionOnSet(f, T) = 0}
  <1>1. {} \in Good
    BY SumEmpty
  <1>2. ASSUME NEW T \in SUBSET S, NEW x \in T, T \ {x} \in Good PROVE T \in Good
    <2>1. IsFiniteSet(T) /\ \A y \in T : f[y] \in Int
      BY FS_Subset
    <2>2. SumFunctionOnSet(f, T) = f[x] + SumFunctionOnSet(f, T \ {x})
      BY <2>1, SumAny
    <2> QED BY <1>2, <2>2
  <1>3. S \in Good
    <2> HIDE DEF Good
    <2> QED BY <1>1, <1>2, OneMoreInduction
  <1> QED BY <1>3

\* Totals add up where the amounts do.
LEMMA SumPlus ==
    ASSUME NEW f, NEW g, NEW h, NEW S, IsFiniteSet(S),
           \A x \in S : f[x] \in Int /\ g[x] \in Int /\ h[x] = f[x] + g[x]
    PROVE  SumFunctionOnSet(h, S) = SumFunctionOnSet(f, S) + SumFunctionOnSet(g, S)
  <1> DEFINE Good == {T \in SUBSET S :
                        SumFunctionOnSet(h, T) = SumFunctionOnSet(f, T) + SumFunctionOnSet(g, T)}
  <1>1. {} \in Good
    BY SumEmpty
  <1>2. ASSUME NEW T \in SUBSET S, NEW x \in T, T \ {x} \in Good PROVE T \in Good
    <2>1. /\ IsFiniteSet(T) /\ \A y \in T : f[y] \in Int /\ g[y] \in Int /\ h[y] \in Int
          /\ IsFiniteSet(T \ {x})
      BY FS_Subset
    <2>2. /\ SumFunctionOnSet(f, T) = f[x] + SumFunctionOnSet(f, T \ {x})
          /\ SumFunctionOnSet(g, T) = g[x] + SumFunctionOnSet(g, T \ {x})
          /\ SumFunctionOnSet(h, T) = h[x] + SumFunctionOnSet(h, T \ {x})
      BY <2>1, SumAny
    <2>3. SumFunctionOnSet(f, T \ {x}) \in Int /\ SumFunctionOnSet(g, T \ {x}) \in Int
      BY <2>1, SumType
    <2> QED BY <1>2, <2>1, <2>2, <2>3
  <1>3. S \in Good
    <2> HIDE DEF Good
    <2> QED BY <1>1, <1>2, OneMoreInduction
  <1> QED BY <1>3

LEMMA SumAtMost ==
    ASSUME NEW f, NEW g, NEW S, IsFiniteSet(S),
           \A x \in S : f[x] \in Int /\ g[x] \in Int /\ f[x] <= g[x]
    PROVE  SumFunctionOnSet(f, S) <= SumFunctionOnSet(g, S)
  <1> DEFINE Good == {T \in SUBSET S : SumFunctionOnSet(f, T) <= SumFunctionOnSet(g, T)}
  <1>1. {} \in Good
    BY SumEmpty
  <1>2. ASSUME NEW T \in SUBSET S, NEW x \in T, T \ {x} \in Good PROVE T \in Good
    <2>1. /\ IsFiniteSet(T) /\ \A y \in T : f[y] \in Int /\ g[y] \in Int
          /\ IsFiniteSet(T \ {x})
      BY FS_Subset
    <2>2. /\ SumFunctionOnSet(f, T) = f[x] + SumFunctionOnSet(f, T \ {x})
          /\ SumFunctionOnSet(g, T) = g[x] + SumFunctionOnSet(g, T \ {x})
      BY <2>1, SumAny
    <2>3. SumFunctionOnSet(f, T \ {x}) \in Int /\ SumFunctionOnSet(g, T \ {x}) \in Int
      BY <2>1, SumType
    <2> QED BY <1>2, <2>1, <2>2, <2>3
  <1>3. S \in Good
    <2> HIDE DEF Good
    <2> QED BY <1>1, <1>2, OneMoreInduction
  <1> QED BY <1>3

LEMMA SumNatural ==
    ASSUME NEW f, NEW S, IsFiniteSet(S), \A x \in S : f[x] \in Nat
    PROVE  SumFunctionOnSet(f, S) \in Nat
  <1> DEFINE zero == [x \in S |-> 0]
  <1>1. SumFunctionOnSet(zero, S) = 0
    BY SumZero
  <1>2. SumFunctionOnSet(zero, S) <= SumFunctionOnSet(f, S)
    <2>1. \A x \in S : zero[x] \in Int /\ f[x] \in Int /\ zero[x] <= f[x]
      OBVIOUS
    <2> HIDE DEF zero
    <2> QED BY <2>1, SumAtMost
  <1>3. SumFunctionOnSet(f, S) \in Int
    BY SumType
  <1> QED BY <1>1, <1>2, <1>3

\* One amount changed changes the total by as much.
LEMMA SumChanged ==
    ASSUME NEW f, NEW g, NEW S, IsFiniteSet(S), \A y \in S : f[y] \in Int,
           NEW x \in S, NEW d \in Int, g[x] = f[x] + d, \A y \in S : y # x => g[y] = f[y]
    PROVE  SumFunctionOnSet(g, S) = SumFunctionOnSet(f, S) + d
  <1> DEFINE R == S \ {x}
  <1>1. IsFiniteSet(R)
    BY FS_Subset
  <1>2. /\ SumFunctionOnSet(f, S) = f[x] + SumFunctionOnSet(f, R)
        /\ SumFunctionOnSet(g, S) = g[x] + SumFunctionOnSet(g, R)
    <2>1. \A y \in S : g[y] \in Int
      OBVIOUS
    <2> QED BY <2>1, SumAny
  <1>3. SumFunctionOnSet(g, R) = SumFunctionOnSet(f, R)
    BY <1>1, SumSame
  <1>4. SumFunctionOnSet(f, R) \in Int
    BY <1>1, SumType
  <1> QED BY <1>2, <1>3, <1>4

-----------------------------------------------------------------------------
(* Splitting a set                                                         *)

LEMMA SumUnion ==
    ASSUME NEW f, NEW S, NEW T, IsFiniteSet(S), IsFiniteSet(T), S \cap T = {},
           \A x \in S \cup T : f[x] \in Int
    PROVE  SumFunctionOnSet(f, S \cup T) = SumFunctionOnSet(f, S) + SumFunctionOnSet(f, T)
  <1> DEFINE Good == {U \in SUBSET S :
                        SumFunctionOnSet(f, U \cup T) = SumFunctionOnSet(f, U) + SumFunctionOnSet(f, T)}
  <1>0. SumFunctionOnSet(f, T) \in Int
    BY SumType
  <1>1. {} \in Good
    <2>1. {} \cup T = T
      OBVIOUS
    <2> QED BY <1>0, <2>1, SumEmpty
  <1>2. ASSUME NEW U \in SUBSET S, NEW x \in U, U \ {x} \in Good PROVE U \in Good
    <2>1. /\ IsFiniteSet(U) /\ IsFiniteSet(U \cup T) /\ IsFiniteSet(U \ {x})
          /\ (U \cup T) \ {x} = (U \ {x}) \cup T
      BY FS_Subset, FS_Union
    <2>2. /\ SumFunctionOnSet(f, U \cup T) = f[x] + SumFunctionOnSet(f, (U \cup T) \ {x})
          /\ SumFunctionOnSet(f, U) = f[x] + SumFunctionOnSet(f, U \ {x})
      BY <2>1, SumAny
    <2>3. SumFunctionOnSet(f, U \ {x}) \in Int
      BY <2>1, SumType
    <2>4. SumFunctionOnSet(f, U \cup T)
            = f[x] + (SumFunctionOnSet(f, U \ {x}) + SumFunctionOnSet(f, T))
      BY <1>2, <2>1, <2>2
    <2>5. f[x] \in Int
      OBVIOUS
    <2> QED BY <1>0, <2>2, <2>3, <2>4, <2>5
  <1>3. S \in Good
    <2> HIDE DEF Good
    <2> QED BY <1>1, <1>2, OneMoreInduction
  <1> QED BY <1>3

\* Amounts of 0 may be left out.
LEMMA SumSubset ==
    ASSUME NEW f, NEW S, IsFiniteSet(S), NEW T \in SUBSET S,
           \A x \in T : f[x] \in Int, \A x \in S \ T : f[x] = 0
    PROVE  SumFunctionOnSet(f, S) = SumFunctionOnSet(f, T)
  <1>1. IsFiniteSet(T) /\ IsFiniteSet(S \ T) /\ T \cup (S \ T) = S /\ T \cap (S \ T) = {}
    BY FS_Subset
  <1>2. SumFunctionOnSet(f, S \ T) = 0
    BY <1>1, SumZero
  <1>3. SumFunctionOnSet(f, T \cup (S \ T)) = SumFunctionOnSet(f, T) + SumFunctionOnSet(f, S \ T)
    BY <1>1, SumUnion
  <1>4. SumFunctionOnSet(f, T) \in Int
    BY <1>1, SumType
  <1> QED BY <1>1, <1>2, <1>3, <1>4

\* A part of amounts that are not negative is no more than all of them.
LEMMA SumPart ==
    ASSUME NEW f, NEW S, IsFiniteSet(S), NEW T \in SUBSET S,
           \A x \in S : f[x] \in Int, \A x \in S \ T : f[x] >= 0
    PROVE  SumFunctionOnSet(f, T) <= SumFunctionOnSet(f, S)
  <1>1. IsFiniteSet(T) /\ IsFiniteSet(S \ T) /\ T \cup (S \ T) = S /\ T \cap (S \ T) = {}
    BY FS_Subset
  <1>2. SumFunctionOnSet(f, S \ T) \in Nat
    BY <1>1, SumNatural
  <1>3. SumFunctionOnSet(f, T \cup (S \ T)) = SumFunctionOnSet(f, T) + SumFunctionOnSet(f, S \ T)
    BY <1>1, SumUnion
  <1>4. SumFunctionOnSet(f, T) \in Int
    BY <1>1, SumType
  <1>5. SumFunctionOnSet(f, S) = SumFunctionOnSet(f, T) + SumFunctionOnSet(f, S \ T)
    BY <1>1, <1>3
  <1> QED BY <1>2, <1>4, <1>5

\* A total of what some have, and others have nothing of.
LEMMA SumChosen ==
    ASSUME NEW f, NEW g, NEW S, IsFiniteSet(S), NEW T \in SUBSET S,
           \A x \in T : f[x] \in Int /\ g[x] = f[x], \A x \in S \ T : g[x] = 0
    PROVE  SumFunctionOnSet(g, S) = SumFunctionOnSet(f, T)
  <1>1. IsFiniteSet(T)
    BY FS_Subset
  <1>2. SumFunctionOnSet(g, S) = SumFunctionOnSet(g, T)
    BY SumSubset
  <1>3. SumFunctionOnSet(g, T) = SumFunctionOnSet(f, T)
    BY <1>1, SumSame
  <1> QED BY <1>2, <1>3

LEMMA SumMinus ==
    ASSUME NEW f, NEW g, NEW S, IsFiniteSet(S), \A x \in S : f[x] \in Int /\ g[x] = 0 - f[x]
    PROVE  SumFunctionOnSet(g, S) = 0 - SumFunctionOnSet(f, S)
  <1> DEFINE zero == [x \in S |-> 0]
  <1>1. \A x \in S : f[x] \in Int /\ g[x] \in Int /\ zero[x] = 0 /\ zero[x] = f[x] + g[x]
    OBVIOUS
  <1> HIDE DEF zero
  <1>2. SumFunctionOnSet(zero, S) = SumFunctionOnSet(f, S) + SumFunctionOnSet(g, S)
    BY <1>1, SumPlus
  <1>3. SumFunctionOnSet(zero, S) = 0
    BY <1>1, SumZero
  <1>4. SumFunctionOnSet(f, S) \in Int /\ SumFunctionOnSet(g, S) \in Int
    BY <1>1, SumType
  <1> QED BY <1>2, <1>3, <1>4
-----------------------------------------------------------------------------
(* Counting under other names, and by groups                               *)

LEMMA NamesFinite ==
    ASSUME NEW h, NEW S, IsFiniteSet(S)
    PROVE  IsFiniteSet({h[x] : x \in S})
  <1> DEFINE T == {h[x] : x \in S}
             named == [x \in S |-> h[x]]
  <1>1. named \in Surjection(S, T)
    BY DEF Surjection
  <1> HIDE DEF T, named
  <1>2. IsFiniteSet(T)
    BY <1>1, FS_Surjection
  <1> QED BY <1>2 DEF T

\* A row counted once under a name of its own.
LEMMA SumRenamed ==
    ASSUME NEW f, NEW g, NEW h, NEW S, IsFiniteSet(S),
           \A x \in S : f[x] \in Int /\ g[h[x]] = f[x],
           \A x, y \in S : h[x] = h[y] => x = y
    PROVE  SumFunctionOnSet(g, {h[x] : x \in S}) = SumFunctionOnSet(f, S)
  <1> DEFINE Named(T) == {h[x] : x \in T}
             Good == {T \in SUBSET S : SumFunctionOnSet(g, Named(T)) = SumFunctionOnSet(f, T)}
  <1>1. {} \in Good
    <2>1. Named({}) = {}
      OBVIOUS
    <2> QED BY <2>1, SumEmpty
  <1>2. ASSUME NEW T \in SUBSET S, NEW x \in T, T \ {x} \in Good PROVE T \in Good
    <2>1. IsFiniteSet(T) /\ IsFiniteSet(Named(T))
      BY FS_Subset, NamesFinite
    <2>2. /\ h[x] \in Named(T) /\ Named(T) \ {h[x]} = Named(T \ {x})
          /\ \A y \in Named(T) : g[y] \in Int
      OBVIOUS
    <2>3. /\ SumFunctionOnSet(f, T) = f[x] + SumFunctionOnSet(f, T \ {x})
          /\ SumFunctionOnSet(g, Named(T)) = g[h[x]] + SumFunctionOnSet(g, Named(T) \ {h[x]})
      <3> HIDE DEF Named
      <3> QED BY <2>1, <2>2, SumAny
    <2> HIDE DEF Named
    <2> QED BY <1>2, <2>2, <2>3
  <1>3. S \in Good
    <2> HIDE DEF Good
    <2> QED BY <1>1, <1>2, OneMoreInduction
  <1> QED BY <1>3

\* Totals by group add up to the total: h names the group of a row.
LEMMA SumGrouped ==
    ASSUME NEW f, NEW h, NEW S, IsFiniteSet(S), NEW V, IsFiniteSet(V), NEW G, NEW group,
           \A x \in S : f[x] \in Int /\ h[x] \in V,
           \A v \in V : \A x : x \in group[v] <=> x \in S /\ h[x] = v,
           \A v \in V : G[v] = SumFunctionOnSet(f, group[v])
    PROVE  SumFunctionOnSet(G, V) = SumFunctionOnSet(f, S)
  <1> DEFINE Of(W) == {x \in S : h[x] \in W}
             Good == {W \in SUBSET V : SumFunctionOnSet(G, W) = SumFunctionOnSet(f, Of(W))}
  <1>0. \A v \in V : G[v] \in Int
    <2> SUFFICES ASSUME NEW v \in V PROVE G[v] \in Int
      OBVIOUS
    <2>1. IsFiniteSet(group[v])
      BY FS_Subset
    <2>2. SumFunctionOnSet(f, group[v]) \in Int
      BY <2>1, SumType
    <2> QED BY <2>2
  <1>1. {} \in Good
    <2>1. Of({}) = {}
      OBVIOUS
    <2> QED BY <2>1, SumEmpty
  <1>2. ASSUME NEW W \in SUBSET V, NEW v \in W, W \ {v} \in Good PROVE W \in Good
    <2> DEFINE one == group[v]
               rest == Of(W \ {v})
    <2>1. /\ IsFiniteSet(W) /\ IsFiniteSet(one) /\ IsFiniteSet(rest)
          /\ one \cap rest = {} /\ one \cup rest = Of(W)
      BY FS_Subset
    <2>2. SumFunctionOnSet(G, W) = G[v] + SumFunctionOnSet(G, W \ {v})
      BY <1>0, <2>1, SumAny
    <2>3. SumFunctionOnSet(f, one \cup rest) = SumFunctionOnSet(f, one) + SumFunctionOnSet(f, rest)
      <3>1. \A x \in one \cup rest : f[x] \in Int
        OBVIOUS
      <3> HIDE DEF one, rest
      <3> QED BY <2>1, <3>1, SumUnion
    <2>4. G[v] = SumFunctionOnSet(f, one)
      OBVIOUS
    <2>5. SumFunctionOnSet(G, W \ {v}) = SumFunctionOnSet(f, rest)
      BY <1>2
    <2> HIDE DEF Of, one, rest
    <2> QED BY <2>1, <2>2, <2>3, <2>4, <2>5
  <1>3. V \in Good
    <2> HIDE DEF Good
    <2> QED BY <1>1, <1>2, OneMoreInduction
  <1>4. Of(V) = S
    OBVIOUS
  <1> QED BY <1>3, <1>4

\* A table with its totals: m[a][b] and column[b][a] are the amount in row a and
\* column b.
IsTable(A, B, m, column, byRow, byColumn) ==
    /\ IsFiniteSet(A) /\ IsFiniteSet(B)
    /\ \A a \in A, b \in B : m[a][b] \in Int /\ column[b][a] = m[a][b]
    /\ \A a \in A : byRow[a] = SumFunctionOnSet(m[a], B)
    /\ \A b \in B : byColumn[b] = SumFunctionOnSet(column[b], A)

\* Rows and columns add up to the same.
LEMMA SumExchange ==
    ASSUME NEW A, NEW B, NEW m, NEW column, NEW byRow, NEW byColumn,
           IsTable(A, B, m, column, byRow, byColumn)
    PROVE  SumFunctionOnSet(byRow, A) = SumFunctionOnSet(byColumn, B)
  <1> USE DEF IsTable
  <1> DEFINE Totals(T) == [b \in B |-> SumFunctionOnSet(column[b], T)]
             Good == {T \in SUBSET A : SumFunctionOnSet(byRow, T) = SumFunctionOnSet(Totals(T), B)}
  <1>0. \A a \in A : byRow[a] \in Int
    <2> SUFFICES ASSUME NEW a \in A PROVE byRow[a] \in Int
      OBVIOUS
    <2>1. \A b \in B : m[a][b] \in Int
      OBVIOUS
    <2>2. SumFunctionOnSet(m[a], B) \in Int
      BY <2>1, SumType
    <2> QED BY <2>2
  <1>1. {} \in Good
    <2>1. \A b \in B : Totals({})[b] = 0
      BY SumEmpty
    <2> HIDE DEF Totals
    <2>2. SumFunctionOnSet(Totals({}), B) = 0
      BY <2>1, SumZero
    <2> QED BY <2>2, SumEmpty
  <1>2. ASSUME NEW T \in SUBSET A, NEW x \in T, T \ {x} \in Good PROVE T \in Good
    <2>1. IsFiniteSet(T) /\ IsFiniteSet(T \ {x})
      BY FS_Subset
    <2>2. SumFunctionOnSet(byRow, T) = byRow[x] + SumFunctionOnSet(byRow, T \ {x})
      <3>1. \A a \in T : byRow[a] \in Int
        BY <1>0
      <3> QED BY <2>1, <3>1, SumAny
    <2>3. \A b \in B : /\ m[x][b] \in Int /\ Totals(T \ {x})[b] \in Int
                       /\ Totals(T)[b] = m[x][b] + Totals(T \ {x})[b]
      <3> SUFFICES ASSUME NEW b \in B
                   PROVE  /\ m[x][b] \in Int /\ SumFunctionOnSet(column[b], T \ {x}) \in Int
                          /\ SumFunctionOnSet(column[b], T)
                               = m[x][b] + SumFunctionOnSet(column[b], T \ {x})
        OBVIOUS
      <3>1. \A a \in T : column[b][a] \in Int /\ column[b][a] = m[a][b]
        OBVIOUS
      <3>2. SumFunctionOnSet(column[b], T \ {x}) \in Int
        BY <2>1, <3>1, SumType
      <3>3. SumFunctionOnSet(column[b], T) = column[b][x] + SumFunctionOnSet(column[b], T \ {x})
        BY <2>1, <3>1, SumAny
      <3> QED BY <3>1, <3>2, <3>3
    <2> DEFINE row == m[x]
               above == Totals(T \ {x})
               all == Totals(T)
    <2>4. \A b \in B : row[b] \in Int /\ above[b] \in Int /\ all[b] = row[b] + above[b]
      BY <2>3
    <2> HIDE DEF row, above, all, Totals
    <2>5. SumFunctionOnSet(all, B) = SumFunctionOnSet(row, B) + SumFunctionOnSet(above, B)
      BY <2>4, SumPlus
    <2>6. byRow[x] = SumFunctionOnSet(row, B)
      BY DEF row
    <2> QED BY <1>2, <2>2, <2>5, <2>6 DEF above, all
  <1>3. A \in Good
    <2> HIDE DEF Good
    <2> QED BY <1>1, <1>2, OneMoreInduction
  <1>4. SumFunctionOnSet(Totals(A), B) = SumFunctionOnSet(byColumn, B)
    <2>1. \A b \in B : Totals(A)[b] = byColumn[b]
      OBVIOUS
    <2> HIDE DEF Totals
    <2> QED BY <2>1, SumSame
  <1> QED BY <1>3, <1>4
=============================================================================
