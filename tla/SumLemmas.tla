----------------------------- MODULE SumLemmas -----------------------------
(***************************************************************************)
(* Sums over finite sets, for every set and function.  SumFunctionOnSet of *)
(* the community modules folds a recursive function over the set; here the *)
(* recursion is shown to have a solution, by induction on the subsets, and *)
(* to give the sum one expects: what adding, removing or changing one      *)
(* element does to it, and how sums of different functions compare.        *)
(* The induction is stated on sets (the good numbers, the good subsets) by *)
(* way of a minimal counterexample.                                        *)
(***************************************************************************)
EXTENDS Integers, FiniteSets, FiniteSetsExt, FiniteSetTheorems, NaturalsInduction, TLAPS

\* The order of the natural numbers, as a relation.
NatOrder == {ss \in Nat \X Nat : ss[1] < ss[2]}

\* It is well founded.
LEMMA NatLess == IsWellFoundedOn(NatOrder, Nat)
BY NatLessThanWellFounded DEF OpToRel, NatOrder

\* A set of natural numbers with 0 and, with each number, its successor, is Nat.
LEMMA NatSetInduction ==
    ASSUME NEW N, 0 \in N, \A n \in Nat : n \in N => n + 1 \in N
    PROVE  Nat \subseteq N
<1> DEFINE Bad == Nat \ N
<1>1. SUFFICES ASSUME Bad # {} PROVE FALSE
  OBVIOUS
<1>2. PICK n \in Bad : \A m \in Bad : ~(<<m, n>> \in NatOrder)
  <2>1. Bad \subseteq Nat
    OBVIOUS
  <2> HIDE DEF Bad
  <2> QED BY <1>1, <2>1, NatLess, WFMin
<1>3. n \in Nat /\ n \notin N /\ n # 0
  OBVIOUS
<1>4. n - 1 \in Nat /\ n - 1 \notin N
  BY <1>3
<1>5. <<n - 1, n>> \in NatOrder
  BY <1>3, <1>4 DEF NatOrder
<1> QED BY <1>2, <1>4, <1>5

\* What holds of a subset of a finite set whenever it holds of all the smaller
\* ones holds of all subsets.
LEMMA SubsetInduction ==
    ASSUME NEW S, IsFiniteSet(S), NEW Good,
           \A T \in SUBSET S : (\A U \in SUBSET T : U # T => U \in Good) => T \in Good
    PROVE  SUBSET S \subseteq Good
<1> DEFINE Bad == (SUBSET S) \ Good
<1>1. SUFFICES ASSUME Bad # {} PROVE FALSE
  OBVIOUS
<1>2. PICK T \in Bad : \A U \in Bad : ~(<<U, T>> \in StrictSubsetOrdering(S))
  <2>1. Bad \subseteq FiniteSubsetsOf(S)
    BY FS_FiniteSubsetsOfFinite
  <2> HIDE DEF Bad
  <2> QED BY <1>1, <2>1, FS_StrictSubsetOrderingWellFounded, WFMin
<1>3. ASSUME NEW U \in SUBSET T, U # T PROVE U \in Good
  <2>1. <<U, T>> \in StrictSubsetOrdering(S)
    BY <1>3 DEF StrictSubsetOrdering
  <2> QED BY <1>2, <2>1
<1> QED BY <1>2, <1>3

-----------------------------------------------------------------------------

\* The element that the fold takes out of a set first.
Some(s) == CHOOSE x \in s : TRUE
\* The sum over s, when g has the sums over smaller sets.
Iterated(f, g, s) == IF s = {} THEN 0 ELSE f[Some(s)] + g[s \ {Some(s)}]
\* g has the sums over all subsets of S.
Iterates(f, S, g) == g = [s \in SUBSET S |-> Iterated(f, g, s)]
\* The function that the fold's recursive definition stands for.
Iter(f, S) == CHOOSE g : Iterates(f, S, g)

\* The sum is that function at the whole set.
LEMMA SumIsIter ==
    ASSUME NEW f, NEW S
    PROVE  SumFunctionOnSet(f, S) = Iter(f, S)[S]
BY DEF SumFunctionOnSet, FoldFunctionOnSet, MapThenFoldSet, Iter, Iterates, Iterated, Some


\* For a finite set the recursion has a solution: one that is right on the
\* subsets of at most n elements exists for every n.
LEMMA IterExists ==
    ASSUME NEW f, NEW S, IsFiniteSet(S)
    PROVE  \E g : Iterates(f, S, g)
<1> DEFINE RightUpTo(g, n) ==
             /\ DOMAIN g = SUBSET S
             /\ \A s \in SUBSET S : Cardinality(s) <= n => g[s] = Iterated(f, g, s)
           Reached == {n \in Nat : \E g : g = [s \in SUBSET S |-> g[s]] /\ RightUpTo(g, n)}
<1>1. \A s \in SUBSET S : IsFiniteSet(s) /\ Cardinality(s) \in Nat
  BY FS_Subset, FS_CardinalityType
<1>2. 0 \in Reached
  <2> DEFINE g == [s \in SUBSET S |-> 0]
  <2>1. \A s \in SUBSET S : Cardinality(s) <= 0 => s = {}
    BY <1>1, FS_EmptySet
  <2>2. \A s \in SUBSET S : Cardinality(s) <= 0 => g[s] = Iterated(f, g, s)
    BY <2>1 DEF Iterated
  <2> QED BY <2>2
<1>3. ASSUME NEW n \in Nat, n \in Reached PROVE n + 1 \in Reached
  <2>1. PICK g : RightUpTo(g, n)
    BY <1>3
  <2> DEFINE h == [s \in SUBSET S |-> Iterated(f, g, s)]
  <2>2. ASSUME NEW s \in SUBSET S, Cardinality(s) <= n + 1
        PROVE  h[s] = Iterated(f, h, s)
    <3>1. CASE s = {}
      BY <3>1 DEF Iterated
    <3>2. CASE s # {}
      <4> DEFINE r == s \ {Some(s)}
      <4>1. Some(s) \in s
        BY <3>2 DEF Some
      <4>2. r \in SUBSET S /\ Cardinality(r) <= n
        <5>1. Cardinality(r) = Cardinality(s) - 1
          BY <4>1, <1>1, FS_RemoveElement
        <5> QED BY <5>1, <1>1, <2>2
      <4>3. g[r] = h[r]
        BY <2>1, <4>2
      <4> QED BY <3>2, <4>3 DEF Iterated
    <3> QED BY <3>1, <3>2
  <2>3. RightUpTo(h, n + 1) /\ h = [s \in SUBSET S |-> h[s]]
    BY <2>2
  <2> HIDE DEF h, RightUpTo
  <2> QED BY <2>3
<1>4. Cardinality(S) \in Reached
  <2> HIDE DEF Reached
  <2>1. Nat \subseteq Reached
    BY <1>2, <1>3, NatSetInduction
  <2> QED BY <2>1, FS_CardinalityType
<1>5. PICK g : g = [s \in SUBSET S |-> g[s]] /\ RightUpTo(g, Cardinality(S))
  BY <1>4
<1>6. \A s \in SUBSET S : g[s] = Iterated(f, g, s)
  <2>1. \A s \in SUBSET S : Cardinality(s) <= Cardinality(S)
    BY FS_Subset
  <2> QED BY <1>5, <2>1
<1> QED BY <1>5, <1>6 DEF Iterates

\* So the iteration satisfies its recursion.
LEMMA IterIterates ==
    ASSUME NEW f, NEW S, IsFiniteSet(S)
    PROVE  /\ Iter(f, S) = [s \in SUBSET S |-> Iter(f, S)[s]]
           /\ \A s \in SUBSET S : Iter(f, S)[s] = Iterated(f, Iter(f, S), s)
<1>1. Iterates(f, S, Iter(f, S))
  BY IterExists DEF Iter
<1> QED BY <1>1 DEF Iterates

\* The iterations over a set and over one of its subsets agree.
LEMMA IterAgree ==
    ASSUME NEW f, NEW S, IsFiniteSet(S), NEW T \in SUBSET S
    PROVE  Iter(f, S)[T] = Iter(f, T)[T]
<1> DEFINE Differ == {n \in Nat : \A s \in SUBSET T :
                        Cardinality(s) <= n => Iter(f, S)[s] = Iter(f, T)[s]}
<1>1. IsFiniteSet(T) /\ \A s \in SUBSET T : IsFiniteSet(s) /\ Cardinality(s) \in Nat
  BY FS_Subset, FS_CardinalityType
<1>2. /\ \A s \in SUBSET S : Iter(f, S)[s] = Iterated(f, Iter(f, S), s)
      /\ \A s \in SUBSET T : Iter(f, T)[s] = Iterated(f, Iter(f, T), s)
  BY <1>1, IterIterates
<1>3. 0 \in Differ
  <2>1. \A s \in SUBSET T : Cardinality(s) <= 0 => s = {}
    BY <1>1, FS_EmptySet
  <2> QED BY <2>1, <1>2 DEF Iterated
<1>4. ASSUME NEW n \in Nat, n \in Differ PROVE n + 1 \in Differ
  <2>1. ASSUME NEW s \in SUBSET T, Cardinality(s) <= n + 1
        PROVE  Iter(f, S)[s] = Iter(f, T)[s]
    <3>1. CASE s = {}
      BY <3>1, <1>2 DEF Iterated
    <3>2. CASE s # {}
      <4> DEFINE r == s \ {Some(s)}
      <4>1. Some(s) \in s
        BY <3>2 DEF Some
      <4>2. r \in SUBSET T /\ Cardinality(r) <= n
        <5>1. Cardinality(r) = Cardinality(s) - 1
          BY <4>1, <1>1, FS_RemoveElement
        <5> QED BY <5>1, <1>1, <2>1
      <4>3. Iter(f, S)[r] = Iter(f, T)[r]
        BY <1>4, <4>2
      <4> QED BY <3>2, <4>3, <1>2 DEF Iterated
    <3> QED BY <3>1, <3>2
  <2> QED BY <2>1
<1>5. Cardinality(T) \in Differ
  <2> HIDE DEF Differ
  <2>1. Nat \subseteq Differ
    BY <1>3, <1>4, NatSetInduction
  <2> QED BY <2>1, <1>1, FS_CardinalityType
<1> QED BY <1>1, <1>5

-----------------------------------------------------------------------------
(* Sums. *)

\* The sum over the empty set.
LEMMA SumEmpty == ASSUME NEW f PROVE SumFunctionOnSet(f, {}) = 0
BY SumIsIter, IterIterates, FS_EmptySet DEF Iterated

\* The recursion of the sum.
LEMMA SumRecursion ==
    ASSUME NEW f, NEW S, IsFiniteSet(S), S # {}
    PROVE  /\ Some(S) \in S
           /\ SumFunctionOnSet(f, S) = f[Some(S)] + SumFunctionOnSet(f, S \ {Some(S)})
<1>1. Some(S) \in S
  BY DEF Some
<1> DEFINE R == S \ {Some(S)}
<1>2. Iter(f, S)[S] = f[Some(S)] + Iter(f, S)[R]
  <2>1. Iter(f, S)[S] = Iterated(f, Iter(f, S), S)
    BY IterIterates
  <2> QED BY <2>1 DEF Iterated
<1>3. Iter(f, S)[R] = Iter(f, R)[R]
  BY IterAgree
<1> QED BY <1>1, <1>2, <1>3, SumIsIter



\* The same of every subset of a finite set.
LEMMA SubsetSum ==
    ASSUME NEW f, NEW S, IsFiniteSet(S), NEW T \in SUBSET S, T # {}
    PROVE  /\ IsFiniteSet(T) /\ Some(T) \in T
           /\ T \ {Some(T)} \in SUBSET T /\ T \ {Some(T)} # T
           /\ SumFunctionOnSet(f, T) = f[Some(T)] + SumFunctionOnSet(f, T \ {Some(T)})
BY FS_Subset, SumRecursion

\* A sum of integers is an integer.
LEMMA SumInt ==
    ASSUME NEW S, IsFiniteSet(S), NEW f, \A x \in S : f[x] \in Int
    PROVE  SumFunctionOnSet(f, S) \in Int
<1> DEFINE Good == {T \in SUBSET S : SumFunctionOnSet(f, T) \in Int}
<1>1. ASSUME NEW T \in SUBSET S, \A U \in SUBSET T : U # T => U \in Good
      PROVE  T \in Good
  <2>1. CASE T = {}
    BY <2>1, SumEmpty
  <2>2. CASE T # {}
    <3> DEFINE x == Some(T)
               U == T \ {x}
    <3>1. /\ x \in T /\ U \in SUBSET T /\ U # T
          /\ SumFunctionOnSet(f, T) = f[x] + SumFunctionOnSet(f, U)
      BY <2>2, SubsetSum
    <3> HIDE DEF x, U
    <3>2. SumFunctionOnSet(f, U) \in Int /\ f[x] \in Int
      BY <1>1, <3>1
    <3> QED BY <3>1, <3>2
  <2> QED BY <2>1, <2>2
<1> HIDE DEF Good
<1>2. SUBSET S \subseteq Good
  BY <1>1, SubsetInduction
<1> QED BY <1>2 DEF Good

\* A sum of natural numbers is one.
LEMMA SumNat ==
    ASSUME NEW S, IsFiniteSet(S), NEW f, \A x \in S : f[x] \in Nat
    PROVE  SumFunctionOnSet(f, S) \in Nat
<1> DEFINE Good == {T \in SUBSET S : SumFunctionOnSet(f, T) \in Nat}
<1>1. ASSUME NEW T \in SUBSET S, \A U \in SUBSET T : U # T => U \in Good
      PROVE  T \in Good
  <2>1. CASE T = {}
    BY <2>1, SumEmpty
  <2>2. CASE T # {}
    <3> DEFINE x == Some(T)
               U == T \ {x}
    <3>1. /\ x \in T /\ U \in SUBSET T /\ U # T
          /\ SumFunctionOnSet(f, T) = f[x] + SumFunctionOnSet(f, U)
      BY <2>2, SubsetSum
    <3> HIDE DEF x, U
    <3>2. SumFunctionOnSet(f, U) \in Nat /\ f[x] \in Nat
      BY <1>1, <3>1
    <3> QED BY <3>1, <3>2
  <2> QED BY <2>1, <2>2
<1> HIDE DEF Good
<1>2. SUBSET S \subseteq Good
  BY <1>1, SubsetInduction
<1> QED BY <1>2 DEF Good

\* Which element is taken out first does not matter.
LEMMA SumRemove ==
    ASSUME NEW S, IsFiniteSet(S), NEW f, \A x \in S : f[x] \in Int, NEW e \in S
    PROVE  SumFunctionOnSet(f, S) = SumFunctionOnSet(f, S \ {e}) + f[e]
<1> DEFINE Total(T) == SumFunctionOnSet(f, T)
           Good == {T \in SUBSET S : \A x \in T : Total(T) = Total(T \ {x}) + f[x]}
<1>0. \A T \in SUBSET S : Total(T) \in Int
  <2> SUFFICES ASSUME NEW T \in SUBSET S PROVE Total(T) \in Int
    OBVIOUS
  <2>1. IsFiniteSet(T) /\ \A x \in T : f[x] \in Int
    BY FS_Subset
  <2> QED BY <2>1, SumInt
<1>1. ASSUME NEW T \in SUBSET S, \A U \in SUBSET T : U # T => U \in Good, NEW x \in T
      PROVE  Total(T) = Total(T \ {x}) + f[x]
  <2> DEFINE y == Some(T)
             R == T \ {x, y}
  <2>1. y \in T /\ Total(T) = f[y] + Total(T \ {y})
    BY SubsetSum
  <2>2. f[x] \in Int /\ f[y] \in Int /\ Total(T \ {x}) \in Int /\ Total(T \ {y}) \in Int
        /\ Total(R) \in Int
    BY <1>0, <2>1
  <2> HIDE DEF y
  <2>3. CASE x = y
    BY <2>1, <2>2, <2>3
  <2>4. CASE x # y
    <3>1. T \ {x} \in Good /\ T \ {y} \in Good
      BY <1>1, <2>1
    <3>2. R = (T \ {x}) \ {y} /\ R = (T \ {y}) \ {x}
      OBVIOUS
    <3> HIDE DEF R
    <3>3. Total(T \ {x}) = Total(R) + f[y] /\ Total(T \ {y}) = Total(R) + f[x]
      BY <2>1, <2>4, <3>1, <3>2
    <3> HIDE DEF Total
    <3> QED BY <2>1, <2>2, <3>3
  <2> QED BY <2>3, <2>4
<1>2. SUBSET S \subseteq Good
  <2>1. ASSUME NEW T \in SUBSET S, \A U \in SUBSET T : U # T => U \in Good
        PROVE  T \in Good
    BY <1>1, <2>1
  <2> HIDE DEF Good
  <2> QED BY <2>1, SubsetInduction
<1> QED BY <1>2

\* Functions that agree on a set have the same sum over it.
LEMMA SumEqual ==
    ASSUME NEW S, IsFiniteSet(S), NEW f, NEW g, \A x \in S : f[x] = g[x]
    PROVE  SumFunctionOnSet(f, S) = SumFunctionOnSet(g, S)
<1> DEFINE Good == {T \in SUBSET S : SumFunctionOnSet(f, T) = SumFunctionOnSet(g, T)}
<1>1. ASSUME NEW T \in SUBSET S, \A U \in SUBSET T : U # T => U \in Good
      PROVE  T \in Good
  <2>1. CASE T = {}
    BY <2>1, SumEmpty
  <2>2. CASE T # {}
    <3> DEFINE x == Some(T)
               U == T \ {x}
    <3>1. /\ x \in T /\ U \in SUBSET T /\ U # T
          /\ SumFunctionOnSet(f, T) = f[x] + SumFunctionOnSet(f, U)
          /\ SumFunctionOnSet(g, T) = g[x] + SumFunctionOnSet(g, U)
      BY <2>2, SubsetSum
    <3> HIDE DEF x, U
    <3>2. SumFunctionOnSet(f, U) = SumFunctionOnSet(g, U) /\ f[x] = g[x]
      BY <1>1, <3>1
    <3> QED BY <3>1, <3>2
  <2> QED BY <2>1, <2>2
<1> HIDE DEF Good
<1>2. SUBSET S \subseteq Good
  BY <1>1, SubsetInduction
<1> QED BY <1>2 DEF Good

\* A sum changes by what one of its terms changes.
LEMMA SumUpdate ==
    ASSUME NEW S, IsFiniteSet(S), NEW f, NEW g, NEW e \in S,
           \A x \in S : f[x] \in Int, g[e] \in Int,
           \A x \in S \ {e} : g[x] = f[x]
    PROVE  SumFunctionOnSet(g, S) = SumFunctionOnSet(f, S) - f[e] + g[e]
<1>1. SumFunctionOnSet(f, S) = SumFunctionOnSet(f, S \ {e}) + f[e]
  BY SumRemove
<1>2. \A x \in S : g[x] \in Int
  OBVIOUS
<1>3. SumFunctionOnSet(g, S) = SumFunctionOnSet(g, S \ {e}) + g[e]
  BY <1>2, SumRemove
<1>4. IsFiniteSet(S \ {e})
  BY FS_RemoveElement
<1>5. SumFunctionOnSet(g, S \ {e}) = SumFunctionOnSet(f, S \ {e})
  BY <1>4, SumEqual
<1>6. SumFunctionOnSet(f, S \ {e}) \in Int
  BY <1>4, SumInt
<1> QED BY <1>1, <1>3, <1>5, <1>6

\* The same for functions into the integers.
LEMMA SumExcept ==
    ASSUME NEW S, IsFiniteSet(S), NEW f \in [S -> Int], NEW g \in [S -> Int], NEW e \in S,
           \A x \in S \ {e} : g[x] = f[x]
    PROVE  SumFunctionOnSet(g, S) = SumFunctionOnSet(f, S) - f[e] + g[e]
<1>1. \A x \in S : f[x] \in Int
  OBVIOUS
<1>2. g[e] \in Int
  OBVIOUS
<1> QED BY <1>1, <1>2, SumUpdate

\* Elements where the function is 0 add nothing.
LEMMA SumSupport ==
    ASSUME NEW S, IsFiniteSet(S), NEW f, \A x \in S : f[x] \in Int,
           NEW T \in SUBSET S, \A x \in S \ T : f[x] = 0
    PROVE  SumFunctionOnSet(f, S) = SumFunctionOnSet(f, T)
<1> DEFINE Good == {U \in SUBSET S :
                      SumFunctionOnSet(f, U) = SumFunctionOnSet(f, U \cap T)}
<1>1. ASSUME NEW U \in SUBSET S, \A V \in SUBSET U : V # U => V \in Good
      PROVE  U \in Good
  <2>1. CASE U = {}
    <3>1. U \cap T = U
      BY <2>1
    <3> QED BY <3>1
  <2>2. CASE U # {}
    <3> DEFINE x == Some(U)
               V == U \ {x}
    <3>1. x \in U /\ V \in SUBSET U /\ V # U
          /\ SumFunctionOnSet(f, U) = f[x] + SumFunctionOnSet(f, V)
      BY <2>2, SubsetSum
    <3> HIDE DEF x
    <3>2. SumFunctionOnSet(f, V) = SumFunctionOnSet(f, V \cap T)
      BY <1>1, <3>1
    <3>3. CASE x \in T
      <4>1. IsFiniteSet(U \cap T) /\ x \in U \cap T /\ \A y \in U \cap T : f[y] \in Int
        BY <3>1, <3>3, FS_Subset
      <4>2. SumFunctionOnSet(f, U \cap T) = SumFunctionOnSet(f, (U \cap T) \ {x}) + f[x]
        BY <4>1, SumRemove
      <4>3. (U \cap T) \ {x} = V \cap T
        OBVIOUS
      <4>4. IsFiniteSet(V \cap T) /\ \A y \in V \cap T : f[y] \in Int
        BY FS_Subset
      <4>5. SumFunctionOnSet(f, V \cap T) \in Int
        BY <4>4, SumInt
      <4> HIDE DEF V
      <4>6. f[x] \in Int
        BY <3>1
      <4>7. SumFunctionOnSet(f, (U \cap T) \ {x}) = SumFunctionOnSet(f, V \cap T)
        BY <4>3, Zenon
      <4>8. SumFunctionOnSet(f, U) = SumFunctionOnSet(f, U \cap T)
        BY <3>1, <3>2, <4>2, <4>5, <4>6, <4>7
      <4> QED BY <4>8
    <3>4. CASE x \notin T
      <4>1. f[x] = 0 /\ U \cap T = V \cap T
        BY <3>1, <3>4
      <4>2. IsFiniteSet(V) /\ \A y \in V : f[y] \in Int
        BY FS_Subset
      <4>3. SumFunctionOnSet(f, V) \in Int
        BY <4>2, SumInt
      <4> HIDE DEF V
      <4>4. SumFunctionOnSet(f, U) = SumFunctionOnSet(f, V)
        BY <3>1, <4>1, <4>3
      <4>5. SumFunctionOnSet(f, V \cap T) = SumFunctionOnSet(f, U \cap T)
        BY <4>1, Zenon
      <4>6. SumFunctionOnSet(f, U) = SumFunctionOnSet(f, U \cap T)
        BY <3>2, <4>4, <4>5
      <4> QED BY <4>6
    <3> QED BY <3>3, <3>4
  <2> QED BY <2>1, <2>2
<1>2. SUBSET S \subseteq Good
  <2> HIDE DEF Good
  <2> QED BY <1>1, SubsetInduction
<1>3. S \cap T = T
  OBVIOUS
<1> QED BY <1>2, <1>3

\* The sum of two functions' sums is the sum of their sum.
LEMMA SumPlus ==
    ASSUME NEW S, IsFiniteSet(S), NEW f, NEW g, NEW h,
           \A x \in S : f[x] \in Int /\ g[x] \in Int /\ h[x] = f[x] + g[x]
    PROVE  SumFunctionOnSet(h, S) = SumFunctionOnSet(f, S) + SumFunctionOnSet(g, S)
<1> DEFINE Good == {T \in SUBSET S : SumFunctionOnSet(h, T)
                                       = SumFunctionOnSet(f, T) + SumFunctionOnSet(g, T)}
<1>1. ASSUME NEW T \in SUBSET S, \A U \in SUBSET T : U # T => U \in Good
      PROVE  T \in Good
  <2>1. CASE T = {}
    BY <2>1, SumEmpty
  <2>2. CASE T # {}
    <3> DEFINE x == Some(T)
               U == T \ {x}
    <3>1. /\ x \in T /\ U \in SUBSET T /\ U # T
          /\ SumFunctionOnSet(f, T) = f[x] + SumFunctionOnSet(f, U)
          /\ SumFunctionOnSet(g, T) = g[x] + SumFunctionOnSet(g, U)
          /\ SumFunctionOnSet(h, T) = h[x] + SumFunctionOnSet(h, U)
      BY <2>2, SubsetSum
    <3>2. IsFiniteSet(U) /\ \A y \in U : f[y] \in Int /\ g[y] \in Int
      BY FS_Subset
    <3>3. SumFunctionOnSet(f, U) \in Int /\ SumFunctionOnSet(g, U) \in Int
      BY <3>2, SumInt
    <3>4. f[x] \in Int /\ g[x] \in Int /\ h[x] = f[x] + g[x]
      BY <3>1
    <3>5. SumFunctionOnSet(h, U) = SumFunctionOnSet(f, U) + SumFunctionOnSet(g, U)
      BY <1>1, <3>1
    <3> HIDE DEF x, U
    <3> QED BY <3>1, <3>3, <3>4, <3>5
  <2> QED BY <2>1, <2>2
<1> HIDE DEF Good
<1>2. SUBSET S \subseteq Good
  BY <1>1, SubsetInduction
<1> QED BY <1>2 DEF Good

\* A larger function has the larger sum.
LEMMA SumMonotone ==
    ASSUME NEW S, IsFiniteSet(S), NEW f, NEW g,
           \A x \in S : f[x] \in Int /\ g[x] \in Int /\ f[x] <= g[x]
    PROVE  SumFunctionOnSet(f, S) <= SumFunctionOnSet(g, S)
<1> DEFINE d == [x \in S |-> g[x] - f[x]]
<1>1. \A x \in S : d[x] \in Nat /\ d[x] \in Int /\ g[x] = f[x] + d[x]
  OBVIOUS
<1> HIDE DEF d
<1>2. SumFunctionOnSet(g, S) = SumFunctionOnSet(f, S) + SumFunctionOnSet(d, S)
  BY <1>1, SumPlus
<1>3. SumFunctionOnSet(d, S) \in Nat
  BY <1>1, SumNat
<1>4. SumFunctionOnSet(f, S) \in Int
  BY SumInt
<1> QED BY <1>2, <1>3, <1>4

\* A factor comes out of the sum.
LEMMA SumScale ==
    ASSUME NEW S, IsFiniteSet(S), NEW c \in Int, NEW f, NEW h,
           \A x \in S : f[x] \in Int /\ h[x] = c * f[x]
    PROVE  SumFunctionOnSet(h, S) = c * SumFunctionOnSet(f, S)
<1> DEFINE Good == {T \in SUBSET S : SumFunctionOnSet(h, T) = c * SumFunctionOnSet(f, T)}
<1>1. ASSUME NEW T \in SUBSET S, \A U \in SUBSET T : U # T => U \in Good
      PROVE  T \in Good
  <2>1. CASE T = {}
    BY <2>1, SumEmpty
  <2>2. CASE T # {}
    <3> DEFINE x == Some(T)
               U == T \ {x}
    <3>1. /\ x \in T /\ U \in SUBSET T /\ U # T
          /\ SumFunctionOnSet(f, T) = f[x] + SumFunctionOnSet(f, U)
          /\ SumFunctionOnSet(h, T) = h[x] + SumFunctionOnSet(h, U)
      BY <2>2, SubsetSum
    <3>2. IsFiniteSet(U) /\ \A y \in U : f[y] \in Int
      BY FS_Subset
    <3>3. SumFunctionOnSet(f, U) \in Int
      BY <3>2, SumInt
    <3>4. f[x] \in Int /\ h[x] = c * f[x]
      BY <3>1
    <3>5. SumFunctionOnSet(h, U) = c * SumFunctionOnSet(f, U)
      BY <1>1, <3>1
    <3> HIDE DEF x, U
    <3> QED BY <3>1, <3>3, <3>4, <3>5
  <2> QED BY <2>1, <2>2
<1> HIDE DEF Good
<1>2. SUBSET S \subseteq Good
  BY <1>1, SubsetInduction
<1> QED BY <1>2 DEF Good

\* Counting: the sum of ones is the cardinality.
LEMMA SumOnes ==
    ASSUME NEW S, IsFiniteSet(S), NEW f, \A x \in S : f[x] = 1
    PROVE  SumFunctionOnSet(f, S) = Cardinality(S)
<1> DEFINE Good == {T \in SUBSET S : SumFunctionOnSet(f, T) = Cardinality(T)}
<1>1. ASSUME NEW T \in SUBSET S, \A U \in SUBSET T : U # T => U \in Good
      PROVE  T \in Good
  <2>1. CASE T = {}
    BY <2>1, SumEmpty, FS_EmptySet
  <2>2. CASE T # {}
    <3> DEFINE x == Some(T)
               U == T \ {x}
    <3>1. /\ IsFiniteSet(T) /\ x \in T /\ U \in SUBSET T /\ U # T
          /\ SumFunctionOnSet(f, T) = f[x] + SumFunctionOnSet(f, U)
      BY <2>2, SubsetSum
    <3>2. Cardinality(U) = Cardinality(T) - 1 /\ Cardinality(T) \in Nat
      BY <3>1, FS_RemoveElement, FS_CardinalityType
    <3>3. SumFunctionOnSet(f, U) = Cardinality(U) /\ f[x] = 1
      BY <1>1, <3>1
    <3> HIDE DEF x, U
    <3> QED BY <3>1, <3>2, <3>3
  <2> QED BY <2>1, <2>2
<1> HIDE DEF Good
<1>2. SUBSET S \subseteq Good
  BY <1>1, SubsetInduction
<1> QED BY <1>2 DEF Good

\* A term of a sum of natural numbers is no larger than the sum.
LEMMA SumCovers ==
    ASSUME NEW S, IsFiniteSet(S), NEW f, \A x \in S : f[x] \in Nat, NEW e \in S
    PROVE  f[e] <= SumFunctionOnSet(f, S)
<1>1. SumFunctionOnSet(f, S) = SumFunctionOnSet(f, S \ {e}) + f[e]
  BY SumRemove
<1>2. IsFiniteSet(S \ {e})
  BY FS_RemoveElement
<1>3. SumFunctionOnSet(f, S \ {e}) \in Nat
  BY <1>2, SumNat
<1> QED BY <1>1, <1>3

\* A sum of zeros is 0.
LEMMA SumZero ==
    ASSUME NEW S, IsFiniteSet(S), NEW f, \A x \in S : f[x] = 0
    PROVE  SumFunctionOnSet(f, S) = 0
<1>1. SumFunctionOnSet(f, S) = SumFunctionOnSet(f, {})
  BY SumSupport
<1> QED BY <1>1, SumEmpty

\* The sum over a single element is its term.
LEMMA SumSingle ==
    ASSUME NEW e, NEW f, f[e] \in Int
    PROVE  SumFunctionOnSet(f, {e}) = f[e]
<1>1. IsFiniteSet({e}) /\ e \in {e} /\ \A x \in {e} : f[x] \in Int
  BY FS_Singleton
<1>2. SumFunctionOnSet(f, {e}) = SumFunctionOnSet(f, {e} \ {e}) + f[e]
  BY <1>1, SumRemove
<1>3. {e} \ {e} = {}
  OBVIOUS
<1>4. SumFunctionOnSet(f, {e} \ {e}) = 0
  BY <1>3, SumEmpty, Zenon
<1> QED BY <1>2, <1>4

=============================================================================
