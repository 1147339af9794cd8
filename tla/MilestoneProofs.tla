--------------------------- MODULE MilestoneProofs ---------------------------
(***************************************************************************)
(* Theorems about Milestones, for any number of grants, milestones,        *)
(* committees and members: what the two algorithms on the graph compute,   *)
(* the properties of the states, and what no step may do.  The lemmas take *)
(* the steps one by one.                                                   *)
(***************************************************************************)
EXTENDS Milestones, SumLemmas

-----------------------------------------------------------------------------
(* The two algorithms on the graph. *)

\* g has what a function F gives, applied over and over to a start a.
Chain(F, a, N, g) == g = [k \in 0..N |-> IF k = 0 THEN a ELSE F[g[k - 1]]]

\* There is such a g.
LEMMA ChainExists ==
    ASSUME NEW F, NEW a, NEW N \in Nat
    PROVE  \E g : Chain(F, a, N, g)
<1> DEFINE Step(g, k) == IF k = 0 THEN a ELSE F[g[k - 1]]
           RightUpTo(g, n) == \A k \in 0..N : k <= n => g[k] = Step(g, k)
           Reached == {n \in Nat : \E g : g = [k \in 0..N |-> g[k]] /\ RightUpTo(g, n)}
<1>1. 0 \in Reached
  <2> DEFINE g == [k \in 0..N |-> a]
  <2>1. g = [k \in 0..N |-> g[k]] /\ RightUpTo(g, 0)
    OBVIOUS
  <2> HIDE DEF g, RightUpTo
  <2> QED BY <2>1
<1>2. ASSUME NEW n \in Nat, n \in Reached PROVE n + 1 \in Reached
  <2>1. PICK g : g = [k \in 0..N |-> g[k]] /\ RightUpTo(g, n)
    BY <1>2
  <2> DEFINE h == [k \in 0..N |-> Step(g, k)]
  <2>2. ASSUME NEW k \in 0..N, k <= n + 1 PROVE h[k] = Step(h, k)
    <3>1. CASE k = 0
      BY <3>1
    <3>2. CASE k # 0
      <4>1. k - 1 \in 0..N /\ k - 1 <= n
        BY <3>2, <2>2
      <4>2. h[k - 1] = Step(g, k - 1) /\ g[k - 1] = Step(g, k - 1)
        BY <4>1, <2>1
      <4>3. h[k] = F[g[k - 1]] /\ Step(h, k) = F[h[k - 1]]
        BY <3>2
      <4> HIDE DEF h, Step
      <4> QED BY <4>2, <4>3
    <3> QED BY <3>1, <3>2
  <2>3. RightUpTo(h, n + 1)
    BY <2>2
  <2>4. h = [k \in 0..N |-> h[k]]
    OBVIOUS
  <2> HIDE DEF h, RightUpTo
  <2> QED BY <2>3, <2>4
<1>3. N \in Reached
  <2> HIDE DEF Reached
  <2> QED BY <1>1, <1>2, NatSetInduction
<1>4. PICK g : g = [k \in 0..N |-> g[k]] /\ RightUpTo(g, N)
  BY <1>3
<1>5. \A k \in 0..N : g[k] = Step(g, k)
  <2>1. \A k \in 0..N : k <= N
    OBVIOUS
  <2> HIDE DEF Step
  <2> QED BY <1>4, <2>1
<1>6. g = [k \in 0..N |-> Step(g, k)]
  <2> HIDE DEF Step, RightUpTo
  <2> QED BY <1>4, <1>5
<1> QED BY <1>6 DEF Chain

\* f has what the passes of Kahn's algorithm have processed.
Processing(p, f) ==
    f = [k \in 0..Cardinality(DOMAIN p) |->
           IF k = 0 THEN {} ELSE {i \in DOMAIN p : p[i] \subseteq f[k - 1]}]

\* The passes by their own recursion.
Processed(p) == CHOOSE f : Processing(p, f)

\* The test for a cycle is about the last pass.
LEMMA CycleIsUnprocessed ==
    ASSUME NEW p
    PROVE  MilestoneGraphHasCycle(p) <=> Processed(p)[Cardinality(DOMAIN p)] # DOMAIN p
BY DEF MilestoneGraphHasCycle, Processed, Processing

\* The recursion has a solution.
LEMMA ProcessedProcesses ==
    ASSUME NEW p, Cardinality(DOMAIN p) \in Nat
    PROVE  Processing(p, Processed(p))
<1> DEFINE D == DOMAIN p
           N == Cardinality(D)
           F == [P \in SUBSET D |-> {i \in D : p[i] \subseteq P}]
<1>0. N \in Nat
  OBVIOUS
<1>1. PICK g : Chain(F, {}, N, g)
  <2> HIDE DEF F, N
  <2> QED BY <1>0, ChainExists
<1>2. \A k \in 0..N : g[k] = IF k = 0 THEN {} ELSE F[g[k - 1]]
  <2> HIDE DEF F, N, D
  <2> QED BY <1>1 DEF Chain
<1> DEFINE Sub == {k \in Nat : k <= N => g[k] \in SUBSET D}
<1>3. Nat \subseteq Sub
  <2>1. 0 \in Sub
    <3>1. 0 \in 0..N
      BY <1>0
    <3>2. g[0] = {}
      <4> HIDE DEF F, N
      <4> QED BY <1>2, <3>1
    <3> QED BY <3>2
  <2>2. ASSUME NEW k \in Nat, k \in Sub PROVE k + 1 \in Sub
    <3> SUFFICES ASSUME k + 1 <= N PROVE g[k + 1] \in SUBSET D
      OBVIOUS
    <3>1. k + 1 \in 0..N /\ k + 1 # 0 /\ (k + 1) - 1 = k /\ k <= N
      OBVIOUS
    <3>2. g[k + 1] = F[g[k]]
      <4> HIDE DEF F, N
      <4> QED BY <1>2, <3>1
    <3>3. g[k] \in SUBSET D
      BY <2>2, <3>1
    <3> HIDE DEF N, Sub
    <3> QED BY <3>2, <3>3
  <2> HIDE DEF Sub
  <2> QED BY <2>1, <2>2, NatSetInduction
<1>4. ASSUME NEW k \in 0..N, k # 0
      PROVE  g[k] = {i \in D : p[i] \subseteq g[k - 1]}
  <2>1. k - 1 \in Nat /\ k - 1 <= N
    BY <1>4
  <2>2. g[k - 1] \in SUBSET D
    BY <2>1, <1>3
  <2>3. g[k] = F[g[k - 1]]
    <3> HIDE DEF F, N, D
    <3> QED BY <1>2, <1>4
  <2> QED BY <2>2, <2>3
<1> DEFINE G(k) == IF k = 0 THEN {} ELSE {i \in D : p[i] \subseteq g[k - 1]}
<1>5. \A k \in 0..N : g[k] = G(k)
  <2> SUFFICES ASSUME NEW k \in 0..N PROVE g[k] = G(k)
    OBVIOUS
  <2>1. CASE k = 0
    BY <2>1, <1>2
  <2>2. CASE k # 0
    BY <2>2, <1>4
  <2> QED BY <2>1, <2>2
<1>6. g = [k \in 0..N |-> G(k)]
  <2>1. g = [k \in 0..N |-> g[k]]
    <3> HIDE DEF F, N
    <3> QED BY <1>1 DEF Chain
  <2> HIDE DEF G, N
  <2> QED BY <1>5, <2>1
<1>7. Processing(p, g)
  BY <1>6 DEF Processing
<1> QED BY <1>7 DEF Processed

\* The milestones of a graph are finitely many.
LEMMA GraphFinite ==
    ASSUME NEW p \in Graphs
    PROVE  IsFiniteSet(DOMAIN p) /\ Cardinality(DOMAIN p) \in Nat
<1>1. PICK n \in 1..64 : DOMAIN p = 0..(n - 1)
  BY MilestonesAssumption
<1>2. IsFiniteSet(0..(n - 1))
  BY FS_Interval
<1> QED BY <1>1, <1>2, FS_CardinalityType

\* What Kahn's algorithm accepts can be worked through: a set that waits for
\* itself is never reached by a pass.
LEMMA AcyclicOrderable ==
    ASSUME NEW p, Cardinality(DOMAIN p) \in Nat, ~MilestoneGraphHasCycle(p)
    PROVE  Orderable(p)
<1> DEFINE D == DOMAIN p
           N == Cardinality(D)
           f == Processed(p)
<1>1. N \in Nat /\ f[N] = D
  BY CycleIsUnprocessed
<1>2. \A k \in 0..N : f[k] = IF k = 0 THEN {} ELSE {i \in D : p[i] \subseteq f[k - 1]}
  <2>1. Processing(p, f)
    BY ProcessedProcesses
  <2> HIDE DEF f
  <2> QED BY <2>1 DEF Processing
<1> HIDE DEF N, f
<1>3. \A i \in D : p[i] \subseteq D
  <2> SUFFICES ASSUME NEW i \in D PROVE p[i] \subseteq D
    OBVIOUS
  <2>1. N # 0
    <3>1. SUFFICES ASSUME N = 0 PROVE FALSE
      OBVIOUS
    <3>2. 0 \in 0..N
      BY <1>1
    <3>3. f[0] = {}
      BY <1>2, <3>2
    <3> QED BY <1>1, <3>1, <3>3
  <2>2. N \in 0..N /\ N - 1 \in 0..N
    BY <1>1, <2>1
  <2>3. f[N] = {j \in D : p[j] \subseteq f[N - 1]}
    BY <1>2, <2>1, <2>2
  <2>4. f[N - 1] \subseteq D
    BY <1>2, <2>2
  <2>5. i \in f[N]
    BY <1>1
  <2> QED BY <2>3, <2>4, <2>5
<1>4. ASSUME NEW S \in SUBSET D, \A i \in S : p[i] \cap S # {}
      PROVE  S = {}
  <2> DEFINE Missed == {k \in Nat : k <= N => f[k] \cap S = {}}
  <2>1. 0 \in Missed
    <3>1. 0 \in 0..N
      BY <1>1
    <3>2. f[0] = {}
      BY <1>2, <3>1
    <3> QED BY <3>2
  <2>2. ASSUME NEW k \in Nat, k \in Missed PROVE k + 1 \in Missed
    <3> SUFFICES ASSUME k + 1 <= N PROVE f[k + 1] \cap S = {}
      OBVIOUS
    <3>1. k + 1 \in 0..N /\ k + 1 # 0 /\ (k + 1) - 1 = k /\ k <= N
      BY <1>1
    <3>2. f[k + 1] = {i \in D : p[i] \subseteq f[k]}
      BY <1>2, <3>1
    <3>3. f[k] \cap S = {}
      BY <2>2, <3>1
    <3> QED BY <1>4, <3>2, <3>3
  <2> HIDE DEF Missed
  <2>3. N \in Missed
    <3>1. Nat \subseteq Missed
      BY <2>1, <2>2, NatSetInduction
    <3> QED BY <1>1, <3>1
  <2>4. f[N] \cap S = {}
    BY <1>1, <2>3 DEF Missed
  <2> QED BY <1>1, <2>4
<1> QED BY <1>3, <1>4 DEF Orderable

\* f has what the passes of descendant_mask have frozen.
Freezing(p, m, f) ==
    f = [k \in 0..Cardinality(DOMAIN p) |->
           IF k = 0 THEN {}
           ELSE {i \in DOMAIN p : i \in f[k - 1] \/ p[i] \cap (f[k - 1] \cup {m}) # {}}]

\* The passes by their own recursion.
Frozen(p, m) == CHOOSE f : Freezing(p, m, f)

\* The mask is what the last pass has frozen, but for the revoked milestone.
LEMMA MaskIsFrozen ==
    ASSUME NEW p, NEW m \in DOMAIN p
    PROVE  DescendantMask(p, m)
             = {i \in DOMAIN p \ {m} : i \in Frozen(p, m)[Cardinality(DOMAIN p)]}
BY DEF DescendantMask, Frozen, Freezing

\* The recursion has a solution.
LEMMA FrozenFreezes ==
    ASSUME NEW p, NEW m, Cardinality(DOMAIN p) \in Nat
    PROVE  Freezing(p, m, Frozen(p, m))
<1> DEFINE D == DOMAIN p
           N == Cardinality(D)
           F == [P \in SUBSET D |-> {i \in D : i \in P \/ p[i] \cap (P \cup {m}) # {}}]
<1>0. N \in Nat
  OBVIOUS
<1>1. PICK g : Chain(F, {}, N, g)
  <2> HIDE DEF F, N
  <2> QED BY <1>0, ChainExists
<1>2. \A k \in 0..N : g[k] = IF k = 0 THEN {} ELSE F[g[k - 1]]
  <2> HIDE DEF F, N, D
  <2> QED BY <1>1 DEF Chain
<1> DEFINE Sub == {k \in Nat : k <= N => g[k] \in SUBSET D}
<1>3. Nat \subseteq Sub
  <2>1. 0 \in Sub
    <3>1. 0 \in 0..N
      BY <1>0
    <3>2. g[0] = {}
      <4> HIDE DEF F, N
      <4> QED BY <1>2, <3>1
    <3> QED BY <3>2
  <2>2. ASSUME NEW k \in Nat, k \in Sub PROVE k + 1 \in Sub
    <3> SUFFICES ASSUME k + 1 <= N PROVE g[k + 1] \in SUBSET D
      OBVIOUS
    <3>1. k + 1 \in 0..N /\ k + 1 # 0 /\ (k + 1) - 1 = k /\ k <= N
      OBVIOUS
    <3>2. g[k + 1] = F[g[k]]
      <4> HIDE DEF F, N
      <4> QED BY <1>2, <3>1
    <3>3. g[k] \in SUBSET D
      BY <2>2, <3>1
    <3> HIDE DEF N, Sub
    <3> QED BY <3>2, <3>3
  <2> HIDE DEF Sub
  <2> QED BY <2>1, <2>2, NatSetInduction
<1> DEFINE G(k) == IF k = 0 THEN {}
                   ELSE {i \in D : i \in g[k - 1] \/ p[i] \cap (g[k - 1] \cup {m}) # {}}
<1>4. \A k \in 0..N : g[k] = G(k)
  <2> SUFFICES ASSUME NEW k \in 0..N PROVE g[k] = G(k)
    OBVIOUS
  <2>1. CASE k = 0
    BY <2>1, <1>2
  <2>2. CASE k # 0
    <3>1. k - 1 \in Nat /\ k - 1 <= N
      BY <2>2
    <3>2. g[k - 1] \in SUBSET D
      BY <3>1, <1>3
    <3>3. g[k] = F[g[k - 1]]
      <4> HIDE DEF F, N, D
      <4> QED BY <1>2, <2>2
    <3> QED BY <2>2, <3>2, <3>3
  <2> QED BY <2>1, <2>2
<1>5. g = [k \in 0..N |-> G(k)]
  <2>1. g = [k \in 0..N |-> g[k]]
    <3> HIDE DEF F, N
    <3> QED BY <1>1 DEF Chain
  <2> HIDE DEF G, N
  <2> QED BY <1>4, <2>1
<1>6. Freezing(p, m, g)
  BY <1>5 DEF Freezing
<1> QED BY <1>6 DEF Frozen

\* A set of milestones that holds whatever waits for m or for one of its own.
Closed(p, m, S) == \A x \in DOMAIN p : p[x] \cap (S \cup {m}) # {} => x \in S

\* The last pass has nothing to add: every pass before it added a milestone or
\* the passes had come to an end.
LEMMA FrozenCloses ==
    ASSUME NEW p, NEW m, IsFiniteSet(DOMAIN p)
    PROVE  LET S == Frozen(p, m)[Cardinality(DOMAIN p)]
           IN  /\ S \subseteq DOMAIN p /\ Closed(p, m, S)
               /\ \A x \in S : p[x] \cap (S \cup {m}) # {}
<1> DEFINE D == DOMAIN p
           N == Cardinality(D)
           f == Frozen(p, m)
           Pass(S) == {i \in D : i \in S \/ p[i] \cap (S \cup {m}) # {}}
<1>1. N \in Nat
  BY FS_CardinalityType
<1>2. \A k \in 0..N : f[k] = IF k = 0 THEN {} ELSE Pass(f[k - 1])
  <2>1. Freezing(p, m, f)
    BY <1>1, FrozenFreezes
  <2> HIDE DEF f
  <2> QED BY <2>1 DEF Freezing
<1> HIDE DEF f
<1>3. f[0] = {} /\ \A k \in Nat : k + 1 <= N => f[k + 1] = Pass(f[k])
  <2>1. 0 \in 0..N
    BY <1>1
  <2>2. f[0] = {}
    <3> HIDE DEF Pass, N
    <3> QED BY <1>2, <2>1
  <2>3. ASSUME NEW k \in Nat, k + 1 <= N PROVE f[k + 1] = Pass(f[k])
    <3>1. k + 1 \in 0..N /\ k + 1 # 0 /\ (k + 1) - 1 = k
      BY <1>1, <2>3
    <3> HIDE DEF Pass, N
    <3> QED BY <1>2, <3>1
  <2> QED BY <2>2, <2>3
<1> DEFINE Waiting(S) == S \in SUBSET D /\ \A x \in S : p[x] \cap (S \cup {m}) # {}
           Grown == {k \in Nat : k <= N =>
                       /\ Waiting(f[k])
                       /\ Closed(p, m, f[k]) \/ Cardinality(f[k]) >= k}
<1>4. 0 \in Grown
  <2>1. Cardinality({}) = 0
    BY FS_EmptySet
  <2>2. Waiting({})
    OBVIOUS
  <2>3. Waiting(f[0]) /\ Cardinality(f[0]) >= 0
    BY <1>3, <2>1, <2>2
  <2> HIDE DEF Waiting
  <2> QED BY <2>3
<1>5. ASSUME NEW k \in Nat, k \in Grown PROVE k + 1 \in Grown
  <2> SUFFICES ASSUME k + 1 <= N
               PROVE  /\ Waiting(f[k + 1])
                      /\ Closed(p, m, f[k + 1]) \/ Cardinality(f[k + 1]) >= k + 1
    OBVIOUS
  <2> DEFINE S == f[k]
             T == f[k + 1]
  <2>1. T = Pass(S) /\ Waiting(S) /\ (Closed(p, m, S) \/ Cardinality(S) >= k)
    <3>1. k <= N
      BY <1>1
    <3> QED BY <1>3, <1>5, <3>1
  <2> HIDE DEF S, T, Grown
  <2>2. T \in SUBSET D /\ S \subseteq T
    BY <2>1
  <2>3. Waiting(T)
    BY <2>1, <2>2
  <2>4. CASE Closed(p, m, S)
    <3>1. T = S
      BY <2>1, <2>4 DEF Closed
    <3> QED BY <2>3, <2>4, <3>1 DEF S, T
  <2>5. CASE ~Closed(p, m, S)
    <3>1. PICK x \in D : x \in T /\ x \notin S
      BY <2>1, <2>5 DEF Closed
    <3>2. IsFiniteSet(S) /\ IsFiniteSet(T)
      BY <2>1, <2>2, FS_Subset
    <3>3. Cardinality(S \cup {x}) = Cardinality(S) + 1
      BY <3>1, <3>2, FS_AddElement
    <3>4. Cardinality(S \cup {x}) <= Cardinality(T)
      <4>1. S \cup {x} \in SUBSET T
        BY <2>2, <3>1
      <4> QED BY <3>2, <4>1, FS_Subset
    <3>5. Cardinality(S) \in Nat /\ Cardinality(T) \in Nat /\ Cardinality(S) >= k
      BY <2>1, <2>5, <3>2, FS_CardinalityType
    <3>6. Cardinality(T) >= k + 1
      BY <3>3, <3>4, <3>5
    <3> QED BY <2>3, <3>6 DEF S, T
  <2> QED BY <2>4, <2>5
<1>6. N \in Grown
  <2> HIDE DEF Grown
  <2>1. Nat \subseteq Grown
    BY <1>4, <1>5, NatSetInduction
  <2> QED BY <1>1, <2>1
<1> DEFINE E == f[N]
<1>7. Waiting(E) /\ (Closed(p, m, E) \/ Cardinality(E) >= N)
  BY <1>1, <1>6
<1> HIDE DEF E
<1>8. Closed(p, m, E)
  <2>1. CASE Cardinality(E) >= N
    <3>1. Cardinality(E) = Cardinality(D)
      <4>1. Cardinality(E) <= N /\ Cardinality(E) \in Nat
        BY <1>7, FS_Subset, FS_CardinalityType
      <4> QED BY <1>1, <2>1, <4>1
    <3>2. E = D
      BY <1>7, <3>1, FS_Subset
    <3> QED BY <3>2 DEF Closed
  <2> QED BY <1>7, <2>1
<1> QED BY <1>7, <1>8 DEF E, f

\* In a graph that can be worked through, a revocation freezes all that depends
\* on the revoked milestone, directly or not.
LEMMA MaskCoversDependents ==
    ASSUME NEW p, NEW m \in DOMAIN p, IsFiniteSet(DOMAIN p), Orderable(p)
    PROVE  DependentsOf(p, m) \subseteq DescendantMask(p, m)
<1> DEFINE S == Frozen(p, m)[Cardinality(DOMAIN p)]
<1>1. /\ S \subseteq DOMAIN p /\ Closed(p, m, S)
      /\ \A x \in S : p[x] \cap (S \cup {m}) # {}
  BY FrozenCloses
<1>2. DescendantMask(p, m) = {i \in DOMAIN p \ {m} : i \in S}
  BY MaskIsFrozen
<1> HIDE DEF S
<1>3. DependentsOf(p, m) \subseteq S
  BY <1>1 DEF DependentsOf, Closed
<1>4. m \notin S
  <2>1. SUFFICES ASSUME m \in S PROVE FALSE
    OBVIOUS
  <2>2. S \cup {m} = S
    BY <2>1
  <2>3. \A x \in S : p[x] \cap S # {}
    BY <1>1, <2>2
  <2> QED BY <1>1, <2>1, <2>3 DEF Orderable
<1> QED BY <1>1, <1>2, <1>3, <1>4

\* Kahn's algorithm decides whether the milestones can be worked through: it
\* rejects no graph that can be, as each pass processes one milestone more
\* (milestone_graph_has_cycle).
THEOREM CycleDecided ==
    ASSUME NEW p, IsFiniteSet(DOMAIN p)
    PROVE  MilestoneGraphHasCycle(p) <=> ~Orderable(p)
<1> DEFINE D == DOMAIN p
           N == Cardinality(D)
           f == Processed(p)
           Ready(S) == {i \in D : p[i] \subseteq S}
<1>1. N \in Nat
  BY FS_CardinalityType
<1>2. SUFFICES ASSUME Orderable(p) PROVE f[N] = D
  BY <1>1, CycleIsUnprocessed, AcyclicOrderable
<1>3. \A k \in 0..N : f[k] = IF k = 0 THEN {} ELSE Ready(f[k - 1])
  <2>1. Processing(p, f)
    BY <1>1, ProcessedProcesses
  <2> HIDE DEF f
  <2> QED BY <2>1 DEF Processing
<1> HIDE DEF f
<1>4. f[0] = {} /\ \A k \in Nat : k + 1 <= N => f[k + 1] = Ready(f[k])
  <2>1. 0 \in 0..N
    BY <1>1
  <2>2. f[0] = {}
    <3> HIDE DEF Ready, N
    <3> QED BY <1>3, <2>1
  <2>3. ASSUME NEW k \in Nat, k + 1 <= N PROVE f[k + 1] = Ready(f[k])
    <3>1. k + 1 \in 0..N /\ k + 1 # 0 /\ (k + 1) - 1 = k
      BY <1>1, <2>3
    <3> HIDE DEF Ready, N
    <3> QED BY <1>3, <3>1
  <2> QED BY <2>2, <2>3
<1> DEFINE Grown == {k \in Nat : k <= N =>
                       /\ f[k] \subseteq Ready(f[k])
                       /\ f[k] = D \/ Cardinality(f[k]) >= k}
<1>5. 0 \in Grown
  <2>1. Cardinality({}) = 0
    BY FS_EmptySet
  <2>2. f[0] \subseteq Ready(f[0]) /\ Cardinality(f[0]) >= 0
    BY <1>4, <2>1
  <2> QED BY <2>2
<1>6. ASSUME NEW k \in Nat, k \in Grown PROVE k + 1 \in Grown
  <2> SUFFICES ASSUME k + 1 <= N
               PROVE  /\ f[k + 1] \subseteq Ready(f[k + 1])
                      /\ f[k + 1] = D \/ Cardinality(f[k + 1]) >= k + 1
    OBVIOUS
  <2> DEFINE S == f[k]
             T == f[k + 1]
  <2>1. T = Ready(S) /\ S \subseteq T /\ (S = D \/ Cardinality(S) >= k)
    <3>1. k <= N
      BY <1>1
    <3> QED BY <1>4, <1>6, <3>1
  <2> HIDE DEF S, T, Grown
  <2>2. T \subseteq Ready(T) /\ T \in SUBSET D
    BY <2>1
  <2>3. CASE S = D
    <3>1. T = D
      BY <2>1, <2>2, <2>3
    <3> QED BY <2>2, <3>1 DEF T
  <2>4. CASE S # D
    <3>1. D \ S \in (SUBSET D) \ {{}}
      BY <2>1, <2>2, <2>4
    <3>2. PICK x \in D \ S : p[x] \cap (D \ S) = {}
      BY <1>2, <3>1 DEF Orderable
    <3>3. p[x] \subseteq D
      BY <1>2, <3>2 DEF Orderable
    <3>4. x \in T
      BY <2>1, <3>2, <3>3
    <3>5. IsFiniteSet(S) /\ IsFiniteSet(T)
      <4>1. S \subseteq D
        BY <2>1, <2>2
      <4> QED BY <2>2, <4>1, FS_Subset
    <3>6. Cardinality(S \cup {x}) = Cardinality(S) + 1
      BY <3>2, <3>5, FS_AddElement
    <3>7. Cardinality(S \cup {x}) <= Cardinality(T)
      <4>1. S \cup {x} \in SUBSET T
        BY <2>1, <3>4
      <4> QED BY <3>5, <4>1, FS_Subset
    <3>8. Cardinality(S) \in Nat /\ Cardinality(T) \in Nat /\ Cardinality(S) >= k
      BY <2>1, <2>4, <3>5, FS_CardinalityType
    <3>9. Cardinality(T) >= k + 1
      BY <3>6, <3>7, <3>8
    <3> QED BY <2>2, <3>9 DEF T
  <2> QED BY <2>3, <2>4
<1>7. N \in Grown
  <2> HIDE DEF Grown
  <2>1. Nat \subseteq Grown
    BY <1>5, <1>6, NatSetInduction
  <2> QED BY <1>1, <2>1
<1>8. f[N] \subseteq D /\ (f[N] = D \/ Cardinality(f[N]) >= N)
  BY <1>1, <1>7
<1>9. CASE Cardinality(f[N]) >= N
  <2>1. Cardinality(f[N]) = Cardinality(D)
    <3>1. Cardinality(f[N]) <= N /\ Cardinality(f[N]) \in Nat
      BY <1>8, FS_Subset, FS_CardinalityType
    <3> QED BY <1>1, <1>9, <3>1
  <2> QED BY <1>8, <2>1, FS_Subset
<1> QED BY <1>8, <1>9

\* No pass freezes a milestone outside a set that holds whatever waits for m or
\* for one of its own.
LEMMA FrozenLeast ==
    ASSUME NEW p, NEW m, IsFiniteSet(DOMAIN p), NEW S, Closed(p, m, S)
    PROVE  Frozen(p, m)[Cardinality(DOMAIN p)] \subseteq S
<1> DEFINE D == DOMAIN p
           N == Cardinality(D)
           f == Frozen(p, m)
           Pass(P) == {i \in D : i \in P \/ p[i] \cap (P \cup {m}) # {}}
<1>1. N \in Nat
  BY FS_CardinalityType
<1>2. \A k \in 0..N : f[k] = IF k = 0 THEN {} ELSE Pass(f[k - 1])
  <2>1. Freezing(p, m, f)
    BY <1>1, FrozenFreezes
  <2> HIDE DEF f
  <2> QED BY <2>1 DEF Freezing
<1> HIDE DEF f
<1> DEFINE Within == {k \in Nat : k <= N => f[k] \subseteq S}
<1>3. 0 \in Within
  <2>1. 0 \in 0..N
    BY <1>1
  <2>2. f[0] = {}
    <3> HIDE DEF Pass, N
    <3> QED BY <1>2, <2>1
  <2> QED BY <2>2
<1>4. ASSUME NEW k \in Nat, k \in Within PROVE k + 1 \in Within
  <2> SUFFICES ASSUME k + 1 <= N PROVE f[k + 1] \subseteq S
    OBVIOUS
  <2>1. k + 1 \in 0..N /\ k + 1 # 0 /\ (k + 1) - 1 = k /\ k <= N
    BY <1>1
  <2>2. f[k + 1] = Pass(f[k])
    <3> HIDE DEF Pass, N
    <3> QED BY <1>2, <2>1
  <2>3. f[k] \subseteq S
    BY <1>4, <2>1
  <2> QED BY <2>2, <2>3 DEF Closed
<1>5. N \in Within
  <2> HIDE DEF Within
  <2>1. Nat \subseteq Within
    BY <1>3, <1>4, NatSetInduction
  <2> QED BY <1>1, <2>1
<1> QED BY <1>1, <1>5 DEF f

\* In a graph that can be worked through, a revocation freezes exactly what
\* depends on the revoked milestone, directly or not (descendant_mask).
THEOREM MaskExact ==
    ASSUME NEW p, NEW m \in DOMAIN p, IsFiniteSet(DOMAIN p), Orderable(p)
    PROVE  DescendantMask(p, m) = DependentsOf(p, m)
<1>1. DependentsOf(p, m) \subseteq DescendantMask(p, m)
  BY MaskCoversDependents
<1>2. ASSUME NEW i \in DescendantMask(p, m), NEW S \in SUBSET DOMAIN p,
             \A x \in DOMAIN p : p[x] \cap (S \cup {m}) # {} => x \in S
      PROVE  i \in S
  <2>1. Closed(p, m, S)
    BY <1>2 DEF Closed
  <2>2. i \in Frozen(p, m)[Cardinality(DOMAIN p)]
    BY MaskIsFrozen
  <2> QED BY <2>1, <2>2, FrozenLeast
<1>3. DescendantMask(p, m) \subseteq DOMAIN p
  BY MaskIsFrozen
<1> QED BY <1>1, <1>2, <1>3 DEF DependentsOf

-----------------------------------------------------------------------------
(* The state invariant: types, prerequisites, reserves and review windows. *)

Inv ==
    /\ TypeOK
    /\ PrerequisitesKept
    /\ ReserveConserved
    /\ ReviewWindowFixed

\* The milestones of a graph are natural numbers, and what depends on one of
\* them is among them.
LEMMA GraphMilestones ==
    ASSUME NEW p \in Graphs, NEW m
    PROVE  /\ DOMAIN p \subseteq Nat
           /\ DescendantMask(p, m) \subseteq Nat
           /\ DependentsOf(p, m) \subseteq Nat
<1>1. DOMAIN p \subseteq Nat
  BY MilestonesAssumption
<1>2. DescendantMask(p, m) \subseteq DOMAIN p
  BY DEF DescendantMask
<1>3. DependentsOf(p, m) \subseteq DOMAIN p
  BY DEF DependentsOf
<1> QED
  BY <1>1, <1>2, <1>3

\* A stutter and the steps that touch neither money, graph nor review leave
\* the properties alone.
LEMMA UntouchedKept ==
    ASSUME Inv, UNCHANGED <<payVars, graphVars, reviewVars>>
    PROVE  PrerequisitesKept' /\ ReserveConserved' /\ ReviewWindowFixed'
BY DEF Inv, PrerequisitesKept, ReserveConserved, ReviewWindowFixed, payVars, graphVars,
       reviewVars

\* Nothing is claimed, funded or reviewed at the start.
LEMMA InitEstablishes == Init => Inv
<1> SUFFICES ASSUME Init PROVE Inv
  OBVIOUS
<1>1. TypeOK
  BY MilestonesAssumption DEF Init, TypeOK, Slots
<1>2. PrerequisitesKept /\ ReserveConserved /\ ReviewWindowFixed
  BY DEF Init, PrerequisitesKept, ReserveConserved, ReviewWindowFixed, Balance
<1> QED
  BY <1>1, <1>2 DEF Inv

\* A funding adds as much to the reserve as to what was ever funded.
LEMMA FundKeeps ==
    ASSUME Inv, NEW g \in Grants, NEW a \in Amounts, FundBountyReserve(g, a)
    PROVE  Inv'
<1>1. a \in Nat /\ None \notin Nat
  BY MilestonesAssumption
<1>2. Balance(reserve[g]) + a \in Nat
  BY <1>1 DEF Inv, TypeOK, Balance
<1>3. TypeOK'
  BY <1>1, <1>2 DEF Inv, TypeOK, FundBountyReserve, graphVars, panelVars, reviewVars
<1>4. ReserveConserved'
  <2> SUFFICES ASSUME NEW x \in Grants
               PROVE  /\ funded'[x] = Balance(reserve'[x]) + paid'[x]
                      /\ reserve'[x] = None => claimed'[x] = {}
    BY DEF ReserveConserved, Balance
  <2>1. CASE x = g
    <3>1. reserve'[x] = Balance(reserve[x]) + a /\ funded'[x] = funded[x] + a
          /\ paid' = paid
      BY <2>1 DEF Inv, TypeOK, FundBountyReserve
    <3>2. reserve'[x] # None /\ Balance(reserve'[x]) = reserve'[x]
      BY <1>1, <1>2, <2>1, <3>1 DEF Balance
    <3>3. /\ funded[x] = Balance(reserve[x]) + paid[x]
          /\ paid[x] \in Nat /\ funded[x] \in Nat /\ Balance(reserve[x]) \in Nat
      BY <1>1 DEF Inv, TypeOK, ReserveConserved, Balance
    <3> QED
      BY <1>1, <3>1, <3>2, <3>3
  <2>2. CASE x # g
    BY <2>2 DEF Inv, TypeOK, ReserveConserved, FundBountyReserve
  <2> QED
    BY <2>1, <2>2
<1>5. PrerequisitesKept' /\ ReviewWindowFixed'
  BY DEF Inv, PrerequisitesKept, ReviewWindowFixed, FundBountyReserve, graphVars, reviewVars
<1> QED
  BY <1>3, <1>4, <1>5 DEF Inv

\* A new graph applies to the claims that follow it.
LEMMA DepsKeep ==
    ASSUME Inv, NEW g \in Grants, NEW p \in Graphs, InitGrantMilestoneDeps(g, p)
    PROVE  Inv'
<1>1. TypeOK'
  BY DEF Inv, TypeOK, InitGrantMilestoneDeps, payVars, panelVars, reviewVars
<1>2. PrerequisitesKept'
  <2> SUFFICES ASSUME NEW x \in Grants, parents'[x] # None,
                      NEW i \in claimed'[x] \ claimedBefore'[x]
               PROVE  /\ i \in DOMAIN parents'[x]
                      /\ parents'[x][i] \cap DOMAIN parents'[x] \subseteq claimed'[x]
    BY DEF PrerequisitesKept
  <2>1. CASE x = g
    \* Everything claimed so far was claimed before this graph.
    BY <2>1 DEF Inv, TypeOK, InitGrantMilestoneDeps, payVars
  <2>2. CASE x # g
    BY <2>2 DEF Inv, TypeOK, PrerequisitesKept, InitGrantMilestoneDeps, payVars
  <2> QED
    BY <2>1, <2>2
<1>3. ReserveConserved' /\ ReviewWindowFixed'
  BY DEF Inv, ReserveConserved, ReviewWindowFixed, InitGrantMilestoneDeps, payVars, reviewVars
<1> QED
  BY <1>1, <1>2, <1>3 DEF Inv

\* A revocation only freezes.
LEMMA RevokeKeeps ==
    ASSUME Inv, NEW g \in Grants, NEW m \in MilestoneIds, RevokeMilestoneParent(g, m)
    PROVE  Inv'
<1>1. parents[g] \in Graphs
  BY DEF Inv, TypeOK, RevokeMilestoneParent
<1>2. /\ DescendantMask(parents[g], m) \subseteq Nat
      /\ DependentsOf(parents[g], m) \subseteq Nat
  BY <1>1, GraphMilestones
<1>3. TypeOK'
  BY <1>2 DEF Inv, TypeOK, RevokeMilestoneParent, payVars, panelVars, reviewVars
<1>4. PrerequisitesKept' /\ ReserveConserved' /\ ReviewWindowFixed'
  BY DEF Inv, PrerequisitesKept, ReserveConserved, ReviewWindowFixed, RevokeMilestoneParent,
         payVars, reviewVars
<1> QED
  BY <1>3, <1>4 DEF Inv

\* Committees, members and their verification do not touch a review.
LEMMA PanelKeeps ==
    ASSUME Inv,
           \/ \E g \in Grants, c \in Committees, t \in Thresholds :
                ConfigureMilestoneCommittee(g, c, t)
           \/ \E c \in Committees, m \in Members : RegisterCommitteeMember(c, m)
           \/ \E m \in Members, v \in BOOLEAN : MarkCommitteeSep12Verified(m, v)
    PROVE  Inv'
<1>1. UNCHANGED <<payVars, graphVars, reviewVars>>
  BY DEF ConfigureMilestoneCommittee, RegisterCommitteeMember, MarkCommitteeSep12Verified
<1>2. ASSUME NEW g \in Grants, NEW c \in Committees, NEW t \in Thresholds,
             ConfigureMilestoneCommittee(g, c, t)
      PROVE  TypeOK'
  BY <1>2 DEF Inv, TypeOK, ConfigureMilestoneCommittee, MilestoneReviewCommittee, payVars,
              graphVars, reviewVars
<1>3. ASSUME NEW c \in Committees, NEW m \in Members, RegisterCommitteeMember(c, m)
      PROVE  TypeOK'
  <2>1. nextMemberIdx[c] \in Slots /\ nextMemberIdx[c] + 1 \in 0..COMMITTEE_SLOTS
    <3>1. COMMITTEE_SLOTS \in Nat
      BY MilestonesAssumption
    <3>2. nextMemberIdx[c] \in 0..COMMITTEE_SLOTS /\ nextMemberIdx[c] < COMMITTEE_SLOTS
      BY <1>3 DEF Inv, TypeOK, RegisterCommitteeMember, HasRoom
    <3> QED BY <3>1, <3>2 DEF Slots
  <2>2. memberSlot' \in [Committees -> [Members -> Slots \cup {None}]]
    BY <1>3, <2>1 DEF Inv, TypeOK, RegisterCommitteeMember
  <2>3. nextMemberIdx' \in [Committees -> 0..COMMITTEE_SLOTS]
    BY <1>3, <2>1 DEF Inv, TypeOK, RegisterCommitteeMember
  <2>4. registered' \in [Members -> Nat]
    BY <1>3 DEF Inv, TypeOK, RegisterCommitteeMember
  <2> QED
    BY <1>3, <2>2, <2>3, <2>4 DEF Inv, TypeOK, RegisterCommitteeMember, payVars, graphVars,
       reviewVars
<1>4. ASSUME NEW m \in Members, NEW v \in BOOLEAN, MarkCommitteeSep12Verified(m, v)
      PROVE  TypeOK'
  BY <1>4 DEF Inv, TypeOK, MarkCommitteeSep12Verified, payVars, graphVars, reviewVars
<1>5. TypeOK'
  BY <1>2, <1>3, <1>4
<1> QED
  BY <1>1, <1>5, UntouchedKept DEF Inv

\* The first signature opens the window, the others leave it.
LEMMA SignKeeps ==
    ASSUME Inv, NEW m \in Members, NEW g \in Grants, NEW i \in ReviewedIds,
           CommitteeSignMilestone(m, g, i)
    PROVE  Inv'
<1> DEFINE cfg == committee[g]
           slot == memberSlot[cfg.committee_id][m]
           bits == approvals[g][i] \cup {slot}
           opened == [started_at |-> Opened(session[g][i]).started_at,
                      finalized |-> Sufficient(bits, cfg.approval_threshold)]
<1>1. i \in MilestoneIds
  BY MilestonesAssumption
<1>2. cfg \in MilestoneReviewCommittee
  BY DEF Inv, TypeOK, CommitteeSignMilestone
<1>3. slot \in Slots
  BY <1>2 DEF Inv, TypeOK, CommitteeSignMilestone, MilestoneReviewCommittee
<1>4. session[g][i] = None \/ session[g][i] \in MilestoneReviewSession
  BY <1>1 DEF Inv, TypeOK
<1>5. opened.started_at \in Nat
  BY <1>4 DEF Inv, TypeOK, Opened, MilestoneReviewSession
<1>6. Sufficient(bits, cfg.approval_threshold) \in BOOLEAN
  BY DEF Sufficient
<1>7. opened \in MilestoneReviewSession
  BY <1>5, <1>6 DEF MilestoneReviewSession
<1>8. /\ session' = [session EXCEPT ![g] = [session[g] EXCEPT ![i] = opened]]
      /\ approvals' = [approvals EXCEPT ![g] = [approvals[g] EXCEPT ![i] = bits]]
      /\ signers' = [signers EXCEPT ![g] = [signers[g] EXCEPT ![i] = signers[g][i] \cup {m}]]
      /\ openedAt' = [openedAt EXCEPT ![g] = [openedAt[g] EXCEPT ![i] =
             IF session[g][i] = None THEN now ELSE openedAt[g][i]]]
      /\ UNCHANGED <<now, access, payVars, graphVars, panelVars>>
  BY DEF CommitteeSignMilestone
<1> HIDE DEF opened, bits
<1>9. /\ session' \in [Grants -> [MilestoneIds -> MilestoneReviewSession \cup {None}]]
      /\ signers' \in [Grants -> [MilestoneIds -> SUBSET Members]]
      /\ openedAt' \in [Grants -> [MilestoneIds -> Nat]]
  BY <1>1, <1>7, <1>8 DEF Inv, TypeOK
<1>10. approvals' \in [Grants -> [MilestoneIds -> SUBSET Slots]]
  <2>1. bits \in SUBSET Slots
    BY <1>1, <1>3 DEF Inv, TypeOK, bits
  <2> QED
    BY <1>1, <1>8, <2>1 DEF Inv, TypeOK
<1>11. TypeOK'
  BY <1>8, <1>9, <1>10 DEF Inv, TypeOK, payVars, graphVars, panelVars
<1>12. PrerequisitesKept' /\ ReserveConserved'
  BY <1>8 DEF Inv, PrerequisitesKept, ReserveConserved, payVars, graphVars
<1>13. ReviewWindowFixed'
  <2> SUFFICES ASSUME NEW x \in Grants, NEW y \in MilestoneIds, session'[x][y] # None
               PROVE  session'[x][y].started_at = openedAt'[x][y]
    BY DEF ReviewWindowFixed
  <2>1. CASE x = g /\ y = i
    <3>1. session'[x][y] = opened
      BY <1>1, <1>8, <2>1 DEF Inv, TypeOK
    <3>2. openedAt'[x][y] = IF session[g][i] = None THEN now ELSE openedAt[g][i]
      BY <1>1, <1>8, <2>1 DEF Inv, TypeOK
    <3>3. opened.started_at = IF session[g][i] = None THEN now ELSE session[g][i].started_at
      BY DEF opened, Opened
    <3>4. session[g][i] # None => session[g][i].started_at = openedAt[g][i]
      BY <1>1 DEF Inv, ReviewWindowFixed
    <3> QED
      BY <3>1, <3>2, <3>3, <3>4
  <2>2. CASE ~(x = g /\ y = i)
    <3>1. session'[x][y] = session[x][y] /\ openedAt'[x][y] = openedAt[x][y]
      BY <1>1, <1>8, <2>2 DEF Inv, TypeOK
    <3> QED
      BY <3>1 DEF Inv, ReviewWindowFixed
  <2> QED
    BY <2>1, <2>2
<1> QED
  BY <1>11, <1>12, <1>13 DEF Inv

\* The council's finalisation leaves the window as it was.
LEMMA SudoKeeps ==
    ASSUME Inv, NEW g \in Grants, NEW i \in ReviewedIds, SudoFinalizeCommitteeReview(g, i)
    PROVE  Inv'
<1> DEFINE closed == [session[g][i] EXCEPT !.finalized = TRUE]
<1>1. i \in MilestoneIds
  BY MilestonesAssumption
<1>2. session[g][i] \in MilestoneReviewSession
  BY <1>1 DEF Inv, TypeOK, SudoFinalizeCommitteeReview
<1>3. closed \in MilestoneReviewSession /\ closed.started_at = session[g][i].started_at
  BY <1>2 DEF MilestoneReviewSession
<1>4. /\ session' = [session EXCEPT ![g] = [session[g] EXCEPT ![i] = closed]]
      /\ UNCHANGED <<now, access, payVars, graphVars, panelVars, approvals, signers, openedAt>>
  BY DEF SudoFinalizeCommitteeReview
<1> HIDE DEF closed
<1>5. TypeOK'
  BY <1>1, <1>3, <1>4 DEF Inv, TypeOK, payVars, graphVars, panelVars
<1>6. PrerequisitesKept' /\ ReserveConserved'
  BY <1>4 DEF Inv, PrerequisitesKept, ReserveConserved, payVars, graphVars
<1>7. ReviewWindowFixed'
  <2> SUFFICES ASSUME NEW x \in Grants, NEW y \in MilestoneIds, session'[x][y] # None
               PROVE  session'[x][y].started_at = openedAt[x][y]
    BY <1>4 DEF ReviewWindowFixed
  <2>1. CASE x = g /\ y = i
    <3>1. session'[x][y] = closed
      BY <1>1, <1>4, <2>1 DEF Inv, TypeOK
    <3>2. session[g][i].started_at = openedAt[g][i]
      BY <1>1 DEF Inv, ReviewWindowFixed, SudoFinalizeCommitteeReview
    <3> QED
      BY <1>3, <2>1, <3>1, <3>2
  <2>2. CASE ~(x = g /\ y = i)
    <3>1. session'[x][y] = session[x][y]
      BY <1>1, <1>4, <2>2 DEF Inv, TypeOK
    <3> QED
      BY <3>1 DEF Inv, ReviewWindowFixed
  <2> QED
    BY <2>1, <2>2
<1> QED
  BY <1>5, <1>6, <1>7 DEF Inv

\* A claim takes from the reserve what it pays, and is made only when its
\* prerequisites are claimed.
LEMMA ClaimKeeps ==
    ASSUME Inv, NEW g \in Grants, NEW i \in MilestoneIds, NEW a \in Amounts,
           NEW signature \in Signatures, ClaimMilestoneBounty(g, i, a, signature)
    PROVE  Inv'
<1>1. a \in Nat /\ None \notin Nat
  BY MilestonesAssumption
<1>2. /\ reserve[g] \in Nat /\ reserve[g] - a \in Nat
      /\ custody - a \in Nat /\ paid[g] + a \in Nat
  BY <1>1 DEF Inv, TypeOK, ClaimMilestoneBounty
<1>3. TypeOK'
  BY <1>2 DEF Inv, TypeOK, ClaimMilestoneBounty, Remaining, graphVars, panelVars, reviewVars
<1>4. ReserveConserved'
  <2> SUFFICES ASSUME NEW x \in Grants
               PROVE  /\ funded'[x] = Balance(reserve'[x]) + paid'[x]
                      /\ reserve'[x] = None => claimed'[x] = {}
    BY DEF ReserveConserved, Balance
  <2>1. CASE x = g
    <3>1. reserve'[x] = reserve[x] - a /\ paid'[x] = paid[x] + a /\ funded' = funded
      BY <2>1 DEF Inv, TypeOK, ClaimMilestoneBounty, Remaining
    <3>2. /\ reserve'[x] # None /\ Balance(reserve'[x]) = reserve'[x]
          /\ Balance(reserve[x]) = reserve[x]
      BY <1>1, <1>2, <2>1, <3>1 DEF Balance
    <3>3. funded[x] = Balance(reserve[x]) + paid[x] /\ paid[x] \in Nat /\ funded[x] \in Nat
      BY DEF Inv, TypeOK, ReserveConserved
    <3> QED
      BY <1>1, <1>2, <2>1, <3>1, <3>2, <3>3
  <2>2. CASE x # g
    BY <2>2 DEF Inv, TypeOK, ReserveConserved, ClaimMilestoneBounty
  <2> QED
    BY <2>1, <2>2
<1>5. ReviewWindowFixed'
  BY DEF Inv, ReviewWindowFixed, ClaimMilestoneBounty, reviewVars
<1>6. PrerequisitesKept'
  <2> SUFFICES ASSUME NEW x \in Grants, parents[x] # None,
                      NEW y \in claimed'[x] \ claimedBefore[x]
               PROVE  /\ y \in DOMAIN parents[x]
                      /\ parents[x][y] \cap DOMAIN parents[x] \subseteq claimed'[x]
    BY DEF PrerequisitesKept, ClaimMilestoneBounty, graphVars
  <2>1. claimed[x] \subseteq claimed'[x]
    BY DEF Inv, TypeOK, ClaimMilestoneBounty
  <2>2. CASE y \in claimed[x]
    BY <2>1, <2>2 DEF Inv, PrerequisitesKept
  <2>3. CASE y \notin claimed[x]
    <3>1. x = g /\ y = i
      BY <2>3 DEF Inv, TypeOK, ClaimMilestoneBounty
    <3>2. PrereqsSatisfied(g, i)
      BY <3>1 DEF ClaimMilestoneBounty
    <3> QED
      BY <2>1, <3>1, <3>2 DEF PrereqsSatisfied
  <2> QED
    BY <2>2, <2>3
<1> QED
  BY <1>3, <1>4, <1>5, <1>6 DEF Inv

\* Access and the clock concern neither money, graph nor review.
LEMMA OutsideKeeps ==
    ASSUME Inv, (\E g \in Grants : AccessChanges(g)) \/ Tick
    PROVE  Inv'
<1>1. UNCHANGED <<payVars, graphVars, panelVars, reviewVars>>
  BY DEF AccessChanges, Tick
<1>2. access' \in [Grants -> BOOLEAN]
  BY DEF Inv, TypeOK, AccessChanges, Tick
<1>3. now' \in Nat
  BY DEF Inv, TypeOK, AccessChanges, Tick
<1>4. TypeOK'
  BY <1>1, <1>2, <1>3 DEF Inv, TypeOK, payVars, graphVars, panelVars, reviewVars
<1> QED
  BY <1>1, <1>4, UntouchedKept DEF Inv

\* Every step of the milestones keeps the invariant.
LEMMA StepKeeps == Inv /\ [Next]_vars => Inv'
<1> SUFFICES ASSUME Inv, [Next]_vars PROVE Inv'
  OBVIOUS
<1>1. CASE UNCHANGED vars
  <2>1. TypeOK'
    BY <1>1 DEF Inv, TypeOK, vars, payVars, graphVars, panelVars, reviewVars
  <2> QED
    BY <1>1, <2>1, UntouchedKept DEF Inv, vars
<1>2. CASE \E g \in Grants, a \in Amounts : FundBountyReserve(g, a)
  BY <1>2, FundKeeps
<1>3. CASE \E g \in Grants, p \in Graphs : InitGrantMilestoneDeps(g, p)
  BY <1>3, DepsKeep
<1>4. CASE \E g \in Grants, m \in MilestoneIds : RevokeMilestoneParent(g, m)
  BY <1>4, RevokeKeeps
<1>5. CASE \E g \in Grants, c \in Committees, t \in Thresholds :
             ConfigureMilestoneCommittee(g, c, t)
  BY <1>5, PanelKeeps
<1>6. CASE \E c \in Committees, m \in Members : RegisterCommitteeMember(c, m)
  BY <1>6, PanelKeeps
<1>7. CASE \E m \in Members, v \in BOOLEAN : MarkCommitteeSep12Verified(m, v)
  BY <1>7, PanelKeeps
<1>8. CASE \E m \in Members, g \in Grants, i \in ReviewedIds : CommitteeSignMilestone(m, g, i)
  BY <1>8, SignKeeps
<1>9. CASE \E g \in Grants, i \in ReviewedIds : SudoFinalizeCommitteeReview(g, i)
  BY <1>9, SudoKeeps
<1>10. CASE \E g \in Grants, i \in MilestoneIds, a \in Amounts, signature \in Signatures :
              ClaimMilestoneBounty(g, i, a, signature)
  BY <1>10, ClaimKeeps
<1>11. CASE (\E g \in Grants : AccessChanges(g)) \/ Tick
  BY <1>11, OutsideKeeps
<1> QED
  BY <1>1, <1>2, <1>3, <1>4, <1>5, <1>6, <1>7, <1>8, <1>9, <1>10, <1>11 DEF Next

\* The invariant holds in every reachable state.
THEOREM MilestonesInvariant == Spec => []Inv
BY InitEstablishes, StepKeeps, PTL DEF Spec

\* Reserves, custody, slots and sessions keep their types: no reserve is ever
\* overdrawn and no member gets a slot beyond the bitmap.
THEOREM MilestonesTypeCorrect == Spec => []TypeOK
<1>1. Inv => TypeOK
  BY DEF Inv
<1> QED
  BY <1>1, MilestonesInvariant, PTL

\* Bounties are paid in the order of the prerequisites, for any graphs and any
\* order of calls (claim_milestone_bounty, milestone_prereqs_satisfied).
THEOREM PrerequisitesAlwaysKept == Spec => []PrerequisitesKept
<1>1. Inv => PrerequisitesKept
  BY DEF Inv
<1> QED
  BY <1>1, MilestonesInvariant, PTL

\* A reserve pays out no more than it was funded with, for any number of grants
\* (fund_bounty_reserve, claim_milestone_bounty).
THEOREM ReserveAlwaysConserved == Spec => []ReserveConserved
<1>1. Inv => ReserveConserved
  BY DEF Inv
<1> QED
  BY <1>1, MilestonesInvariant, PTL

\* The council's window is counted from the first signature for good
\* (committee_sign_milestone, sudo_finalize_committee_review).
THEOREM ReviewWindowAlwaysFixed == Spec => []ReviewWindowFixed
<1>1. Inv => ReviewWindowFixed
  BY DEF Inv
<1> QED
  BY <1>1, MilestonesInvariant, PTL

-----------------------------------------------------------------------------
(* The graphs, the frozen milestones and the slots behind the approvals. *)

\* What a revocation had to cut off is frozen.
CutOffFrozen == \A g \in Grants : cutOff[g] \subseteq frozen[g]

\* The slots that these members own.
SlotsOf(owned, M) == UNION {owned[m] : m \in M}

\* owned explains the slots: a member has at most as many as it was registered
\* times, and every bit of an approval is a slot of a member who signed.
Explains(owned) ==
    /\ \A m \in Members : Cardinality(owned[m]) <= registered[m]
    /\ \A c \in Committees, m \in Members :
         memberSlot[c][m] # None => memberSlot[c][m] \in owned[m]
    /\ \A g \in Grants, i \in MilestoneIds :
         approvals[g][i] \subseteq SlotsOf(owned, signers[g][i])

SlotsExplained == \E owned \in [Members -> SUBSET Slots] : Explains(owned)

GraphInv == Inv /\ GraphOrderable /\ CutOffFrozen /\ SlotsExplained

\* Sets of slots are finite.
LEMMA SlotsFinite ==
    /\ None \notin Slots /\ IsFiniteSet(Slots)
    /\ \A S \in SUBSET Slots : IsFiniteSet(S) /\ Cardinality(S) \in Nat
<1>1. IsFiniteSet(Slots)
  BY MilestonesAssumption, FS_Interval DEF Slots
<1>2. None \notin Slots
  BY MilestonesAssumption DEF Slots
<1> QED BY <1>1, <1>2, FS_Subset, FS_CardinalityType

\* Members own together at most as many slots as they were registered times.
LEMMA SlotsCounted ==
    ASSUME NEW owned \in [Members -> SUBSET Slots], NEW r \in [Members -> Nat],
           \A m \in Members : Cardinality(owned[m]) <= r[m],
           NEW M \in SUBSET Members
    PROVE  Cardinality(SlotsOf(owned, M)) <= SumFunctionOnSet(r, M)
<1> DEFINE Good == {T \in SUBSET M :
                      Cardinality(SlotsOf(owned, T)) <= SumFunctionOnSet(r, T)}
<1>1. IsFiniteSet(M)
  BY MilestonesAssumption, FS_Subset
<1>2. ASSUME NEW T \in SUBSET M, \A U \in SUBSET T : U # T => U \in Good
      PROVE  T \in Good
  <2>1. CASE T = {}
    <3>1. SlotsOf(owned, T) = {}
      BY <2>1 DEF SlotsOf
    <3>2. SumFunctionOnSet(r, T) = 0 /\ Cardinality(SlotsOf(owned, T)) = 0
      BY <2>1, <3>1, SumEmpty, FS_EmptySet
    <3> QED BY <3>2
  <2>2. CASE T # {}
    <3> DEFINE x == Some(T)
               U == T \ {x}
    <3>1. /\ IsFiniteSet(T) /\ x \in T /\ U \in SUBSET T /\ U # T
          /\ SumFunctionOnSet(r, T) = r[x] + SumFunctionOnSet(r, U)
      BY <1>1, <2>2, SubsetSum
    <3>2. Cardinality(SlotsOf(owned, U)) <= SumFunctionOnSet(r, U)
      BY <1>2, <3>1
    <3>3. IsFiniteSet(U) /\ \A m \in U : r[m] \in Nat
      BY <3>1, FS_Subset
    <3>4. SumFunctionOnSet(r, U) \in Nat
      BY <3>3, SumNat
    <3> HIDE DEF x, U, Good
    <3>5. SlotsOf(owned, T) = SlotsOf(owned, U) \cup owned[x]
      <4>1. T = U \cup {x}
        BY <3>1 DEF U
      <4> QED BY <4>1 DEF SlotsOf
    <3>6. x \in Members /\ owned[x] \in SUBSET Slots
      BY <3>1
    <3>7. SlotsOf(owned, U) \in SUBSET Slots
      BY <3>1 DEF SlotsOf
    <3>8. /\ IsFiniteSet(owned[x]) /\ IsFiniteSet(SlotsOf(owned, U))
          /\ SlotsOf(owned, U) \cap owned[x] \in SUBSET Slots
      BY <3>6, <3>7, SlotsFinite
    <3>9. Cardinality(SlotsOf(owned, T))
            = Cardinality(SlotsOf(owned, U)) + Cardinality(owned[x])
              - Cardinality(SlotsOf(owned, U) \cap owned[x])
      BY <3>5, <3>8, FS_Union
    <3>10. /\ Cardinality(SlotsOf(owned, U)) \in Nat /\ Cardinality(owned[x]) \in Nat
           /\ Cardinality(SlotsOf(owned, U) \cap owned[x]) \in Nat
      BY <3>6, <3>7, <3>8, SlotsFinite
    <3>11. Cardinality(owned[x]) <= r[x] /\ r[x] \in Nat
      BY <3>6
    <3>12. Cardinality(SlotsOf(owned, T)) <= SumFunctionOnSet(r, T)
      BY <3>1, <3>2, <3>4, <3>9, <3>10, <3>11
    <3> QED BY <3>12 DEF Good
  <2> QED BY <2>1, <2>2
<1> HIDE DEF Good
<1>3. SUBSET M \subseteq Good
  BY <1>1, <1>2, SubsetInduction
<1> QED BY <1>3 DEF Good

\* At the start there is no graph, nothing is cut off and nobody owns a slot.
LEMMA GraphInitEstablishes == Init => GraphInv
<1> SUFFICES ASSUME Init PROVE GraphInv
  OBVIOUS
<1>1. GraphOrderable /\ CutOffFrozen
  BY DEF Init, GraphOrderable, CutOffFrozen
<1> DEFINE owned == [m \in Members |-> {}]
<1>2. owned \in [Members -> SUBSET Slots] /\ \A m \in Members : owned[m] = {}
  OBVIOUS
<1> HIDE DEF owned
<1>3. \A m \in Members : Cardinality(owned[m]) <= registered[m]
  <2>1. \A m \in Members : registered[m] = 0
    BY DEF Init
  <2>2. \A m \in Members : Cardinality(owned[m]) = 0
    BY <1>2, FS_EmptySet
  <2> QED BY <2>1, <2>2
<1>4. \A c \in Committees, m \in Members : memberSlot[c][m] = None
  BY DEF Init
<1>5. \A g \in Grants, i \in MilestoneIds : approvals[g][i] = {}
  BY DEF Init
<1>6. Explains(owned)
  BY <1>3, <1>4, <1>5 DEF Explains
<1> QED BY <1>1, <1>2, <1>6, InitEstablishes DEF GraphInv, SlotsExplained

\* The graph set is one that Kahn's algorithm accepted.
LEMMA OrderableKeeps == GraphInv /\ [Next]_vars => GraphOrderable'
<1> SUFFICES ASSUME GraphInv, [Next]_vars PROVE GraphOrderable'
  OBVIOUS
<1>1. CASE \E g \in Grants, p \in Graphs : InitGrantMilestoneDeps(g, p)
  <2>1. PICK g \in Grants, p \in Graphs : InitGrantMilestoneDeps(g, p)
    BY <1>1
  <2>2. ~MilestoneGraphHasCycle(p)
    BY <2>1 DEF InitGrantMilestoneDeps, ValidGraphs
  <2>3. Orderable(p)
    BY <2>2, GraphFinite, AcyclicOrderable
  <2>4. parents' = [parents EXCEPT ![g] = p]
    BY <2>1 DEF InitGrantMilestoneDeps
  <2>5. ASSUME NEW x \in Grants, parents'[x] # None PROVE Orderable(parents'[x])
    <3>1. parents'[x] = IF x = g THEN p ELSE parents[x]
      BY <2>4 DEF GraphInv, Inv, TypeOK
    <3> QED BY <2>3, <2>5, <3>1 DEF GraphInv, GraphOrderable
  <2> QED BY <2>5 DEF GraphOrderable
<1>2. CASE ~\E g \in Grants, p \in Graphs : InitGrantMilestoneDeps(g, p)
  <2>1. parents' = parents
    BY <1>2, ZenonT(40)
    DEF Next, FundBountyReserve, RevokeMilestoneParent, ConfigureMilestoneCommittee,
       RegisterCommitteeMember, MarkCommitteeSep12Verified, CommitteeSignMilestone,
       SudoFinalizeCommitteeReview, ClaimMilestoneBounty, AccessChanges, Tick, vars, graphVars
  <2> QED BY <2>1 DEF GraphInv, GraphOrderable
<1> QED BY <1>1, <1>2

\* The mask of a revocation covers what depends on the revoked milestone.
LEMMA CutOffKeeps == GraphInv /\ [Next]_vars => CutOffFrozen'
<1> SUFFICES ASSUME GraphInv, [Next]_vars PROVE CutOffFrozen'
  OBVIOUS
<1>1. CASE \E g \in Grants, m \in MilestoneIds : RevokeMilestoneParent(g, m)
  <2>1. PICK g \in Grants, m \in MilestoneIds : RevokeMilestoneParent(g, m)
    BY <1>1
  <2> DEFINE mask == DescendantMask(parents[g], m)
             shut == IF m \in DOMAIN parents[g] THEN DependentsOf(parents[g], m) ELSE {}
  <2>2. parents[g] \in Graphs /\ Orderable(parents[g])
    BY <2>1 DEF GraphInv, Inv, TypeOK, GraphOrderable, RevokeMilestoneParent
  <2>3. shut \subseteq mask
    BY <2>2, GraphFinite, MaskCoversDependents
  <2>4. /\ frozen' = [frozen EXCEPT ![g] = frozen[g] \cup mask]
        /\ cutOff' = [cutOff EXCEPT ![g] = cutOff[g] \cup shut]
    BY <2>1 DEF RevokeMilestoneParent
  <2> HIDE DEF mask, shut
  <2>5. ASSUME NEW x \in Grants PROVE cutOff'[x] \subseteq frozen'[x]
    <3>1. cutOff[x] \subseteq frozen[x]
      BY DEF GraphInv, CutOffFrozen
    <3>2. CASE x = g
      BY <2>3, <2>4, <3>1, <3>2 DEF GraphInv, Inv, TypeOK
    <3>3. CASE x # g
      BY <2>4, <3>1, <3>3 DEF GraphInv, Inv, TypeOK
    <3> QED BY <3>2, <3>3
  <2> QED BY <2>5 DEF CutOffFrozen
<1>2. CASE ~\E g \in Grants, m \in MilestoneIds : RevokeMilestoneParent(g, m)
  <2>1. frozen' = frozen /\ cutOff' = cutOff
    BY <1>2, ZenonT(40)
    DEF Next, FundBountyReserve, InitGrantMilestoneDeps, ConfigureMilestoneCommittee,
       RegisterCommitteeMember, MarkCommitteeSep12Verified, CommitteeSignMilestone,
       SudoFinalizeCommitteeReview, ClaimMilestoneBounty, AccessChanges, Tick, vars, graphVars
  <2> QED BY <2>1 DEF GraphInv, CutOffFrozen
<1> QED BY <1>1, <1>2

\* A registration gives the member the slot, and counts.
LEMMA RegisterExplained ==
    ASSUME GraphInv, NEW c \in Committees, NEW m \in Members, RegisterCommitteeMember(c, m)
    PROVE  SlotsExplained'
<1>1. PICK owned \in [Members -> SUBSET Slots] : Explains(owned)
  BY DEF GraphInv, SlotsExplained
<1>0. PICK slot : slot = nextMemberIdx[c]
  OBVIOUS
<1>2. slot \in Slots
  BY <1>0, MilestonesAssumption DEF GraphInv, Inv, TypeOK, RegisterCommitteeMember, HasRoom, Slots
<1>3. /\ memberSlot' = [memberSlot EXCEPT ![c] = [memberSlot[c] EXCEPT ![m] = slot]]
      /\ registered' = [registered EXCEPT ![m] = registered[m] + 1]
      /\ approvals' = approvals /\ signers' = signers
  BY <1>0 DEF RegisterCommitteeMember, reviewVars
<1>4. PICK more \in [Members -> SUBSET Slots] :
        \A x \in Members : more[x] = IF x = m THEN owned[m] \cup {slot} ELSE owned[x]
  <2> DEFINE more == [x \in Members |-> IF x = m THEN owned[m] \cup {slot} ELSE owned[x]]
  <2>1. more \in [Members -> SUBSET Slots]
    BY <1>2
  <2>2. \A x \in Members : more[x] = IF x = m THEN owned[m] \cup {slot} ELSE owned[x]
    OBVIOUS
  <2> HIDE DEF more
  <2> QED BY <2>1, <2>2
<1>5. ASSUME NEW x \in Members PROVE Cardinality(more[x]) <= registered'[x]
  <2>1. Cardinality(owned[x]) <= registered[x] /\ Cardinality(owned[x]) \in Nat
    BY <1>1, SlotsFinite DEF Explains
  <2>2. registered[x] \in Nat
    BY DEF GraphInv, Inv, TypeOK
  <2>3. CASE x = m
    <3>1. Cardinality(owned[m] \cup {slot}) <= Cardinality(owned[m]) + 1
      <4>1. IsFiniteSet(owned[m])
        BY SlotsFinite
      <4>2. Cardinality(owned[m] \cup {slot})
              = IF slot \in owned[m] THEN Cardinality(owned[m]) ELSE Cardinality(owned[m]) + 1
        BY <4>1, FS_AddElement
      <4> QED BY <2>1, <2>3, <4>2
    <3>2. IsFiniteSet(owned[m] \cup {slot}) /\ Cardinality(owned[m] \cup {slot}) \in Nat
      BY <1>2, SlotsFinite
    <3>3. registered'[x] = registered[x] + 1 /\ more[x] = owned[m] \cup {slot}
      BY <1>3, <1>4, <2>3 DEF GraphInv, Inv, TypeOK
    <3> QED BY <2>1, <2>2, <2>3, <3>1, <3>2, <3>3
  <2>4. CASE x # m
    BY <1>3, <1>4, <2>1, <2>4 DEF GraphInv, Inv, TypeOK
  <2> QED BY <2>3, <2>4
<1>6. ASSUME NEW d \in Committees, NEW x \in Members, memberSlot'[d][x] # None
      PROVE  memberSlot'[d][x] \in more[x]
  <2>1. CASE d = c /\ x = m
    BY <1>3, <1>4, <2>1 DEF GraphInv, Inv, TypeOK
  <2>2. CASE ~(d = c /\ x = m)
    <3>1. memberSlot'[d][x] = memberSlot[d][x]
      BY <1>3, <2>2 DEF GraphInv, Inv, TypeOK
    <3>2. memberSlot[d][x] \in owned[x]
      BY <1>1, <1>6, <3>1 DEF Explains
    <3> QED BY <1>4, <3>1, <3>2
  <2> QED BY <2>1, <2>2
<1>7. ASSUME NEW g \in Grants, NEW i \in MilestoneIds
      PROVE  approvals'[g][i] \subseteq SlotsOf(more, signers'[g][i])
  <2>1. signers[g][i] \subseteq Members
    BY DEF GraphInv, Inv, TypeOK
  <2>2. \A x \in Members : owned[x] \subseteq more[x]
    BY <1>4
  <2>3. SlotsOf(owned, signers[g][i]) \subseteq SlotsOf(more, signers[g][i])
    BY <2>1, <2>2 DEF SlotsOf
  <2> QED BY <1>1, <1>3, <2>3 DEF Explains
<1>8. Explains(more)'
  BY <1>5, <1>6, <1>7 DEF Explains
<1> QED BY <1>8 DEF SlotsExplained, Slots

\* A signature sets a slot of the member who signs.
LEMMA SignExplained ==
    ASSUME GraphInv, NEW m \in Members, NEW g \in Grants, NEW i \in ReviewedIds,
           CommitteeSignMilestone(m, g, i)
    PROVE  /\ SlotsExplained'
           /\ \E owned \in [Members -> SUBSET Slots] :
                /\ \A x \in Members : Cardinality(owned[x]) <= registered[x]
                /\ approvals'[g][i] \subseteq SlotsOf(owned, signers'[g][i])
<1>1. PICK owned \in [Members -> SUBSET Slots] : Explains(owned)
  BY DEF GraphInv, SlotsExplained
<1> DEFINE slot == memberSlot[committee[g].committee_id][m]
<1>2. i \in MilestoneIds
  BY MilestonesAssumption
<1>3. committee[g] \in MilestoneReviewCommittee
  BY DEF GraphInv, Inv, TypeOK, CommitteeSignMilestone
<1>4. committee[g].committee_id \in Committees
  BY <1>3 DEF MilestoneReviewCommittee
<1>5. slot \in owned[m]
  BY <1>1, <1>4 DEF Explains, CommitteeSignMilestone
<1>6. /\ approvals' = [approvals EXCEPT ![g] =
             [approvals[g] EXCEPT ![i] = approvals[g][i] \cup {slot}]]
      /\ signers' = [signers EXCEPT ![g] = [signers[g] EXCEPT ![i] = signers[g][i] \cup {m}]]
      /\ UNCHANGED <<memberSlot, registered>>
  BY DEF CommitteeSignMilestone, panelVars
<1> HIDE DEF slot
<1>7. ASSUME NEW x \in Grants, NEW y \in MilestoneIds
      PROVE  approvals'[x][y] \subseteq SlotsOf(owned, signers'[x][y])
  <2>1. approvals[x][y] \subseteq SlotsOf(owned, signers[x][y])
    BY <1>1 DEF Explains
  <2>2. CASE x = g /\ y = i
    <3>1. /\ approvals'[x][y] = approvals[x][y] \cup {slot}
          /\ signers'[x][y] = signers[x][y] \cup {m}
      BY <1>2, <1>6, <2>2 DEF GraphInv, Inv, TypeOK
    <3>2. SlotsOf(owned, signers[x][y] \cup {m}) = SlotsOf(owned, signers[x][y]) \cup owned[m]
      BY DEF SlotsOf
    <3> QED BY <1>5, <2>1, <3>1, <3>2
  <2>3. CASE ~(x = g /\ y = i)
    <3>1. approvals'[x][y] = approvals[x][y] /\ signers'[x][y] = signers[x][y]
      BY <1>2, <1>6, <2>3 DEF GraphInv, Inv, TypeOK
    <3> QED BY <2>1, <3>1
  <2> QED BY <2>2, <2>3
<1>8. Explains(owned)'
  BY <1>1, <1>6, <1>7 DEF Explains
<1>9. SlotsExplained'
  BY <1>8 DEF SlotsExplained, Slots
<1>10. \A x \in Members : Cardinality(owned[x]) <= registered[x]
  BY <1>1 DEF Explains
<1> QED BY <1>2, <1>7, <1>9, <1>10

\* The other steps leave slots, registrations, approvals and signers alone.
LEMMA ExplainedKeeps == GraphInv /\ [Next]_vars => SlotsExplained'
<1> SUFFICES ASSUME GraphInv, [Next]_vars PROVE SlotsExplained'
  OBVIOUS
<1>1. CASE \E c \in Committees, m \in Members : RegisterCommitteeMember(c, m)
  BY <1>1, RegisterExplained
<1>2. CASE \E m \in Members, g \in Grants, i \in ReviewedIds : CommitteeSignMilestone(m, g, i)
  BY <1>2, SignExplained
<1>3. CASE /\ ~\E c \in Committees, m \in Members : RegisterCommitteeMember(c, m)
           /\ ~\E m \in Members, g \in Grants, i \in ReviewedIds :
                  CommitteeSignMilestone(m, g, i)
  <2>1. UNCHANGED <<memberSlot, registered, approvals, signers>>
    BY <1>3 DEF Next, FundBountyReserve, InitGrantMilestoneDeps, RevokeMilestoneParent,
       ConfigureMilestoneCommittee, MarkCommitteeSep12Verified, SudoFinalizeCommitteeReview,
       ClaimMilestoneBounty, AccessChanges, Tick, vars, panelVars, reviewVars
  <2>2. PICK owned \in [Members -> SUBSET Slots] : Explains(owned)
    BY DEF GraphInv, SlotsExplained
  <2>3. Explains(owned)'
    BY <2>1, <2>2 DEF Explains
  <2> QED BY <2>3 DEF SlotsExplained, Slots
<1> QED BY <1>1, <1>2, <1>3

\* The stronger invariant holds in every reachable state.
THEOREM MilestoneGraphInvariant == Spec => []GraphInv
<1>1. GraphInv /\ [Next]_vars => GraphInv'
  <2>1. GraphInv /\ [Next]_vars => Inv'
    BY StepKeeps DEF GraphInv
  <2> QED BY <2>1, OrderableKeeps, CutOffKeeps, ExplainedKeeps DEF GraphInv
<1> QED BY <1>1, GraphInitEstablishes, PTL DEF Spec

\* Whatever graph the administrators set last, the milestones of a grant can be
\* worked through (milestone_graph_has_cycle, init_grant_milestone_deps).
THEOREM GraphAlwaysOrderable == Spec => []GraphOrderable
<1>1. GraphInv => GraphOrderable
  BY DEF GraphInv
<1> QED BY <1>1, MilestoneGraphInvariant, PTL

\* What depended on a revoked milestone is never paid, for any graphs and any
\* order of calls (revoke_milestone_parent, descendant_mask).
THEOREM CutOffAlwaysShut == Spec => CutOffStaysShut
<1> DEFINE Shut == \A g \in Grants : (claimed'[g] \ claimed[g]) \cap cutOff[g] = {}
<1>1. GraphInv /\ [Next]_vars => [Shut]_vars
  <2> SUFFICES ASSUME GraphInv, [Next]_vars, NEW x \in Grants
               PROVE  (claimed'[x] \ claimed[x]) \cap cutOff[x] = {}
    OBVIOUS
  <2>1. CASE \E g \in Grants, i \in MilestoneIds, a \in Amounts, signature \in Signatures :
               ClaimMilestoneBounty(g, i, a, signature)
    <3>1. PICK g \in Grants, i \in MilestoneIds, a \in Amounts, signature \in Signatures :
            ClaimMilestoneBounty(g, i, a, signature)
      BY <2>1
    <3>2. i \notin frozen[g] /\ claimed' = [claimed EXCEPT ![g] = claimed[g] \cup {i}]
      BY <3>1 DEF ClaimMilestoneBounty
    <3>3. cutOff[g] \subseteq frozen[g]
      BY DEF GraphInv, CutOffFrozen
    <3>4. claimed'[x] = IF x = g THEN claimed[g] \cup {i} ELSE claimed[x]
      BY <3>2 DEF GraphInv, Inv, TypeOK
    <3> QED BY <3>2, <3>3, <3>4
  <2>2. CASE ~\E g \in Grants, i \in MilestoneIds, a \in Amounts, signature \in Signatures :
               ClaimMilestoneBounty(g, i, a, signature)
    <3>1. claimed' = claimed
      BY <2>2 DEF Next, FundBountyReserve, InitGrantMilestoneDeps, RevokeMilestoneParent,
         ConfigureMilestoneCommittee, RegisterCommitteeMember, MarkCommitteeSep12Verified,
         CommitteeSignMilestone, SudoFinalizeCommitteeReview, AccessChanges, Tick, vars, payVars
    <3> QED BY <3>1
  <2> QED BY <2>1, <2>2
<1>2. (CutOffStaysShut) <=> [][Shut]_vars
  BY DEF CutOffStaysShut
<1> QED BY <1>1, <1>2, MilestoneGraphInvariant, PTL DEF Spec

\* A review ends only with the approvals of enough members or after the council's
\* full window, for any committees, members and registrations
\* (committee_sign_milestone, sudo_finalize_committee_review).
THEOREM ReviewAlwaysGrounded == Spec => ReviewGrounded
<1> DEFINE Grounded == \A g \in Grants, i \in MilestoneIds :
             Finalized(g, i)' /\ ~Finalized(g, i) =>
               \/ committee[g].approval_threshold <= SumFunctionOnSet(registered, signers'[g][i])
               \/ now >= openedAt'[g][i] + COMMITTEE_REVIEW_TIMEOUT_SECS
<1>1. ASSUME GraphInv, [Next]_vars, NEW x \in Grants, NEW y \in MilestoneIds,
             Finalized(x, y)', ~Finalized(x, y)
      PROVE  \/ committee[x].approval_threshold <= SumFunctionOnSet(registered, signers'[x][y])
             \/ now >= openedAt'[x][y] + COMMITTEE_REVIEW_TIMEOUT_SECS
  <2>1. session'[x][y] # session[x][y]
    BY <1>1 DEF Finalized
  <2>2. CASE \E m \in Members, g \in Grants, i \in ReviewedIds : CommitteeSignMilestone(m, g, i)
    <3>1. PICK m \in Members, g \in Grants, i \in ReviewedIds : CommitteeSignMilestone(m, g, i)
      BY <2>2
    <3>2. i \in MilestoneIds
      BY MilestonesAssumption
    <3> DEFINE cfg == committee[g]
               bits == approvals[g][i] \cup {memberSlot[cfg.committee_id][m]}
               opened == [started_at |-> Opened(session[g][i]).started_at,
                          finalized |-> Sufficient(bits, cfg.approval_threshold)]
    <3>3. /\ session' = [session EXCEPT ![g] = [session[g] EXCEPT ![i] = opened]]
          /\ approvals' = [approvals EXCEPT ![g] = [approvals[g] EXCEPT ![i] = bits]]
          /\ cfg # None
      BY <3>1 DEF CommitteeSignMilestone
    <3> HIDE DEF bits, opened
    <3>4. x = g /\ y = i
      BY <2>1, <3>2, <3>3 DEF GraphInv, Inv, TypeOK
    <3>5. session'[g][i] = opened /\ approvals'[g][i] = bits
      BY <1>1, <3>2, <3>3 DEF GraphInv, Inv, TypeOK
    <3>6. Cardinality(bits) >= cfg.approval_threshold
      <4>1. opened.finalized = Sufficient(bits, cfg.approval_threshold)
        BY DEF opened
      <4>2. opened.finalized
        BY <1>1, <3>4, <3>5 DEF Finalized
      <4>3. Sufficient(bits, cfg.approval_threshold)
        BY <4>1, <4>2, Zenon
      <4> QED BY <4>3 DEF Sufficient
    <3>7. PICK owned \in [Members -> SUBSET Slots] :
            /\ \A z \in Members : Cardinality(owned[z]) <= registered[z]
            /\ bits \subseteq SlotsOf(owned, signers'[g][i])
      BY <1>1, <3>1, <3>5, SignExplained
    <3>8. /\ registered \in [Members -> Nat] /\ signers'[g][i] \in SUBSET Members
          /\ cfg.approval_threshold \in Nat
      <4>1. Inv'
        BY <1>1, StepKeeps DEF GraphInv
      <4>2. signers' \in [Grants -> [MilestoneIds -> SUBSET Members]]
        BY <4>1 DEF Inv, TypeOK
      <4>3. registered \in [Members -> Nat]
        BY <1>1 DEF GraphInv, Inv, TypeOK
      <4>4. cfg.approval_threshold \in Nat
        BY <1>1, <3>3, MilestonesAssumption
           DEF GraphInv, Inv, TypeOK, MilestoneReviewCommittee
      <4> QED BY <3>2, <4>2, <4>3, <4>4
    <3> DEFINE signed == signers'[g][i]
    <3> HIDE DEF signed
    <3>9. signed \in SUBSET Members /\ bits \subseteq SlotsOf(owned, signed)
      BY <3>7, <3>8 DEF signed
    <3>10. Cardinality(SlotsOf(owned, signed)) <= SumFunctionOnSet(registered, signed)
      BY <3>7, <3>8, <3>9, SlotsCounted
    <3>11. SlotsOf(owned, signed) \in SUBSET Slots
      BY <3>9 DEF SlotsOf
    <3>12. /\ Cardinality(bits) <= Cardinality(SlotsOf(owned, signed))
           /\ Cardinality(bits) \in Nat /\ Cardinality(SlotsOf(owned, signed)) \in Nat
      BY <3>9, <3>11, SlotsFinite, FS_Subset
    <3>13. SumFunctionOnSet(registered, signed) \in Nat
      <4>1. IsFiniteSet(signed) /\ \A z \in signed : registered[z] \in Nat
        BY <3>8, <3>9, MilestonesAssumption, FS_Subset
      <4> QED BY <4>1, SumNat
    <3>14. cfg.approval_threshold <= SumFunctionOnSet(registered, signed)
      BY <3>6, <3>8, <3>10, <3>12, <3>13
    <3> QED BY <3>4, <3>14 DEF signed
  <2>3. CASE \E g \in Grants, i \in ReviewedIds : SudoFinalizeCommitteeReview(g, i)
    <3>1. PICK g \in Grants, i \in ReviewedIds : SudoFinalizeCommitteeReview(g, i)
      BY <2>3
    <3>2. i \in MilestoneIds
      BY MilestonesAssumption
    <3> DEFINE closed == [session[g][i] EXCEPT !.finalized = TRUE]
    <3>3. session' = [session EXCEPT ![g] = [session[g] EXCEPT ![i] = closed]]
      BY <3>1 DEF SudoFinalizeCommitteeReview
    <3> HIDE DEF closed
    <3>4. x = g /\ y = i
      BY <1>1, <2>1, <3>2, <3>3 DEF GraphInv, Inv, TypeOK
    <3>5. /\ session[g][i] # None /\ openedAt' = openedAt
          /\ now >= session[g][i].started_at + COMMITTEE_REVIEW_TIMEOUT_SECS
      BY <3>1 DEF SudoFinalizeCommitteeReview
    <3>6. session[g][i].started_at = openedAt[g][i]
      BY <1>1, <3>2, <3>5 DEF GraphInv, Inv, ReviewWindowFixed
    <3> QED BY <3>4, <3>5, <3>6
  <2>4. CASE /\ ~\E m \in Members, g \in Grants, i \in ReviewedIds :
                    CommitteeSignMilestone(m, g, i)
             /\ ~\E g \in Grants, i \in ReviewedIds : SudoFinalizeCommitteeReview(g, i)
    <3>1. session' = session
      BY <1>1, <2>4 DEF Next, FundBountyReserve, InitGrantMilestoneDeps, RevokeMilestoneParent,
         ConfigureMilestoneCommittee, RegisterCommitteeMember, MarkCommitteeSep12Verified,
         ClaimMilestoneBounty, AccessChanges, Tick, vars, reviewVars
    <3> QED BY <2>1, <3>1
  <2> QED BY <2>2, <2>3, <2>4
<1>2. GraphInv /\ [Next]_vars => [Grounded]_vars
  BY <1>1
<1>3. ReviewGrounded <=> [][Grounded]_vars
  BY DEF ReviewGrounded
<1> QED BY <1>2, <1>3, MilestoneGraphInvariant, PTL DEF Spec

=============================================================================
