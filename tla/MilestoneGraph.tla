--------------------------- MODULE MilestoneGraph ---------------------------
(***************************************************************************)
(* The milestone prerequisite graph of contracts/scholar_contracts/src/    *)
(* issue_features.rs.  parents[i] is the parent mask of milestone i, as    *)
(* the set of its bits; the milestones are 0 .. milestone_count - 1, and a *)
(* mask may have bits beyond them.                                         *)
(***************************************************************************)
EXTENDS Integers, FiniteSets

\* Mutant of MilestoneGraphHasCycle: only a milestone that is its own parent.
SelfLoopOnly(parents) == \E i \in DOMAIN parents : i \in parents[i]

\* Kahn's algorithm: a milestone is processed once all of its bits have been,
\* and what cannot be processed depends on a cycle or on a bit out of range.
MilestoneGraphHasCycle(parents) ==
    LET N == Cardinality(DOMAIN parents)
        processed[k \in 0..N] ==
            IF k = 0 THEN {} ELSE {i \in DOMAIN parents : parents[i] \subseteq processed[k - 1]}
    IN  processed[N] # DOMAIN parents

\* Mutant of DescendantMask: a single pass over the milestones.
DirectDescendants(parents, revoked) == {i \in DOMAIN parents : revoked \in parents[i]}

\* Passes over the milestones add those with a parent in the frontier, until
\* nothing changes.
DescendantMask(parents, revoked) ==
    LET N == Cardinality(DOMAIN parents)
        frozen[k \in 0..N] ==
            IF k = 0 THEN {}
            ELSE {i \in DOMAIN parents :
                    i \in frozen[k - 1] \/ parents[i] \cap (frozen[k - 1] \cup {revoked}) # {}}
    IN  IF revoked \in DOMAIN parents
        THEN {i \in DOMAIN parents \ {revoked} : i \in frozen[N]} ELSE {}

-----------------------------------------------------------------------------
(* What the two algorithms are for, without an algorithm. *)

\* Every set of milestones has one that waits for none of the others, and no
\* milestone waits for one that does not exist.
Orderable(parents) ==
    /\ \A i \in DOMAIN parents : parents[i] \subseteq DOMAIN parents
    /\ \A S \in (SUBSET DOMAIN parents) \ {{}} : \E i \in S : parents[i] \cap S = {}

\* The milestones that wait for m, directly or not: those in every set that
\* holds the children of m and of its own members.
DependentsOf(parents, m) ==
    {i \in DOMAIN parents :
       \A S \in SUBSET DOMAIN parents :
          (\A x \in DOMAIN parents : parents[x] \cap (S \cup {m}) # {} => x \in S) => i \in S}

=============================================================================
