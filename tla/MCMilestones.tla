---------------------------- MODULE MCMilestones ----------------------------
(***************************************************************************)
(* A small instance of the milestone bounties for TLC: one grant, three    *)
(* milestones, the graphs of two milestones with one bit out of range, up  *)
(* to the order of the two, and a chain, a join and a cycle of three.      *)
(***************************************************************************)
EXTENDS Milestones, TLC

SmallGraphs == {p \in [0..1 -> SUBSET (0..2)] : 1 \notin p[0]}

Chain == (0 :> {}) @@ (1 :> {0}) @@ (2 :> {1})
Join == (0 :> {}) @@ (1 :> {}) @@ (2 :> {0, 1})
Cycle == (0 :> {2}) @@ (1 :> {0}) @@ (2 :> {1})

MCGraphs == SmallGraphs \cup {Chain, Join, Cycle}

MemberSymmetry == Permutations(Members)

=============================================================================
