-------------------------- MODULE MCReconciliation --------------------------
(***************************************************************************)
(* A small instance of the reconciliation for TLC.                         *)
(***************************************************************************)
EXTENDS Reconciliation, TLC

\* Students, voters and evidence hashes are interchangeable.
ReconciliationSymmetry ==
    Permutations(Students) \cup Permutations(Voters) \cup Permutations(Evidence)

=============================================================================
