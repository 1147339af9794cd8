------------------------- MODULE MCSponsorClawback -------------------------
(***************************************************************************)
(* A small instance of the sponsor's clawback for TLC.                     *)
(***************************************************************************)
EXTENDS SponsorClawback, TLC

\* The voters are interchangeable.
VoterSymmetry == Permutations(Voters)

=============================================================================
