---------------------------- MODULE MCGovernance ----------------------------
(***************************************************************************)
(* A small instance of the governance for TLC: two referenda over one      *)
(* custody of bonds, two voters, one council, periods of one tick.         *)
(***************************************************************************)
EXTENDS Governance

=============================================================================
