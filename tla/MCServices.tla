----------------------------- MODULE MCServices -----------------------------
(***************************************************************************)
(* Services for TLC: the amounts that the code takes with any sign.        *)
(***************************************************************************)
EXTENDS Services

Harvests == {-1, 2}
DepositsNamed == {-1, 2}
MatchesAsked == {-1, 1}
StreamRates == {-1, 1}
TokenAmounts == {-1, 2}

=============================================================================
