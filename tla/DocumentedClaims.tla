-------------------------- MODULE DocumentedClaims --------------------------
(***************************************************************************)
(* Sentences of the repository's comments and tests about the escrow that  *)
(* its code does not keep, stated over the composed model.  Each has a run *)
(* that ends in a counterexample, described in README.md.                  *)
(***************************************************************************)
EXTENDS Reconciliation

\* lib.rs:1872-1874, withdraw_scholarship: "Native XLM scholarships maintain 2
\* XLM reserve for gas fees.  Reserve cannot be withdrawn".  Once the final
\* release has kept the reserve back, it should stay.
ReserveMaintained ==
    \A s \in Scholars :
        scholarship[s].is_native /\ scholarship[s].final_release_claimed
            => scholarship[s].balance >= NATIVE_XLM_RESERVE

\* lib.rs:2745, trigger_security_hold: "Blocks all withdrawals for associated
\* students"; the final release pays out as well.
HoldStopsPayouts ==
    [][\A s \in Students : OnHold(s) =>
         UNCHANGED <<withdrawn[s], released[s]>>]_reconciliationVars

\* test.rs:2328-2343: the issuer claws 500 of 2000 back, and the reconciliation
\* finds a shortfall of 500.
ClawbackDetected ==
    \A t \in Tokens :
        issuerTaken[t] > 0 /\ processed = {} => custody[t] < LiabilityIn(t)

=============================================================================
