--------------------------- MODULE Reconciliation ---------------------------
(***************************************************************************)
(* Reconciliation of the escrow with its token balance after the asset's   *)
(* issuer has clawed tokens back from the contract: reconcile_balances of  *)
(* contracts/scholar_contracts/src/lib.rs, composed with the escrow.  The  *)
(* issuer's clawback happens in the token contract, at any moment.         *)
(***************************************************************************)
EXTENDS Scholarship

CONSTANTS
    Evidence,        \* hashes of issuer clawback events
    IssuerAmounts,   \* the amounts issuers claw back
    DeficitClaims    \* the clawback amounts the admin submits

ASSUME ReconciliationAssumption ==
    /\ IssuerAmounts \subseteq Nat
    /\ DeficitClaims \subseteq Nat
    /\ None \notin Students

VARIABLES
    processed,     \* DataKey::ClawbackEvidence: hashes used
    terminated,    \* DataKey::ClawbackTerminated: students
    trackedTVL,    \* DataKey::TrackedTVL
    \* History; no entry point reads these.
    issuerTaken,   \* clawed back by the issuer, per token
    cutOffAt       \* the total_grant at a student's last termination

reconVars == <<processed, terminated, trackedTVL, issuerTaken, cutOffAt>>
reconciliationVars == <<coreVars, reconVars>>

ReconciliationTypeOK ==
    /\ TypeOK
    /\ processed \subseteq Evidence
    /\ terminated \subseteq Students
    /\ trackedTVL \in Nat
    /\ issuerTaken \in [Tokens -> Nat]
    /\ cutOffAt \in [Students -> Nat]

ReconciliationInit ==
    /\ CoreInit
    /\ processed = {}
    /\ terminated = {}
    /\ trackedTVL = 0
    /\ issuerTaken = [t \in Tokens |-> 0]
    /\ cutOffAt = [s \in Students |-> 0]

-----------------------------------------------------------------------------

\* The token's issuer takes tokens from the contract's balance; the contract
\* is not called.
IssuerClawback(t, amount) ==
    /\ amount \in 1..custody[t]
    /\ custody' = [custody EXCEPT ![t] = @ - amount]
    /\ issuerTaken' = [issuerTaken EXCEPT ![t] = @ + amount]
    /\ UNCHANGED <<now, scholarship, vote, graduates, taxRate, feesAccrued,
                   historyVars, holdVars, processed, terminated, trackedTVL, cutOffAt>>

\* Mutant of Terminated: the targeted student is emptied but not paused.
EmptiedOnly(sc) == [sc EXCEPT !.balance = 0, !.unlocked_balance = 0]

\* Mutant of Terminated: paused and locked, but the balance stays on the books.
LockedOnly(sc) ==
    [sc EXCEPT !.unlocked_balance = 0, !.is_paused = TRUE, !.is_disputed = TRUE]

Terminated(sc) ==
    [sc EXCEPT !.balance = 0, !.unlocked_balance = 0,
               !.is_paused = TRUE, !.is_disputed = TRUE]

\* Mutant of Share: everyone loses the same amount.
EqualLoss(balance, available, liability) == balance - (liability - available)

\* Mutant of Share: the ratio upside down.
InverseShare(balance, available, liability) == (balance * liability) \div available

\* A student's part of what is available, in proportion to the balance.
Share(balance, available, liability) == (balance * available) \div liability

Cut(sc, available, liability) ==
    [sc EXCEPT !.balance = Share(sc.balance, available, liability),
               !.unlocked_balance = Lesser(@, Share(sc.balance, available, liability))]

\* Does the targeted student's scholarship use the token?
Targeted(s, t) == scholarship[s] # None /\ scholarship[s].token = t

\* Mutant of LiabilityWithout: the liability read before the termination is kept.
StaleLiability(t, target) == LiabilityIn(t)

\* The liability left once the target, if any, is terminated.
LiabilityWithout(t, target) ==
    SumFunctionOnSet([s \in Students |-> Held(s)], {s \in Students \ {target} : Targeted(s, t)})

\* The record of a student after the reconciliation.
Reconciled(s, t, target, haircut) ==
    LET sc == scholarship[s]
        liability == LiabilityWithout(t, target)
    IN  CASE ~Targeted(s, t) -> sc
          [] Targeted(s, t) /\ s = target -> Terminated(sc)
          [] OTHER -> IF haircut /\ custody[t] < liability /\ sc.balance > 0
                      THEN Cut(sc, custody[t], liability) ELSE sc

BalanceOf(record) == IF record = None THEN 0 ELSE record.balance

\* Only the students' balances count as liability: accrued fees and university
\* shares do not.  Without a haircut a shortfall is only reported.
ReconcileBalances(t, evidence, deficit, target, haircut) ==
    /\ deficit > 0
    /\ evidence \notin processed
    /\ custody[t] < LiabilityIn(t)
    /\ deficit = LiabilityIn(t) - custody[t]
    /\ processed' = processed \cup {evidence}
    /\ trackedTVL' = custody[t]
    /\ scholarship' = [s \in Students |-> Reconciled(s, t, target, haircut)]
    /\ terminated' = terminated \cup {s \in Students : s = target /\ Targeted(s, t)}
    /\ cutOffAt' = [s \in Students |->
         IF s = target /\ Targeted(s, t) THEN scholarship[s].total_grant ELSE cutOffAt[s]]
    /\ reduced' = [s \in Students |->
         reduced[s] + Held(s) - BalanceOf(Reconciled(s, t, target, haircut))]
    /\ UNCHANGED <<now, vote, graduates, taxRate, feesAccrued, custody, withdrawn,
                   released, tuitionHeld, holdVars, issuerTaken>>

ReconNext ==
    \/ \E t \in Tokens, a \in IssuerAmounts : IssuerClawback(t, a)
    \/ \E t \in Tokens, e \in Evidence, d \in DeficitClaims,
          target \in Students \cup {None}, h \in BOOLEAN :
         ReconcileBalances(t, e, d, target, h)

ReconciliationNext == ReconNext \/ (CoreNext /\ UNCHANGED reconVars)

ReconciliationSpec == ReconciliationInit /\ [][ReconciliationNext]_reconciliationVars

-----------------------------------------------------------------------------
(* Properties. *)

\* The students of one token.
StudentsOf(t) == {s \in Scholars : scholarship[s].token = t}

\* What a reconciliation may do to the students of token t when it terminates the
\* target: the others lose nothing, or exactly what is missing once the target is
\* gone, to less than a unit each, and every one in proportion to the balance.
FairCut(t, target) ==
    LET others == StudentsOf(t) \ {target}
        short == SumFunctionOnSet([s \in Students |-> Held(s)], others) - custody[t]
        taken == SumFunctionOnSet([s \in Students |-> Held(s) - Held(s)'], others)
    IN  /\ target \in StudentsOf(t) => target \in terminated' /\ Held(target)' = 0
        /\ \A s, x \in others : Held(s)' * Held(x) <= (Held(x)' + 1) * Held(s)
        /\ \/ taken = 0
           \/ short > 0 /\ short <= taken /\ taken < short + Cardinality(others)

\* A reconciliation is fair: nobody but the one student it terminates is singled
\* out, the others pay for no more than what the termination leaves missing, and
\* with a haircut what they keep is covered (reconcile_balances 5859, whose
\* haircut must use the liability after the termination, 5938).
CutFair ==
    [][processed' # processed =>
         \E target \in Students \cup {None} :
            /\ terminated' \subseteq terminated \cup {target}
            /\ \A t \in Tokens : FairCut(t, target)]_reconciliationVars

\* What the issuers took beyond the fees and university shares that the contract
\* holds besides what it owes the students.
IssuerLoss ==
    SumFunctionOnSet(issuerTaken, Tokens)
        - SumFunctionOnSet(feesAccrued, Tokens) - SumFunctionOnSet(tuitionHeld, Tokens)

\* An issuer's loss is passed on once: however losses, reconciliations, payments
\* and fee claims alternate, a haircut takes from a student only while all that
\* reconciliations ever took, from the terminated students too, comes to no more
\* than the issuers' loss, to a unit per student (reconcile_balances 5859).
LossPassedOnOnce ==
    [][\A s \in Students \ terminated' : reduced'[s] > reduced[s] =>
         SumFunctionOnSet(reduced', Students)
             < IssuerLoss + Cardinality(Students)]_reconciliationVars

\* Nothing that a terminated student had is ever paid out: whoever funds, verifies
\* or votes for the student afterwards, no withdrawal passes, and the final
\* release, which reads neither flag that the termination sets (2524), pays only
\* what was granted after it.
TerminatedStaysShut ==
    [][\A s \in terminated :
         /\ withdrawn'[s] = withdrawn[s]
         /\ released'[s] - released[s] <= Granted(s) - cutOffAt[s]]_reconciliationVars

\* A reconciliation leaves records that are well formed, whose unlocked parts cover
\* the balances, also when it terminates a student on the way (5916).
BooksKept == ReconciliationTypeOK /\ UnlockedCoversBalance

=============================================================================
