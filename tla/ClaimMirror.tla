---------------------------- MODULE ClaimMirror ----------------------------
(***************************************************************************)
(* The escrow beside the pure functions that mirror it: simulate_claim, a  *)
(* view of lib.rs that repeats the rules of withdraw_scholarship, and the  *)
(* helpers of crates/claim_math, which repeat both for the fuzz targets.   *)
(***************************************************************************)
EXTENDS Scholarship

Math == INSTANCE ClaimMath

SimulateClaim(sc) ==
    LET free == IF sc.final_release_claimed \/ sc.total_grant = 0 THEN sc.unlocked_balance
                ELSE IF sc.balance > Locked(sc.total_grant)
                     THEN Lesser(sc.unlocked_balance, sc.balance - Locked(sc.total_grant))
                     ELSE 0
        tokens == IF ~sc.is_native THEN free
                  ELSE IF sc.balance > NATIVE_XLM_RESERVE
                       THEN Lesser(free, sc.balance - NATIVE_XLM_RESERVE) ELSE 0
    IN  IF sc.is_paused \/ sc.is_disputed THEN 0 ELSE tokens

-----------------------------------------------------------------------------
(* Properties. *)

\* What execute_partial_claim answers to a request of student s.
CrateAnswer(s, a) ==
    LET sc == scholarship[s] IN
      Math!ClaimError(sc.unlocked_balance, sc.balance, sc.total_grant,
                      sc.final_release_claimed, a)

Unhindered(s) == ~scholarship[s].is_paused /\ ~scholarship[s].is_disputed /\ ~OnHold(s)

\* Does the lock leave anything to withdraw, the first question of both?
LockPassed(sc) == sc.final_release_claimed \/ sc.balance > Locked(sc.total_grant)

\* Whatever is requested, the contract accepts exactly what execute_partial_claim
\* accepts, and a request of zero, which the crate refuses (InvalidAmount) and
\* the contract grants to whoever may withdraw at all.  What both accept leaves
\* the same balances and tax, and simulate_claim and the university's share are
\* those of the crate, in every state the escrow reaches.
ClaimMathMirrors ==
    \A s \in Students : scholarship[s] # None =>
        LET sc == scholarship[s] IN
        /\ Unhindered(s) =>
             \A a \in WithdrawAmounts :
                WithdrawalAccepted(s, a) <=>
                    CrateAnswer(s, a) = "None" \/ (a = 0 /\ LockPassed(sc))
        /\ \A a \in WithdrawAmounts : a > 0 =>
             LET claim == Math!PartialClaim(sc.unlocked_balance, sc.balance, a, taxRate)
             IN  /\ Debited(sc, a).balance = claim.new_balance
                 /\ Debited(sc, a).unlocked_balance = claim.new_unlocked_balance
                 /\ Tax(a) = claim.tax_amount
        /\ SimulateClaim(sc) =
             Math!SimulatePartialClaim(sc.unlocked_balance, sc.balance, sc.total_grant,
                 sc.final_release_claimed, sc.is_native, taxRate).tokens_to_release
        /\ \A a \in FundAmounts :
             Math!TuitionSplit(a, UNIVERSITY_PERCENTAGE) =
                 [university |-> UniversityShare(a), student |-> StudentShare(a)]

=============================================================================
