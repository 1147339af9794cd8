----------------------------- MODULE ClaimMath -----------------------------
(***************************************************************************)
(* crates/claim_math/src/lib.rs: the contract's arithmetic as pure         *)
(* functions, the ones its fuzz targets exercise.  A helper returns None   *)
(* where an intermediate result leaves i128; the amounts here stay below.  *)
(***************************************************************************)
EXTENDS Integers

CONSTANT NATIVE_XLM_RESERVE     \* 2 XLM in the code

AtMost(a, b) == IF a <= b THEN a ELSE b
AtLeast(a, b) == IF a >= b THEN a ELSE b

\* Mutant of FinalReleaseLockedAmount: the tenth of the tenth.
LockedTwice(total_grant) == IF total_grant <= 0 THEN 0 ELSE (total_grant * 10) \div 1000

FinalReleaseLockedAmount(total_grant) ==
    IF total_grant <= 0 THEN 0 ELSE (total_grant * 10) \div 100

AvailableToWithdraw(unlocked, balance, total_grant, final_release_claimed) ==
    IF final_release_claimed \/ total_grant <= 0 THEN AtLeast(unlocked, 0)
    ELSE IF balance > FinalReleaseLockedAmount(total_grant)
         THEN AtMost(AtLeast(unlocked, 0), balance - FinalReleaseLockedAmount(total_grant))
         ELSE 0

\* Rounded down: the remainder stays with the student.
BpsTax(amount, tax_bps) == (amount * tax_bps) \div 10000

SimulatePartialClaim(unlocked, balance, total_grant, final_release_claimed, is_native, tax_bps) ==
    LET available == AvailableToWithdraw(unlocked, balance, total_grant, final_release_claimed)
        tokens == IF is_native THEN AtMost(available, AtLeast(balance - NATIVE_XLM_RESERVE, 0))
                  ELSE available
        tax == BpsTax(tokens, tax_bps)
    IN  [tokens_to_release |-> tokens, tax_withholding_amount |-> tax,
         net_claimable_amount |-> tokens - tax]

\* The reasons to reject a claim, in the order they are looked for.
ClaimError(unlocked, balance, total_grant, final_release_claimed, requested) ==
    CASE requested <= 0 -> "InvalidAmount"
      [] requested > 0 /\ ~final_release_claimed
           /\ balance <= FinalReleaseLockedAmount(total_grant) -> "FinalReleaseLocked"
      [] OTHER ->
           IF requested > AvailableToWithdraw(unlocked, balance, total_grant,
                                              final_release_claimed)
           THEN "ExceedsAvailable"
           ELSE IF balance < requested THEN "InsufficientBalance" ELSE "None"

PartialClaim(unlocked, balance, requested, tax_bps) ==
    [gross_amount |-> requested, tax_amount |-> BpsTax(requested, tax_bps),
     net_amount |-> requested - BpsTax(requested, tax_bps),
     new_balance |-> balance - requested, new_unlocked_balance |-> unlocked - requested]

TuitionSplit(amount, university_pct) ==
    [university |-> (amount * university_pct) \div 100,
     student |-> amount - (amount * university_pct) \div 100]

GpaMultipliedRate(rate, multiplier_bps) == (rate * multiplier_bps) \div 10000

DiscountRate(rate, discount_pct) == rate - (rate * discount_pct) \div 100

-----------------------------------------------------------------------------
(* Quadratic funding. *)

\* Newton's iteration from n downwards, until it no longer falls.
Isqrt(n) ==
    LET newton[x \in 1..n] ==
          LET y == (x + n \div x) \div 2 IN IF y < x THEN newton[y] ELSE x
    IN  IF n <= 0 THEN 0 ELSE newton[n]

QfMatchingForProject(sqrt_sum, total_raised) ==
    AtLeast(sqrt_sum * sqrt_sum - total_raised, 0)

-----------------------------------------------------------------------------
(* The alumni tax: hundredths that a tax leaves over are kept as dust. *)

\* Mutant of AlumniTax: the whole dust is paid out, none is kept.
AlumniTaxForgetful(amount, percentage, dust) ==
    [tax_amount |-> (amount * percentage + dust) \div 100, new_dust |-> 0]

AlumniTax(amount, percentage, dust) ==
    LET raw == amount * percentage
        kept == dust + (raw % 100)
    IN  [tax_amount |-> raw \div 100 + kept \div 100, new_dust |-> kept % 100]

=============================================================================
