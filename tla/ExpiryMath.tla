----------------------------- MODULE ExpiryMath -----------------------------
(***************************************************************************)
(* crates/expiry_math/src/lib.rs: sums of times in u64.  None stands for   *)
(* the absent result where a sum leaves the width.                         *)
(***************************************************************************)
EXTENDS Integers

CONSTANTS U64_MAX, MONTH_IN_SECONDS, None

CheckedAddTime(base_time, seconds_to_add) ==
    IF base_time + seconds_to_add <= U64_MAX THEN base_time + seconds_to_add ELSE None

\* Mutant of CheckedAccessExpiry: what is left of the access is lost.
ExpiryFromNow(current_time, existing_expiry, seconds_bought) ==
    CheckedAddTime(current_time, seconds_bought)

CheckedAccessExpiry(current_time, existing_expiry, seconds_bought) ==
    CheckedAddTime(IF existing_expiry > current_time THEN existing_expiry ELSE current_time,
                   seconds_bought)

CheckedSubscriptionExpiry(current_time, duration_months) ==
    IF duration_months * MONTH_IN_SECONDS <= U64_MAX
    THEN CheckedAddTime(current_time, duration_months * MONTH_IN_SECONDS) ELSE None

=============================================================================
