------------------------------ MODULE Treasury ------------------------------
(***************************************************************************)
(* The claimants of the contract's balance beside the scholarships, in one *)
(* token: deposits with an institution's match, the gas subsidy, sponsors' *)
(* yield.  The only record of what the balance should be is TrackedTVL,    *)
(* which calculate_flow compares with it.                                  *)
(***************************************************************************)
EXTENDS Integers, FiniteSets, FiniteSetsExt

CONSTANTS
    Students, Sponsors,
    Schools,
    Deposits,                   \* amounts a deposit names, of any sign
    Matches,                    \* amounts an institution is asked to match
    Caps,                       \* institutional caps
    Yields,                     \* amounts of yield a sponsor harvests, of any sign
    MAX_SUBSIDIZED_STUDENTS,
    SUBSIDY_THRESHOLD,
    SUBSIDY_AMOUNT,
    FLOW_CHECK,                 \* 100 seconds between checks of the flow
    None,
    StartTime, MaxTime,         \* bounds of the clock
    MaxTracked,                 \* bound of the tracked value, and of what is matched
    MaxCapital                  \* bound of a sponsor's reinvested yield

TreasuryAssumption ==
    /\ Deposits \subseteq Int /\ Matches \subseteq Int /\ Yields \subseteq Int
    /\ Caps \subseteq Nat
    /\ {MAX_SUBSIDIZED_STUDENTS, SUBSIDY_THRESHOLD, SUBSIDY_AMOUNT, FLOW_CHECK,
        StartTime, MaxTime, MaxTracked, MaxCapital} \subseteq Nat

VARIABLES
    custody,        \* the contract's balance
    wallet,         \* the students' balances
    trackedTVL, lastBalanceCheck,
    cap, matched,   \* InstitutionalPeriodicCap, InstitutionalMatchTotal by school
    gasTreasury,    \* whether GasTreasuryToken is set
    subsidized,     \* HasReceivedSubsidy; SubsidizedStudentCount is their number
    profile,        \* SponsorProfile
    now

moneyVars == <<custody, wallet>>
poolVars == <<trackedTVL, lastBalanceCheck, cap, matched>>
claimVars == <<gasTreasury, subsidized, profile>>
vars == <<moneyVars, poolVars, claimVars, now>>

Math == INSTANCE ClaimMath WITH NATIVE_XLM_RESERVE <- 0

SponsorYieldPreference == {"Reinvest", "ReturnToSponsor", "DonateToDAO"}

-----------------------------------------------------------------------------

\* total_sponsored is only ever set to 0.
SponsorProfile == [preference : SponsorYieldPreference, active_capital : Int]

TypeOK ==
    /\ custody \in Nat /\ wallet \in [Students -> Nat]
    /\ trackedTVL \in Nat /\ lastBalanceCheck \in Nat
    /\ cap \in [Schools -> Caps \cup {None}] /\ matched \in [Schools -> Nat]
    /\ gasTreasury \in BOOLEAN
    /\ subsidized \in SUBSET Students /\ Cardinality(subsidized) <= MAX_SUBSIDIZED_STUDENTS
    /\ profile \in [Sponsors -> SponsorProfile \cup {None}]
    /\ now \in Nat

Init ==
    /\ custody = 0
    /\ wallet = [s \in Students |-> 0]
    /\ trackedTVL = 0 /\ lastBalanceCheck = 0
    /\ cap = [c \in Schools |-> None] /\ matched = [c \in Schools |-> 0]
    /\ gasTreasury = FALSE /\ subsidized = {}
    /\ profile = [f \in Sponsors |-> None]
    /\ now = StartTime

\* A deposit, of a donor or of a depositor with its match.  While the protocol
\* is paused (module Governance) both are refused, which only takes steps away.
\* The token refuses the transfer of a negative amount.
Deposited(amount) ==
    /\ amount >= 0
    /\ trackedTVL + amount <= MaxTracked
    /\ custody' = custody + amount
    /\ trackedTVL' = trackedTVL + amount
    /\ UNCHANGED <<wallet, lastBalanceCheck, cap, claimVars, now>>

DepositFunds(amount) ==
    /\ Deposited(amount)
    /\ UNCHANGED matched

Wanted(match_amount) == Math!AtLeast(match_amount, 0)

\* Mutant of AppliedMatch: the cap bounds each match, not their sum.
CappedSeparately(school, match_amount) ==
    IF cap[school] = None THEN Wanted(match_amount)
    ELSE Math!AtMost(cap[school], Wanted(match_amount))

\* Without a cap the match is granted in full; a cap that was lowered below
\* what is matched already leaves nothing.
AppliedMatch(school, match_amount) ==
    IF cap[school] = None THEN Wanted(match_amount)
    ELSE Math!AtMost(Math!AtLeast(cap[school] - matched[school], 0), Wanted(match_amount))

\* Only the sum is transferred: with a match large enough the deposit itself may
\* be negative.
DepositWithMatch(amount, school, match_amount) ==
    /\ Deposited(amount + AppliedMatch(school, match_amount))
    /\ matched[school] + AppliedMatch(school, match_amount) <= MaxTracked
    /\ matched' = [matched EXCEPT ![school] = @ + AppliedMatch(school, match_amount)]

SetInstitutionalMatchCap(school, c) ==
    /\ cap' = [cap EXCEPT ![school] = c]
    /\ UNCHANGED <<moneyVars, trackedTVL, lastBalanceCheck, matched, claimVars, now>>

\* Rebooks the balance that is there.  The streams' rates stay as they are.
CalculateFlow ==
    /\ now - lastBalanceCheck > FLOW_CHECK
    /\ trackedTVL' = Math!AtMost(trackedTVL, custody)
    /\ lastBalanceCheck' = now
    /\ UNCHANGED <<moneyVars, cap, matched, claimVars, now>>

SetGasTreasury ==
    /\ gasTreasury' = TRUE
    /\ UNCHANGED <<moneyVars, poolVars, subsidized, profile, now>>

ClaimGasSubsidy(s) ==
    /\ gasTreasury
    /\ s \notin subsidized
    /\ Cardinality(subsidized) < MAX_SUBSIDIZED_STUDENTS
    /\ wallet[s] < SUBSIDY_THRESHOLD
    /\ custody >= SUBSIDY_AMOUNT
    /\ custody' = custody - SUBSIDY_AMOUNT
    /\ wallet' = [wallet EXCEPT ![s] = @ + SUBSIDY_AMOUNT]
    /\ subsidized' = subsidized \cup {s}
    /\ UNCHANGED <<poolVars, gasTreasury, profile, now>>

SetYieldPreference(f, preference) ==
    /\ profile' = [profile EXCEPT ![f] =
         [preference |-> preference,
          active_capital |-> IF @ = None THEN 0 ELSE @.active_capital]]
    /\ UNCHANGED <<moneyVars, poolVars, gasTreasury, subsidized, now>>

\* Nothing is ever written under GlobalScholarshipPool: a donation panics.
\* The amount is compared with no record of yield: a payment has to be covered by
\* the balance, what is reinvested may be anything, below zero too.
HarvestYield(f, amount) ==
    /\ profile[f] # None
    /\ \/ /\ profile[f].preference = "Reinvest"
          /\ profile[f].active_capital + amount \in -MaxCapital..MaxCapital
          /\ profile' = [profile EXCEPT ![f].active_capital = @ + amount]
          /\ UNCHANGED custody
       \/ /\ profile[f].preference = "ReturnToSponsor"
          /\ amount \in 0..custody
          /\ custody' = custody - amount
          /\ UNCHANGED profile
    /\ UNCHANGED <<wallet, poolVars, gasTreasury, subsidized, now>>

-----------------------------------------------------------------------------

\* Students spend outside the contract.
Spend(s) ==
    /\ wallet[s] > 0
    /\ wallet' = [wallet EXCEPT ![s] = 0]
    /\ UNCHANGED <<custody, poolVars, claimVars, now>>

Tick ==
    /\ now < MaxTime
    /\ now' = now + 1
    /\ UNCHANGED <<moneyVars, poolVars, claimVars>>

Next ==
    \/ \E a \in Deposits : DepositFunds(a)
    \/ \E a \in Deposits, c \in Schools, m \in Matches : DepositWithMatch(a, c, m)
    \/ \E c \in Schools, k \in Caps : SetInstitutionalMatchCap(c, k)
    \/ CalculateFlow
    \/ SetGasTreasury
    \/ \E s \in Students : ClaimGasSubsidy(s) \/ Spend(s)
    \/ \E f \in Sponsors, pr \in SponsorYieldPreference : SetYieldPreference(f, pr)
    \/ \E f \in Sponsors, a \in Yields : HarvestYield(f, a)
    \/ Tick

Spec == Init /\ [][Next]_vars

-----------------------------------------------------------------------------
(* Properties. *)

\* However caps are set, lowered and raised between deposits, a match never
\* takes an institution beyond the cap in force, and what is tracked rises by
\* what is paid in and by nothing else (deposit_with_match, calculate_flow).
CapRespected ==
    [][/\ \A c \in Schools : matched'[c] # matched[c] /\ cap[c] # None => matched'[c] <= cap[c]
       /\ trackedTVL' > trackedTVL => trackedTVL' - trackedTVL = custody' - custody]_vars

=============================================================================
