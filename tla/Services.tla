------------------------------ MODULE Services ------------------------------
(***************************************************************************)
(* The smaller services beside each other.  No two of them share storage;  *)
(* what they share is the clock, and balances, of tokens taken to differ.  *)
(* A behaviour exercises the one that `service` names and leaves the       *)
(* others in their initial state: each is explored in full by itself.      *)
(***************************************************************************)
EXTENDS Integers

CONSTANTS
    None, StartTime, MaxTime,
    \* quadratic funding
    Owners, Contributors, Amounts, Pools, QF_MATCHING_POOL_RESERVE, QF_MIN_CONTRIBUTION,
    QF_MAX_PROJECTS, QF_ROUND_DURATION, MaxRounds, MaxCount,
    \* treasury
    Students, Sponsors, Schools, Deposits, Matches, Caps, Yields,
    MAX_SUBSIDIZED_STUDENTS, SUBSIDY_THRESHOLD, SUBSIDY_AMOUNT, FLOW_CHECK,
    MaxTracked, MaxCapital,
    \* streams
    Inflows, Rates, Percentages, MaxBalance,
    \* yield vote, payout addresses
    Alumni, Amms, MaxWeight, Addresses, UNLOCK_DELAY,
    \* attestations, exports
    Oracles, Learners, Courses, Nonces, Gpas, ORACLE_STALENESS_THRESHOLD,
    Clients, EXPORT_FEE, MaxWallet,
    \* course token
    Holders, Spenders, TransferAmounts, Expirations, I128_MAX, MaxSequence,
    \* renewals
    RENEWAL_PERIOD_SECS, MAX_RENEWALS, MIN_REMAINING_BEFORE_RENEWAL, Tokens, DonorTokens

VARIABLES
    service, now, custody,
    rounds, projects, contribution, roundsCustody, claimed,
    wallet, trackedTVL, lastBalanceCheck, cap, matched, gasTreasury, subsidized, profile,
    balance, pledge, dustSweeper, stream, taxed, taxDue, earned, drawn,
    isAlumni, approvedAmm, yieldVote, yieldAllocation,
    authorized, pending, unlockTime, announced,
    oracleRegistry, enrollment, gpaMultiplier, gpaEpoch, zkKey, standing,
    hold, feeSink, exportNonce, exportSequence, exportAudit, feeWallet, fees,
    initialized, totalSupply, balances, allowance, sequence, minted, approved, moved,
    contract, donor_tokens, vault

fundingVars == <<rounds, projects, contribution, roundsCustody, claimed>>
treasuryVars == <<custody, wallet, trackedTVL, lastBalanceCheck, cap, matched, gasTreasury,
                  subsidized, profile>>
streamVars == <<balance, pledge, dustSweeper, stream, taxed, taxDue, earned, drawn>>
voteVars == <<isAlumni, approvedAmm, yieldVote, yieldAllocation>>
payoutVars == <<authorized, pending, unlockTime, announced>>
attestationVars == <<oracleRegistry, enrollment, gpaMultiplier, gpaEpoch, zkKey, standing>>
exportVars == <<hold, feeSink, exportNonce, exportSequence, exportAudit, feeWallet, fees>>
tokenVars == <<initialized, totalSupply, balances, allowance, sequence, minted, approved, moved>>
renewalVars == <<contract, donor_tokens, vault>>

vars == <<service, now, fundingVars, treasuryVars, streamVars, voteVars, payoutVars,
          attestationVars, exportVars, tokenVars, renewalVars>>

Funding == INSTANCE QuadraticFunding WITH custody <- roundsCustody
Pool == INSTANCE Treasury
Stream == INSTANCE Streams
Vote == INSTANCE YieldVote
Payout == INSTANCE PayoutWhitelist
Attestation == INSTANCE Attestations WITH Students <- Learners
Export == INSTANCE ReputationExport
CourseToken == INSTANCE Token
Renewal == INSTANCE RenewSchedule

ASSUME ServicesAssumption ==
    /\ Funding!QuadraticAssumption /\ Pool!TreasuryAssumption
    /\ Stream!StreamsAssumption /\ Vote!YieldVoteAssumption
    /\ Payout!PayoutAssumption /\ Attestation!AttestationAssumption
    /\ Export!ExportAssumption /\ CourseToken!TokenAssumption /\ Renewal!RenewalAssumption

-----------------------------------------------------------------------------

Init ==
    /\ service \in {"funding", "treasury", "streams", "vote", "payout", "attestation", "export",
                   "token", "renewal"}
    /\ Funding!Init /\ Pool!Init /\ Stream!Init /\ Vote!Init
    /\ Payout!Init /\ Attestation!Init /\ Export!Init /\ CourseToken!Init /\ Renewal!Init

FundingStep ==
    /\ service = "funding" /\ Funding!Next
    /\ UNCHANGED <<service, treasuryVars, streamVars, voteVars, payoutVars, attestationVars,
                   exportVars, renewalVars, tokenVars>>

TreasuryStep ==
    /\ service = "treasury" /\ Pool!Next
    /\ UNCHANGED <<service, fundingVars, streamVars, voteVars, payoutVars, attestationVars,
                   exportVars, renewalVars, tokenVars>>

StreamStep ==
    /\ service = "streams" /\ Stream!Next
    /\ UNCHANGED <<service, fundingVars, treasuryVars, voteVars, payoutVars, attestationVars,
                   exportVars, renewalVars, tokenVars>>

VoteStep ==
    /\ service = "vote" /\ Vote!Next
    /\ UNCHANGED <<service, now, fundingVars, treasuryVars, streamVars, payoutVars,
                   attestationVars, exportVars, renewalVars, tokenVars>>

PayoutStep ==
    /\ service = "payout" /\ Payout!Next
    /\ UNCHANGED <<service, fundingVars, treasuryVars, streamVars, voteVars, attestationVars,
                   exportVars, renewalVars, tokenVars>>

AttestationStep ==
    /\ service = "attestation" /\ Attestation!Next
    /\ UNCHANGED <<service, fundingVars, treasuryVars, streamVars, voteVars, payoutVars,
                   exportVars, renewalVars, tokenVars>>

ExportStep ==
    /\ service = "export" /\ Export!Next
    /\ UNCHANGED <<service, now, fundingVars, treasuryVars, streamVars, voteVars, payoutVars,
                   attestationVars, renewalVars, tokenVars>>

TokenStep ==
    /\ service = "token" /\ CourseToken!Next
    /\ UNCHANGED <<service, now, fundingVars, treasuryVars, streamVars, voteVars, payoutVars,
                   attestationVars, exportVars, renewalVars>>

RenewalStep ==
    /\ service = "renewal" /\ Renewal!Next
    /\ UNCHANGED <<service, fundingVars, treasuryVars, streamVars, voteVars, payoutVars,
                   attestationVars, exportVars, tokenVars>>

Next == FundingStep \/ TreasuryStep \/ StreamStep \/ VoteStep \/ PayoutStep \/ AttestationStep
        \/ ExportStep \/ TokenStep \/ RenewalStep

Spec == Init /\ [][Next]_vars

-----------------------------------------------------------------------------
(* The services' properties, under their names. *)

\* The records of every service are well typed; no balance that the contract
\* pays from, and no student's or donor's, is ever negative.  The yield booked
\* for a sponsor, which nothing is paid from, may be.
TypeOK ==
    /\ Funding!TypeOK /\ Pool!TypeOK /\ Stream!TypeOK /\ Vote!TypeOK /\ Payout!TypeOK
    /\ Attestation!TypeOK /\ Export!TypeOK /\ CourseToken!TypeOK /\ Renewal!TypeOK

\* See Token as well: balances add up to what was minted, allowances to what was
\* approved.
BooksKept == TypeOK /\ CourseToken!TokensAccounted

\* See QuadraticFunding: matching paid and owed fits each round's pool.
MatchingFits == Funding!MatchingFits

\* See Treasury: an institution's match stays within its cap.
CapRespected == Pool!CapRespected

\* See Streams: no hundredth of alumni tax is lost or charged twice, and
\* withdrawals stay within the rates in force.
StreamsExact == Stream!StreamsExact

\* See PayoutWhitelist: an address comes into force the full delay after it was announced.
PayoutTimelocked == Payout!PayoutTimelocked

\* See ReputationExport: exports are counted and numbered once.
ExportsCounted == Export!ExportsCounted

\* See RenewSchedule: the years of a contract follow each other.
YearsFollow == Renewal!YearsFollow

=============================================================================
