--------------------------- MODULE RenewSchedule ---------------------------
(***************************************************************************)
(* renew_schedule.rs: a donor extends a scholarship by a year, at most     *)
(* MAX_RENEWALS times, from MIN_REMAINING_BEFORE_RENEWAL before its end    *)
(* on.  How the contract is opened and disbursed from is not in src: the   *)
(* vault starts with the first year's tokens and any part of it is drawn.  *)
(***************************************************************************)
EXTENDS Integers, Sequences

CONSTANTS
    RENEWAL_PERIOD_SECS, MAX_RENEWALS, MIN_REMAINING_BEFORE_RENEWAL,
    Tokens,                     \* amounts a renewal may add
    DonorTokens,                \* what the donor has
    StartTime, MaxTime          \* bounds of the clock

RenewalAssumption ==
    /\ Tokens \subseteq Nat
    /\ {RENEWAL_PERIOD_SECS, MAX_RENEWALS, MIN_REMAINING_BEFORE_RENEWAL,
        DonorTokens, StartTime, MaxTime} \subseteq Nat

VARIABLES contract, donor_tokens, vault, now

vars == <<contract, donor_tokens, vault, now>>

\* The contract is active: nothing in src ends it.
RenewalRecord ==
    [renewed_at : Nat, new_period_end : Nat, tokens_added : Nat, renewal_number : Nat]

ScholarshipContract ==
    [period_start : Nat, period_end : Nat, period_tokens : Nat, disbursed_tokens : Nat,
     renewal_count : 0..MAX_RENEWALS, renewal_history : Seq(RenewalRecord)]

TypeOK ==
    /\ contract \in ScholarshipContract
    /\ donor_tokens \in Nat /\ vault \in Nat
    /\ now \in Nat

Init ==
    /\ contract = [period_start |-> StartTime, period_end |-> StartTime + RENEWAL_PERIOD_SECS,
                   period_tokens |-> 1, disbursed_tokens |-> 0,
                   renewal_count |-> 0, renewal_history |-> <<>>]
    /\ donor_tokens = DonorTokens
    /\ vault = 1
    /\ now = StartTime

WindowOpen == contract.period_end - now <= MIN_REMAINING_BEFORE_RENEWAL

\* Mutant of NewPeriodStart: an early renewal starts at once.
StartNow == now

NewPeriodStart == IF now >= contract.period_end THEN now ELSE contract.period_end

\* The year's disbursements are forgotten with the year, also when the renewal
\* comes before its end.
Renewed(renewal_tokens) ==
    LET end == NewPeriodStart + RENEWAL_PERIOD_SECS
        count == contract.renewal_count + 1
    IN  [period_start |-> NewPeriodStart, period_end |-> end,
         period_tokens |-> renewal_tokens, disbursed_tokens |-> 0,
         renewal_count |-> count,
         renewal_history |-> Append(contract.renewal_history,
             [renewed_at |-> now, new_period_end |-> end,
              tokens_added |-> renewal_tokens, renewal_number |-> count])]

Renew(renewal_tokens) ==
    /\ contract.renewal_count < MAX_RENEWALS
    /\ renewal_tokens > 0
    /\ WindowOpen
    /\ donor_tokens >= renewal_tokens
    /\ donor_tokens' = donor_tokens - renewal_tokens
    /\ vault' = vault + renewal_tokens
    /\ contract' = Renewed(renewal_tokens)
    /\ UNCHANGED now

Disburse ==
    /\ contract.disbursed_tokens < contract.period_tokens /\ vault > 0
    /\ vault' = vault - 1
    /\ contract' = [contract EXCEPT !.disbursed_tokens = @ + 1]
    /\ UNCHANGED <<donor_tokens, now>>

Tick ==
    /\ now < MaxTime
    /\ now' = now + 1
    /\ UNCHANGED <<contract, donor_tokens, vault>>

Next == (\E n \in Tokens : Renew(n)) \/ Disburse \/ Tick

Spec == Init /\ [][Next]_vars

-----------------------------------------------------------------------------
(* Properties. *)

\* However early, late or often the donor renews, the years of the history
\* follow each other without overlap, each a full year after the one before,
\* and nobody is covered for more than the rest of this year and the next.
YearsFollow ==
    LET h == contract.renewal_history
        End(i) == IF i = 0 THEN StartTime + RENEWAL_PERIOD_SECS ELSE h[i].new_period_end
    IN  /\ Len(h) = contract.renewal_count
        /\ contract.period_end = End(Len(h))
        /\ \A i \in 1..Len(h) :
             /\ h[i].renewal_number = i
             /\ End(i) >= End(i - 1) + RENEWAL_PERIOD_SECS
             /\ End(i) <= h[i].renewed_at + MIN_REMAINING_BEFORE_RENEWAL + RENEWAL_PERIOD_SECS

=============================================================================
