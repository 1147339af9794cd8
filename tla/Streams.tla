------------------------------ MODULE Streams ------------------------------
(***************************************************************************)
(* Token streams and the Pay-It-Forward tax of alumni.  Streams are paid   *)
(* out of the contract's balance, whoever filled it; deposits are those of *)
(* module Treasury.                                                        *)
(***************************************************************************)
EXTENDS Integers

CONSTANTS
    Students, Sponsors, None,
    Inflows,                    \* amounts that others pay into the contract
    Rates,                      \* amounts per second of streams, of any sign
    Percentages,                \* alumni pledges
    StartTime, MaxTime,         \* bounds of the clock
    MaxBalance                  \* bound of the balance

Stream == [amount_per_second : Rates, total_withdrawn : Nat, start_time : Nat]

StreamsAssumption ==
    /\ Inflows \subseteq Nat /\ Rates \subseteq Int /\ Percentages \subseteq 0..100
    /\ {StartTime, MaxTime, MaxBalance} \subseteq Nat
    /\ None \notin Percentages /\ None \notin Stream

VARIABLES
    balance,        \* the contract's, in the streams' token
    pledge,         \* AlumniPledge
    dustSweeper,    \* DustSweeper: hundredths
    stream,         \* Stream by funder and student
    now,
    taxed, taxDue,  \* history: taxes kept, and the hundredths that were due
    earned, drawn   \* history: what the stream's rate came to, what was taken

vars == <<balance, pledge, dustSweeper, stream, now, taxed, taxDue, earned, drawn>>

Math == INSTANCE ClaimMath WITH NATIVE_XLM_RESERVE <- 0

Pairs == Sponsors \X Students

TypeOK ==
    /\ balance \in Nat /\ now \in Nat
    /\ pledge \in [Students -> Percentages \cup {None}]
    /\ dustSweeper \in Nat
    /\ stream \in [Pairs -> Stream \cup {None}]
    /\ taxed \in Nat /\ taxDue \in Nat
    /\ earned \in [Pairs -> Nat] /\ drawn \in [Pairs -> Nat]

Init ==
    /\ balance = 0
    /\ pledge = [s \in Students |-> None]
    /\ dustSweeper = 0
    /\ stream = [p \in Pairs |-> None]
    /\ now = StartTime
    /\ taxed = 0 /\ taxDue = 0
    /\ earned = [p \in Pairs |-> 0] /\ drawn = [p \in Pairs |-> 0]

Inflow(amount) ==
    /\ balance + amount <= MaxBalance
    /\ balance' = balance + amount
    /\ UNCHANGED <<pledge, dustSweeper, stream, now, taxed, taxDue, earned, drawn>>

AlumniContributionPledge(s, percentage) ==
    /\ pledge' = [pledge EXCEPT ![s] = percentage]
    /\ UNCHANGED <<balance, dustSweeper, stream, taxed, taxDue, drawn, now, earned>>

\* What is left of the amount, and the dust; the dust is one for all students.
CheckAndApplyAlumniTax(s, amount) ==
    IF pledge[s] = None THEN [final |-> amount, dust |-> dustSweeper]
    ELSE LET tax == Math!AlumniTax(amount, pledge[s], dustSweeper)
         IN  [final |-> amount - tax.tax_amount, dust |-> tax.new_dust]

NewStream(rate) ==
    [amount_per_second |-> rate, total_withdrawn |-> 0, start_time |-> now]

\* Also replaces the pair's stream, and what it had accrued with it.
CreateStream(f, s, rate) ==
    /\ stream' = [stream EXCEPT ![<<f, s>>] = NewStream(rate)]
    /\ UNCHANGED <<balance, pledge, dustSweeper, taxed, taxDue, drawn, now, earned>>

StreamAvailable(p) ==
    (now - stream[p].start_time) * stream[p].amount_per_second - stream[p].total_withdrawn

WithdrawFromStream(f, s) ==
    LET p == <<f, s>>
        available == StreamAvailable(p)
        tax == CheckAndApplyAlumniTax(s, available)
    IN  /\ stream[p] # None
        /\ available > 0
        /\ balance >= tax.final
        /\ balance' = balance - tax.final
        /\ dustSweeper' = tax.dust
        /\ stream' = [stream EXCEPT ![p].total_withdrawn = @ + available]
        /\ taxed' = taxed + (available - tax.final)
        /\ taxDue' = taxDue + (IF pledge[s] = None THEN 0 ELSE available * pledge[s])
        /\ drawn' = [drawn EXCEPT ![p] = @ + available]
        /\ UNCHANGED <<pledge, now, earned>>

\* A stream of a negative rate comes to nothing: a withdrawal from it returns
\* without effect.
ComesTo(x) == IF x = None THEN 0 ELSE Math!AtLeast(x.amount_per_second, 0)

Tick ==
    /\ now < MaxTime
    /\ now' = now + 1
    /\ earned' = [p \in Pairs |-> earned[p] + ComesTo(stream[p])]
    /\ UNCHANGED <<balance, pledge, dustSweeper, stream, taxed, taxDue, drawn>>

Next ==
    \/ \E a \in Inflows : Inflow(a)
    \/ \E s \in Students, pct \in Percentages : AlumniContributionPledge(s, pct)
    \/ \E f \in Sponsors, s \in Students, r \in Rates : CreateStream(f, s, r)
    \/ \E f \in Sponsors, s \in Students : WithdrawFromStream(f, s)
    \/ Tick

Spec == Init /\ [][Next]_vars

-----------------------------------------------------------------------------
(* Properties. *)

\* check_and_apply_alumni_tax (4751) rounds every tax down and pays whole units
\* of the collected remainders with a later tax, of whichever student: over any
\* sequence of withdrawals, pledges and streams no hundredth is lost or charged
\* twice.
TaxExact == 100 * taxed + dustSweeper = taxDue /\ dustSweeper < 100

\* A stream pays from its start only what its rate has come to, and create_stream
\* (4919) starts anew without owing the past: however streams are replaced and
\* withdrawn from, the withdrawals of a pair stay within what the rates in force
\* came to second by second.
StreamNeverAhead == \A p \in Pairs : drawn[p] <= earned[p]

\* Both for the streams, their tax included.
StreamsExact == TaxExact /\ StreamNeverAhead

=============================================================================
