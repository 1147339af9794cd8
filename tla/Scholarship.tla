---------------------------- MODULE Scholarship ----------------------------
(***************************************************************************)
(* The scholarship escrow of contracts/scholar_contracts/src/lib.rs:       *)
(* funding with the 70/30 tuition split, withdrawals with tax, the locked  *)
(* final 10% and its community vote, university security holds, protocol   *)
(* fees and the graduation registry.                                       *)
(*                                                                         *)
(* Every entry point of a Soroban contract is one atomic transaction: a    *)
(* panic, or a token transfer that fails, undoes the whole call.  So each  *)
(* entry point is one action, and its panics are the action's guards.      *)
(***************************************************************************)
EXTENDS Integers, FiniteSets, FiniteSetsExt

CONSTANTS
    Students, Funders, Tokens, Universities, Officers, Voters,
    None,                      \* an absent storage entry (Option::None)
    FundAmounts,               \* the amounts funders send
    WithdrawAmounts,           \* the amounts students and the fee claimant ask for, of any sign
    TaxRates,                  \* tax rates in basis points
    COMMUNITY_VOTE_THRESHOLD,  \* 5 in the code
    NATIVE_XLM_RESERVE,        \* 2 XLM in the code
    SECURITY_HOLD_DURATION,    \* 7 days in the code
    UNLOCK_STEP,               \* 100 in the code: verify_academic_progress
    StartTime, MaxTime,        \* the ledger clock's range
    MaxGrant,                  \* bound: total_grant of one student
    MaxUnlocked                \* bound: unlocked_balance raised by verification

\* Students and tokens are addresses, of which there are finitely many.
ASSUME AddressesAssumption == IsFiniteSet(Students) /\ IsFiniteSet(Tokens)

\* set_tax_rate accepts up to 100%.
BasisPoints == 0..10000

\* Below full tax something is left of every request, so that the transfer of
\* what is left refuses a request below zero.  At full tax nothing is left, and
\* the transfer of zero passes; what depends on this says so.
TaxBelowFull == 10000 \notin TaxRates

ASSUME AmountsAssumption ==
    /\ FundAmounts \subseteq Nat
    /\ WithdrawAmounts \subseteq Int
    /\ TaxRates \subseteq BasisPoints

ASSUME LimitsAssumption ==
    /\ COMMUNITY_VOTE_THRESHOLD \in Nat \ {0}
    /\ NATIVE_XLM_RESERVE \in Nat
    /\ SECURITY_HOLD_DURATION \in Nat
    /\ UNLOCK_STEP \in Nat
    /\ StartTime \in Nat
    /\ MaxTime \in Nat
    /\ MaxGrant \in Nat
    /\ MaxUnlocked \in Nat

VARIABLES
    now,                \* ledger timestamp
    scholarship,        \* DataKey::Scholarship, per student
    vote,               \* DataKey::CommunityVote, per student
    graduates,          \* DataKey::GraduationRegistry: completed_scholarships
    taxRate,            \* DataKey::TaxRate
    feesAccrued,        \* DataKey::ProtocolFeesAccrued, per token
    universityAdmin,    \* DataKey::UniversityAdmin, per university
    studentUniversity,  \* DataKey::StudentUniversity, per student
    securityHold,       \* DataKey::SecurityHold, per university
    custody,            \* the token contracts' balance of this contract
    \* History: where the money went; no entry point reads these.
    withdrawn,          \* per student, by withdrawals, before tax
    released,           \* per student, by the final release
    reduced,            \* per student, taken back
    tuitionHeld         \* per token, university shares received

historyVars == <<withdrawn, released, reduced, tuitionHeld>>
grantVars == <<scholarship, vote, graduates, taxRate, feesAccrued, custody, historyVars>>
holdVars == <<universityAdmin, studentUniversity, securityHold>>
coreVars == <<now, grantVars, holdVars>>

FINAL_RELEASE_PERCENTAGE == 10
UNIVERSITY_PERCENTAGE == 70

ScholarshipRecord ==
    [funder : Funders, token : Tokens, balance : Nat, unlocked_balance : Nat,
     total_grant : Nat, is_native : BOOLEAN, is_paused : BOOLEAN,
     is_disputed : BOOLEAN, final_release_claimed : BOOLEAN]

CommunityVote == [voters : SUBSET Voters, yes_votes : Nat, is_passed : BOOLEAN]

SecurityHold == [expires_at : Nat, is_active : BOOLEAN]

ASSUME NoneAssumption ==
    /\ None \notin ScholarshipRecord
    /\ None \notin CommunityVote
    /\ None \notin SecurityHold
    /\ None \notin Officers
    /\ None \notin Universities

TypeOK ==
    /\ now \in Nat
    /\ scholarship \in [Students -> ScholarshipRecord \cup {None}]
    /\ vote \in [Students -> CommunityVote \cup {None}]
    /\ graduates \in [Students -> SUBSET Funders]
    /\ taxRate \in TaxRates \cup {0}
    /\ feesAccrued \in [Tokens -> Nat]
    /\ universityAdmin \in [Universities -> Officers \cup {None}]
    /\ studentUniversity \in [Students -> Universities \cup {None}]
    /\ securityHold \in [Universities -> SecurityHold \cup {None}]
    /\ custody \in [Tokens -> Nat]
    /\ withdrawn \in [Students -> Int]
    /\ released \in [Students -> Nat]
    /\ reduced \in [Students -> Nat]
    /\ tuitionHeld \in [Tokens -> Nat]

CoreInit ==
    /\ now = StartTime
    /\ scholarship = [s \in Students |-> None]
    /\ vote = [s \in Students |-> None]
    /\ graduates = [s \in Students |-> {}]
    /\ taxRate = 0
    /\ feesAccrued = [t \in Tokens |-> 0]
    /\ universityAdmin = [u \in Universities |-> None]
    /\ studentUniversity = [s \in Students |-> None]
    /\ securityHold = [u \in Universities |-> None]
    /\ custody = [t \in Tokens |-> 0]
    /\ withdrawn = [s \in Students |-> 0]
    /\ released = [s \in Students |-> 0]
    /\ reduced = [s \in Students |-> 0]
    /\ tuitionHeld = [t \in Tokens |-> 0]

-----------------------------------------------------------------------------
(* Helpers of the entry points. *)

\* Mutant of Lesser: a request is not capped by what there is.
Uncapped(a, b) == a

Lesser(a, b) == IF a <= b THEN a ELSE b

\* Mutant of StudentShare: rounded on its own, not the rest of the amount.
RoundedStudentShare(amount) == (amount * (100 - UNIVERSITY_PERCENTAGE)) \div 100

UniversityShare(amount) == (amount * UNIVERSITY_PERCENTAGE) \div 100
StudentShare(amount) == amount - UniversityShare(amount)

\* Mutant of Locked: nothing is kept back.
NothingLocked(total) == 0

Locked(total) == (total * FINAL_RELEASE_PERCENTAGE) \div 100

\* Division rounds towards zero, for a negative request too.
Tax(amount) ==
    IF amount >= 0 THEN (amount * taxRate) \div 10000
    ELSE -(((-amount) * taxRate) \div 10000)

\* Only a positive tax is accrued.
Fee(amount) == IF Tax(amount) > 0 THEN Tax(amount) ELSE 0

\* Is a security hold of the student's current university in force?
OnHold(s) ==
    /\ studentUniversity[s] # None
    /\ LET hold == securityHold[studentUniversity[s]] IN
         hold # None /\ hold.is_active /\ now < hold.expires_at

\* Mutant of Available: the lock is only checked on entry.
AvailableBeyondLock(sc) == sc.unlocked_balance

\* What withdraw_scholarship lets the student ask for.
Available(sc) ==
    IF sc.final_release_claimed \/ sc.total_grant = 0
    THEN sc.unlocked_balance
    ELSE IF sc.balance > Locked(sc.total_grant)
         THEN Lesser(sc.unlocked_balance, sc.balance - Locked(sc.total_grant))
         ELSE 0

\* The record fund_scholarship starts from when the student has none.
NewScholarship(f, t, native) ==
    [funder |-> f, token |-> t, balance |-> 0, unlocked_balance |-> 0,
     total_grant |-> 0, is_native |-> native, is_paused |-> FALSE,
     is_disputed |-> FALSE, final_release_claimed |-> FALSE]

RecordToFund(s, f, t, native) ==
    IF scholarship[s] = None THEN NewScholarship(f, t, native) ELSE scholarship[s]

Credited(sc, share, native) ==
    [sc EXCEPT !.balance = @ + share, !.unlocked_balance = @ + share,
               !.total_grant = @ + share, !.is_native = native]

\* Mutant of Debited: only the unlocked part is reduced.
DebitedUnlocked(sc, amount) == [sc EXCEPT !.unlocked_balance = @ - amount]

Debited(sc, amount) ==
    [sc EXCEPT !.balance = @ - amount, !.unlocked_balance = @ - amount]

\* What the final release leaves behind: the gas reserve of a native grant.
ReserveKept(sc) == IF sc.is_native THEN NATIVE_XLM_RESERVE ELSE 0

\* Mutant of FinallyReleased: a native grant's unlocked part is zeroed too.
FinallyReleasedLocked(sc) ==
    [sc EXCEPT !.balance = ReserveKept(sc), !.unlocked_balance = 0,
               !.final_release_claimed = TRUE]

FinallyReleased(sc) ==
    [sc EXCEPT !.balance = ReserveKept(sc),
               !.unlocked_balance = IF sc.is_native
                                    THEN @ - (sc.balance - NATIVE_XLM_RESERVE) ELSE 0,
               !.final_release_claimed = TRUE]

\* Mutant of WithVoter: the vote passes one vote early.
WithEarlyVoter(tally, v) ==
    [voters |-> tally.voters \cup {v},
     yes_votes |-> tally.yes_votes + 1,
     is_passed |-> tally.yes_votes + 2 >= COMMUNITY_VOTE_THRESHOLD]

WithVoter(tally, v) ==
    [voters |-> tally.voters \cup {v},
     yes_votes |-> tally.yes_votes + 1,
     is_passed |-> tally.yes_votes + 1 >= COMMUNITY_VOTE_THRESHOLD]

MoreUnlocked(sc) == [sc EXCEPT !.unlocked_balance = @ + UNLOCK_STEP]

-----------------------------------------------------------------------------
(* Entry points. *)

\* The whole amount enters custody, the student's 30% is credited; the
\* university's 70% stays where it is.  A later funding keeps the first
\* funder and token but overwrites the native flag.
FundScholarship(f, s, amount, t, native) ==
    LET share == StudentShare(amount)
        sc == RecordToFund(s, f, t, native)
    IN  /\ sc.total_grant + share <= MaxGrant
        /\ scholarship' = [scholarship EXCEPT ![s] = Credited(sc, share, native)]
        /\ custody' = [custody EXCEPT ![t] = @ + amount]
        /\ tuitionHeld' = [tuitionHeld EXCEPT ![t] = @ + UniversityShare(amount)]
        /\ UNCHANGED <<now, vote, graduates, taxRate, feesAccrued, withdrawn, released,
                       reduced, holdVars>>

\* The contract's conditions on a withdrawal.  None of its own checks looks at
\* the sign; the transfer of the rest after tax refuses a negative one.
WithdrawalAccepted(s, amount) ==
    LET sc == scholarship[s]
    IN  /\ sc # None
        /\ ~sc.is_paused /\ ~sc.is_disputed
        /\ ~OnHold(s)
        /\ sc.final_release_claimed \/ sc.balance > Locked(sc.total_grant)
        /\ amount <= Available(sc)
        /\ amount <= sc.balance
        /\ amount - Tax(amount) \in 0..custody[sc.token]

WithdrawScholarship(s, amount) ==
    LET sc == scholarship[s]
        net == amount - Tax(amount)
    IN  /\ WithdrawalAccepted(s, amount)
        /\ scholarship' = [scholarship EXCEPT ![s] = Debited(sc, amount)]
        /\ custody' = [custody EXCEPT ![sc.token] = @ - net]
        /\ feesAccrued' = [feesAccrued EXCEPT ![sc.token] = @ + Fee(amount)]
        /\ withdrawn' = [withdrawn EXCEPT ![s] = @ + amount]
        /\ UNCHANGED <<now, vote, graduates, taxRate, released, reduced, tuitionHeld,
                       holdVars>>

SetTaxRate(rate) ==
    /\ taxRate' = rate
    /\ UNCHANGED <<now, scholarship, vote, graduates, feesAccrued, custody, historyVars, holdVars>>

\* Nothing accrued, or a request of zero, returns 0 and changes nothing.
ClaimProtocolFees(t, amount) ==
    LET claim == Lesser(amount, feesAccrued[t])
    IN  /\ amount > 0 /\ feesAccrued[t] > 0
        /\ claim <= custody[t]
        /\ feesAccrued' = [feesAccrued EXCEPT ![t] = @ - claim]
        /\ custody' = [custody EXCEPT ![t] = @ - claim]
        /\ UNCHANGED <<now, scholarship, vote, graduates, taxRate, historyVars, holdVars>>

InitiateFinalReleaseVote(s) ==
    LET sc == scholarship[s]
    IN  /\ sc # None
        /\ sc.balance <= Locked(sc.total_grant)
        /\ ~sc.final_release_claimed
        /\ vote[s] = None
        /\ vote' = [vote EXCEPT ![s] =
             [voters |-> {}, yes_votes |-> 0, is_passed |-> FALSE]]
        /\ UNCHANGED <<now, scholarship, graduates, taxRate, feesAccrued, custody,
                       historyVars, holdVars>>

CastCommunityVote(v, s) ==
    /\ vote[s] # None
    /\ ~vote[s].is_passed
    /\ v \notin vote[s].voters
    /\ vote' = [vote EXCEPT ![s] = WithVoter(vote[s], v)]
    /\ UNCHANGED <<now, scholarship, graduates, taxRate, feesAccrued, custody,
                   historyVars, holdVars>>

\* mark_as_graduated: the registry gains the scholarship's funder.
MarkAsGraduated(s, f) == graduates' = [graduates EXCEPT ![s] = @ \cup {f}]

\* A native grant keeps the gas reserve back, any other is emptied.
\* Neither the pause flags nor a security hold is consulted.
ClaimFinalRelease(s) ==
    LET sc == scholarship[s]
        claim == sc.balance - ReserveKept(sc)
    IN  /\ vote[s] # None /\ vote[s].is_passed
        /\ sc # None
        /\ ~sc.final_release_claimed
        /\ sc.balance <= Locked(sc.total_grant)
        /\ sc.balance > 0
        /\ ReserveKept(sc) <= sc.balance
        /\ claim <= custody[sc.token]
        /\ scholarship' = [scholarship EXCEPT ![s] = FinallyReleased(sc)]
        /\ custody' = [custody EXCEPT ![sc.token] = @ - claim]
        /\ released' = [released EXCEPT ![s] = @ + claim]
        /\ MarkAsGraduated(s, sc.funder)
        /\ UNCHANGED <<now, vote, taxRate, feesAccrued, withdrawn, reduced, tuitionHeld,
                       holdVars>>

VerifyAcademicProgress(s) ==
    LET sc == scholarship[s]
    IN  /\ sc # None
        /\ sc.unlocked_balance + UNLOCK_STEP <= MaxUnlocked
        /\ scholarship' = [scholarship EXCEPT ![s] = MoreUnlocked(sc)]
        /\ UNCHANGED <<now, vote, graduates, taxRate, feesAccrued, custody, historyVars, holdVars>>

RegisterUniversityAdmin(u, o) ==
    /\ universityAdmin' = [universityAdmin EXCEPT ![u] = o]
    /\ UNCHANGED <<now, grantVars, studentUniversity, securityHold>>

RegisterStudentUniversity(o, u, s) ==
    /\ universityAdmin[u] = o
    /\ studentUniversity' = [studentUniversity EXCEPT ![s] = u]
    /\ UNCHANGED <<now, grantVars, universityAdmin, securityHold>>

TriggerSecurityHold(o, u) ==
    /\ universityAdmin[u] = o
    /\ securityHold' = [securityHold EXCEPT ![u] =
         [expires_at |-> now + SECURITY_HOLD_DURATION, is_active |-> TRUE]]
    /\ UNCHANGED <<now, grantVars, universityAdmin, studentUniversity>>

LiftSecurityHold(o, u) ==
    /\ universityAdmin[u] = o
    /\ securityHold[u] # None /\ securityHold[u].is_active
    /\ securityHold' = [securityHold EXCEPT ![u].is_active = FALSE]
    /\ UNCHANGED <<now, grantVars, universityAdmin, studentUniversity>>

\* Ledgers close and the timestamp advances; several calls may share one.
Tick ==
    /\ now < MaxTime
    /\ now' = now + 1
    /\ UNCHANGED <<grantVars, holdVars>>

CoreNext ==
    \/ \E f \in Funders, s \in Students, a \in FundAmounts, t \in Tokens, n \in BOOLEAN :
         FundScholarship(f, s, a, t, n)
    \/ \E s \in Students, a \in WithdrawAmounts : WithdrawScholarship(s, a)
    \/ \E r \in TaxRates : SetTaxRate(r)
    \/ \E t \in Tokens, a \in WithdrawAmounts : ClaimProtocolFees(t, a)
    \/ \E s \in Students : InitiateFinalReleaseVote(s)
    \/ \E v \in Voters, s \in Students : CastCommunityVote(v, s)
    \/ \E s \in Students : ClaimFinalRelease(s)
    \/ \E s \in Students : VerifyAcademicProgress(s)
    \/ \E u \in Universities, o \in Officers : RegisterUniversityAdmin(u, o)
    \/ \E o \in Officers, u \in Universities, s \in Students :
         RegisterStudentUniversity(o, u, s)
    \/ \E o \in Officers, u \in Universities : TriggerSecurityHold(o, u)
    \/ \E o \in Officers, u \in Universities : LiftSecurityHold(o, u)
    \/ Tick

Spec == CoreInit /\ [][CoreNext]_coreVars

-----------------------------------------------------------------------------
(* Properties. *)

\* The students whose scholarship exists.
Scholars == {s \in Students : scholarship[s] # None}

\* The unlocked part never falls below the balance, through fundings,
\* withdrawals, the final release and every reduction: the only limit on a
\* withdrawal is the locked tenth (fund_scholarship 1832-1835 and its readers).
UnlockedCoversBalance ==
    \A s \in Scholars : scholarship[s].balance <= scholarship[s].unlocked_balance

\* What a student was ever credited, what is still owed, and the community's
\* word on the rest.
Granted(s) == IF scholarship[s] = None THEN 0 ELSE scholarship[s].total_grant
Held(s) == IF scholarship[s] = None THEN 0 ELSE scholarship[s].balance
Approved(s) == vote[s] # None /\ vote[s].is_passed
FinallyOpen(s) == scholarship[s] # None /\ scholarship[s].final_release_claimed

\* Every unit credited to a student (total_grant) is still in the balance,
\* was withdrawn, was released, or was taken back: no path of the escrow
\* creates or loses a unit.
GrantConserved ==
    \A s \in Students : Granted(s) = Held(s) + withdrawn[s] + released[s] + reduced[s]

\* Until the final release, all withdrawals together leave the locked tenth
\* of everything granted so far, however fundings and withdrawals interleave
\* (the lock of withdraw_scholarship, computed from the current total).
WithdrawalsRespectLock ==
    \A s \in Scholars :
        LET sc == scholarship[s] IN
          ~sc.final_release_claimed =>
              withdrawn[s] <= sc.total_grant - Locked(sc.total_grant)

\* The counter of a vote counts distinct voters and stops at the threshold.
VoteCounted(s) ==
    vote[s] # None =>
        /\ vote[s].yes_votes = Cardinality(vote[s].voters)
        /\ vote[s].is_passed <=> vote[s].yes_votes = COMMUNITY_VOTE_THRESHOLD
        /\ vote[s].yes_votes <= COMMUNITY_VOTE_THRESHOLD

\* Released money, the final flag and the graduation registry stand or fall
\* together, and only with a vote that passed.
ReleaseApproved(s) ==
    IF FinallyOpen(s)
    THEN Approved(s) /\ graduates[s] = {scholarship[s].funder}
    ELSE graduates[s] = {} /\ released[s] = 0

\* A final release rests on the votes of COMMUNITY_VOTE_THRESHOLD distinct
\* voters, whatever was funded, withdrawn or voted on in between; and a student
\* is in the graduation registry, for the sponsor of the scholarship, exactly
\* when the final release was claimed (claim_final_release, mark_as_graduated).
ReleaseNeedsQuorum == \A s \in Students : VoteCounted(s) /\ ReleaseApproved(s)

\* What the contract owes the students in token t.
LiabilityIn(t) ==
    SumFunctionOnSet([s \in Students |-> Held(s)], {s \in Scholars : scholarship[s].token = t})

\* With one token in use, the contract's token balance is exactly what it
\* owes the students, the accrued protocol fees and the university shares:
\* every transfer is matched by a change of the books and no payout fails.
CustodyAccounted ==
    \A t \in Tokens : custody[t] = LiabilityIn(t) + feesAccrued[t] + tuitionHeld[t]

\* The account of student s as GrantAccount sees it.
Account(s) == INSTANCE GrantAccount WITH
    granted <- Granted(s),
    held <- Held(s),
    paid <- withdrawn[s] + released[s],
    forfeited <- reduced[s],
    approved <- Approved(s),
    open <- FinallyOpen(s),
    frozen <- OnHold(s)

\* The escrow keeps the promise of GrantAccount to every student, in
\* particular that a security hold of the student's current university stops
\* every withdrawal for as long as it is in force.  This is the conjunction of
\* Account(s)!Spec over the students, its quantifier moved into the two parts
\* of the specification, where TLC accepts it.
AccountsKept ==
    /\ \A s \in Students : Account(s)!Init
    /\ [][\A s \in Students : [Account(s)!Next]_(Account(s)!vars)]_coreVars

=============================================================================
