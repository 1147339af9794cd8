-------------------------- MODULE QuadraticFunding --------------------------
(***************************************************************************)
(* Quadratic funding rounds of lib.rs: an administrator opens a round with *)
(* a matching pool, owners register projects, contributors pay, the round  *)
(* is finalized after its end and the owners claim their match.            *)
(* A project's id and a round's id are counted from 1, as in the code.     *)
(***************************************************************************)
EXTENDS Integers, FiniteSets, FiniteSetsExt

CONSTANTS
    Owners,                     \* who register projects
    Contributors,
    Amounts,                    \* what may be paid as a contribution
    Pools,                      \* the matching pools of new rounds
    QF_MATCHING_POOL_RESERVE,
    QF_MIN_CONTRIBUTION,
    QF_MAX_PROJECTS,
    QF_ROUND_DURATION,
    None,
    StartTime,
    MaxTime,                    \* bound of the clock
    MaxRounds,                  \* bound of the rounds
    MaxCount                    \* bound of the contributions to a project

QuadraticFundingRound ==
    [end_time : Nat, matching_pool_balance : Nat, total_contributions : Nat,
     total_matching_distributed : Nat, project_count : 0..QF_MAX_PROJECTS,
     is_finalized : BOOLEAN]

FundingProject ==
    [project_owner : Owners, total_raised : Nat, contributor_count : Nat,
     sqrt_sum_contributions : Nat, total_matching : Nat]

QFContribution == Amounts

QuadraticAssumption ==
    /\ Amounts \subseteq Nat /\ Pools \subseteq Nat
    /\ {QF_MATCHING_POOL_RESERVE, QF_MAX_PROJECTS, QF_ROUND_DURATION,
        StartTime, MaxTime, MaxRounds, MaxCount} \subseteq Nat
    /\ QF_MIN_CONTRIBUTION \in Nat \ {0}
    /\ None \notin QuadraticFundingRound \cup FundingProject

VARIABLES
    rounds,         \* QuadraticFundingRound by id; QFRoundCounter is how many
    projects,       \* FundingProject by round and id, None before it exists
    contribution,   \* QFContribution(project, round, contributor)
    custody,        \* the contract's balance of the rounds' token
    now,
    claimed         \* history: what the owners of a round's projects received

vars == <<rounds, projects, contribution, custody, now, claimed>>

Math == INSTANCE ClaimMath WITH NATIVE_XLM_RESERVE <- 0

RoundIds == 1..MaxRounds
ProjectIds == 1..QF_MAX_PROJECTS

-----------------------------------------------------------------------------
(* Initial state and actions. *)

TypeOK ==
    /\ rounds \in [RoundIds -> QuadraticFundingRound \cup {None}]
    /\ projects \in [RoundIds -> [ProjectIds -> FundingProject \cup {None}]]
    /\ contribution \in
         [RoundIds -> [ProjectIds -> [Contributors -> QFContribution \cup {None}]]]
    /\ custody \in Nat /\ now \in Nat
    /\ claimed \in [RoundIds -> Nat]

Init ==
    /\ rounds = [r \in RoundIds |-> None]
    /\ projects = [r \in RoundIds |-> [p \in ProjectIds |-> None]]
    /\ contribution = [r \in RoundIds |-> [p \in ProjectIds |-> [c \in Contributors |-> None]]]
    /\ custody = 0
    /\ now = StartTime
    /\ claimed = [r \in RoundIds |-> 0]

NewRound(pool) ==
    [end_time |-> now + QF_ROUND_DURATION, matching_pool_balance |-> pool,
     total_contributions |-> 0, total_matching_distributed |-> 0,
     project_count |-> 0, is_finalized |-> FALSE]

\* is_active is set here and never cleared; a round ends by the clock.
InitQuadraticFundingRound(pool) ==
    /\ pool >= QF_MATCHING_POOL_RESERVE
    /\ \E r \in RoundIds :
         /\ rounds[r] = None /\ \A q \in 1..(r - 1) : rounds[q] # None
         /\ rounds' = [rounds EXCEPT ![r] = NewRound(pool)]
    /\ custody' = custody + pool
    /\ UNCHANGED <<projects, contribution, now, claimed>>

\* A round still takes projects and contributions at its last second.
Running(r) == rounds[r] # None /\ now <= rounds[r].end_time

NewProject(o) ==
    [project_owner |-> o, total_raised |-> 0, contributor_count |-> 0,
     sqrt_sum_contributions |-> 0, total_matching |-> 0]

RegisterQfProject(o, r) ==
    /\ Running(r)
    /\ rounds[r].project_count < QF_MAX_PROJECTS
    /\ projects' = [projects EXCEPT ![r][rounds[r].project_count + 1] = NewProject(o)]
    /\ rounds' = [rounds EXCEPT ![r].project_count = @ + 1]
    /\ UNCHANGED <<contribution, custody, now, claimed>>

\* The square root that the contract keeps beside the crate's.
isqrt(n) == Math!Isqrt(n)

Raised(project, amount) ==
    [project EXCEPT !.total_raised = @ + amount,
                    !.contributor_count = @ + 1,
                    !.sqrt_sum_contributions = @ + isqrt(amount)]

\* A second contribution replaces the contributor's record but is counted,
\* and its root added, like one of another contributor.
ContributeToQfProject(c, r, p, amount) ==
    /\ amount >= QF_MIN_CONTRIBUTION
    /\ Running(r)
    /\ projects[r][p] # None
    /\ projects[r][p].contributor_count < MaxCount
    /\ contribution' = [contribution EXCEPT ![r][p][c] = amount]
    /\ projects' = [projects EXCEPT ![r][p] = Raised(@, amount)]
    /\ rounds' = [rounds EXCEPT ![r].total_contributions = @ + amount]
    /\ custody' = custody + amount
    /\ UNCHANGED <<now, claimed>>

\* An id that is not registered counts for nothing.
SqrtSums(r) == [p \in ProjectIds |->
    IF projects[r][p] = None THEN 0 ELSE projects[r][p].sqrt_sum_contributions]

CalculateTotalSqrtSum(r) == SumFunctionOnSet(SqrtSums(r), ProjectIds)

MatchingBudget(r) ==
    CalculateTotalSqrtSum(r) * CalculateTotalSqrtSum(r) - rounds[r].total_contributions

\* Mutant of BudgetFits: a budget beyond the pool is paid.
BudgetPositive(r) == MatchingBudget(r) > 0

BudgetFits(r) == MatchingBudget(r) > 0 /\ MatchingBudget(r) <= rounds[r].matching_pool_balance

Match(project) ==
    Math!QfMatchingForProject(project.sqrt_sum_contributions, project.total_raised)

Matching(r) == [p \in ProjectIds |-> IF projects[r][p] = None THEN 0 ELSE Match(projects[r][p])]

FinalizeQfRound(r) ==
    /\ rounds[r] # None /\ ~rounds[r].is_finalized
    /\ now >= rounds[r].end_time
    /\ BudgetFits(r)
    /\ projects' = [projects EXCEPT ![r] = [p \in ProjectIds |->
            IF projects[r][p] = None THEN None
            ELSE [projects[r][p] EXCEPT !.total_matching = Match(projects[r][p])]]]
    /\ rounds' = [rounds EXCEPT ![r].is_finalized = TRUE,
            ![r].total_matching_distributed = SumFunctionOnSet(Matching(r), ProjectIds)]
    /\ UNCHANGED <<contribution, custody, now, claimed>>

ClaimQfMatching(o, r, p) ==
    /\ rounds[r] # None /\ rounds[r].is_finalized
    /\ projects[r][p] # None /\ projects[r][p].project_owner = o
    /\ projects[r][p].total_matching > 0
    /\ custody >= projects[r][p].total_matching
    /\ projects' = [projects EXCEPT ![r][p].total_matching = 0]
    /\ custody' = custody - projects[r][p].total_matching
    /\ claimed' = [claimed EXCEPT ![r] = @ + projects[r][p].total_matching]
    /\ UNCHANGED <<rounds, contribution, now>>

Tick ==
    /\ now < MaxTime
    /\ now' = now + 1
    /\ UNCHANGED <<rounds, projects, contribution, custody, claimed>>

Next ==
    \/ \E pool \in Pools : InitQuadraticFundingRound(pool)
    \/ \E o \in Owners, r \in RoundIds : RegisterQfProject(o, r)
    \/ \E c \in Contributors, r \in RoundIds, p \in ProjectIds, a \in Amounts :
          ContributeToQfProject(c, r, p, a)
    \/ \E r \in RoundIds : FinalizeQfRound(r)
    \/ \E o \in Owners, r \in RoundIds, p \in ProjectIds : ClaimQfMatching(o, r, p)
    \/ Tick

Spec == Init /\ [][Next]_vars

-----------------------------------------------------------------------------
(* Properties. *)

\* What a round's projects may still claim.
Owed(r) == SumFunctionOnSet([p \in ProjectIds |->
    IF projects[r][p] = None THEN 0 ELSE projects[r][p].total_matching], ProjectIds)

\* What a round paid in, and its owners have not taken.
Held == [r \in RoundIds |->
    IF rounds[r] = None THEN 0
    ELSE rounds[r].matching_pool_balance + rounds[r].total_contributions - claimed[r]]

\* Floors and the clamp at zero work against each other: a project whose roots
\* fall short of what it raised gets nothing, so the others might share more
\* than the budget that finalize_qf_round compared with the pool.  They never
\* do: what is still owed and what was claimed is what was announced, fits the
\* round's own pool, and is in custody beside all contributions, which no call
\* pays out.
MatchingFits ==
    /\ \A r \in RoundIds : rounds[r] # None =>
         /\ Owed(r) + claimed[r] = rounds[r].total_matching_distributed
         /\ rounds[r].total_matching_distributed <= rounds[r].matching_pool_balance
    /\ custody = SumFunctionOnSet(Held, RoundIds)

=============================================================================
