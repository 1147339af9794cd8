---------------------------- MODULE ServiceProofs ----------------------------
(***************************************************************************)
(* Theorems about the services beside each other, for any instance of each *)
(* of them.  Every service has an invariant of its own that its own steps  *)
(* keep and that the steps of the others, which write none of its records, *)
(* leave alone while the clock they share runs on.                         *)
(***************************************************************************)
EXTENDS Services, Sequences, SumLemmas

-----------------------------------------------------------------------------
(* One step is one service's. *)

\* A step is a service's own or leaves all of its records as they are.
LEMMA StepOfOne ==
    ASSUME [Next]_vars
    PROVE  /\ service' = service
           /\ Funding!Next \/ UNCHANGED fundingVars
           /\ Pool!Next \/ UNCHANGED treasuryVars
           /\ (service = "streams" /\ Stream!Next) \/ UNCHANGED streamVars
           /\ Vote!Next \/ UNCHANGED voteVars
           /\ Payout!Next \/ UNCHANGED payoutVars
           /\ Attestation!Next \/ UNCHANGED attestationVars
           /\ Export!Next \/ UNCHANGED exportVars
           /\ CourseToken!Next \/ UNCHANGED tokenVars
           /\ Renewal!Next \/ UNCHANGED renewalVars
<1>1. CASE UNCHANGED vars
  BY <1>1 DEF vars
<1>2. CASE Next
  BY <1>2 DEF Next, FundingStep, TreasuryStep, StreamStep, VoteStep, PayoutStep,
     AttestationStep, ExportStep, TokenStep, RenewalStep
<1> QED
  BY <1>1, <1>2

\* The clock never goes back, whoever takes the step.
LEMMA ClockRuns ==
    ASSUME now \in Nat, [Next]_vars
    PROVE  now' \in Nat /\ now <= now'
<1>1. now' = now \/ now' = now + 1
  <2>1. CASE UNCHANGED vars
    BY <2>1 DEF vars
  <2>2. CASE FundingStep
    BY <2>2 DEF FundingStep, Funding!Next, Funding!InitQuadraticFundingRound,
       Funding!RegisterQfProject, Funding!ContributeToQfProject, Funding!FinalizeQfRound,
       Funding!ClaimQfMatching, Funding!Tick
  <2>3. CASE TreasuryStep
    BY <2>3 DEF TreasuryStep, Pool!Next, Pool!DepositFunds, Pool!DepositWithMatch,
       Pool!Deposited, Pool!SetInstitutionalMatchCap, Pool!CalculateFlow, Pool!SetGasTreasury,
       Pool!ClaimGasSubsidy, Pool!SetYieldPreference, Pool!HarvestYield, Pool!Spend, Pool!Tick
  <2>4. CASE StreamStep
    BY <2>4 DEF StreamStep, Stream!Next, Stream!Inflow, Stream!AlumniContributionPledge,
       Stream!CreateStream, Stream!WithdrawFromStream, Stream!Tick
  <2>5. CASE PayoutStep
    BY <2>5 DEF PayoutStep, Payout!Next, Payout!SetAuthorizedPayoutAddress,
       Payout!ConfirmPayoutUnlock, Payout!Tick
  <2>6. CASE AttestationStep
    BY <2>6 DEF AttestationStep, Attestation!Next, Attestation!SetOracleStatus,
       Attestation!VerifyEnrollment, Attestation!ApplyGpaMultiplier,
       Attestation!InitZkVerificationKey, Attestation!VerifyGpaThresholdProof,
       Attestation!RevokeAcademicStanding, Attestation!Tick
  <2>7. CASE RenewalStep
    BY <2>7 DEF RenewalStep, Renewal!Next, Renewal!Renew, Renewal!Disburse, Renewal!Tick
  <2>8. CASE VoteStep \/ ExportStep \/ TokenStep
    BY <2>8 DEF VoteStep, ExportStep, TokenStep
  <2> QED
    BY <2>1, <2>2, <2>3, <2>4, <2>5, <2>6, <2>7, <2>8 DEF Next
<1> QED
  BY <1>1

-----------------------------------------------------------------------------
(* Quadratic funding: the matches fit the pool.                            *)

\* One step of Newton's iteration for the root of n, from x.
NewtonStep(n, x) == (x + n \div x) \div 2

\* g is where the iteration for the root of n ends, from each start.
Newtons(n, g) ==
    g = [x \in 1..n |-> IF NewtonStep(n, x) < x THEN g[NewtonStep(n, x)] ELSE x]

\* The root that isqrt returns, by the iteration's own recursion.
Newton(n) == CHOOSE g : Newtons(n, g)

\* isqrt returns the end of the iteration that starts from n itself.
LEMMA IsqrtIsNewton ==
    ASSUME NEW n \in Nat, n # 0
    PROVE  Funding!isqrt(n) = Newton(n)[n]
BY DEF Funding!isqrt, Funding!Math!Isqrt, Newton, Newtons, NewtonStep

\* A step stays among the positive numbers, and falls short of the root by less
\* than one.
LEMMA NewtonStepCovers ==
    ASSUME NEW n \in Nat, NEW x \in 1..n
    PROVE  /\ NewtonStep(n, x) \in Nat /\ NewtonStep(n, x) >= 1
           /\ n < (NewtonStep(n, x) + 1) * (NewtonStep(n, x) + 1)
<1> DEFINE q == n \div x
           y == NewtonStep(n, x)
<1>1. n \in Nat /\ x \in Nat /\ x >= 1 /\ x <= n
  OBVIOUS
<1>2. q \in Nat /\ n < (q + 1) * x
  BY <1>1, Z3
<1>3. q >= 1
  <2>1. q + 1 > 1
    <3> SUFFICES ASSUME q + 1 <= 1 PROVE FALSE
      BY <1>2
    <3>1. q = 0
      BY <1>2
    <3> QED BY <1>1, <1>2, <3>1
  <2> QED BY <1>2, <2>1
<1>4. y \in Nat /\ y >= 1 /\ 2 * y + 2 >= x + (q + 1)
  <2>1. y = (x + q) \div 2
    BY DEF NewtonStep
  <2> HIDE DEF y, q
  <2> QED BY <1>1, <1>2, <1>3, <2>1
<1> HIDE DEF y, q
<1>5. 4 * ((q + 1) * x) <= (x + (q + 1)) * (x + (q + 1))
  <2> DEFINE d == x - (q + 1)
  <2>1. d \in Int /\ x = (q + 1) + d
    BY <1>1, <1>2
  <2>2. d * d >= 0
    BY <2>1, Z3
  <2> HIDE DEF d
  <2>3. (x + (q + 1)) * (x + (q + 1)) = 4 * ((q + 1) * x) + d * d
    BY <1>1, <1>2, <2>1, Z3
  <2> QED BY <1>1, <1>2, <2>1, <2>2, <2>3, Z3
<1>6. (x + (q + 1)) * (x + (q + 1)) <= (2 * y + 2) * (2 * y + 2)
  BY <1>1, <1>2, <1>4, Z3
<1>7. (2 * y + 2) * (2 * y + 2) = 4 * ((y + 1) * (y + 1))
  BY <1>4, Z3
<1>8. n < (y + 1) * (y + 1)
  <2> DEFINE a == (q + 1) * x
             b == (y + 1) * (y + 1)
             c == (x + (q + 1)) * (x + (q + 1))
             e == (2 * y + 2) * (2 * y + 2)
  <2>1. a \in Int /\ b \in Int /\ c \in Int /\ e \in Int
    BY <1>1, <1>2, <1>4
  <2>2. n < a /\ 4 * a <= c /\ c <= e /\ e = 4 * b
    BY <1>2, <1>5, <1>6, <1>7
  <2> HIDE DEF a, b, c, e
  <2>3. n < b
    BY <1>1, <2>1, <2>2
  <2> QED BY <2>3 DEF b
<1> QED BY <1>4, <1>8 DEF y

\* The recursion has a solution: one that is right up to k exists for every k.
LEMMA NewtonExists ==
    ASSUME NEW n \in Nat
    PROVE  \E g : Newtons(n, g)
<1> DEFINE Y(x) == NewtonStep(n, x)
           Step(g, x) == IF Y(x) < x THEN g[Y(x)] ELSE x
           RightUpTo(g, k) == \A x \in 1..n : x <= k => g[x] = Step(g, x)
           Reached == {k \in Nat : \E g : g = [x \in 1..n |-> g[x]] /\ RightUpTo(g, k)}
<1>1. 0 \in Reached
  <2> DEFINE g == [x \in 1..n |-> 0]
  <2>1. g = [x \in 1..n |-> g[x]] /\ RightUpTo(g, 0)
    OBVIOUS
  <2> HIDE DEF g, RightUpTo
  <2> QED BY <2>1
<1>2. ASSUME NEW k \in Nat, k \in Reached PROVE k + 1 \in Reached
  <2>1. PICK g : g = [x \in 1..n |-> g[x]] /\ RightUpTo(g, k)
    BY <1>2
  <2> DEFINE h == [x \in 1..n |-> Step(g, x)]
  <2>2. ASSUME NEW x \in 1..n, x <= k + 1 PROVE h[x] = Step(h, x)
    <3>1. CASE ~(Y(x) < x)
      BY <3>1
    <3>2. CASE Y(x) < x
      <4>1. Y(x) \in 1..n /\ Y(x) <= k
        <5>1. Y(x) \in Nat /\ Y(x) >= 1
          BY NewtonStepCovers
        <5> HIDE DEF Y
        <5> QED BY <5>1, <3>2, <2>2
      <4>2. h[Y(x)] = Step(g, Y(x))
        BY <4>1
      <4>3. g[Y(x)] = Step(g, Y(x))
        BY <4>1, <2>1
      <4>4. h[x] = g[Y(x)] /\ Step(h, x) = h[Y(x)]
        BY <3>2
      <4> QED BY <4>2, <4>3, <4>4
    <3> QED BY <3>1, <3>2
  <2>3. RightUpTo(h, k + 1)
    BY <2>2
  <2>4. h = [x \in 1..n |-> h[x]]
    OBVIOUS
  <2> HIDE DEF h, RightUpTo
  <2> QED BY <2>3, <2>4
<1>3. n \in Reached
  <2> HIDE DEF Reached
  <2> QED BY <1>1, <1>2, NatSetInduction
<1>4. PICK g : g = [x \in 1..n |-> g[x]] /\ RightUpTo(g, n)
  BY <1>3
<1>5. \A x \in 1..n : g[x] = Step(g, x)
  <2>1. \A x \in 1..n : x <= n
    OBVIOUS
  <2> HIDE DEF Step
  <2> QED BY <1>4, <2>1
<1>6. g = [x \in 1..n |-> Step(g, x)]
  <2> HIDE DEF Step, RightUpTo
  <2> QED BY <1>4, <1>5
<1> QED BY <1>6 DEF Newtons

\* Where a step no longer falls, the number it started from is no larger than
\* the root.
LEMMA NewtonStops ==
    ASSUME NEW n \in Nat, NEW x \in 1..n, ~(NewtonStep(n, x) < x)
    PROVE  x * x <= n
<1> DEFINE q == n \div x
<1>1. n \in Nat /\ x \in Nat /\ x >= 1
  OBVIOUS
<1>2. q \in Nat /\ q * x <= n
  BY <1>1, Z3
<1>3. (x + q) \div 2 >= x
  <2>1. (x + q) \div 2 = NewtonStep(n, x)
    BY DEF NewtonStep
  <2>2. (x + q) \div 2 \in Nat
    BY <1>1, <1>2
  <2> HIDE DEF q
  <2> QED BY <1>1, <2>1, <2>2
<1> HIDE DEF q
<1>4. q >= x
  BY <1>1, <1>2, <1>3
<1>5. x * x <= q * x
  BY <1>1, <1>2, <1>4, Z3
<1>6. x * x \in Nat /\ q * x \in Nat
  BY <1>1, <1>2
<1> DEFINE a == x * x
           b == q * x
<1>7. a \in Nat /\ b \in Nat /\ b <= n /\ a <= b
  BY <1>2, <1>5, <1>6
<1> HIDE DEF a, b
<1>8. a <= n
  BY <1>1, <1>7
<1> QED BY <1>8 DEF a

\* isqrt returns the integer square root: its square is no larger than n, and it
\* falls short of the root by less than one (isqrt of crates/claim_math).
THEOREM IsqrtExact ==
    ASSUME NEW n \in Nat
    PROVE  /\ Funding!isqrt(n) \in Nat
           /\ Funding!isqrt(n) * Funding!isqrt(n) <= n
           /\ n <= Funding!isqrt(n) * Funding!isqrt(n) + 2 * Funding!isqrt(n)
<1>1. CASE n = 0
  <2>1. Funding!isqrt(n) = 0
    BY <1>1 DEF Funding!isqrt, Funding!Math!Isqrt
  <2> QED BY <1>1, <2>1
<1>2. CASE n # 0
  <2> DEFINE g == Newton(n)
             Y(x) == NewtonStep(n, x)
             Covers(x) == x \in Nat /\ n < (x + 1) * (x + 1)
             Root(x) == Covers(x) /\ x * x <= n
             Right == {k \in Nat : \A x \in 1..n : x <= k /\ Covers(x) => Root(g[x])}
  <2>1. \A x \in 1..n : g[x] = IF Y(x) < x THEN g[Y(x)] ELSE x
    <3>1. Newtons(n, g)
      BY NewtonExists DEF Newton
    <3> HIDE DEF g
    <3> QED BY <3>1 DEF Newtons
  <2>2. \A x \in 1..n : Y(x) \in Nat /\ Y(x) >= 1 /\ Covers(Y(x))
    BY NewtonStepCovers
  <2> HIDE DEF g, Y
  <2>3. 0 \in Right
    OBVIOUS
  <2>4. ASSUME NEW k \in Nat, k \in Right PROVE k + 1 \in Right
    <3> SUFFICES ASSUME NEW x \in 1..n, x <= k + 1, Covers(x) PROVE Root(g[x])
      OBVIOUS
    <3>1. CASE ~(Y(x) < x)
      <4>1. x * x <= n
        BY <3>1, NewtonStops DEF Y
      <4>2. g[x] = x
        BY <3>1, <2>1
      <4> QED BY <4>1, <4>2
    <3>2. CASE Y(x) < x
      <4>1. Y(x) \in 1..n /\ Y(x) <= k /\ Covers(Y(x))
        BY <3>2, <2>2
      <4>2. Root(g[Y(x)])
        BY <4>1, <2>4
      <4>3. g[x] = g[Y(x)]
        BY <3>2, <2>1
      <4> QED BY <4>2, <4>3
    <3> QED BY <3>1, <3>2
  <2>5. n \in Right
    <3> HIDE DEF Right
    <3> QED BY <2>3, <2>4, NatSetInduction
  <2>6. Covers(n)
    <3>1. (n + 1) * (n + 1) = n * n + 2 * n + 1 /\ n * n \in Nat
      BY Z3
    <3> QED BY <3>1
  <2>7. Root(g[n])
    <3>1. n \in 1..n
      BY <1>2
    <3> QED BY <3>1, <2>5, <2>6
  <2>8. Funding!isqrt(n) = g[n]
    BY <1>2, IsqrtIsNewton DEF g
  <2> DEFINE y == g[n]
  <2>9. y \in Nat /\ n < (y + 1) * (y + 1) /\ y * y <= n
    BY <2>7
  <2> HIDE DEF y
  <2>10. (y + 1) * (y + 1) = y * y + 2 * y + 1
    BY <2>9, Z3
  <2>11. y * y \in Nat
    BY <2>9
  <2>12. n <= y * y + 2 * y
    BY <2>9, <2>10, <2>11
  <2> QED BY <2>8, <2>9, <2>12 DEF y
<1> QED BY <1>1, <1>2

\* The roots come to a, what was raised to t, the matches to m: the matches fit
\* the budget, and when there are none, the roots do not fall short by more than
\* the floors explain.
FitTogether(a, t, m) ==
    /\ m > 0 => m <= a * a - t
    /\ m = 0 => t <= a * a + 2 * a

\* One more project fits as well, whether it is matched or not: the cross terms of
\* the larger square cover what its floors lose.
LEMMA OneMoreFits ==
    ASSUME NEW A \in Nat, NEW T \in Nat, NEW M \in Nat, FitTogether(A, T, M),
           NEW a \in Nat, NEW t \in Nat, NEW m \in Nat, t <= a * a + 2 * a,
           m = IF a * a - t > 0 THEN a * a - t ELSE 0
    PROVE  FitTogether(A + a, T + t, M + m)
<1> DEFINE AA == A * A
           aa == a * a
           P == A * a
<1>1. AA \in Nat /\ aa \in Nat /\ P \in Nat
  OBVIOUS
<1>2. (A + a) * (A + a) = AA + 2 * P + aa
  BY Z3
<1>3. /\ A >= 1 => P >= a
      /\ a >= 1 => P >= A
  BY Z3
<1>4. (AA > 0 => A >= 1) /\ (aa > 0 => a >= 1)
  BY Z3
<1>5. /\ M > 0 => M <= AA - T
      /\ M = 0 => T <= AA + 2 * A
      /\ t <= aa + 2 * a
      /\ m = IF aa - t > 0 THEN aa - t ELSE 0
  BY DEF FitTogether
<1> HIDE DEF AA, aa, P
<1>6. M + m > 0 => M + m <= AA + 2 * P + aa - (T + t)
  BY <1>1, <1>3, <1>4, <1>5
<1>7. M + m = 0 => T + t <= AA + 2 * P + aa + 2 * (A + a)
  BY <1>1, <1>3, <1>4, <1>5
<1> QED BY <1>2, <1>6, <1>7 DEF FitTogether

\* So the matches of any number of projects fit.
THEOREM MatchesFit ==
    ASSUME NEW S, IsFiniteSet(S), NEW f \in [S -> Nat], NEW g \in [S -> Nat], NEW h \in [S -> Nat],
           \A x \in S : g[x] <= f[x] * f[x] + 2 * f[x],
           \A x \in S : h[x] = IF f[x] * f[x] - g[x] > 0 THEN f[x] * f[x] - g[x] ELSE 0
    PROVE  FitTogether(SumFunctionOnSet(f, S), SumFunctionOnSet(g, S), SumFunctionOnSet(h, S))
<1> DEFINE Fits(U) ==
             FitTogether(SumFunctionOnSet(f, U), SumFunctionOnSet(g, U), SumFunctionOnSet(h, U))
           Good == {U \in SUBSET S : Fits(U)}
<1>1. ASSUME NEW T \in SUBSET S, \A U \in SUBSET T : U # T => U \in Good
      PROVE  T \in Good
  <2>1. CASE T = {}
    <3>1. Fits({})
      BY SumEmpty DEF FitTogether
    <3> QED BY <2>1, <3>1
  <2>2. CASE T # {}
    <3>1. PICK x : x \in T
      BY <2>2
    <3> DEFINE R == T \ {x}
    <3>2. R \in SUBSET T /\ R # T /\ x \in S /\ R \in SUBSET S
      BY <3>1
    <3>3. IsFiniteSet(T) /\ IsFiniteSet(R)
      BY <3>2, FS_Subset
    <3>4. Fits(R)
      BY <1>1, <3>2
    <3>5. /\ SumFunctionOnSet(f, T) = SumFunctionOnSet(f, R) + f[x]
          /\ SumFunctionOnSet(g, T) = SumFunctionOnSet(g, R) + g[x]
          /\ SumFunctionOnSet(h, T) = SumFunctionOnSet(h, R) + h[x]
      BY <3>1, <3>2, <3>3, SumRemove
    <3>6. /\ SumFunctionOnSet(f, R) \in Nat
          /\ SumFunctionOnSet(g, R) \in Nat
          /\ SumFunctionOnSet(h, R) \in Nat
      BY <3>2, <3>3, SumNat
    <3> DEFINE A == SumFunctionOnSet(f, R)
               B == SumFunctionOnSet(g, R)
               C == SumFunctionOnSet(h, R)
    <3>7. FitTogether(A, B, C) /\ A \in Nat /\ B \in Nat /\ C \in Nat
      BY <3>4, <3>6
    <3>8. f[x] \in Nat /\ g[x] \in Nat /\ h[x] \in Nat
      BY <3>2
    <3> HIDE DEF A, B, C, R
    <3>9. FitTogether(A + f[x], B + g[x], C + h[x])
      BY <3>2, <3>7, <3>8, OneMoreFits
    <3> QED BY <3>5, <3>9 DEF A, B, C
  <2> QED BY <2>1, <2>2
<1> HIDE DEF Good
<1>2. S \in Good
  BY <1>1, SubsetInduction
<1> QED BY <1>2 DEF Good

\* The sum over the instance's own operators.
LEMMA FundingOperators ==
    ASSUME NEW f, NEW S
    PROVE  Funding!SumFunctionOnSet(f, S) = SumFunctionOnSet(f, S)
BY DEF Funding!SumFunctionOnSet, Funding!FoldFunctionOnSet, Funding!MapThenFoldSet,
   SumFunctionOnSet, FoldFunctionOnSet, MapThenFoldSet

\* The sums of the roots of a round's projects ps, by id.
RootsOf(ps) ==
    [p \in Funding!ProjectIds |-> IF ps[p] = None THEN 0 ELSE ps[p].sqrt_sum_contributions]

\* What they raised.
RaisedOf(ps) ==
    [p \in Funding!ProjectIds |-> IF ps[p] = None THEN 0 ELSE ps[p].total_raised]

\* What they may still claim.
OwedOf(ps) ==
    [p \in Funding!ProjectIds |-> IF ps[p] = None THEN 0 ELSE ps[p].total_matching]

\* What they are matched with when the round is finalized.
MatchesOf(ps) ==
    [p \in Funding!ProjectIds |-> IF ps[p] = None THEN 0 ELSE Funding!Match(ps[p])]

\* The sum of such a count over the ids.
Total(f) == SumFunctionOnSet(f, Funding!ProjectIds)

\* The projects a round may have.
RoundProjects == [Funding!ProjectIds -> Funding!FundingProject \cup {None}]

\* The roots of a project's contributions do not fall short of what it raised by
\* more than the floors explain.
RootsCover(x) ==
    x.total_raised <= x.sqrt_sum_contributions * x.sqrt_sum_contributions
                      + 2 * x.sqrt_sum_contributions

\* A round x, its projects ps and what was claimed from it, c, agree.
RoundAgrees(x, ps, c) ==
    /\ \A p \in Funding!ProjectIds : ps[p] # None => RootsCover(ps[p])
    /\ x = None => c = 0 /\ \A p \in Funding!ProjectIds : ps[p] = None
    /\ x # None =>
         /\ \A p \in Funding!ProjectIds : ps[p] # None => p <= x.project_count
         /\ x.total_contributions = Total(RaisedOf(ps))
         /\ x.total_matching_distributed = Total(OwedOf(ps)) + c
         /\ x.total_matching_distributed <= x.matching_pool_balance
         /\ ~x.is_finalized => c = 0

\* What is in custody of a round.
HeldOf(x, c) ==
    IF x = None THEN 0 ELSE x.matching_pool_balance + x.total_contributions - c

\* What is in custody, by round.
HeldByRound == [r \in Funding!RoundIds |-> HeldOf(rounds[r], claimed[r])]

\* The rounds are well typed, each agrees with its projects and claims, and the
\* custody is what they hold together.
FundingInv ==
    /\ Funding!TypeOK
    /\ \A r \in Funding!RoundIds : RoundAgrees(rounds[r], projects[r], claimed[r])
    /\ roundsCustody = SumFunctionOnSet(HeldByRound, Funding!RoundIds)

\* The module's assumption.
LEMMA FundingConstants ==
    /\ QF_MAX_PROJECTS \in Nat /\ MaxRounds \in Nat /\ Amounts \subseteq Nat /\ Pools \subseteq Nat
    /\ QF_ROUND_DURATION \in Nat
    /\ None \notin Funding!QuadraticFundingRound /\ None \notin Funding!FundingProject
    /\ IsFiniteSet(Funding!ProjectIds) /\ IsFiniteSet(Funding!RoundIds)
<1>1. QF_MAX_PROJECTS \in Nat /\ MaxRounds \in Nat /\ Amounts \subseteq Nat /\ Pools \subseteq Nat
      /\ QF_ROUND_DURATION \in Nat
  BY ServicesAssumption DEF Funding!QuadraticAssumption
<1>2. None \notin Funding!QuadraticFundingRound /\ None \notin Funding!FundingProject
  BY ServicesAssumption DEF Funding!QuadraticAssumption
<1>3. IsFiniteSet(1..QF_MAX_PROJECTS) /\ IsFiniteSet(1..MaxRounds)
  BY <1>1, FS_Interval
<1> QED BY <1>1, <1>2, <1>3 DEF Funding!ProjectIds, Funding!RoundIds

\* The four counts are natural numbers.
LEMMA CountsNat ==
    ASSUME NEW ps \in RoundProjects
    PROVE  /\ RootsOf(ps) \in [Funding!ProjectIds -> Nat]
           /\ RaisedOf(ps) \in [Funding!ProjectIds -> Nat]
           /\ OwedOf(ps) \in [Funding!ProjectIds -> Nat]
           /\ MatchesOf(ps) \in [Funding!ProjectIds -> Nat]
           /\ Total(RootsOf(ps)) \in Nat /\ Total(RaisedOf(ps)) \in Nat
           /\ Total(OwedOf(ps)) \in Nat /\ Total(MatchesOf(ps)) \in Nat
<1>1. \A p \in Funding!ProjectIds : ps[p] # None => ps[p] \in Funding!FundingProject
  BY DEF RoundProjects
<1>2. /\ RootsOf(ps) \in [Funding!ProjectIds -> Nat]
      /\ RaisedOf(ps) \in [Funding!ProjectIds -> Nat]
      /\ OwedOf(ps) \in [Funding!ProjectIds -> Nat]
  BY <1>1 DEF RootsOf, RaisedOf, OwedOf, Funding!FundingProject
<1>3. ASSUME NEW x \in Funding!FundingProject
      PROVE  Funding!Match(x) \in Nat
  BY DEF Funding!Match, Funding!Math!QfMatchingForProject, Funding!Math!AtLeast,
     Funding!FundingProject
<1>4. MatchesOf(ps) \in [Funding!ProjectIds -> Nat]
  BY <1>1, <1>3 DEF MatchesOf
<1>5. ASSUME NEW f \in [Funding!ProjectIds -> Nat] PROVE Total(f) \in Nat
  BY FundingConstants, SumNat DEF Total
<1> QED BY <1>2, <1>4, <1>5

\* A project is registered under the next id, with nothing raised.
LEMMA RegisterAgrees ==
    ASSUME NEW x \in Funding!QuadraticFundingRound, NEW ps \in RoundProjects, NEW c \in Nat,
           NEW o \in Owners, RoundAgrees(x, ps, c), x.project_count < QF_MAX_PROJECTS
    PROVE  LET y == [x EXCEPT !.project_count = @ + 1]
               qs == [ps EXCEPT ![x.project_count + 1] = Funding!NewProject(o)]
           IN  /\ y \in Funding!QuadraticFundingRound /\ qs \in RoundProjects
               /\ RoundAgrees(y, qs, c)
               /\ HeldOf(y, c) = HeldOf(x, c)
<1> DEFINE k == x.project_count + 1
           n == Funding!NewProject(o)
           y == [x EXCEPT !.project_count = @ + 1]
           qs == [ps EXCEPT ![k] = n]
<1>1. x.project_count \in Nat /\ k \in Funding!ProjectIds /\ x # None
  BY FundingConstants DEF Funding!QuadraticFundingRound, Funding!ProjectIds
<1>2. y \in Funding!QuadraticFundingRound
  BY FundingConstants DEF Funding!QuadraticFundingRound
<1>3. n \in Funding!FundingProject /\ n # None
  BY FundingConstants DEF Funding!NewProject, Funding!FundingProject
<1>4. n.total_raised = 0 /\ n.total_matching = 0 /\ n.sqrt_sum_contributions = 0
  BY DEF Funding!NewProject
<1>5. /\ y.project_count = k /\ y.total_contributions = x.total_contributions
      /\ y.total_matching_distributed = x.total_matching_distributed
      /\ y.matching_pool_balance = x.matching_pool_balance
      /\ y.is_finalized = x.is_finalized
  BY DEF Funding!QuadraticFundingRound
<1> HIDE DEF n, y
<1>6. y # None
  BY <1>2, FundingConstants
<1>7. qs \in RoundProjects
  BY <1>3 DEF RoundProjects
<1>8. ps[k] = None
  <2>1. ~(k <= x.project_count)
    BY <1>1
  <2> QED BY <1>1, <2>1 DEF RoundAgrees
<1>9. \A p \in Funding!ProjectIds : qs[p] = IF p = k THEN n ELSE ps[p]
  BY DEF RoundProjects
<1> HIDE DEF qs
<1>10. RaisedOf(qs) = RaisedOf(ps) /\ OwedOf(qs) = OwedOf(ps)
  BY <1>3, <1>4, <1>8, <1>9 DEF RaisedOf, OwedOf
<1>11. \A p \in Funding!ProjectIds : qs[p] # None => RootsCover(qs[p])
  <2>1. RootsCover(n)
    BY <1>4 DEF RootsCover
  <2> QED BY <1>9, <2>1 DEF RoundAgrees
<1>12. \A p \in Funding!ProjectIds : qs[p] # None => p <= y.project_count
  <2> SUFFICES ASSUME NEW p \in Funding!ProjectIds, qs[p] # None PROVE p <= k
    BY <1>5
  <2>1. CASE p = k
    BY <2>1, <1>1
  <2>2. CASE p # k
    <3>1. p <= x.project_count
      BY <1>1, <1>9, <2>2 DEF RoundAgrees
    <3> QED BY <3>1, <1>1 DEF Funding!ProjectIds
  <2> QED BY <2>1, <2>2
<1>13. RoundAgrees(y, qs, c)
  BY <1>1, <1>5, <1>6, <1>10, <1>11, <1>12 DEF RoundAgrees
<1>14. HeldOf(y, c) = HeldOf(x, c)
  BY <1>1, <1>5, <1>6 DEF HeldOf
<1> QED BY <1>2, <1>7, <1>13, <1>14 DEF y, qs, n

\* A contribution adds its amount and its root to the project.
LEMMA RaisedProject ==
    ASSUME NEW x \in Funding!FundingProject, NEW a \in Nat, Funding!isqrt(a) \in Nat
    PROVE  /\ Funding!Raised(x, a) \in Funding!FundingProject
           /\ Funding!Raised(x, a).total_raised = x.total_raised + a
           /\ Funding!Raised(x, a).total_matching = x.total_matching
           /\ Funding!Raised(x, a).sqrt_sum_contributions
                = x.sqrt_sum_contributions + Funding!isqrt(a)
<1> DEFINE t == x.total_raised + a
           k == x.contributor_count + 1
           root == x.sqrt_sum_contributions + Funding!isqrt(a)
           y == [x EXCEPT !.total_raised = t, !.contributor_count = k,
                          !.sqrt_sum_contributions = root]
<1>1. t \in Nat /\ k \in Nat /\ root \in Nat
  BY DEF Funding!FundingProject
<1>2. Funding!Raised(x, a) = y
  BY DEF Funding!Raised
<1> HIDE DEF t, k, root
<1>3. y \in Funding!FundingProject
  BY <1>1 DEF Funding!FundingProject
<1>4. y.total_raised = t /\ y.total_matching = x.total_matching
      /\ y.sqrt_sum_contributions = root
  BY DEF Funding!FundingProject
<1> HIDE DEF y
<1> QED BY <1>2, <1>3, <1>4 DEF t, root

\* A contribution is counted by the project and by its round.
LEMMA ContributeAgrees ==
    ASSUME NEW x \in Funding!QuadraticFundingRound, NEW ps \in RoundProjects, NEW c \in Nat,
           NEW p \in Funding!ProjectIds, NEW a \in Nat, RoundAgrees(x, ps, c), ps[p] # None
    PROVE  LET y == [x EXCEPT !.total_contributions = @ + a]
               qs == [ps EXCEPT ![p] = Funding!Raised(@, a)]
           IN  /\ y \in Funding!QuadraticFundingRound /\ qs \in RoundProjects
               /\ RoundAgrees(y, qs, c)
               /\ HeldOf(y, c) = HeldOf(x, c) + a
<1> DEFINE old == ps[p]
           new == Funding!Raised(old, a)
           root == Funding!isqrt(a)
           y == [x EXCEPT !.total_contributions = @ + a]
           qs == [ps EXCEPT ![p] = new]
<1>1. x # None /\ old \in Funding!FundingProject
  BY FundingConstants DEF RoundProjects
<1>2. root \in Nat /\ a <= root * root + 2 * root
  BY IsqrtExact
<1> HIDE DEF root
<1>3. /\ new \in Funding!FundingProject
      /\ new.total_raised = old.total_raised + a
      /\ new.total_matching = old.total_matching
      /\ new.sqrt_sum_contributions = old.sqrt_sum_contributions + root
  <2> HIDE DEF old
  <2> QED BY <1>1, <1>2, RaisedProject DEF root
<1>4. new # None
  BY <1>3, FundingConstants
<1>5. /\ y \in Funding!QuadraticFundingRound
      /\ y.total_contributions = x.total_contributions + a
      /\ y.project_count = x.project_count
      /\ y.total_matching_distributed = x.total_matching_distributed
      /\ y.matching_pool_balance = x.matching_pool_balance
      /\ y.is_finalized = x.is_finalized
  BY DEF Funding!QuadraticFundingRound
<1>6. y # None
  BY <1>5, FundingConstants
<1> HIDE DEF y
<1>7. qs \in RoundProjects
  BY <1>3 DEF RoundProjects
<1>8. \A q \in Funding!ProjectIds : qs[q] = IF q = p THEN new ELSE ps[q]
  BY DEF RoundProjects
<1>9. RootsCover(new)
  <2> DEFINE s == old.sqrt_sum_contributions
             t == old.total_raised
  <2>1. s \in Nat /\ t \in Nat /\ t <= s * s + 2 * s
    BY <1>1 DEF RoundAgrees, RootsCover, Funding!FundingProject
  <2> HIDE DEF s, t
  <2>2. (s + root) * (s + root) = s * s + 2 * (s * root) + root * root
    BY <1>2, <2>1, Z3
  <2>3. s * root \in Nat /\ s * s \in Nat /\ root * root \in Nat
    BY <1>2, <2>1
  <2> DEFINE ss == s * s
             sr == s * root
             rr == root * root
  <2>4. ss \in Nat /\ sr \in Nat /\ rr \in Nat /\ t <= ss + 2 * s /\ a <= rr + 2 * root
    BY <1>2, <2>1, <2>3
  <2> HIDE DEF ss, sr, rr
  <2>5. t + a <= ss + 2 * sr + rr + 2 * (s + root)
    BY <1>2, <2>1, <2>4
  <2>6. t + a <= (s + root) * (s + root) + 2 * (s + root)
    BY <2>2, <2>5 DEF ss, sr, rr
  <2> HIDE DEF new
  <2> QED BY <1>3, <2>6 DEF RootsCover, s, t
<1> HIDE DEF new, old, qs
<1>10. \A q \in Funding!ProjectIds : qs[q] # None => RootsCover(qs[q])
  BY <1>8, <1>9 DEF RoundAgrees
<1>11. \A q \in Funding!ProjectIds : qs[q] # None => q <= y.project_count
  BY <1>1, <1>5, <1>8 DEF RoundAgrees
<1>12. OwedOf(qs) = OwedOf(ps)
  BY <1>3, <1>4, <1>8 DEF OwedOf, old
<1>13. Total(RaisedOf(qs)) = Total(RaisedOf(ps)) + a
  <2>1. /\ RaisedOf(ps) \in [Funding!ProjectIds -> Nat]
        /\ RaisedOf(qs) \in [Funding!ProjectIds -> Nat]
        /\ Total(RaisedOf(ps)) \in Nat /\ Total(RaisedOf(qs)) \in Nat
    BY <1>7, CountsNat
  <2>2. \A q \in Funding!ProjectIds : q # p => RaisedOf(qs)[q] = RaisedOf(ps)[q]
    BY <1>8 DEF RaisedOf
  <2>3. RaisedOf(qs)[p] = RaisedOf(ps)[p] + a
    BY <1>3, <1>4, <1>8 DEF RaisedOf, old
  <2>4. Total(RaisedOf(qs)) = Total(RaisedOf(ps)) - RaisedOf(ps)[p] + RaisedOf(qs)[p]
    BY <2>1, <2>2, FundingConstants, SumExcept DEF Total
  <2>5. RaisedOf(ps)[p] \in Nat
    BY <2>1
  <2> QED BY <2>1, <2>3, <2>4, <2>5
<1>14. RoundAgrees(y, qs, c)
  <2>1. x.total_contributions = Total(RaisedOf(ps))
    BY <1>1 DEF RoundAgrees
  <2> QED BY <1>1, <1>5, <1>6, <1>10, <1>11, <1>12, <1>13, <2>1 DEF RoundAgrees
<1>15. HeldOf(y, c) = HeldOf(x, c) + a
  BY <1>1, <1>5, <1>6 DEF HeldOf, Funding!QuadraticFundingRound
<1>16. qs = [ps EXCEPT ![p] = Funding!Raised(@, a)]
  BY DEF qs, new, old
<1> QED BY <1>5, <1>7, <1>14, <1>15, <1>16 DEF y

\* A new round has no projects, and its pool is in custody.
LEMMA InitAgrees ==
    ASSUME NEW ps \in RoundProjects, NEW c \in Nat, NEW pool \in Nat, now \in Nat,
           RoundAgrees(None, ps, c)
    PROVE  LET y == Funding!NewRound(pool)
           IN  /\ y \in Funding!QuadraticFundingRound
               /\ RoundAgrees(y, ps, c)
               /\ HeldOf(y, c) = HeldOf(None, c) + pool
<1> DEFINE y == Funding!NewRound(pool)
<1>1. /\ y \in Funding!QuadraticFundingRound
      /\ y.matching_pool_balance = pool /\ y.total_contributions = 0
      /\ y.total_matching_distributed = 0 /\ ~y.is_finalized
  BY FundingConstants DEF Funding!NewRound, Funding!QuadraticFundingRound
<1> HIDE DEF y
<1>2. y # None
  BY <1>1, FundingConstants
<1>3. c = 0 /\ \A p \in Funding!ProjectIds : ps[p] = None
  BY DEF RoundAgrees
<1>4. /\ \A p \in Funding!ProjectIds : RaisedOf(ps)[p] = 0
      /\ \A p \in Funding!ProjectIds : OwedOf(ps)[p] = 0
  BY <1>3 DEF RaisedOf, OwedOf
<1>5. Total(RaisedOf(ps)) = 0 /\ Total(OwedOf(ps)) = 0
  BY <1>4, FundingConstants, SumZero DEF Total
<1>6. RoundAgrees(y, ps, c)
  BY <1>1, <1>2, <1>3, <1>5 DEF RoundAgrees
<1>7. HeldOf(y, c) = HeldOf(None, c) + pool
  BY <1>1, <1>2, <1>3 DEF HeldOf
<1> QED BY <1>1, <1>6, <1>7 DEF y

\* The matches of a round whose budget fits its pool fit the pool as well.
LEMMA MatchesFitPool ==
    ASSUME NEW ps \in RoundProjects, NEW pool \in Nat,
           \A p \in Funding!ProjectIds : ps[p] # None => RootsCover(ps[p]),
           Total(RootsOf(ps)) * Total(RootsOf(ps)) - Total(RaisedOf(ps)) <= pool
    PROVE  Total(MatchesOf(ps)) <= pool
<1>1. \A p \in Funding!ProjectIds : ps[p] # None => ps[p] \in Funding!FundingProject
  BY DEF RoundProjects
<1>2. ASSUME NEW p \in Funding!ProjectIds
      PROVE  RaisedOf(ps)[p] <= RootsOf(ps)[p] * RootsOf(ps)[p] + 2 * RootsOf(ps)[p]
  <2>1. CASE ps[p] = None
    BY <2>1 DEF RaisedOf, RootsOf
  <2>2. CASE ps[p] # None
    BY <2>2 DEF RaisedOf, RootsOf, RootsCover
  <2> QED BY <2>1, <2>2
<1>3. ASSUME NEW p \in Funding!ProjectIds
      PROVE  MatchesOf(ps)[p] =
               IF RootsOf(ps)[p] * RootsOf(ps)[p] - RaisedOf(ps)[p] > 0
               THEN RootsOf(ps)[p] * RootsOf(ps)[p] - RaisedOf(ps)[p] ELSE 0
  <2>1. CASE ps[p] = None
    BY <2>1 DEF RaisedOf, RootsOf, MatchesOf
  <2>2. CASE ps[p] # None
    <3> DEFINE s == ps[p].sqrt_sum_contributions
               t == ps[p].total_raised
    <3>1. s \in Nat /\ t \in Nat
      BY <1>1, <2>2 DEF Funding!FundingProject
    <3>2. MatchesOf(ps)[p] = Funding!Math!AtLeast(s * s - t, 0)
      BY <2>2 DEF MatchesOf, Funding!Match, Funding!Math!QfMatchingForProject
    <3>3. RootsOf(ps)[p] = s /\ RaisedOf(ps)[p] = t
      BY <2>2 DEF RaisedOf, RootsOf
    <3>4. s * s \in Nat
      BY <3>1
    <3> DEFINE ss == s * s
    <3>5. ss \in Nat
      BY <3>4
    <3> HIDE DEF s, t, ss
    <3>6. Funding!Math!AtLeast(ss - t, 0) = IF ss - t > 0 THEN ss - t ELSE 0
      BY <3>1, <3>5 DEF Funding!Math!AtLeast
    <3> QED BY <3>2, <3>3, <3>6 DEF ss
  <2> QED BY <2>1, <2>2
<1> DEFINE A == Total(RootsOf(ps))
           T == Total(RaisedOf(ps))
           M == Total(MatchesOf(ps))
<1>4. FitTogether(A, T, M)
  <2>1. /\ RootsOf(ps) \in [Funding!ProjectIds -> Nat]
        /\ RaisedOf(ps) \in [Funding!ProjectIds -> Nat]
        /\ MatchesOf(ps) \in [Funding!ProjectIds -> Nat]
    BY CountsNat
  <2>2. FitTogether(SumFunctionOnSet(RootsOf(ps), Funding!ProjectIds),
                    SumFunctionOnSet(RaisedOf(ps), Funding!ProjectIds),
                    SumFunctionOnSet(MatchesOf(ps), Funding!ProjectIds))
    BY <1>2, <1>3, <2>1, FundingConstants, MatchesFit
  <2> QED BY <2>2 DEF Total
<1>5. A \in Nat /\ T \in Nat /\ M \in Nat
  BY CountsNat
<1>6. A * A - T <= pool
  OBVIOUS
<1> HIDE DEF A, T, M
<1>7. A * A \in Nat
  BY <1>5
<1>8. M > 0 => M <= A * A - T
  BY <1>4 DEF FitTogether
<1>9. M <= pool
  <2> DEFINE AA == A * A
  <2>1. AA \in Nat /\ AA - T <= pool /\ (M > 0 => M <= AA - T)
    BY <1>6, <1>7, <1>8
  <2> HIDE DEF AA
  <2> QED BY <1>5, <2>1
<1> QED BY <1>9 DEF M

\* Finalizing a round announces its projects' matches, once.
LEMMA FinalizeAgrees ==
    ASSUME NEW x \in Funding!QuadraticFundingRound, NEW ps \in RoundProjects, NEW c \in Nat,
           RoundAgrees(x, ps, c), ~x.is_finalized,
           Total(RootsOf(ps)) * Total(RootsOf(ps)) - x.total_contributions
             <= x.matching_pool_balance
    PROVE  LET y == [x EXCEPT !.is_finalized = TRUE,
                              !.total_matching_distributed = Total(MatchesOf(ps))]
               qs == [p \in Funding!ProjectIds |->
                        IF ps[p] = None THEN None
                        ELSE [ps[p] EXCEPT !.total_matching = Funding!Match(ps[p])]]
           IN  /\ y \in Funding!QuadraticFundingRound /\ qs \in RoundProjects
               /\ RoundAgrees(y, qs, c)
               /\ HeldOf(y, c) = HeldOf(x, c)
<1> DEFINE m == Total(MatchesOf(ps))
           y == [x EXCEPT !.is_finalized = TRUE, !.total_matching_distributed = m]
           qs == [p \in Funding!ProjectIds |->
                    IF ps[p] = None THEN None
                    ELSE [ps[p] EXCEPT !.total_matching = Funding!Match(ps[p])]]
<1>1. x # None /\ m \in Nat
  BY FundingConstants, CountsNat
<1>2. m <= x.matching_pool_balance
  <2>1. x.total_contributions = Total(RaisedOf(ps)) /\ x.matching_pool_balance \in Nat
    BY <1>1 DEF RoundAgrees, Funding!QuadraticFundingRound
  <2>2. \A p \in Funding!ProjectIds : ps[p] # None => RootsCover(ps[p])
    BY DEF RoundAgrees
  <2> QED BY <2>1, <2>2, MatchesFitPool
<1> HIDE DEF m
<1>3. /\ y \in Funding!QuadraticFundingRound
      /\ y.total_matching_distributed = m /\ y.is_finalized
      /\ y.project_count = x.project_count
      /\ y.total_contributions = x.total_contributions
      /\ y.matching_pool_balance = x.matching_pool_balance
  BY <1>1 DEF Funding!QuadraticFundingRound
<1>4. y # None
  BY <1>3, FundingConstants
<1>5. ASSUME NEW p \in Funding!ProjectIds, ps[p] # None
      PROVE  /\ qs[p] \in Funding!FundingProject /\ qs[p] # None
             /\ qs[p].total_raised = ps[p].total_raised
             /\ qs[p].sqrt_sum_contributions = ps[p].sqrt_sum_contributions
             /\ qs[p].total_matching = Funding!Match(ps[p])
  <2>1. ps[p] \in Funding!FundingProject
    BY <1>5 DEF RoundProjects
  <2>2. Funding!Match(ps[p]) \in Nat
    <3>1. MatchesOf(ps)[p] \in Nat
      BY CountsNat
    <3> QED BY <1>5, <3>1 DEF MatchesOf
  <2> DEFINE z == ps[p]
             k == Funding!Match(z)
  <2>3. qs[p] = [z EXCEPT !.total_matching = k]
    BY <1>5
  <2>4. z \in Funding!FundingProject /\ k \in Nat
    BY <2>1, <2>2
  <2> HIDE DEF z, k, qs
  <2>5. /\ qs[p] \in Funding!FundingProject
        /\ qs[p].total_raised = z.total_raised
        /\ qs[p].sqrt_sum_contributions = z.sqrt_sum_contributions
        /\ qs[p].total_matching = k
    BY <2>3, <2>4 DEF Funding!FundingProject
  <2>6. qs[p] # None
    BY <2>5, FundingConstants
  <2> QED BY <2>5, <2>6 DEF z, k
<1>6. \A p \in Funding!ProjectIds : ps[p] = None => qs[p] = None
  OBVIOUS
<1>7. qs \in RoundProjects
  BY <1>5, <1>6 DEF RoundProjects
<1> HIDE DEF y, qs
<1>8. RaisedOf(qs) = RaisedOf(ps) /\ OwedOf(qs) = MatchesOf(ps)
  BY <1>5, <1>6 DEF RaisedOf, OwedOf, MatchesOf
<1>9. \A p \in Funding!ProjectIds : qs[p] # None => RootsCover(qs[p])
  BY <1>5, <1>6 DEF RoundAgrees, RootsCover
<1>10. \A p \in Funding!ProjectIds : qs[p] # None => p <= y.project_count
  BY <1>1, <1>3, <1>6 DEF RoundAgrees
<1>11. c = 0
  BY <1>1 DEF RoundAgrees
<1>12. RoundAgrees(y, qs, c)
  <2>1. x.total_contributions = Total(RaisedOf(ps))
    BY <1>1 DEF RoundAgrees
  <2>2. y.total_matching_distributed = Total(OwedOf(qs)) + c
    BY <1>1, <1>3, <1>8, <1>11 DEF m
  <2> QED BY <1>2, <1>3, <1>4, <1>8, <1>9, <1>10, <2>1, <2>2 DEF RoundAgrees
<1>13. HeldOf(y, c) = HeldOf(x, c)
  BY <1>1, <1>3, <1>4 DEF HeldOf
<1> QED BY <1>3, <1>7, <1>12, <1>13 DEF y, qs, m

\* A claim moves a project's match from what is owed to what was claimed.
LEMMA ClaimAgrees ==
    ASSUME NEW x \in Funding!QuadraticFundingRound, NEW ps \in RoundProjects, NEW c \in Nat,
           NEW p \in Funding!ProjectIds, RoundAgrees(x, ps, c), x.is_finalized, ps[p] # None
    PROVE  LET m == ps[p].total_matching
               qs == [ps EXCEPT ![p].total_matching = 0]
           IN  /\ m \in Nat /\ qs \in RoundProjects
               /\ RoundAgrees(x, qs, c + m)
               /\ HeldOf(x, c + m) = HeldOf(x, c) - m
<1> DEFINE z == ps[p]
           m == z.total_matching
           new == [z EXCEPT !.total_matching = 0]
           qs == [ps EXCEPT ![p] = new]
<1>1. x # None /\ z \in Funding!FundingProject /\ m \in Nat
  BY FundingConstants DEF RoundProjects, Funding!FundingProject
<1>2. /\ new \in Funding!FundingProject /\ new.total_matching = 0
      /\ new.total_raised = z.total_raised
      /\ new.sqrt_sum_contributions = z.sqrt_sum_contributions
  <2> HIDE DEF z, m
  <2> QED BY <1>1 DEF Funding!FundingProject
<1>3. new # None
  BY <1>2, FundingConstants
<1> HIDE DEF new
<1>4. qs \in RoundProjects
  BY <1>2 DEF RoundProjects
<1>5. \A q \in Funding!ProjectIds : qs[q] = IF q = p THEN new ELSE ps[q]
  BY DEF RoundProjects
<1>6. qs = [ps EXCEPT ![p].total_matching = 0]
  BY DEF new
<1> HIDE DEF qs
<1>7. RaisedOf(qs) = RaisedOf(ps)
  BY <1>2, <1>3, <1>5 DEF RaisedOf
<1>8. Total(OwedOf(ps)) = Total(OwedOf(qs)) + m
  <2>1. /\ OwedOf(ps) \in [Funding!ProjectIds -> Nat]
        /\ OwedOf(qs) \in [Funding!ProjectIds -> Nat]
        /\ Total(OwedOf(ps)) \in Nat /\ Total(OwedOf(qs)) \in Nat
    BY <1>4, CountsNat
  <2>2. \A q \in Funding!ProjectIds : q # p => OwedOf(qs)[q] = OwedOf(ps)[q]
    BY <1>5 DEF OwedOf
  <2>3. OwedOf(qs)[p] = 0 /\ OwedOf(ps)[p] = m
    BY <1>2, <1>3, <1>5 DEF OwedOf
  <2>4. Total(OwedOf(qs)) = Total(OwedOf(ps)) - OwedOf(ps)[p] + OwedOf(qs)[p]
    BY <2>1, <2>2, FundingConstants, SumExcept DEF Total
  <2> HIDE DEF m
  <2> QED BY <1>1, <2>1, <2>3, <2>4
<1>9. \A q \in Funding!ProjectIds : qs[q] # None => RootsCover(qs[q])
  <2>1. RootsCover(new)
    BY <1>2 DEF RoundAgrees, RootsCover
  <2> QED BY <1>5, <2>1 DEF RoundAgrees
<1>10. \A q \in Funding!ProjectIds : qs[q] # None => q <= x.project_count
  BY <1>1, <1>5 DEF RoundAgrees
<1>11. x.total_matching_distributed = Total(OwedOf(qs)) + (c + m)
  <2>1. x.total_matching_distributed = Total(OwedOf(ps)) + c
    BY <1>1 DEF RoundAgrees
  <2>2. Total(OwedOf(qs)) \in Nat
    BY <1>4, CountsNat
  <2> HIDE DEF m
  <2> QED BY <1>1, <1>8, <2>1, <2>2
<1>12. RoundAgrees(x, qs, c + m)
  BY <1>1, <1>7, <1>9, <1>10, <1>11 DEF RoundAgrees
<1>13. HeldOf(x, c + m) = HeldOf(x, c) - m
  <2>1. x.matching_pool_balance \in Nat /\ x.total_contributions \in Nat
    BY DEF Funding!QuadraticFundingRound
  <2> HIDE DEF m
  <2> QED BY <1>1, <2>1 DEF HeldOf
<1> QED BY <1>1, <1>4, <1>6, <1>12, <1>13

\* The records of a round, when there is one.
LEMMA RoundRecords ==
    ASSUME Funding!TypeOK, NEW r \in Funding!RoundIds
    PROVE  /\ rounds[r] # None => rounds[r] \in Funding!QuadraticFundingRound
           /\ projects[r] \in RoundProjects
           /\ claimed[r] \in Nat
           /\ HeldOf(rounds[r], claimed[r]) \in Int
<1>1. /\ rounds[r] # None => rounds[r] \in Funding!QuadraticFundingRound
      /\ projects[r] \in RoundProjects
      /\ claimed[r] \in Nat
  BY DEF Funding!TypeOK, RoundProjects
<1>2. HeldOf(rounds[r], claimed[r]) \in Int
  BY <1>1 DEF HeldOf, Funding!QuadraticFundingRound
<1> QED BY <1>1, <1>2

\* A step that changes one round and the custody by what it changes of what the
\* round holds keeps what all rounds agree on.
LEMMA OneRound ==
    ASSUME FundingInv, Funding!TypeOK', NEW r \in Funding!RoundIds, NEW d \in Int,
           \A q \in Funding!RoundIds : q # r =>
              rounds'[q] = rounds[q] /\ projects'[q] = projects[q] /\ claimed'[q] = claimed[q],
           RoundAgrees(rounds'[r], projects'[r], claimed'[r]),
           HeldOf(rounds'[r], claimed'[r]) = HeldOf(rounds[r], claimed[r]) + d,
           roundsCustody' = roundsCustody + d
    PROVE  FundingInv'
<1>1. \A q \in Funding!RoundIds : RoundAgrees(rounds'[q], projects'[q], claimed'[q])
  BY DEF FundingInv
<1> DEFINE H == HeldByRound
           H2 == [q \in Funding!RoundIds |-> HeldOf(rounds'[q], claimed'[q])]
<1>2. H2 \in [Funding!RoundIds -> Int]
  <2>1. ASSUME NEW q \in Funding!RoundIds PROVE HeldOf(rounds'[q], claimed'[q]) \in Int
    <3>1. /\ rounds'[q] # None => rounds'[q] \in Funding!QuadraticFundingRound
          /\ claimed'[q] \in Nat
      BY DEF Funding!TypeOK
    <3> QED BY <3>1 DEF HeldOf, Funding!QuadraticFundingRound
  <2> QED BY <2>1
<1>3. H \in [Funding!RoundIds -> Int]
  <2>1. Funding!TypeOK
    BY DEF FundingInv
  <2> QED BY <2>1, RoundRecords DEF HeldByRound
<1>4. \A q \in Funding!RoundIds : q # r => H2[q] = H[q]
  BY DEF HeldByRound
<1>5. H2[r] = H[r] + d
  BY DEF HeldByRound
<1>6. H2 = HeldByRound'
  BY DEF HeldByRound
<1> HIDE DEF H, H2
<1>7. SumFunctionOnSet(H2, Funding!RoundIds)
        = SumFunctionOnSet(H, Funding!RoundIds) - H[r] + H2[r]
  BY <1>2, <1>3, <1>4, FundingConstants, SumExcept
<1>8. H[r] \in Int /\ SumFunctionOnSet(H, Funding!RoundIds) \in Int
  BY <1>3, FundingConstants, SumInt
<1>9. SumFunctionOnSet(H2, Funding!RoundIds) = SumFunctionOnSet(H, Funding!RoundIds) + d
  BY <1>5, <1>7, <1>8
<1>10. roundsCustody' = SumFunctionOnSet(HeldByRound', Funding!RoundIds)
  BY <1>6, <1>9 DEF FundingInv, H
<1> QED BY <1>1, <1>10 DEF FundingInv

\* Opening a round keeps the invariant.
LEMMA InitRoundKeeps ==
    ASSUME FundingInv, NEW pool \in Pools, Funding!InitQuadraticFundingRound(pool)
    PROVE  FundingInv'
<1>1. PICK r \in Funding!RoundIds :
         rounds[r] = None /\ rounds' = [rounds EXCEPT ![r] = Funding!NewRound(pool)]
  BY DEF Funding!InitQuadraticFundingRound
<1>2. /\ roundsCustody' = roundsCustody + pool
      /\ projects' = projects /\ claimed' = claimed
      /\ contribution' = contribution /\ now' = now
  BY DEF Funding!InitQuadraticFundingRound
<1>3. Funding!TypeOK /\ pool \in Nat /\ now \in Nat
  BY FundingConstants DEF FundingInv, Funding!TypeOK
<1> DEFINE y == Funding!NewRound(pool)
<1>4. /\ y \in Funding!QuadraticFundingRound
      /\ RoundAgrees(y, projects[r], claimed[r])
      /\ HeldOf(y, claimed[r]) = HeldOf(None, claimed[r]) + pool
  <2>1. RoundAgrees(None, projects[r], claimed[r])
    BY <1>1 DEF FundingInv
  <2> QED BY <1>3, <2>1, RoundRecords, InitAgrees
<1> HIDE DEF y
<1>5. /\ \A q \in Funding!RoundIds : q # r => rounds'[q] = rounds[q]
      /\ rounds'[r] = y
      /\ rounds' \in [Funding!RoundIds -> Funding!QuadraticFundingRound \cup {None}]
  <2>1. rounds' = [rounds EXCEPT ![r] = y]
    BY <1>1 DEF y
  <2> QED BY <1>3, <1>4, <2>1 DEF Funding!TypeOK
<1>6. Funding!TypeOK'
  BY <1>2, <1>3, <1>5 DEF Funding!TypeOK
<1> QED
  BY <1>1, <1>2, <1>3, <1>4, <1>5, <1>6, OneRound

\* Registering a project keeps the invariant.
LEMMA RegisterKeeps ==
    ASSUME FundingInv, NEW o \in Owners, NEW r \in Funding!RoundIds,
           Funding!RegisterQfProject(o, r)
    PROVE  FundingInv'
<1> DEFINE x == rounds[r]
           y == [x EXCEPT !.project_count = @ + 1]
           qs == [projects[r] EXCEPT ![x.project_count + 1] = Funding!NewProject(o)]
<1>1. /\ x # None /\ x.project_count < QF_MAX_PROJECTS
      /\ projects' = [projects EXCEPT ![r] = qs]
      /\ rounds' = [rounds EXCEPT ![r] = y]
      /\ roundsCustody' = roundsCustody /\ claimed' = claimed
      /\ contribution' = contribution /\ now' = now
  BY DEF Funding!RegisterQfProject, Funding!Running
<1>2. Funding!TypeOK /\ roundsCustody \in Nat
  BY DEF FundingInv, Funding!TypeOK
<1>3. /\ y \in Funding!QuadraticFundingRound /\ qs \in RoundProjects
      /\ RoundAgrees(y, qs, claimed[r])
      /\ HeldOf(y, claimed[r]) = HeldOf(x, claimed[r])
  <2>1. RoundAgrees(x, projects[r], claimed[r])
    BY DEF FundingInv
  <2>2. x \in Funding!QuadraticFundingRound /\ projects[r] \in RoundProjects /\ claimed[r] \in Nat
    BY <1>1, <1>2, RoundRecords
  <2> HIDE DEF x
  <2> QED BY <1>1, <2>1, <2>2, RegisterAgrees
<1> HIDE DEF y, qs
<1>4. /\ \A q \in Funding!RoundIds : q # r => rounds'[q] = rounds[q] /\ projects'[q] = projects[q]
      /\ rounds'[r] = y /\ projects'[r] = qs
  BY <1>1, <1>2 DEF Funding!TypeOK
<1>5. /\ rounds' \in [Funding!RoundIds -> Funding!QuadraticFundingRound \cup {None}]
      /\ projects' \in [Funding!RoundIds ->
                          [Funding!ProjectIds -> Funding!FundingProject \cup {None}]]
  BY <1>1, <1>2, <1>3 DEF Funding!TypeOK, RoundProjects
<1>6. Funding!TypeOK'
  BY <1>1, <1>2, <1>5 DEF Funding!TypeOK
<1>7. HeldOf(rounds'[r], claimed'[r]) = HeldOf(rounds[r], claimed[r]) + 0
  <2>1. HeldOf(rounds[r], claimed[r]) \in Int
    BY <1>2, RoundRecords
  <2> QED BY <1>1, <1>3, <1>4, <2>1
<1>8. roundsCustody' = roundsCustody + 0
  BY <1>1, <1>2
<1> QED
  BY <1>1, <1>3, <1>4, <1>6, <1>7, <1>8, OneRound

\* A contribution keeps the invariant.
LEMMA ContributionKeeps ==
    ASSUME FundingInv, NEW c \in Contributors, NEW r \in Funding!RoundIds,
           NEW p \in Funding!ProjectIds, NEW a \in Amounts,
           Funding!ContributeToQfProject(c, r, p, a)
    PROVE  FundingInv'
<1> DEFINE x == rounds[r]
           y == [x EXCEPT !.total_contributions = @ + a]
           qs == [projects[r] EXCEPT ![p] = Funding!Raised(@, a)]
<1>1. /\ x # None /\ projects[r][p] # None
      /\ projects' = [projects EXCEPT ![r] = qs]
      /\ rounds' = [rounds EXCEPT ![r] = y]
      /\ contribution' = [contribution EXCEPT ![r][p][c] = a]
      /\ roundsCustody' = roundsCustody + a /\ claimed' = claimed /\ now' = now
  BY DEF Funding!ContributeToQfProject, Funding!Running
<1>2. Funding!TypeOK /\ roundsCustody \in Nat /\ a \in Nat
  BY FundingConstants DEF FundingInv, Funding!TypeOK
<1>3. /\ y \in Funding!QuadraticFundingRound /\ qs \in RoundProjects
      /\ RoundAgrees(y, qs, claimed[r])
      /\ HeldOf(y, claimed[r]) = HeldOf(x, claimed[r]) + a
  <2>1. RoundAgrees(x, projects[r], claimed[r])
    BY DEF FundingInv
  <2>2. x \in Funding!QuadraticFundingRound /\ projects[r] \in RoundProjects /\ claimed[r] \in Nat
    BY <1>1, <1>2, RoundRecords
  <2> HIDE DEF x
  <2> QED BY <1>1, <1>2, <2>1, <2>2, ContributeAgrees
<1> HIDE DEF y, qs
<1>4. /\ \A q \in Funding!RoundIds : q # r => rounds'[q] = rounds[q] /\ projects'[q] = projects[q]
      /\ rounds'[r] = y /\ projects'[r] = qs
  BY <1>1, <1>2 DEF Funding!TypeOK
<1>5. /\ rounds' \in [Funding!RoundIds -> Funding!QuadraticFundingRound \cup {None}]
      /\ projects' \in [Funding!RoundIds ->
                          [Funding!ProjectIds -> Funding!FundingProject \cup {None}]]
  BY <1>1, <1>2, <1>3 DEF Funding!TypeOK, RoundProjects
<1>6. contribution' \in
        [Funding!RoundIds ->
           [Funding!ProjectIds -> [Contributors -> Funding!QFContribution \cup {None}]]]
  BY <1>1, <1>2 DEF Funding!TypeOK, Funding!QFContribution
<1>7. Funding!TypeOK'
  BY <1>1, <1>2, <1>5, <1>6 DEF Funding!TypeOK
<1>8. HeldOf(rounds'[r], claimed'[r]) = HeldOf(rounds[r], claimed[r]) + a
  BY <1>1, <1>3, <1>4
<1> QED
  BY <1>1, <1>2, <1>3, <1>4, <1>7, <1>8, OneRound

\* Finalizing a round keeps the invariant.
LEMMA FinalizeKeeps ==
    ASSUME FundingInv, NEW r \in Funding!RoundIds, Funding!FinalizeQfRound(r)
    PROVE  FundingInv'
<1> DEFINE x == rounds[r]
           ps == projects[r]
           y == [x EXCEPT !.is_finalized = TRUE,
                          !.total_matching_distributed = Total(MatchesOf(ps))]
           qs == [p \in Funding!ProjectIds |->
                    IF ps[p] = None THEN None
                    ELSE [ps[p] EXCEPT !.total_matching = Funding!Match(ps[p])]]
<1>1. Total(RootsOf(ps)) = Funding!CalculateTotalSqrtSum(r)
  BY FundingOperators DEF Funding!CalculateTotalSqrtSum, Funding!SqrtSums, Total, RootsOf
<1>2. Total(MatchesOf(ps)) = Funding!SumFunctionOnSet(Funding!Matching(r), Funding!ProjectIds)
  BY FundingOperators DEF Funding!Matching, Total, MatchesOf
<1>3. /\ x # None /\ ~x.is_finalized
      /\ Total(RootsOf(ps)) * Total(RootsOf(ps)) - x.total_contributions
           <= x.matching_pool_balance
  BY <1>1 DEF Funding!FinalizeQfRound, Funding!BudgetFits, Funding!MatchingBudget
<1>4. Funding!TypeOK /\ roundsCustody \in Nat
  BY DEF FundingInv, Funding!TypeOK
<1>5. /\ projects' = [projects EXCEPT ![r] = qs]
      /\ roundsCustody' = roundsCustody /\ claimed' = claimed
      /\ contribution' = contribution /\ now' = now
  BY DEF Funding!FinalizeQfRound
<1>6. rounds' = [rounds EXCEPT ![r] = y]
  <2> DEFINE d == Funding!SumFunctionOnSet(Funding!Matching(r), Funding!ProjectIds)
  <2>1. rounds' = [rounds EXCEPT ![r].is_finalized = TRUE, ![r].total_matching_distributed = d]
    BY DEF Funding!FinalizeQfRound
  <2>2. d = Total(MatchesOf(ps))
    BY <1>2
  <2>3. r \in DOMAIN rounds
    BY <1>4 DEF Funding!TypeOK
  <2> HIDE DEF d
  <2> QED BY <2>1, <2>2, <2>3
<1>7. /\ y \in Funding!QuadraticFundingRound /\ qs \in RoundProjects
      /\ RoundAgrees(y, qs, claimed[r])
      /\ HeldOf(y, claimed[r]) = HeldOf(x, claimed[r])
  <2>1. RoundAgrees(x, ps, claimed[r])
    BY DEF FundingInv
  <2>2. x \in Funding!QuadraticFundingRound /\ ps \in RoundProjects /\ claimed[r] \in Nat
    BY <1>3, <1>4, RoundRecords
  <2> HIDE DEF x, ps
  <2> QED BY <1>3, <2>1, <2>2, FinalizeAgrees
<1> HIDE DEF y, qs
<1>8. /\ \A q \in Funding!RoundIds : q # r => rounds'[q] = rounds[q] /\ projects'[q] = projects[q]
      /\ rounds'[r] = y /\ projects'[r] = qs
  BY <1>4, <1>5, <1>6 DEF Funding!TypeOK
<1>9. /\ rounds' \in [Funding!RoundIds -> Funding!QuadraticFundingRound \cup {None}]
      /\ projects' \in [Funding!RoundIds ->
                          [Funding!ProjectIds -> Funding!FundingProject \cup {None}]]
  BY <1>4, <1>5, <1>6, <1>7 DEF Funding!TypeOK, RoundProjects
<1>10. Funding!TypeOK'
  BY <1>4, <1>5, <1>9 DEF Funding!TypeOK
<1>11. HeldOf(rounds'[r], claimed'[r]) = HeldOf(rounds[r], claimed[r]) + 0
  <2>1. HeldOf(rounds[r], claimed[r]) \in Int
    BY <1>4, RoundRecords
  <2> QED BY <1>5, <1>7, <1>8, <2>1
<1>12. roundsCustody' = roundsCustody + 0
  BY <1>4, <1>5
<1> QED
  BY <1>5, <1>7, <1>8, <1>10, <1>11, <1>12, OneRound

\* A claim keeps the invariant.
LEMMA ClaimKeeps ==
    ASSUME FundingInv, NEW o \in Owners, NEW r \in Funding!RoundIds,
           NEW p \in Funding!ProjectIds, Funding!ClaimQfMatching(o, r, p)
    PROVE  FundingInv'
<1> DEFINE x == rounds[r]
           ps == projects[r]
           m == ps[p].total_matching
           qs == [ps EXCEPT ![p].total_matching = 0]
<1>1. /\ x # None /\ x.is_finalized /\ ps[p] # None
      /\ roundsCustody >= m /\ roundsCustody' = roundsCustody - m
      /\ projects' = [projects EXCEPT ![r] = qs]
      /\ claimed' = [claimed EXCEPT ![r] = claimed[r] + m]
      /\ rounds' = rounds /\ contribution' = contribution /\ now' = now
  BY DEF Funding!ClaimQfMatching
<1>2. Funding!TypeOK /\ roundsCustody \in Nat
  BY DEF FundingInv, Funding!TypeOK
<1>3. x \in Funding!QuadraticFundingRound /\ ps \in RoundProjects /\ claimed[r] \in Nat
  BY <1>1, <1>2, RoundRecords
<1>4. /\ m \in Nat /\ qs \in RoundProjects
      /\ RoundAgrees(x, qs, claimed[r] + m)
      /\ HeldOf(x, claimed[r] + m) = HeldOf(x, claimed[r]) - m
  <2>1. RoundAgrees(x, ps, claimed[r])
    BY DEF FundingInv
  <2> HIDE DEF x, ps
  <2> QED BY <1>1, <1>3, <2>1, ClaimAgrees
<1> HIDE DEF qs, m
<1>5. /\ \A q \in Funding!RoundIds : q # r => projects'[q] = projects[q] /\ claimed'[q] = claimed[q]
      /\ projects'[r] = qs /\ claimed'[r] = claimed[r] + m
  BY <1>1, <1>2 DEF Funding!TypeOK
<1>6. projects' \in [Funding!RoundIds ->
                       [Funding!ProjectIds -> Funding!FundingProject \cup {None}]]
  BY <1>1, <1>2, <1>4 DEF Funding!TypeOK, RoundProjects
<1>7. claimed' \in [Funding!RoundIds -> Nat]
  <2>1. claimed[r] + m \in Nat
    BY <1>3, <1>4
  <2> QED BY <1>1, <1>2, <2>1 DEF Funding!TypeOK
<1>8. roundsCustody' \in Nat
  BY <1>1, <1>2, <1>4
<1>9. Funding!TypeOK'
  BY <1>1, <1>2, <1>6, <1>7, <1>8 DEF Funding!TypeOK
<1>10. HeldOf(rounds'[r], claimed'[r]) = HeldOf(rounds[r], claimed[r]) + (0 - m)
  <2>1. HeldOf(rounds[r], claimed[r]) \in Int
    BY <1>2, RoundRecords
  <2> QED BY <1>1, <1>4, <1>5, <2>1
<1>11. roundsCustody' = roundsCustody + (0 - m) /\ 0 - m \in Int
  BY <1>1, <1>2, <1>4
<1> QED
  BY <1>1, <1>4, <1>5, <1>9, <1>10, <1>11, OneRound

\* The invariant holds of its own steps and of those of the others.
LEMMA FundingKeeps == FundingInv /\ [Next]_vars => FundingInv'
<1> SUFFICES ASSUME FundingInv, [Next]_vars PROVE FundingInv'
  OBVIOUS
<1>1. now' \in Nat
  BY ClockRuns DEF FundingInv, Funding!TypeOK
<1>2. ASSUME UNCHANGED fundingVars PROVE FundingInv'
  <2>1. HeldByRound' = HeldByRound
    BY <1>2 DEF HeldByRound, fundingVars
  <2>2. Funding!TypeOK'
    BY <1>1, <1>2 DEF FundingInv, Funding!TypeOK, fundingVars
  <2> QED BY <1>2, <2>1, <2>2 DEF FundingInv, fundingVars
<1>3. ASSUME Funding!Tick PROVE UNCHANGED fundingVars
  BY <1>3 DEF Funding!Tick, fundingVars
<1>4. ASSUME Funding!Next PROVE FundingInv'
  BY <1>2, <1>3, <1>4, InitRoundKeeps, RegisterKeeps, ContributionKeeps, FinalizeKeeps, ClaimKeeps
     DEF Funding!Next
<1> QED BY <1>2, <1>4, StepOfOne

\* The funding rounds' invariant holds throughout.
LEMMA FundingInvariance == Spec => []FundingInv
<1>1. ASSUME Init PROVE FundingInv
  <2>1. Funding!Init
    BY <1>1 DEF Init
  <2>2. StartTime \in Nat
    BY ServicesAssumption DEF Funding!QuadraticAssumption
  <2>3. Funding!TypeOK
    BY <2>1, <2>2 DEF Funding!Init, Funding!TypeOK
  <2>4. \A r \in Funding!RoundIds : RoundAgrees(rounds[r], projects[r], claimed[r])
    BY <2>1 DEF Funding!Init, RoundAgrees
  <2>5. \A r \in Funding!RoundIds : HeldByRound[r] = 0
    BY <2>1 DEF Funding!Init, HeldByRound, HeldOf
  <2>6. SumFunctionOnSet(HeldByRound, Funding!RoundIds) = 0
    BY <2>5, FundingConstants, SumZero
  <2> QED BY <2>1, <2>3, <2>4, <2>6 DEF FundingInv, Funding!Init
<1> QED
  BY <1>1, FundingKeeps, PTL DEF Spec

\* For any rounds, projects and contributions, in any order, what was claimed and
\* is still owed is what was announced, fits the pool of its round although every
\* project's match is clamped at zero, and is in custody beside the contributions
\* (finalize_qf_round, claim_qf_matching).
THEOREM MatchingAlwaysFits == Spec => []MatchingFits
<1>1. ASSUME FundingInv PROVE MatchingFits
  <2>1. ASSUME NEW r \in Funding!RoundIds, rounds[r] # None
        PROVE  /\ Funding!Owed(r) + claimed[r] = rounds[r].total_matching_distributed
               /\ rounds[r].total_matching_distributed <= rounds[r].matching_pool_balance
    <3>1. RoundAgrees(rounds[r], projects[r], claimed[r])
      BY <1>1 DEF FundingInv
    <3>2. Funding!Owed(r) = Total(OwedOf(projects[r]))
      BY FundingOperators DEF Funding!Owed, OwedOf, Total
    <3> QED BY <2>1, <3>1, <3>2 DEF RoundAgrees
  <2>2. Funding!Held = HeldByRound
    BY DEF Funding!Held, HeldByRound, HeldOf
  <2>3. roundsCustody = Funding!SumFunctionOnSet(Funding!Held, Funding!RoundIds)
    BY <1>1, <2>2, FundingOperators DEF FundingInv
  <2> QED BY <2>1, <2>3 DEF MatchingFits, Funding!MatchingFits
<1> QED
  BY <1>1, FundingInvariance, PTL

-----------------------------------------------------------------------------
(* Streams: the alumni tax is exact to the hundredth, and no pair draws    *)
(* more than its rates came to.                                            *)

\* What a stream x of a pair has come to at a time, drawn or not.
Accrued(x, time) == (time - x.start_time) * x.amount_per_second

\* What a pair drew, and with it what it may draw now, is within what it earned.
NotAhead(x, d, e, time) ==
    /\ d <= e
    /\ x # None => /\ x.start_time <= time
                   /\ d + (Accrued(x, time) - x.total_withdrawn) <= e

\* No pair of funder and student is ahead of its rates.
PairsNotAhead == \A p \in Stream!Pairs : NotAhead(stream[p], drawn[p], earned[p], now)

\* The inductive invariant of the streams.
StreamInv == Stream!TypeOK /\ Stream!TaxExact /\ PairsNotAhead

\* The whole hundreds of a number and the rest make up the number.
LEMMA Hundreds ==
    ASSUME NEW n \in Nat
    PROVE  /\ n \div 100 \in Nat /\ n % 100 \in 0..99
           /\ 100 * (n \div 100) + (n % 100) = n
OBVIOUS

\* A tax takes at most the amount, and tax and dust are what was due
\* (check_and_apply_alumni_tax).
LEMMA TaxDue ==
    ASSUME NEW amount \in Nat, NEW percentage \in 0..100, NEW dust \in 0..99
    PROVE  LET t == Stream!Math!AlumniTax(amount, percentage, dust) IN
           /\ t.tax_amount \in 0..amount /\ t.new_dust \in 0..99
           /\ 100 * t.tax_amount + t.new_dust = dust + amount * percentage
<1> DEFINE raw == amount * percentage
           kept == dust + (raw % 100)
<1>1. raw \in Nat /\ raw <= 100 * amount
  OBVIOUS
<1> HIDE DEF raw
<1>2. raw \div 100 \in Nat /\ raw % 100 \in 0..99 /\ 100 * (raw \div 100) + (raw % 100) = raw
  BY <1>1, Hundreds
<1>3. kept \in Nat
  BY <1>2
<1> DEFINE whole == raw \div 100
           more == kept \div 100
           rest == kept % 100
           tax == whole + more
<1>4. more \in Nat /\ rest \in 0..99 /\ 100 * more + rest = kept
  BY <1>3, Hundreds
<1>5. whole \in Nat /\ 100 * whole + kept = dust + raw
  BY <1>2
<1> HIDE DEF whole, more, rest, kept
<1>6. 100 * tax + rest = dust + raw
  BY <1>1, <1>3, <1>4, <1>5
<1>7. tax \in Nat /\ rest \in 0..99
  BY <1>4, <1>5
<1> HIDE DEF tax
<1>8. tax <= amount
  BY <1>1, <1>6, <1>7
<1>9. Stream!Math!AlumniTax(amount, percentage, dust) = [tax_amount |-> tax, new_dust |-> rest]
  BY DEF Stream!Math!AlumniTax, tax, whole, more, rest, kept, raw
<1> QED
  BY <1>6, <1>7, <1>8, <1>9 DEF raw

\* A second adds the rate.
LEMMA AccruedLater ==
    ASSUME NEW x \in Stream!Stream, NEW t \in Nat, Stream!StreamsAssumption
    PROVE  /\ Accrued(x, t + 1) = Accrued(x, t) + x.amount_per_second
           /\ Accrued(x, t) \in Int
           /\ x.amount_per_second \in Int /\ x.start_time \in Nat /\ x.total_withdrawn \in Nat
<1>1. x.amount_per_second \in Int /\ x.start_time \in Nat /\ x.total_withdrawn \in Nat
  BY DEF Stream!Stream, Stream!StreamsAssumption
<1> DEFINE d == t - x.start_time
           r == x.amount_per_second
<1>2. d \in Int /\ r \in Int
  BY <1>1
<1>3. d * r \in Int /\ (d + 1) * r = d * r + r
  BY <1>2
<1>4. (t + 1) - x.start_time = d + 1
  BY <1>1
<1> QED
  BY <1>1, <1>3, <1>4 DEF Accrued

\* Nobody streams at the start.
LEMMA StreamInit == Stream!StreamsAssumption /\ Stream!Init => StreamInv
<1> SUFFICES ASSUME Stream!StreamsAssumption, Stream!Init PROVE StreamInv
  OBVIOUS
<1>1. Stream!TypeOK
  BY DEF Stream!Init, Stream!TypeOK, Stream!StreamsAssumption
<1>2. Stream!TaxExact
  BY DEF Stream!Init, Stream!TaxExact
<1>3. PairsNotAhead
  BY DEF Stream!Init, PairsNotAhead, NotAhead
<1> QED
  BY <1>1, <1>2, <1>3 DEF StreamInv

\* Payments into the contract and pledges concern neither taxes nor streams.
LEMMA StreamOtherKeeps ==
    ASSUME Stream!StreamsAssumption, StreamInv,
           \/ \E a \in Inflows : Stream!Inflow(a)
           \/ \E s \in Students, pct \in Percentages : Stream!AlumniContributionPledge(s, pct)
           \/ UNCHANGED Stream!vars
    PROVE  StreamInv'
<1>1. UNCHANGED <<dustSweeper, stream, now, taxed, taxDue, earned, drawn>>
  BY DEF Stream!Inflow, Stream!AlumniContributionPledge, Stream!vars
<1>2. balance' \in Nat /\ pledge' \in [Students -> Percentages \cup {None}]
  <2>1. CASE \E a \in Inflows : Stream!Inflow(a)
    BY <2>1 DEF Stream!Inflow, StreamInv, Stream!TypeOK, Stream!StreamsAssumption
  <2>2. CASE \E s \in Students, pct \in Percentages : Stream!AlumniContributionPledge(s, pct)
    BY <2>2 DEF Stream!AlumniContributionPledge, StreamInv, Stream!TypeOK
  <2>3. CASE UNCHANGED Stream!vars
    BY <2>3 DEF Stream!vars, StreamInv, Stream!TypeOK
  <2> QED
    BY <2>1, <2>2, <2>3
<1>3. Stream!TypeOK'
  BY <1>1, <1>2 DEF StreamInv, Stream!TypeOK
<1>4. Stream!TaxExact' /\ PairsNotAhead'
  BY <1>1 DEF StreamInv, Stream!TaxExact, PairsNotAhead
<1> QED
  BY <1>3, <1>4 DEF StreamInv

\* A new stream has come to nothing yet.
LEMMA StreamCreateKeeps ==
    ASSUME Stream!StreamsAssumption, StreamInv,
           NEW f \in Sponsors, NEW s \in Students, NEW r \in Rates,
           Stream!CreateStream(f, s, r)
    PROVE  StreamInv'
<1> DEFINE p == <<f, s>>
           x == Stream!NewStream(r)
<1>1. p \in Stream!Pairs
  BY DEF Stream!Pairs
<1>2. now \in Nat /\ x \in Stream!Stream /\ x.start_time = now /\ x.total_withdrawn = 0
  BY DEF Stream!NewStream, Stream!Stream, StreamInv, Stream!TypeOK
<1>3. stream' = [stream EXCEPT ![p] = x]
  BY DEF Stream!CreateStream
<1>4. UNCHANGED <<balance, pledge, dustSweeper, taxed, taxDue, drawn, now, earned>>
  BY DEF Stream!CreateStream
<1> HIDE DEF p, x
<1>5. Stream!TypeOK'
  BY <1>2, <1>3, <1>4 DEF StreamInv, Stream!TypeOK
<1>6. Stream!TaxExact'
  BY <1>4 DEF StreamInv, Stream!TaxExact
<1>7. ASSUME NEW q \in Stream!Pairs
      PROVE  NotAhead(stream'[q], drawn[q], earned[q], now)
  <2>1. CASE q = p
    <3>1. stream'[q] = x
      BY <1>3, <2>1 DEF StreamInv, Stream!TypeOK
    <3>2. Accrued(x, now) = 0
      <4>1. x.amount_per_second \in Int
        BY <1>2, AccruedLater
      <4> QED
        BY <1>2, <4>1 DEF Accrued
    <3>3. drawn[q] \in Nat /\ earned[q] \in Nat /\ drawn[q] <= earned[q]
      BY DEF StreamInv, Stream!TypeOK, PairsNotAhead, NotAhead
    <3> QED
      BY <1>2, <3>1, <3>2, <3>3 DEF NotAhead
  <2>2. CASE q # p
    <3>1. stream'[q] = stream[q]
      BY <1>3, <2>2 DEF StreamInv, Stream!TypeOK
    <3> QED
      BY <3>1 DEF StreamInv, PairsNotAhead
  <2> QED
    BY <2>1, <2>2
<1>8. PairsNotAhead'
  BY <1>4, <1>7 DEF PairsNotAhead
<1> QED
  BY <1>5, <1>6, <1>8 DEF StreamInv

\* A withdrawal draws what the stream came to, and books its tax.
LEMMA StreamWithdrawKeeps ==
    ASSUME Stream!StreamsAssumption, StreamInv, NEW f \in Sponsors, NEW s \in Students,
           Stream!WithdrawFromStream(f, s)
    PROVE  StreamInv'
<1> DEFINE p == <<f, s>>
           old == stream[p]
           available == Stream!StreamAvailable(p)
           t == Stream!CheckAndApplyAlumniTax(s, available)
           due == IF pledge[s] = None THEN 0 ELSE available * pledge[s]
           x == [old EXCEPT !.total_withdrawn = @ + available]
<1>1. p \in Stream!Pairs /\ old \in Stream!Stream /\ old # None
  BY DEF Stream!Pairs, Stream!WithdrawFromStream, StreamInv, Stream!TypeOK
<1>2. /\ now \in Nat /\ Accrued(old, now) \in Int /\ old.total_withdrawn \in Nat
      /\ available = Accrued(old, now) - old.total_withdrawn
  BY <1>1, AccruedLater DEF Stream!StreamAvailable, Accrued, StreamInv, Stream!TypeOK
<1>3. available \in Nat
  BY <1>2 DEF Stream!WithdrawFromStream
<1>4. /\ balance >= t.final /\ balance' = balance - t.final
      /\ dustSweeper' = t.dust
      /\ stream' = [stream EXCEPT ![p] = x]
      /\ taxed' = taxed + (available - t.final)
      /\ taxDue' = taxDue + due
      /\ drawn' = [drawn EXCEPT ![p] = drawn[p] + available]
      /\ UNCHANGED <<pledge, now, earned>>
  BY <1>1 DEF Stream!WithdrawFromStream, StreamInv, Stream!TypeOK
<1>5. dustSweeper \in 0..99 /\ balance \in Nat /\ taxed \in Nat /\ taxDue \in Nat
  BY DEF StreamInv, Stream!TypeOK, Stream!TaxExact
<1> HIDE DEF p, old, available
<1>6. /\ t.final \in 0..available /\ t.dust \in 0..99 /\ due \in Nat
      /\ 100 * (available - t.final) + t.dust = dustSweeper + due
  <2>1. CASE pledge[s] = None
    BY <1>3, <1>5, <2>1 DEF Stream!CheckAndApplyAlumniTax
  <2>2. CASE pledge[s] # None
    <3> DEFINE tax == Stream!Math!AlumniTax(available, pledge[s], dustSweeper)
    <3>1. pledge[s] \in 0..100
      BY <2>2 DEF StreamInv, Stream!TypeOK, Stream!StreamsAssumption
    <3>2. /\ tax.tax_amount \in 0..available /\ tax.new_dust \in 0..99
          /\ 100 * tax.tax_amount + tax.new_dust = dustSweeper + available * pledge[s]
      BY <1>3, <1>5, <3>1, TaxDue
    <3>3. t.final = available - tax.tax_amount /\ t.dust = tax.new_dust
      BY <2>2 DEF Stream!CheckAndApplyAlumniTax
    <3> HIDE DEF tax, t
    <3>4. available * pledge[s] \in Nat
      BY <1>3, <3>1
    <3>5. t.final \in 0..available /\ available - t.final = tax.tax_amount
      BY <1>3, <3>2, <3>3
    <3> QED
      BY <2>2, <3>2, <3>3, <3>4, <3>5
  <2> QED
    BY <2>1, <2>2
<1> HIDE DEF t, due
<1>7. /\ x \in Stream!Stream
      /\ x.start_time = old.start_time /\ x.amount_per_second = old.amount_per_second
      /\ x.total_withdrawn = old.total_withdrawn + available
  BY <1>1, <1>2, <1>3 DEF Stream!Stream
<1> HIDE DEF x
<1>8. /\ drawn \in [Stream!Pairs -> Nat] /\ stream \in [Stream!Pairs -> Stream!Stream \cup {None}]
      /\ drawn[p] \in Nat /\ earned[p] \in Nat
  BY <1>1 DEF StreamInv, Stream!TypeOK
<1>9. Stream!TypeOK'
  <2>1. stream' \in [Stream!Pairs -> Stream!Stream \cup {None}] /\ drawn' \in [Stream!Pairs -> Nat]
    <3>1. drawn[p] + available \in Nat
      BY <1>3, <1>8
    <3> QED
      BY <1>1, <1>4, <1>7, <1>8, <3>1
  <2>2. balance' \in Nat /\ dustSweeper' \in Nat /\ taxed' \in Nat /\ taxDue' \in Nat
    BY <1>3, <1>4, <1>5, <1>6
  <2> QED
    BY <1>4, <2>1, <2>2 DEF StreamInv, Stream!TypeOK
<1>10. Stream!TaxExact'
  BY <1>3, <1>4, <1>5, <1>6, SMTT(20) DEF StreamInv, Stream!TaxExact
<1>11. ASSUME NEW q \in Stream!Pairs
       PROVE  NotAhead(stream'[q], drawn'[q], earned[q], now)
  <2>1. CASE q = p
    <3>1. stream'[q] = x /\ drawn'[q] = drawn[p] + available
      BY <1>4, <1>8, <2>1
    <3>2. NotAhead(old, drawn[p], earned[p], now)
      BY <1>1 DEF StreamInv, PairsNotAhead, old
    <3>3. Accrued(x, now) = Accrued(old, now)
      BY <1>7 DEF Accrued
    <3>4. old.start_time \in Nat
      BY <1>1, <1>2, AccruedLater
    <3> HIDE DEF Accrued
    <3>5. drawn[p] + available <= earned[p]
      BY <1>1, <1>2, <3>2 DEF NotAhead
    <3>6. x.start_time <= now
      BY <1>1, <1>2, <1>7, <3>2 DEF NotAhead
    <3>7. drawn'[q] + (Accrued(x, now) - x.total_withdrawn) <= earned[q]
      BY <1>2, <1>3, <1>7, <1>8, <2>1, <3>1, <3>3, <3>5
    <3> QED
      BY <2>1, <3>1, <3>5, <3>6, <3>7 DEF NotAhead
  <2>2. CASE q # p
    <3>1. stream'[q] = stream[q] /\ drawn'[q] = drawn[q]
      BY <1>4, <1>8, <2>2
    <3> QED
      BY <3>1 DEF StreamInv, PairsNotAhead
  <2> QED
    BY <2>1, <2>2
<1>12. PairsNotAhead'
  BY <1>4, <1>11 DEF PairsNotAhead
<1> QED
  BY <1>9, <1>10, <1>12 DEF StreamInv

\* A second earns a pair the rate of its stream, and the stream comes to as much more.
LEMMA StreamTickKeeps ==
    ASSUME Stream!StreamsAssumption, StreamInv, Stream!Tick
    PROVE  StreamInv'
<1>1. /\ now \in Nat /\ now' = now + 1
      /\ UNCHANGED <<balance, pledge, dustSweeper, stream, taxed, taxDue, drawn>>
      /\ earned' = [p \in Stream!Pairs |-> earned[p] + Stream!ComesTo(stream[p])]
  BY DEF Stream!Tick, StreamInv, Stream!TypeOK
<1>2. ASSUME NEW p \in Stream!Pairs
      PROVE  /\ earned'[p] \in Nat
             /\ NotAhead(stream[p], drawn[p], earned'[p], now + 1)
  <2>1. /\ earned[p] \in Nat /\ drawn[p] \in Nat /\ stream[p] \in Stream!Stream \cup {None}
        /\ NotAhead(stream[p], drawn[p], earned[p], now)
    BY DEF StreamInv, Stream!TypeOK, PairsNotAhead
  <2>2. CASE stream[p] = None
    BY <1>1, <2>1, <2>2 DEF NotAhead, Stream!ComesTo
  <2>3. CASE stream[p] # None
    <3> DEFINE x == stream[p]
    <3>1. x \in Stream!Stream
      BY <2>1, <2>3
    <3>2. /\ Accrued(x, now + 1) = Accrued(x, now) + x.amount_per_second
          /\ Accrued(x, now) \in Int
          /\ x.amount_per_second \in Int /\ x.start_time \in Nat /\ x.total_withdrawn \in Nat
      BY <1>1, <3>1, AccruedLater
    <3> DEFINE gain == Stream!ComesTo(x)
    <3>3. earned'[p] = earned[p] + gain /\ gain \in Nat /\ x.amount_per_second <= gain
      BY <1>1, <2>3, <3>2 DEF Stream!ComesTo, Stream!Math!AtLeast
    <3>4. /\ drawn[p] <= earned[p] /\ x.start_time <= now
          /\ drawn[p] + (Accrued(x, now) - x.total_withdrawn) <= earned[p]
      BY <2>1, <2>3 DEF NotAhead
    <3> HIDE DEF x, gain
    <3>5. /\ earned'[p] \in Nat /\ drawn[p] <= earned'[p] /\ x.start_time <= now + 1
          /\ drawn[p] + (Accrued(x, now + 1) - x.total_withdrawn) <= earned'[p]
      BY <1>1, <2>1, <3>2, <3>3, <3>4
    <3> QED
      BY <3>5 DEF NotAhead, x
  <2> QED
    BY <2>2, <2>3
<1>3. Stream!TypeOK'
  BY <1>1, <1>2 DEF StreamInv, Stream!TypeOK
<1>4. Stream!TaxExact'
  BY <1>1 DEF StreamInv, Stream!TaxExact
<1>5. PairsNotAhead'
  BY <1>1, <1>2 DEF PairsNotAhead
<1> QED
  BY <1>3, <1>4, <1>5 DEF StreamInv

\* Every step keeps the invariant.
LEMMA StreamStepKeeps ==
    Stream!StreamsAssumption /\ StreamInv /\ [Stream!Next]_(Stream!vars) => StreamInv'
<1> SUFFICES ASSUME Stream!StreamsAssumption, StreamInv, [Stream!Next]_(Stream!vars)
             PROVE  StreamInv'
  OBVIOUS
<1>1. CASE \/ \E a \in Inflows : Stream!Inflow(a)
           \/ \E s \in Students, pct \in Percentages : Stream!AlumniContributionPledge(s, pct)
           \/ UNCHANGED Stream!vars
  BY <1>1, StreamOtherKeeps
<1>2. CASE \E f \in Sponsors, s \in Students, r \in Rates : Stream!CreateStream(f, s, r)
  BY <1>2, StreamCreateKeeps
<1>3. CASE \E f \in Sponsors, s \in Students : Stream!WithdrawFromStream(f, s)
  BY <1>3, StreamWithdrawKeeps
<1>4. CASE Stream!Tick
  BY <1>4, StreamTickKeeps
<1> QED
  BY <1>1, <1>2, <1>3, <1>4 DEF Stream!Next

\* Without the streams' own steps there are no streams, so that the clock of the
\* others earns nobody anything.
NoStreamsElsewhere == service # "streams" => \A p \in Stream!Pairs : stream[p] = None

\* Every step of the services keeps the streams' invariant.
LEMMA StreamsKeep ==
    ASSUME StreamInv, NoStreamsElsewhere, [Next]_vars
    PROVE  StreamInv' /\ NoStreamsElsewhere'
<1>1. service' = service /\ ((service = "streams" /\ Stream!Next) \/ UNCHANGED streamVars)
  BY StepOfOne
<1>2. CASE service = "streams"
  <2>1. CASE Stream!Next
    BY <1>1, <1>2, <2>1, StreamStepKeeps, ServicesAssumption DEF NoStreamsElsewhere
  <2>2. CASE UNCHANGED streamVars /\ ~Stream!Next
    <3>1. UNCHANGED vars
      BY <1>2, <2>2 DEF Next, FundingStep, TreasuryStep, StreamStep, VoteStep, PayoutStep,
         AttestationStep, ExportStep, TokenStep, RenewalStep
    <3>2. UNCHANGED Stream!vars
      BY <3>1 DEF vars, streamVars, Stream!vars
    <3>3. StreamInv'
      BY <3>2, StreamStepKeeps, ServicesAssumption
    <3> QED
      BY <1>1, <1>2, <3>3 DEF NoStreamsElsewhere
  <2> QED
    BY <1>1, <2>1, <2>2
<1>3. CASE service # "streams"
  <2>1. UNCHANGED streamVars
    BY <1>1, <1>3
  <2>2. UNCHANGED <<balance, pledge, dustSweeper, stream, taxed, taxDue, earned, drawn>>
    BY <2>1 DEF streamVars
  <2>3. now' \in Nat
    BY ClockRuns DEF StreamInv, Stream!TypeOK
  <2>4. Stream!TypeOK'
    BY <2>2, <2>3 DEF StreamInv, Stream!TypeOK
  <2>5. Stream!TaxExact'
    BY <2>2 DEF StreamInv, Stream!TaxExact
  <2>6. \A p \in Stream!Pairs : stream[p] = None /\ NotAhead(stream[p], drawn[p], earned[p], now)
    BY <1>3 DEF NoStreamsElsewhere, StreamInv, PairsNotAhead
  <2>7. PairsNotAhead'
    BY <2>2, <2>6 DEF PairsNotAhead, NotAhead
  <2>8. NoStreamsElsewhere'
    BY <1>1, <2>2, <2>6 DEF NoStreamsElsewhere
  <2> QED
    BY <2>4, <2>5, <2>7, <2>8 DEF StreamInv
<1> QED
  BY <1>2, <1>3

\* The streams' invariant holds throughout.
LEMMA StreamInvariance == Spec => []StreamInv
<1>1. Init => StreamInv /\ NoStreamsElsewhere
  BY StreamInit, ServicesAssumption DEF Init, NoStreamsElsewhere, Stream!Init
<1>2. StreamInv /\ NoStreamsElsewhere /\ [Next]_vars => (StreamInv /\ NoStreamsElsewhere)'
  BY StreamsKeep
<1> QED
  BY <1>1, <1>2, PTL DEF Spec

\* For any rates, pledges and order of calls, taxes and dust are what was due to
\* the hundredth, and a pair draws at most what its rates came to
\* (check_and_apply_alumni_tax, create_stream, withdraw_from_stream).
THEOREM StreamsAlwaysExact == Spec => []StreamsExact
<1>1. ASSUME StreamInv PROVE StreamsExact
  BY <1>1 DEF StreamInv, PairsNotAhead, NotAhead, StreamsExact, Stream!StreamsExact,
     Stream!StreamNeverAhead
<1> QED
  BY <1>1, StreamInvariance, PTL

-----------------------------------------------------------------------------
(* PayoutWhitelist: an address in force was announced the full delay       *)
(* before, and last.                                                       *)

\* The pending address p is the one announced last, and the unlock time u is its
\* announcement plus the delay; announcements lie in the past.
LastAnnounced(p, u, ann, time) ==
    /\ \A b \in Addresses : ann[b] # None => ann[b] <= time
    /\ p # None =>
         /\ ann[p] # None
         /\ u = ann[p] + UNLOCK_DELAY
         /\ \A b \in Addresses : ann[b] # None => ann[b] <= ann[p]

\* The inductive invariant of the payout addresses.
PayoutInv ==
    /\ Payout!TypeOK
    /\ \A s \in Students : LastAnnounced(pending[s], unlockTime[s], announced[s], now)

\* Nothing is announced at the start.
LEMMA PayoutInit == Payout!PayoutAssumption /\ Payout!Init => PayoutInv
<1> SUFFICES ASSUME Payout!PayoutAssumption, Payout!Init PROVE PayoutInv
  OBVIOUS
<1>1. Payout!TypeOK
  BY DEF Payout!Init, Payout!TypeOK, Payout!PayoutAssumption
<1>2. ASSUME NEW s \in Students
      PROVE  LastAnnounced(pending[s], unlockTime[s], announced[s], now)
  BY DEF Payout!Init, LastAnnounced
<1> QED
  BY <1>1, <1>2 DEF PayoutInv

\* An announcement is the last one and starts the delay anew.
LEMMA PayoutAnnounceKeeps ==
    ASSUME Payout!PayoutAssumption, PayoutInv, NEW s \in Students, NEW a \in Addresses,
           Payout!SetAuthorizedPayoutAddress(s, a)
    PROVE  PayoutInv'
<1> DEFINE ann == [announced[s] EXCEPT ![a] = now]
           u == now + UNLOCK_DELAY
<1>1. /\ now \in Nat /\ u \in Nat
      /\ announced[s] \in [Addresses -> Nat \cup {None}]
  BY DEF PayoutInv, Payout!TypeOK, Payout!PayoutAssumption
<1>2. /\ pending' = [pending EXCEPT ![s] = a]
      /\ unlockTime' = [unlockTime EXCEPT ![s] = u]
      /\ announced' = [announced EXCEPT ![s] = ann]
      /\ UNCHANGED <<authorized, now>>
  BY DEF Payout!SetAuthorizedPayoutAddress, Payout!Unlocking
<1>3. ann \in [Addresses -> Nat \cup {None}] /\ ann[a] = now
  BY <1>1
<1>4. ASSUME NEW b \in Addresses, ann[b] # None PROVE ann[b] <= now
  <2>1. CASE b = a
    BY <1>1, <2>1
  <2>2. CASE b # a
    BY <1>1, <1>4, <2>2 DEF PayoutInv, LastAnnounced
  <2> QED
    BY <2>1, <2>2
<1>5. LastAnnounced(a, u, ann, now)
  <2>1. ann[a] # None
    BY <1>1, <1>3 DEF Payout!PayoutAssumption
  <2> HIDE DEF ann
  <2> QED
    BY <1>3, <1>4, <2>1 DEF LastAnnounced
<1> HIDE DEF ann, u
<1>6. Payout!TypeOK'
  BY <1>1, <1>2, <1>3 DEF PayoutInv, Payout!TypeOK
<1>7. ASSUME NEW x \in Students
      PROVE  LastAnnounced(pending'[x], unlockTime'[x], announced'[x], now')
  <2>1. CASE x = s
    <3>1. pending'[x] = a /\ unlockTime'[x] = u /\ announced'[x] = ann /\ now' = now
      BY <1>2, <2>1 DEF PayoutInv, Payout!TypeOK
    <3> QED
      BY <1>5, <3>1
  <2>2. CASE x # s
    <3>1. /\ pending'[x] = pending[x] /\ unlockTime'[x] = unlockTime[x]
          /\ announced'[x] = announced[x] /\ now' = now
      BY <1>2, <2>2 DEF PayoutInv, Payout!TypeOK
    <3> QED
      BY <3>1 DEF PayoutInv
  <2> QED
    BY <2>1, <2>2
<1> QED
  BY <1>6, <1>7 DEF PayoutInv

\* A confirmation leaves nothing pending.
LEMMA PayoutConfirmKeeps ==
    ASSUME Payout!PayoutAssumption, PayoutInv, NEW s \in Students, Payout!ConfirmPayoutUnlock(s)
    PROVE  PayoutInv'
<1>1. /\ authorized' = [authorized EXCEPT ![s] = pending[s]]
      /\ pending' = [pending EXCEPT ![s] = None]
      /\ unlockTime' = [unlockTime EXCEPT ![s] = None]
      /\ UNCHANGED <<now, announced>>
  BY DEF Payout!ConfirmPayoutUnlock
<1>2. Payout!TypeOK'
  BY <1>1 DEF PayoutInv, Payout!TypeOK
<1>3. ASSUME NEW x \in Students
      PROVE  LastAnnounced(pending'[x], unlockTime'[x], announced[x], now)
  <2>1. LastAnnounced(pending[x], unlockTime[x], announced[x], now)
    BY DEF PayoutInv
  <2>2. CASE x = s
    <3>1. pending'[x] = None
      BY <1>1, <2>2 DEF PayoutInv, Payout!TypeOK
    <3> QED
      BY <2>1, <3>1 DEF LastAnnounced
  <2>3. CASE x # s
    <3>1. pending'[x] = pending[x] /\ unlockTime'[x] = unlockTime[x]
      BY <1>1, <2>3 DEF PayoutInv, Payout!TypeOK
    <3> QED
      BY <2>1, <3>1
  <2> QED
    BY <2>2, <2>3
<1> QED
  BY <1>1, <1>2, <1>3 DEF PayoutInv

\* Announcements stay in the past.
LEMMA PayoutTickKeeps ==
    ASSUME Payout!PayoutAssumption, PayoutInv, Payout!Tick
    PROVE  PayoutInv'
<1>1. now \in Nat /\ now' = now + 1 /\ UNCHANGED <<authorized, pending, unlockTime, announced>>
  BY DEF PayoutInv, Payout!TypeOK, Payout!Tick
<1>2. Payout!TypeOK'
  BY <1>1 DEF PayoutInv, Payout!TypeOK
<1>3. ASSUME NEW s \in Students
      PROVE  LastAnnounced(pending[s], unlockTime[s], announced[s], now + 1)
  <2>1. LastAnnounced(pending[s], unlockTime[s], announced[s], now)
    BY DEF PayoutInv
  <2>2. announced[s] \in [Addresses -> Nat \cup {None}]
    BY DEF PayoutInv, Payout!TypeOK
  <2> QED
    BY <1>1, <2>1, <2>2 DEF LastAnnounced
<1> QED
  BY <1>1, <1>2, <1>3 DEF PayoutInv

\* Every step keeps the invariant.
LEMMA PayoutStepKeeps ==
    Payout!PayoutAssumption /\ PayoutInv /\ [Payout!Next]_(Payout!vars) => PayoutInv'
<1> SUFFICES ASSUME Payout!PayoutAssumption, PayoutInv, [Payout!Next]_(Payout!vars) PROVE PayoutInv'
  OBVIOUS
<1>1. CASE UNCHANGED Payout!vars
  BY <1>1 DEF PayoutInv, Payout!TypeOK, Payout!vars
<1>2. CASE Payout!Next
  BY <1>2, PayoutAnnounceKeeps, PayoutConfirmKeeps, PayoutTickKeeps DEF Payout!Next
<1> QED
  BY <1>1, <1>2

\* Every step of the services keeps the announcements' invariant.
LEMMA PayoutsKeep ==
    ASSUME PayoutInv, [Next]_vars
    PROVE  PayoutInv'
<1>1. CASE Payout!Next
  BY <1>1, PayoutStepKeeps, ServicesAssumption
<1>2. CASE UNCHANGED payoutVars
  <2>1. UNCHANGED <<authorized, pending, unlockTime, announced>>
    BY <1>2 DEF payoutVars
  <2>2. now \in Nat /\ now' \in Nat /\ now <= now'
    BY ClockRuns DEF PayoutInv, Payout!TypeOK
  <2>3. Payout!TypeOK'
    BY <2>1, <2>2 DEF PayoutInv, Payout!TypeOK
  <2>4. ASSUME NEW s \in Students
        PROVE  LastAnnounced(pending[s], unlockTime[s], announced[s], now')
    <3>1. LastAnnounced(pending[s], unlockTime[s], announced[s], now)
      BY DEF PayoutInv
    <3>2. announced[s] \in [Addresses -> Nat \cup {None}]
      BY DEF PayoutInv, Payout!TypeOK
    <3> QED
      BY <2>2, <3>1, <3>2 DEF LastAnnounced
  <2> QED
    BY <2>1, <2>3, <2>4 DEF PayoutInv
<1> QED
  BY <1>1, <1>2, StepOfOne

\* The announcements' invariant holds throughout.
LEMMA PayoutInvariance == Spec => []PayoutInv
<1>1. Init => PayoutInv
  BY PayoutInit, ServicesAssumption DEF Init
<1> QED
  BY <1>1, PayoutsKeep, PTL DEF Spec

\* For any delay and any order of announcements, an address comes into force the
\* full delay after it was announced, with no later announcement
\* (set_authorized_payout_address, confirm_payout_unlock).
THEOREM PayoutAlwaysTimelocked == Spec => PayoutTimelocked
<1> DEFINE Locked ==
       \A s \in Students : authorized'[s] # authorized[s] =>
          LET a == authorized'[s] IN
          /\ announced[s][a] # None /\ now >= announced[s][a] + UNLOCK_DELAY
          /\ \A b \in Addresses : announced[s][b] # None =>
                announced[s][b] <= announced[s][a]
<1>1. ASSUME PayoutInv, Payout!Next PROVE Locked
  <2>1. CASE authorized' = authorized
    BY <2>1
  <2>2. ASSUME NEW s \in Students, Payout!ConfirmPayoutUnlock(s) PROVE Locked
    <3>1. /\ authorized' = [authorized EXCEPT ![s] = pending[s]]
          /\ pending[s] # None /\ now >= unlockTime[s]
      BY <2>2 DEF Payout!ConfirmPayoutUnlock
    <3>2. \A x \in Students : x # s => authorized'[x] = authorized[x]
      BY <1>1, <3>1 DEF PayoutInv, Payout!TypeOK
    <3>3. authorized'[s] = pending[s]
      BY <1>1, <3>1 DEF PayoutInv, Payout!TypeOK
    <3>4. LastAnnounced(pending[s], unlockTime[s], announced[s], now)
      BY <1>1 DEF PayoutInv
    <3> QED
      BY <3>1, <3>2, <3>3, <3>4 DEF LastAnnounced
  <2> QED
    BY <1>1, <2>1, <2>2 DEF Payout!Next, Payout!SetAuthorizedPayoutAddress, Payout!Tick
<1>2. ASSUME UNCHANGED payoutVars PROVE Locked
  BY <1>2 DEF payoutVars
<1>3. PayoutInv /\ [Next]_vars => [Locked]_(Payout!vars)
  BY <1>1, <1>2, StepOfOne
<1>4. Spec => [][Locked]_(Payout!vars)
  BY <1>3, PayoutInvariance, PTL DEF Spec
<1> QED
  BY <1>4 DEF PayoutTimelocked, Payout!PayoutTimelocked

-----------------------------------------------------------------------------
(* YieldVote: the first AMM voted for stays the destination.               *)

\* The tally of the leader is never empty.
VoteInv ==
    /\ Vote!TypeOK
    /\ yieldAllocation # None => yieldAllocation.total_weight > 0

\* A vote adds to the leader's tally or leaves the leader as it is, once there is one.
LEMMA LeaderStays ==
    ASSUME VoteInv, NEW a \in Alumni, NEW m \in Amms, Vote!AllocateYield(a, m)
    PROVE  /\ VoteInv'
           /\ yieldAllocation # None => /\ yieldAllocation' # None
                                        /\ yieldAllocation'.amm = yieldAllocation.amm
<1> DEFINE x == Vote!NewAllocation(m)
<1>1. None \notin Vote!YieldAllocation
  BY ServicesAssumption DEF Vote!YieldVoteAssumption
<1>2. /\ x \in Vote!YieldAllocation /\ x.total_weight > 0
      /\ yieldAllocation # None => x.amm = yieldAllocation.amm
  <2>1. CASE yieldAllocation = None
    BY <2>1 DEF Vote!NewAllocation, Vote!YieldAllocation, Vote!Weight
  <2>2. CASE yieldAllocation # None
    <3>1. yieldAllocation \in Vote!YieldAllocation /\ yieldAllocation.total_weight > 0
      BY <2>2 DEF VoteInv, Vote!TypeOK
    <3>2. ~Vote!Overtakes
      BY <3>1 DEF Vote!Overtakes, Vote!Weight, Vote!YieldAllocation
    <3> QED
      BY <2>2, <3>1, <3>2 DEF Vote!NewAllocation, Vote!YieldAllocation, Vote!Weight
  <2> QED
    BY <2>1, <2>2
<1>3. /\ yieldAllocation' = x /\ yieldVote' = [yieldVote EXCEPT ![a] = m]
      /\ UNCHANGED <<isAlumni, approvedAmm>>
  BY DEF Vote!AllocateYield
<1> HIDE DEF x
<1>4. Vote!TypeOK'
  BY <1>2, <1>3 DEF VoteInv, Vote!TypeOK
<1> QED
  BY <1>1, <1>2, <1>3, <1>4 DEF VoteInv

\* Every step of the services keeps the vote's invariant.
LEMMA VotesKeep ==
    ASSUME VoteInv, [Next]_vars
    PROVE  VoteInv'
<1>1. ASSUME NEW a \in Alumni, Vote!RegisterAlumni(a) PROVE VoteInv'
  BY <1>1 DEF VoteInv, Vote!TypeOK, Vote!RegisterAlumni
<1>2. ASSUME NEW m \in Amms, Vote!WhitelistAmm(m) PROVE VoteInv'
  BY <1>2 DEF VoteInv, Vote!TypeOK, Vote!WhitelistAmm
<1>3. CASE UNCHANGED voteVars
  BY <1>3 DEF VoteInv, Vote!TypeOK, voteVars
<1> QED
  BY <1>1, <1>2, <1>3, LeaderStays, StepOfOne DEF Vote!Next

\* The vote's invariant holds throughout.
LEMMA VoteInvariance == Spec => []VoteInv
<1>1. Init => VoteInv
  BY DEF Init, Vote!Init, VoteInv, Vote!TypeOK
<1> QED
  BY <1>1, VotesKeep, PTL DEF Spec

\* The destination of route_capital_to_amm, once there is one, stays.
FirstLeaderStays ==
    [][Vote!RouteCapitalToAmm # None
         => Vote!RouteCapitalToAmm' = Vote!RouteCapitalToAmm]_(Vote!vars)

\* However many alumni vote for whichever AMMs, the first destination of
\* route_capital_to_amm stays the destination: all votes weigh the same, and a
\* vote for another AMM is compared with the leader's whole tally (allocate_yield).
\* So the AMM most votes are for need not be the destination.
THEOREM FirstLeaderAlwaysStays == Spec => FirstLeaderStays
<1> DEFINE Stays == Vote!RouteCapitalToAmm # None
                      => Vote!RouteCapitalToAmm' = Vote!RouteCapitalToAmm
<1>1. ASSUME VoteInv, NEW a \in Alumni, NEW m \in Amms, Vote!AllocateYield(a, m) PROVE Stays
  BY <1>1, LeaderStays DEF Vote!RouteCapitalToAmm, Vote!AllocateYield
<1>2. ASSUME VoteInv, Vote!Next PROVE Stays
  BY <1>1, <1>2 DEF Vote!Next, Vote!RouteCapitalToAmm, Vote!RegisterAlumni, Vote!WhitelistAmm
<1>3. ASSUME UNCHANGED voteVars PROVE Stays
  BY <1>3 DEF voteVars, Vote!RouteCapitalToAmm
<1>4. VoteInv /\ [Next]_vars => [Stays]_(Vote!vars)
  BY <1>2, <1>3, StepOfOne
<1>5. Spec => [][Stays]_(Vote!vars)
  BY <1>4, VoteInvariance, PTL DEF Spec
<1> QED
  BY <1>5 DEF FirstLeaderStays

-----------------------------------------------------------------------------
(* Treasury: a match stays within the cap, and what is tracked is paid in. *)

\* The set of the students who had the subsidy is counted as it is.
LEMMA PoolCardinality ==
    ASSUME NEW S
    PROVE  Pool!Cardinality(S) = Cardinality(S)
BY DEF Pool!Cardinality, Cardinality

\* The subsidized are finitely many.
PoolInv == Pool!TypeOK /\ IsFiniteSet(subsidized)

\* A match is a natural number that the cap has room for.
LEMMA MatchWithinCap ==
    ASSUME PoolInv, NEW c \in Schools, NEW m \in Matches
    PROVE  /\ Pool!AppliedMatch(c, m) \in Nat
           /\ cap[c] # None /\ Pool!AppliedMatch(c, m) # 0
                => matched[c] + Pool!AppliedMatch(c, m) <= cap[c]
<1>1. Pool!Wanted(m) \in Nat /\ matched[c] \in Nat
  BY ServicesAssumption DEF Pool!TreasuryAssumption, PoolInv, Pool!TypeOK, Pool!Wanted,
     Pool!Math!AtLeast
<1>2. CASE cap[c] = None
  BY <1>1, <1>2 DEF Pool!AppliedMatch
<1>3. CASE cap[c] # None
  <2>1. cap[c] \in Nat
    BY <1>3, ServicesAssumption DEF Pool!TreasuryAssumption, PoolInv, Pool!TypeOK
  <2> QED
    BY <1>1, <1>3, <2>1 DEF Pool!AppliedMatch, Pool!Math!AtMost, Pool!Math!AtLeast
<1> QED
  BY <1>2, <1>3

\* A deposit raises custody and what is tracked by the same amount.
LEMMA DepositKeeps ==
    ASSUME PoolInv, NEW n \in Int, Pool!Deposited(n)
    PROVE  /\ custody' \in Nat /\ trackedTVL' \in Nat
           /\ trackedTVL' - trackedTVL = custody' - custody
           /\ UNCHANGED <<wallet, lastBalanceCheck, cap, gasTreasury, subsidized, profile, now>>
BY DEF PoolInv, Pool!TypeOK, Pool!Deposited, Pool!claimVars

\* What a step of the treasury does to matches and to what is tracked.
WithinCaps ==
    /\ \A c \in Schools : matched'[c] # matched[c] /\ cap[c] # None => matched'[c] <= cap[c]
    /\ trackedTVL' > trackedTVL => trackedTVL' - trackedTVL = custody' - custody

\* The deposits keep the treasury's invariant and the caps.
LEMMA DepositsKeep ==
    ASSUME PoolInv,
           \/ \E a \in Deposits : Pool!DepositFunds(a)
           \/ \E a \in Deposits, c \in Schools, m \in Matches : Pool!DepositWithMatch(a, c, m)
    PROVE  PoolInv' /\ WithinCaps
<1>1. \A a \in Deposits : a \in Int
  BY ServicesAssumption DEF Pool!TreasuryAssumption
<1>2. ASSUME NEW a \in Deposits, Pool!DepositFunds(a)
      PROVE  PoolInv' /\ WithinCaps
  <2>1. Pool!Deposited(a) /\ matched' = matched
    BY <1>2 DEF Pool!DepositFunds
  <2>2. /\ custody' \in Nat /\ trackedTVL' \in Nat
        /\ trackedTVL' - trackedTVL = custody' - custody
        /\ UNCHANGED <<wallet, lastBalanceCheck, cap, gasTreasury, subsidized, profile, now>>
    BY <1>1, <2>1, DepositKeeps
  <2>3. PoolInv'
    BY <2>1, <2>2 DEF PoolInv, Pool!TypeOK
  <2> QED
    BY <2>1, <2>2, <2>3 DEF WithinCaps
<1>3. ASSUME NEW a \in Deposits, NEW c \in Schools, NEW m \in Matches,
             Pool!DepositWithMatch(a, c, m)
      PROVE  PoolInv' /\ WithinCaps
  <2> DEFINE k == Pool!AppliedMatch(c, m)
  <2>1. Pool!Deposited(a + k) /\ matched' = [matched EXCEPT ![c] = matched[c] + k]
    BY <1>3 DEF Pool!DepositWithMatch
  <2>2. k \in Nat /\ (cap[c] # None /\ k # 0 => matched[c] + k <= cap[c])
    BY MatchWithinCap
  <2> HIDE DEF k
  <2>3. a + k \in Int
    BY <1>1, <2>2
  <2>4. /\ custody' \in Nat /\ trackedTVL' \in Nat
        /\ trackedTVL' - trackedTVL = custody' - custody
        /\ UNCHANGED <<wallet, lastBalanceCheck, cap, gasTreasury, subsidized, profile, now>>
    BY <2>1, <2>3, DepositKeeps
  <2>5. matched \in [Schools -> Nat]
    BY DEF PoolInv, Pool!TypeOK
  <2>6. matched' \in [Schools -> Nat]
    BY <2>1, <2>2, <2>5
  <2>7. PoolInv'
    BY <2>4, <2>6 DEF PoolInv, Pool!TypeOK
  <2>8. ASSUME NEW x \in Schools, matched'[x] # matched[x], cap[x] # None
        PROVE  matched'[x] <= cap[x]
    <3>1. x = c
      BY <2>1, <2>5, <2>8
    <3>2. matched'[c] = matched[c] + k /\ matched[c] \in Nat
      BY <2>1, <2>5
    <3> QED
      BY <2>2, <2>8, <3>1, <3>2
  <2> QED
    BY <2>4, <2>7, <2>8 DEF WithinCaps
<1> QED
  BY <1>2, <1>3

\* A subsidy pays one more student while there is a place left.
LEMMA SubsidyKeeps ==
    ASSUME PoolInv, NEW s \in Students, Pool!ClaimGasSubsidy(s)
    PROVE  PoolInv' /\ WithinCaps
<1>1. SUBSIDY_AMOUNT \in Nat /\ MAX_SUBSIDIZED_STUDENTS \in Nat
  BY ServicesAssumption DEF Pool!TreasuryAssumption
<1>2. /\ Cardinality(subsidized) < MAX_SUBSIDIZED_STUDENTS /\ s \notin subsidized
      /\ custody >= SUBSIDY_AMOUNT /\ custody' = custody - SUBSIDY_AMOUNT
      /\ wallet' = [wallet EXCEPT ![s] = wallet[s] + SUBSIDY_AMOUNT]
      /\ subsidized' = subsidized \cup {s}
      /\ UNCHANGED <<trackedTVL, lastBalanceCheck, cap, matched, gasTreasury, profile, now>>
  BY PoolCardinality DEF Pool!ClaimGasSubsidy, Pool!poolVars
<1>3. custody \in Nat /\ wallet \in [Students -> Nat] /\ IsFiniteSet(subsidized)
      /\ subsidized \in SUBSET Students
  BY DEF PoolInv, Pool!TypeOK
<1>4. IsFiniteSet(subsidized') /\ Cardinality(subsidized') = Cardinality(subsidized) + 1
  BY <1>2, <1>3, FS_AddElement
<1>5. Cardinality(subsidized) \in Nat
  BY <1>3, FS_CardinalityType
<1>6. Cardinality(subsidized') <= MAX_SUBSIDIZED_STUDENTS
  BY <1>1, <1>2, <1>4, <1>5
<1>7. Pool!Cardinality(subsidized') <= MAX_SUBSIDIZED_STUDENTS
  BY <1>6, PoolCardinality
<1>8. custody' \in Nat /\ wallet' \in [Students -> Nat]
  BY <1>1, <1>2, <1>3
<1>9. subsidized' \in SUBSET Students
  BY <1>2, <1>3
<1>10. trackedTVL \in Nat
  BY DEF PoolInv, Pool!TypeOK
<1> QED
  BY <1>2, <1>4, <1>7, <1>8, <1>9, <1>10 DEF PoolInv, Pool!TypeOK, WithinCaps

\* Sponsors' profiles hold integers, of either sign, and yields are paid from what
\* custody has.
LEMMA SponsorsKeep ==
    ASSUME PoolInv,
           \/ \E f \in Sponsors, pr \in Pool!SponsorYieldPreference :
                Pool!SetYieldPreference(f, pr)
           \/ \E f \in Sponsors, a \in Yields : Pool!HarvestYield(f, a)
    PROVE  PoolInv' /\ WithinCaps
<1>1. \A a \in Yields : a \in Int
  BY ServicesAssumption DEF Pool!TreasuryAssumption
<1>2. custody \in Nat /\ profile \in [Sponsors -> Pool!SponsorProfile \cup {None}]
      /\ trackedTVL \in Nat
  BY DEF PoolInv, Pool!TypeOK
<1>3. UNCHANGED <<wallet, trackedTVL, lastBalanceCheck, cap, matched, gasTreasury, subsidized, now>>
  BY DEF Pool!SetYieldPreference, Pool!HarvestYield, Pool!poolVars, Pool!moneyVars
<1>4. ASSUME NEW f \in Sponsors, NEW pr \in Pool!SponsorYieldPreference,
             Pool!SetYieldPreference(f, pr)
      PROVE  custody' \in Nat /\ profile' \in [Sponsors -> Pool!SponsorProfile \cup {None}]
  BY <1>2, <1>4 DEF Pool!SetYieldPreference, Pool!moneyVars, Pool!SponsorProfile
<1>5. ASSUME NEW f \in Sponsors, NEW a \in Yields, Pool!HarvestYield(f, a)
      PROVE  custody' \in Nat /\ profile' \in [Sponsors -> Pool!SponsorProfile \cup {None}]
  <2>1. profile[f] \in Pool!SponsorProfile
    BY <1>2, <1>5 DEF Pool!HarvestYield
  <2> DEFINE x == [profile[f] EXCEPT !.active_capital = @ + a]
  <2>2. x \in Pool!SponsorProfile
    BY <1>1, <2>1 DEF Pool!SponsorProfile
  <2>3. \/ custody' = custody /\ profile' = [profile EXCEPT ![f] = x]
        \/ a \in 0..custody /\ custody' = custody - a /\ profile' = profile
    BY <1>2, <1>5 DEF Pool!HarvestYield
  <2> HIDE DEF x
  <2> QED
    BY <1>1, <1>2, <2>2, <2>3
<1>6. custody' \in Nat /\ profile' \in [Sponsors -> Pool!SponsorProfile \cup {None}]
  BY <1>4, <1>5
<1>7. Pool!TypeOK'
  BY <1>3, <1>6 DEF PoolInv, Pool!TypeOK
<1>8. PoolInv'
  BY <1>3, <1>7 DEF PoolInv
<1>9. WithinCaps
  BY <1>2, <1>3 DEF WithinCaps
<1> QED
  BY <1>8, <1>9

\* The other steps of the treasury track nothing that was not paid in.
LEMMA PoolOthersKeep ==
    ASSUME PoolInv,
           \/ \E c \in Schools, k \in Caps : Pool!SetInstitutionalMatchCap(c, k)
           \/ Pool!CalculateFlow
           \/ Pool!SetGasTreasury
           \/ \E s \in Students : Pool!Spend(s)
           \/ Pool!Tick
    PROVE  PoolInv' /\ WithinCaps
<1>1. trackedTVL \in Nat /\ custody \in Nat /\ now \in Nat
  BY DEF PoolInv, Pool!TypeOK
<1>2. ASSUME NEW c \in Schools, NEW k \in Caps, Pool!SetInstitutionalMatchCap(c, k)
      PROVE  PoolInv' /\ WithinCaps
  BY <1>1, <1>2 DEF Pool!SetInstitutionalMatchCap, Pool!moneyVars, Pool!claimVars, PoolInv,
     Pool!TypeOK, WithinCaps
<1>3. ASSUME Pool!CalculateFlow
      PROVE  PoolInv' /\ WithinCaps
  <2>1. trackedTVL' \in Nat /\ trackedTVL' <= trackedTVL /\ lastBalanceCheck' = now
    BY <1>1, <1>3 DEF Pool!CalculateFlow, Pool!Math!AtMost
  <2>2. UNCHANGED <<custody, wallet, cap, matched, gasTreasury, subsidized, profile, now>>
    BY <1>3 DEF Pool!CalculateFlow, Pool!moneyVars, Pool!claimVars
  <2>3. Pool!TypeOK'
    BY <1>1, <2>1, <2>2 DEF PoolInv, Pool!TypeOK
  <2>4. PoolInv'
    BY <2>2, <2>3 DEF PoolInv
  <2>5. WithinCaps
    BY <1>1, <2>1, <2>2 DEF WithinCaps
  <2> QED
    BY <2>4, <2>5
<1>4. ASSUME Pool!SetGasTreasury
      PROVE  PoolInv' /\ WithinCaps
  BY <1>1, <1>4 DEF Pool!SetGasTreasury, Pool!moneyVars, Pool!poolVars, PoolInv, Pool!TypeOK,
     WithinCaps
<1>5. ASSUME NEW s \in Students, Pool!Spend(s)
      PROVE  PoolInv' /\ WithinCaps
  BY <1>1, <1>5 DEF Pool!Spend, Pool!claimVars, Pool!poolVars, PoolInv, Pool!TypeOK, WithinCaps
<1>6. ASSUME Pool!Tick
      PROVE  PoolInv' /\ WithinCaps
  BY <1>1, <1>6 DEF Pool!Tick, Pool!claimVars, Pool!poolVars, Pool!moneyVars, PoolInv,
     Pool!TypeOK, WithinCaps
<1> QED
  BY <1>2, <1>3, <1>4, <1>5, <1>6

\* Every step of the services keeps the treasury's invariant and the caps.
LEMMA PoolKeeps ==
    ASSUME PoolInv, [Next]_vars
    PROVE  PoolInv' /\ WithinCaps
<1>1. CASE Pool!Next
  BY <1>1, DepositsKeep, SubsidyKeeps, SponsorsKeep, PoolOthersKeep DEF Pool!Next
<1>2. CASE UNCHANGED treasuryVars
  <2>1. now' \in Nat
    BY ClockRuns DEF PoolInv, Pool!TypeOK
  <2>2. trackedTVL \in Nat
    BY DEF PoolInv, Pool!TypeOK
  <2> QED
    BY <1>2, <2>1, <2>2 DEF treasuryVars, PoolInv, Pool!TypeOK, WithinCaps
<1> QED
  BY <1>1, <1>2, StepOfOne

\* The treasury's invariant holds throughout.
LEMMA PoolInvariance == Spec => []PoolInv
<1>1. ASSUME Init PROVE PoolInv
  <2>1. subsidized = {} /\ IsFiniteSet({}) /\ Cardinality({}) = 0
    BY <1>1, FS_EmptySet DEF Init, Pool!Init
  <2>2. Pool!Cardinality(subsidized) = 0
    BY <2>1, PoolCardinality
  <2>3. StartTime \in Nat /\ MAX_SUBSIDIZED_STUDENTS \in Nat
    BY ServicesAssumption DEF Pool!TreasuryAssumption
  <2>4. Pool!Cardinality(subsidized) <= MAX_SUBSIDIZED_STUDENTS
    BY <2>2, <2>3
  <2> QED
    BY <1>1, <2>1, <2>3, <2>4 DEF Init, Pool!Init, PoolInv, Pool!TypeOK
<1>2. PoolInv /\ [Next]_vars => PoolInv'
  BY PoolKeeps
<1> QED
  BY <1>1, <1>2, PTL DEF Spec

\* For any caps and any order in which they are set, lowered and raised, a match
\* never takes an institution beyond the cap in force, and what is tracked rises
\* by what is paid in alone (deposit_with_match, calculate_flow).
THEOREM CapAlwaysRespected == Spec => CapRespected
<1>1. PoolInv /\ [Next]_vars => [WithinCaps]_(Pool!vars)
  BY PoolKeeps
<1>2. Spec => [][WithinCaps]_(Pool!vars)
  BY <1>1, PoolInvariance, PTL DEF Spec
<1> QED
  BY <1>2 DEF CapRespected, Pool!CapRespected, WithinCaps

-----------------------------------------------------------------------------
(* RenewSchedule: the years of a contract follow each other.               *)

\* The inductive invariant of the renewals.
RenewalInv == Renewal!TypeOK /\ Renewal!YearsFollow

\* The end of the year i of a history h; year 0 is the one the contract opens with.
YearEnd(h, i) == IF i = 0 THEN StartTime + RENEWAL_PERIOD_SECS ELSE h[i].new_period_end

\* Year i of a history follows the year before, and is renewed in its window.
YearFits(h, i) ==
    /\ h[i].renewal_number = i
    /\ YearEnd(h, i) >= YearEnd(h, i - 1) + RENEWAL_PERIOD_SECS
    /\ YearEnd(h, i) <= h[i].renewed_at + MIN_REMAINING_BEFORE_RENEWAL + RENEWAL_PERIOD_SECS

\* The property, year by year.
LEMMA YearByYear ==
    ASSUME NEW c
    PROVE  LET h == c.renewal_history
               End(i) == IF i = 0 THEN StartTime + RENEWAL_PERIOD_SECS ELSE h[i].new_period_end
           IN  (/\ Len(h) = c.renewal_count
                /\ c.period_end = End(Len(h))
                /\ \A i \in 1..Len(h) :
                     /\ h[i].renewal_number = i
                     /\ End(i) >= End(i - 1) + RENEWAL_PERIOD_SECS
                     /\ End(i) <= h[i].renewed_at + MIN_REMAINING_BEFORE_RENEWAL
                                  + RENEWAL_PERIOD_SECS)
               <=> (/\ Len(h) = c.renewal_count
                    /\ c.period_end = YearEnd(h, Len(h))
                    /\ \A i \in 1..Len(h) : YearFits(h, i))
BY DEF YearEnd, YearFits

\* The contract's constants are natural numbers.
LEMMA RenewalConstants ==
    /\ RENEWAL_PERIOD_SECS \in Nat /\ MAX_RENEWALS \in Nat
    /\ MIN_REMAINING_BEFORE_RENEWAL \in Nat /\ DonorTokens \in Nat /\ StartTime \in Nat
    /\ \A n \in Tokens : n \in Nat
BY ServicesAssumption DEF Renewal!RenewalAssumption

\* A renewal appends a year that starts with the end of the last, or now.
LEMMA RenewKeeps ==
    ASSUME RenewalInv, NEW n \in Tokens, Renewal!Renew(n)
    PROVE  RenewalInv'
<1> DEFINE h == contract.renewal_history
           start == Renewal!NewPeriodStart
           end == start + RENEWAL_PERIOD_SECS
           k == contract.renewal_count + 1
           r == [renewed_at |-> now, new_period_end |-> end, tokens_added |-> n,
                 renewal_number |-> k]
           g == Append(h, r)
           x == [period_start |-> start, period_end |-> end, period_tokens |-> n,
                 disbursed_tokens |-> 0, renewal_count |-> k, renewal_history |-> g]
<1>1. /\ contract.period_end \in Nat /\ contract.renewal_count \in 0..MAX_RENEWALS
      /\ h \in Seq(Renewal!RenewalRecord) /\ now \in Nat /\ donor_tokens \in Nat /\ vault \in Nat
  BY DEF RenewalInv, Renewal!TypeOK, Renewal!ScholarshipContract
<1>2. start \in Nat /\ start >= contract.period_end
      /\ start <= now + MIN_REMAINING_BEFORE_RENEWAL
  BY <1>1, RenewalConstants DEF Renewal!Renew, Renewal!WindowOpen, Renewal!NewPeriodStart
<1>3. n \in Nat /\ k \in 0..MAX_RENEWALS /\ k \in Nat
  BY <1>1, RenewalConstants DEF Renewal!Renew
<1>4. /\ contract' = x /\ now' = now /\ donor_tokens >= n
      /\ donor_tokens' = donor_tokens - n /\ vault' = vault + n
  BY DEF Renewal!Renew, Renewal!Renewed
<1> HIDE DEF start
<1>5. end \in Nat
  BY <1>2, RenewalConstants
<1>6. r \in Renewal!RenewalRecord
  BY <1>1, <1>3, <1>5 DEF Renewal!RenewalRecord
<1>7. /\ Len(h) = contract.renewal_count /\ contract.period_end = YearEnd(h, Len(h))
      /\ \A i \in 1..Len(h) : YearFits(h, i)
  BY YearByYear DEF RenewalInv, Renewal!YearsFollow
<1>8. /\ g \in Seq(Renewal!RenewalRecord) /\ Len(g) = k /\ g[k] = r
      /\ \A i \in 1..Len(h) : g[i] = h[i]
  BY <1>1, <1>6, <1>7
<1>9. r.renewal_number = k /\ r.renewed_at = now /\ r.new_period_end = end
  OBVIOUS
<1>10. /\ x.period_end = end /\ x.renewal_count = k /\ x.renewal_history = g
  OBVIOUS
<1> HIDE DEF r
<1>11. x \in Renewal!ScholarshipContract
  BY <1>2, <1>3, <1>5, <1>8 DEF Renewal!ScholarshipContract
<1> HIDE DEF h, g, x, k
<1>12. Renewal!TypeOK'
  BY <1>1, <1>3, <1>4, <1>11 DEF Renewal!TypeOK
<1>13. k = Len(h) + 1 /\ Len(h) \in Nat
  BY <1>1, <1>7 DEF k
<1>14. \A i \in 0..Len(h) : YearEnd(g, i) = YearEnd(h, i)
  BY <1>8, <1>13 DEF YearEnd
<1>15. YearEnd(g, k) = end /\ YearEnd(g, k - 1) = contract.period_end
  BY <1>7, <1>8, <1>9, <1>13, <1>14 DEF YearEnd
<1> HIDE DEF end
<1>16. YearFits(g, k)
  <2>1. end >= contract.period_end + RENEWAL_PERIOD_SECS
        /\ end <= now + MIN_REMAINING_BEFORE_RENEWAL + RENEWAL_PERIOD_SECS
    BY <1>1, <1>2, RenewalConstants DEF end
  <2> QED
    BY <1>8, <1>9, <1>15, <2>1 DEF YearFits
<1>17. ASSUME NEW i \in 1..Len(g) PROVE YearFits(g, i)
  <2>1. CASE i = k
    BY <1>16, <2>1
  <2>2. CASE i # k
    <3>1. i \in 1..Len(h) /\ i \in 0..Len(h) /\ i - 1 \in 0..Len(h)
      BY <1>8, <1>13, <2>2
    <3>2. YearFits(h, i) /\ g[i] = h[i]
      BY <1>7, <1>8, <3>1
    <3>3. YearEnd(g, i) = YearEnd(h, i) /\ YearEnd(g, i - 1) = YearEnd(h, i - 1)
      BY <1>14, <3>1
    <3> QED
      BY <3>2, <3>3 DEF YearFits
  <2> QED
    BY <2>1, <2>2
<1>18. Renewal!YearsFollow'
  BY <1>4, <1>8, <1>10, <1>15, <1>17, YearByYear DEF Renewal!YearsFollow
<1> QED
  BY <1>12, <1>18 DEF RenewalInv

\* Every step of the services keeps the contract's invariant.
LEMMA RenewalsKeep ==
    ASSUME RenewalInv, [Next]_vars
    PROVE  RenewalInv'
<1>1. now' \in Nat
  BY ClockRuns DEF RenewalInv, Renewal!TypeOK
<1>2. CASE Renewal!Disburse
  <2> DEFINE x == [contract EXCEPT !.disbursed_tokens = @ + 1]
  <2>1. contract \in Renewal!ScholarshipContract /\ vault \in Nat
    BY DEF RenewalInv, Renewal!TypeOK
  <2>2. contract' = x /\ vault' = vault - 1 /\ vault > 0 /\ donor_tokens' = donor_tokens
    BY <1>2 DEF Renewal!Disburse
  <2>3. /\ x \in Renewal!ScholarshipContract
        /\ x.renewal_history = contract.renewal_history
        /\ x.renewal_count = contract.renewal_count /\ x.period_end = contract.period_end
    BY <2>1 DEF Renewal!ScholarshipContract
  <2> HIDE DEF x
  <2>4. Renewal!TypeOK'
    BY <1>1, <2>1, <2>2, <2>3 DEF RenewalInv, Renewal!TypeOK
  <2>5. Renewal!YearsFollow'
    BY <2>2, <2>3 DEF RenewalInv, Renewal!YearsFollow
  <2> QED
    BY <2>4, <2>5 DEF RenewalInv
<1>3. CASE Renewal!Tick \/ UNCHANGED renewalVars
  BY <1>1, <1>3 DEF Renewal!Tick, renewalVars, RenewalInv, Renewal!TypeOK, Renewal!YearsFollow
<1> QED
  BY <1>2, <1>3, RenewKeeps, StepOfOne DEF Renewal!Next

\* The contract's invariant holds throughout.
LEMMA RenewalInvariance == Spec => []RenewalInv
<1>1. ASSUME Init PROVE RenewalInv
  <2>1. /\ contract = [period_start |-> StartTime,
                       period_end |-> StartTime + RENEWAL_PERIOD_SECS,
                       period_tokens |-> 1, disbursed_tokens |-> 0,
                       renewal_count |-> 0, renewal_history |-> <<>>]
        /\ donor_tokens = DonorTokens /\ vault = 1 /\ now = StartTime
    BY <1>1 DEF Init, Renewal!Init
  <2>2. contract \in Renewal!ScholarshipContract
    BY <2>1, RenewalConstants DEF Renewal!ScholarshipContract
  <2>3. Renewal!TypeOK
    BY <2>1, <2>2, RenewalConstants DEF Renewal!TypeOK
  <2>4. contract.renewal_history = <<>> /\ contract.renewal_count = 0
        /\ contract.period_end = StartTime + RENEWAL_PERIOD_SECS
    BY <2>1
  <2>5. Renewal!YearsFollow
    BY <2>4 DEF Renewal!YearsFollow
  <2> QED
    BY <2>3, <2>5 DEF RenewalInv
<1> QED
  BY <1>1, RenewalsKeep, PTL DEF Spec

\* For any period, window and number of renewals, the years of the history follow
\* each other in full, and each was renewed in its window (renew_schedule.rs).
THEOREM YearsAlwaysFollow == Spec => []YearsFollow
<1>1. ASSUME RenewalInv PROVE YearsFollow
  BY <1>1 DEF RenewalInv, YearsFollow
<1> QED
  BY <1>1, RenewalInvariance, PTL

-----------------------------------------------------------------------------
(* ReputationExport: exports are counted and numbered once.                *)

\* The operators on finite sets that the module counts with.
LEMMA ExportOperators ==
    ASSUME NEW f, NEW S
    PROVE  /\ Export!IsFiniteSet(S) <=> IsFiniteSet(S)
           /\ Export!Cardinality(S) = Cardinality(S)
           /\ Export!SumFunctionOnSet(f, S) = SumFunctionOnSet(f, S)
<1>1. Export!IsFiniteSet(S) <=> IsFiniteSet(S)
  BY DEF Export!IsFiniteSet, IsFiniteSet
<1>2. Export!Cardinality(S) = Cardinality(S)
  BY DEF Export!Cardinality, Cardinality
<1>3. Export!SumFunctionOnSet(f, S) = SumFunctionOnSet(f, S)
  BY DEF Export!SumFunctionOnSet, Export!FoldFunctionOnSet, Export!MapThenFoldSet,
     SumFunctionOnSet, FoldFunctionOnSet, MapThenFoldSet
<1> QED
  BY <1>1, <1>2, <1>3

\* The module's assumption.
LEMMA ExportConstants == IsFiniteSet(Students) /\ EXPORT_FEE \in Nat /\ MaxWallet \in Nat
BY ServicesAssumption, ExportOperators DEF Export!ExportAssumption

\* A student's nonces n, the audit a and the wallet w agree.
AuditFits(n, a, w) ==
    /\ IsFiniteSet(n)
    /\ a.export_count = Cardinality(n)
    /\ w = MaxWallet - EXPORT_FEE * a.export_count

\* How many exports the students made.
Exports == SumFunctionOnSet([s \in Students |-> exportAudit[s].export_count], Students)

\* Numbers are those of exports made, and differ.
NumbersDiffer ==
    \A s, t \in Students :
        /\ exportAudit[s].last_seq <= exportSequence
        /\ s # t /\ exportAudit[s].last_seq = exportAudit[t].last_seq
             => exportAudit[s].last_seq = 0

\* The inductive invariant of the exports.
ExportInv ==
    /\ Export!TypeOK
    /\ \A s \in Students : AuditFits(exportNonce[s], exportAudit[s], feeWallet[s])
    /\ exportSequence = Exports
    /\ fees["contract"] + fees["sink"] = EXPORT_FEE * exportSequence
    /\ NumbersDiffer

\* An unused nonce is counted, numbered and paid once.
LEMMA RequestKeeps ==
    ASSUME ExportInv, NEW s \in Students, NEW n \in Clients, Export!RequestReputationExport(s, n)
    PROVE  ExportInv'
<1> DEFINE a == [export_count |-> exportAudit[s].export_count + 1, last_seq |-> exportSequence + 1]
           used == exportNonce[s] \cup {n}
           left == feeWallet[s] - EXPORT_FEE
           sink == Export!FeeSink
           paid == fees[sink] + EXPORT_FEE
<1>1. /\ exportNonce' = [exportNonce EXCEPT ![s] = used]
      /\ feeWallet' = [feeWallet EXCEPT ![s] = left]
      /\ fees' = [fees EXCEPT ![sink] = paid]
      /\ exportSequence' = exportSequence + 1
      /\ exportAudit' = [exportAudit EXCEPT ![s] = a]
      /\ hold' = hold /\ feeSink' = feeSink
      /\ n \notin exportNonce[s] /\ feeWallet[s] >= EXPORT_FEE
  BY DEF Export!RequestReputationExport, Export!Unused
<1>2. /\ exportNonce \in [Students -> SUBSET Clients] /\ feeWallet \in [Students -> Nat]
      /\ fees \in [{"contract", "sink"} -> Nat] /\ exportSequence \in Nat
      /\ exportAudit \in [Students -> Export!ScholarExportAudit]
      /\ hold \in SUBSET Students /\ feeSink \in BOOLEAN
  BY DEF ExportInv, Export!TypeOK
<1>3. sink \in {"contract", "sink"}
  BY DEF Export!FeeSink
<1>4. exportAudit[s].export_count \in Nat
  BY <1>2 DEF Export!ScholarExportAudit
<1>5. /\ a \in Export!ScholarExportAudit /\ a.export_count = exportAudit[s].export_count + 1
      /\ a.last_seq = exportSequence + 1
  BY <1>2, <1>4 DEF Export!ScholarExportAudit
<1>6. used \in SUBSET Clients /\ left \in Nat /\ paid \in Nat
  BY <1>1, <1>2, <1>3, ExportConstants
<1> HIDE DEF a, sink
<1>7. Export!TypeOK'
  <2>1. exportNonce' \in [Students -> SUBSET Clients] /\ feeWallet' \in [Students -> Nat]
    BY <1>1, <1>2, <1>6
  <2>2. fees' \in [{"contract", "sink"} -> Nat] /\ exportSequence' \in Nat
    BY <1>1, <1>2, <1>3, <1>6
  <2>3. exportAudit' \in [Students -> Export!ScholarExportAudit]
    BY <1>1, <1>2, <1>5
  <2> QED
    BY <1>1, <1>2, <2>1, <2>2, <2>3 DEF Export!TypeOK
<1>8. AuditFits(used, a, left)
  <2>1. AuditFits(exportNonce[s], exportAudit[s], feeWallet[s])
    BY DEF ExportInv
  <2>2. IsFiniteSet(used) /\ Cardinality(used) = Cardinality(exportNonce[s]) + 1
    BY <1>1, <2>1, FS_AddElement DEF AuditFits
  <2>3. EXPORT_FEE * (exportAudit[s].export_count + 1)
          = EXPORT_FEE * exportAudit[s].export_count + EXPORT_FEE
    BY <1>4, ExportConstants
  <2>4. EXPORT_FEE * exportAudit[s].export_count \in Nat
    BY <1>4, ExportConstants
  <2>5. left = MaxWallet - EXPORT_FEE * a.export_count
    BY <1>5, <2>1, <2>3, <2>4, ExportConstants DEF AuditFits
  <2>6. a.export_count = Cardinality(used)
    BY <1>5, <2>1, <2>2 DEF AuditFits
  <2> QED
    BY <2>2, <2>5, <2>6 DEF AuditFits
<1>9. \A x \in Students : AuditFits(exportNonce'[x], exportAudit'[x], feeWallet'[x])
  BY <1>1, <1>2, <1>8 DEF ExportInv
<1>10. exportSequence' = Exports'
  <2> DEFINE f == [x \in Students |-> exportAudit[x].export_count]
             g == [x \in Students |-> exportAudit'[x].export_count]
  <2>1. /\ f \in [Students -> Int] /\ g \in [Students -> Int]
        /\ g[s] = f[s] + 1 /\ \A x \in Students \ {s} : g[x] = f[x]
    BY <1>1, <1>2, <1>4, <1>5 DEF Export!ScholarExportAudit
  <2>2. f[s] \in Int /\ Exports = SumFunctionOnSet(f, Students)
        /\ Exports' = SumFunctionOnSet(g, Students)
    BY <2>1 DEF Exports
  <2> HIDE DEF f, g
  <2>3. SumFunctionOnSet(g, Students) = SumFunctionOnSet(f, Students) - f[s] + g[s]
    BY <2>1, ExportConstants, SumExcept
  <2>4. SumFunctionOnSet(f, Students) \in Nat
    BY <1>2, <2>2 DEF ExportInv
  <2>5. Exports' = Exports + 1
    BY <2>1, <2>2, <2>3, <2>4
  <2> QED
    BY <1>1, <2>5 DEF ExportInv
<1>11. fees'["contract"] + fees'["sink"] = EXPORT_FEE * exportSequence'
  <2>1. EXPORT_FEE * (exportSequence + 1) = EXPORT_FEE * exportSequence + EXPORT_FEE
        /\ EXPORT_FEE * exportSequence \in Nat
    BY <1>2, ExportConstants
  <2>2. fees["contract"] \in Nat /\ fees["sink"] \in Nat
    BY <1>2
  <2>3. fees'["contract"] + fees'["sink"] = fees["contract"] + fees["sink"] + EXPORT_FEE
    <3>1. CASE sink = "contract"
      BY <1>1, <1>2, <2>2, <3>1, ExportConstants
    <3>2. CASE sink = "sink"
      BY <1>1, <1>2, <2>2, <3>2, ExportConstants
    <3> QED
      BY <1>3, <3>1, <3>2
  <2> QED
    BY <1>1, <2>1, <2>3 DEF ExportInv
<1>12. NumbersDiffer'
  <2> SUFFICES ASSUME NEW x \in Students, NEW y \in Students
               PROVE  /\ exportAudit'[x].last_seq <= exportSequence'
                      /\ x # y /\ exportAudit'[x].last_seq = exportAudit'[y].last_seq
                           => exportAudit'[x].last_seq = 0
    BY DEF NumbersDiffer
  <2>1. \A z \in Students : /\ exportAudit[z].last_seq \in Nat
                            /\ exportAudit[z].last_seq <= exportSequence
    BY <1>2 DEF Export!ScholarExportAudit, ExportInv, NumbersDiffer
  <2>2. \A z \in Students : z # s => exportAudit'[z] = exportAudit[z]
    BY <1>1, <1>2
  <2>3. exportAudit'[s].last_seq = exportSequence + 1
    BY <1>1, <1>2, <1>5
  <2>4. exportAudit'[x].last_seq <= exportSequence'
    BY <1>1, <1>2, <2>1, <2>2, <2>3
  <2>5. ASSUME x # y, exportAudit'[x].last_seq = exportAudit'[y].last_seq
        PROVE  exportAudit'[x].last_seq = 0
    <3>1. x # s /\ y # s
      BY <1>2, <2>1, <2>2, <2>3, <2>5
    <3> QED
      BY <2>2, <2>5, <3>1 DEF ExportInv, NumbersDiffer
  <2> QED
    BY <2>4, <2>5
<1> QED
  BY <1>7, <1>9, <1>10, <1>11, <1>12 DEF ExportInv

\* Every step of the services keeps the exports' invariant.
LEMMA ExportsKeep ==
    ASSUME ExportInv, [Next]_vars
    PROVE  ExportInv'
<1>1. ASSUME NEW h \in SUBSET Students, NEW f \in BOOLEAN, hold' = h, feeSink' = f,
             UNCHANGED <<exportNonce, exportSequence, exportAudit, feeWallet, fees>>
      PROVE  ExportInv'
  <2>1. Export!TypeOK'
    BY <1>1 DEF ExportInv, Export!TypeOK
  <2>2. NumbersDiffer' /\ exportSequence' = Exports'
    BY <1>1 DEF ExportInv, NumbersDiffer, Exports
  <2> QED
    BY <1>1, <2>1, <2>2 DEF ExportInv
<1>2. hold \in SUBSET Students /\ feeSink \in BOOLEAN
  BY DEF ExportInv, Export!TypeOK
<1>3. CASE Export!SetReputationFeeSink
  BY <1>1, <1>2, <1>3 DEF Export!SetReputationFeeSink
<1>4. ASSUME NEW s \in Students, Export!DisciplineHold(s) PROVE ExportInv'
  BY <1>1, <1>2, <1>4 DEF Export!DisciplineHold, Export!feeVars
<1>5. ASSUME NEW s \in Students, Export!ClearExportDisciplineHold(s) PROVE ExportInv'
  BY <1>1, <1>2, <1>5 DEF Export!ClearExportDisciplineHold, Export!feeVars
<1>6. CASE UNCHANGED exportVars
  BY <1>1, <1>2, <1>6 DEF exportVars
<1> QED
  BY <1>3, <1>4, <1>5, <1>6, RequestKeeps, StepOfOne DEF Export!Next

\* The exports' invariant holds throughout.
LEMMA ExportInvariance == Spec => []ExportInv
<1>1. ASSUME Init PROVE ExportInv
  <2>1. /\ hold = {} /\ feeSink = FALSE /\ exportSequence = 0
        /\ fees = [f \in {"contract", "sink"} |-> 0]
        /\ exportNonce = [s \in Students |-> {}]
        /\ exportAudit = [s \in Students |-> [export_count |-> 0, last_seq |-> 0]]
        /\ feeWallet = [s \in Students |-> MaxWallet]
    BY <1>1 DEF Init, Export!Init
  <2>2. Export!TypeOK
    BY <2>1, ExportConstants DEF Export!TypeOK, Export!ScholarExportAudit
  <2>3. ASSUME NEW s \in Students PROVE AuditFits(exportNonce[s], exportAudit[s], feeWallet[s])
    <3>1. EXPORT_FEE * 0 = 0
      BY ExportConstants
    <3>2. IsFiniteSet({}) /\ Cardinality({}) = 0
      BY FS_EmptySet
    <3> QED
      BY <2>1, <3>1, <3>2, ExportConstants DEF AuditFits
  <2>4. exportSequence = Exports
    <3> DEFINE f == [s \in Students |-> exportAudit[s].export_count]
    <3>1. \A s \in Students : f[s] = 0
      BY <2>1
    <3> HIDE DEF f
    <3>2. SumFunctionOnSet(f, Students) = 0
      BY <3>1, ExportConstants, SumZero
    <3> QED
      BY <2>1, <3>2 DEF Exports, f
  <2>5. fees["contract"] + fees["sink"] = EXPORT_FEE * exportSequence
    BY <2>1, ExportConstants
  <2>6. NumbersDiffer
    BY <2>1 DEF NumbersDiffer
  <2> QED
    BY <2>2, <2>3, <2>4, <2>5, <2>6 DEF ExportInv
<1> QED
  BY <1>1, ExportsKeep, PTL DEF Spec

\* For any students, nonces, fee and holds, every used nonce is counted, paid and
\* numbered once, and no two students share a number (request_reputation_export).
THEOREM ExportsAlwaysCounted == Spec => []ExportsCounted
<1>1. ASSUME ExportInv PROVE ExportsCounted
  <2>1. \A s \in Students :
          /\ exportAudit[s].export_count = Export!Cardinality(exportNonce[s])
          /\ feeWallet[s] = MaxWallet - EXPORT_FEE * exportAudit[s].export_count
    BY <1>1, ExportOperators DEF ExportInv, AuditFits
  <2>2. exportSequence = Export!SumFunctionOnSet(
                           [s \in Students |-> exportAudit[s].export_count], Students)
    BY <1>1, ExportOperators DEF ExportInv, Exports
  <2> QED
    BY <1>1, <2>1, <2>2 DEF ExportInv, NumbersDiffer, ExportsCounted, Export!ExportsCounted
<1> QED
  BY <1>1, ExportInvariance, PTL

-----------------------------------------------------------------------------
(* Token: balances and allowances add up.                                  *)

\* The operators on finite sets that the module counts with.
LEMMA TokenOperators ==
    ASSUME NEW f, NEW S
    PROVE  /\ CourseToken!IsFiniteSet(S) <=> IsFiniteSet(S)
           /\ CourseToken!SumFunctionOnSet(f, S) = SumFunctionOnSet(f, S)
<1>1. CourseToken!IsFiniteSet(S) <=> IsFiniteSet(S)
  BY DEF CourseToken!IsFiniteSet, IsFiniteSet
<1>2. CourseToken!SumFunctionOnSet(f, S) = SumFunctionOnSet(f, S)
  BY DEF CourseToken!SumFunctionOnSet, CourseToken!FoldFunctionOnSet,
     CourseToken!MapThenFoldSet, SumFunctionOnSet, FoldFunctionOnSet, MapThenFoldSet
<1> QED
  BY <1>1, <1>2

\* The module's assumption.
LEMMA TokenConstants ==
    /\ IsFiniteSet(Holders)
    /\ TransferAmounts \subseteq CourseToken!I128
    /\ Expirations \subseteq Nat /\ I128_MAX \in Nat
    /\ \A n \in CourseToken!I128 : n \in Int
    /\ 0 \in CourseToken!I128
BY ServicesAssumption, TokenOperators DEF CourseToken!TokenAssumption, CourseToken!I128

\* What the holders have together.
Balances == SumFunctionOnSet(balances, Holders)

\* What an allowance still grants and what was moved under it is what was approved.
AllowancesAccounted ==
    \A k \in CourseToken!AllowanceDataKey : allowance[k].amount + moved[k] = approved[k]

\* The inductive invariant of the token.
TokenInv == CourseToken!TypeOK /\ Balances = minted /\ AllowancesAccounted

\* What is added to a balance is added to the sum.
LEMMA OneBalance ==
    ASSUME NEW f \in [Holders -> Int], NEW h \in Holders, NEW n \in Int
    PROVE  SumFunctionOnSet([f EXCEPT ![h] = f[h] + n], Holders)
             = SumFunctionOnSet(f, Holders) + n
<1> DEFINE g == [f EXCEPT ![h] = f[h] + n]
<1>1. g \in [Holders -> Int] /\ g[h] = f[h] + n /\ \A x \in Holders \ {h} : g[x] = f[x]
  OBVIOUS
<1>2. \A x \in Holders : f[x] \in Int
  OBVIOUS
<1> HIDE DEF g
<1>3. SumFunctionOnSet(g, Holders) = SumFunctionOnSet(f, Holders) - f[h] + g[h]
  BY <1>1, TokenConstants, SumExcept
<1>4. SumFunctionOnSet(f, Holders) \in Int
  BY <1>2, TokenConstants, SumInt
<1>5. SumFunctionOnSet(g, Holders) = SumFunctionOnSet(f, Holders) + n
  BY <1>1, <1>2, <1>3, <1>4
<1> QED
  BY <1>5 DEF g

\* Minting adds to one balance what it adds to the history.
LEMMA MintKeeps ==
    ASSUME TokenInv, NEW h \in Holders, NEW a \in TransferAmounts, CourseToken!Mint(h, a)
    PROVE  TokenInv'
<1>1. /\ balances \in [Holders -> CourseToken!I128] /\ minted \in Int /\ a \in Int
      /\ balances \in [Holders -> Int]
  BY TokenConstants DEF TokenInv, CourseToken!TypeOK
<1>2. /\ totalSupply' \in CourseToken!I128 /\ balances[h] + a \in CourseToken!I128
      /\ balances' = [balances EXCEPT ![h] = balances[h] + a] /\ minted' = minted + a
      /\ UNCHANGED <<initialized, allowance, approved, moved, sequence>>
  BY DEF CourseToken!Mint, CourseToken!allowanceVars
<1>3. Balances' = Balances + a
  BY <1>1, <1>2, OneBalance DEF Balances
<1>4. balances' \in [Holders -> CourseToken!I128] /\ minted' \in Int
  BY <1>1, <1>2
<1>5. CourseToken!TypeOK'
  BY <1>2, <1>4 DEF TokenInv, CourseToken!TypeOK
<1> QED
  BY <1>2, <1>3, <1>5 DEF TokenInv, AllowancesAccounted

\* A transfer, to oneself included, keeps the sum and the width.
LEMMA TransferKeeps ==
    ASSUME TokenInv, NEW h \in Holders, NEW k \in Holders, NEW a \in TransferAmounts,
           CourseToken!Transfer(h, k, a)
    PROVE  /\ balances' \in [Holders -> CourseToken!I128] /\ Balances' = Balances
           /\ UNCHANGED <<initialized, totalSupply, minted, sequence>>
<1> DEFINE mid == [balances EXCEPT ![h] = balances[h] + (-a)]
           new == [mid EXCEPT ![k] = mid[k] + a]
<1>1. a \in Int /\ -a \in Int /\ a \in CourseToken!I128
  BY TokenConstants
<1>2. balances \in [Holders -> CourseToken!I128] /\ balances \in [Holders -> Int]
  BY TokenConstants DEF TokenInv, CourseToken!TypeOK
<1>3. \A x \in Holders : balances[x] \in Int
  BY <1>2
<1>4. balances[h] - a = balances[h] + (-a)
  BY <1>1, <1>3
<1>5. CourseToken!Transferred(h, k, a) = new
  BY <1>4 DEF CourseToken!Transferred
<1>6. /\ balances' = new /\ new[k] \in CourseToken!I128 /\ balances[h] + (-a) \in CourseToken!I128
      /\ UNCHANGED <<initialized, totalSupply, minted, sequence>>
  BY <1>4, <1>5 DEF CourseToken!Transfer, CourseToken!supplyVars
<1>7. mid \in [Holders -> CourseToken!I128] /\ mid \in [Holders -> Int]
  BY <1>1, <1>2, <1>3, <1>6, TokenConstants
<1>8. SumFunctionOnSet(mid, Holders) = SumFunctionOnSet(balances, Holders) + (-a)
  BY <1>1, <1>2, OneBalance
<1> HIDE DEF mid
<1>9. SumFunctionOnSet(new, Holders) = SumFunctionOnSet(mid, Holders) + a
  BY <1>1, <1>7, OneBalance
<1>10. new \in [Holders -> CourseToken!I128]
  BY <1>6, <1>7
<1> HIDE DEF new
<1>11. SumFunctionOnSet(balances, Holders) \in Int
  BY <1>3, TokenConstants, SumInt
<1>12. SumFunctionOnSet(new, Holders) = SumFunctionOnSet(balances, Holders)
  BY <1>1, <1>8, <1>9, <1>11
<1> QED
  BY <1>6, <1>10, <1>12 DEF Balances

\* A transfer by a spender moves as much of the allowance.
LEMMA TransferFromKeeps ==
    ASSUME TokenInv, NEW d \in Spenders, NEW h \in Holders, NEW k \in Holders,
           NEW a \in TransferAmounts, CourseToken!TransferFrom(d, h, k, a)
    PROVE  TokenInv'
<1> DEFINE key == <<h, d>>
           x == [allowance[key] EXCEPT !.amount = @ - a]
<1>1. key \in CourseToken!AllowanceDataKey
  BY DEF CourseToken!AllowanceDataKey
<1>2. /\ allowance \in [CourseToken!AllowanceDataKey -> CourseToken!AllowanceValue]
      /\ moved \in [CourseToken!AllowanceDataKey -> Int]
      /\ approved \in [CourseToken!AllowanceDataKey -> Int] /\ a \in Int
  BY TokenConstants DEF TokenInv, CourseToken!TypeOK
<1>3. CourseToken!Transfer(h, k, a)
  BY DEF CourseToken!TransferFrom
<1>4. /\ allowance[key].amount - a \in CourseToken!I128
      /\ allowance' = [allowance EXCEPT ![key] = x]
      /\ moved' = [moved EXCEPT ![key] = moved[key] + a] /\ approved' = approved
  BY <1>1, <1>2 DEF CourseToken!TransferFrom
<1>5. allowance[key] \in CourseToken!AllowanceValue /\ allowance[key].amount \in Int
  BY <1>1, <1>2, TokenConstants DEF CourseToken!AllowanceValue
<1>6. x \in CourseToken!AllowanceValue /\ x.amount = allowance[key].amount - a
  BY <1>4, <1>5 DEF CourseToken!AllowanceValue
<1> HIDE DEF key, x
<1>7. /\ balances' \in [Holders -> CourseToken!I128] /\ Balances' = Balances
      /\ UNCHANGED <<initialized, totalSupply, minted, sequence>>
  BY <1>3, TransferKeeps
<1>8. /\ allowance' \in [CourseToken!AllowanceDataKey -> CourseToken!AllowanceValue]
      /\ moved' \in [CourseToken!AllowanceDataKey -> Int]
  BY <1>1, <1>2, <1>4, <1>6
<1>9. CourseToken!TypeOK'
  BY <1>4, <1>7, <1>8 DEF TokenInv, CourseToken!TypeOK
<1>10. ASSUME NEW y \in CourseToken!AllowanceDataKey
       PROVE  allowance'[y].amount + moved'[y] = approved'[y]
  <2>1. allowance[y].amount + moved[y] = approved[y]
    BY DEF TokenInv, AllowancesAccounted
  <2>2. CASE y = key
    <3>1. allowance'[y] = x /\ moved'[y] = moved[key] + a /\ moved[key] \in Int
      BY <1>1, <1>2, <1>4, <2>2
    <3> QED
      BY <1>2, <1>4, <1>5, <1>6, <2>1, <2>2, <3>1
  <2>3. CASE y # key
    BY <1>2, <1>4, <2>1, <2>3
  <2> QED
    BY <2>2, <2>3
<1> QED
  BY <1>7, <1>9, <1>10 DEF TokenInv, AllowancesAccounted

\* An approval starts the allowance anew.
LEMMA ApproveKeeps ==
    ASSUME TokenInv, NEW h \in Holders, NEW d \in Spenders, NEW a \in TransferAmounts,
           NEW e \in Expirations, CourseToken!Approve(h, d, a, e)
    PROVE  TokenInv'
<1> DEFINE key == <<h, d>>
           x == [amount |-> a, expiration_ledger |-> e]
<1>1. key \in CourseToken!AllowanceDataKey
  BY DEF CourseToken!AllowanceDataKey
<1>2. /\ allowance \in [CourseToken!AllowanceDataKey -> CourseToken!AllowanceValue]
      /\ moved \in [CourseToken!AllowanceDataKey -> Int]
      /\ approved \in [CourseToken!AllowanceDataKey -> Int]
      /\ a \in Int /\ a \in CourseToken!I128 /\ e \in Nat
  BY TokenConstants DEF TokenInv, CourseToken!TypeOK
<1>3. /\ allowance' = [allowance EXCEPT ![key] = x]
      /\ approved' = [approved EXCEPT ![key] = a]
      /\ moved' = [moved EXCEPT ![key] = 0]
      /\ UNCHANGED <<initialized, totalSupply, minted, balances, sequence>>
  BY DEF CourseToken!Approve, CourseToken!supplyVars
<1>4. x \in CourseToken!AllowanceValue /\ x.amount = a
  BY <1>2 DEF CourseToken!AllowanceValue
<1> HIDE DEF key, x
<1>5. /\ allowance' \in [CourseToken!AllowanceDataKey -> CourseToken!AllowanceValue]
      /\ moved' \in [CourseToken!AllowanceDataKey -> Int]
      /\ approved' \in [CourseToken!AllowanceDataKey -> Int]
  BY <1>1, <1>2, <1>3, <1>4
<1>6. CourseToken!TypeOK'
  BY <1>3, <1>5 DEF TokenInv, CourseToken!TypeOK
<1>7. ASSUME NEW y \in CourseToken!AllowanceDataKey
      PROVE  allowance'[y].amount + moved'[y] = approved'[y]
  <2>1. CASE y = key
    <3>1. allowance'[y] = x /\ moved'[y] = 0 /\ approved'[y] = a
      BY <1>1, <1>2, <1>3, <2>1
    <3> QED
      BY <1>2, <1>4, <3>1
  <2>2. CASE y # key
    BY <1>2, <1>3, <2>2 DEF TokenInv, AllowancesAccounted
  <2> QED
    BY <2>1, <2>2
<1> QED
  BY <1>3, <1>6, <1>7 DEF TokenInv, AllowancesAccounted, Balances

\* Every step of the services keeps the token's invariant.
LEMMA TokensKeep ==
    ASSUME TokenInv, [Next]_vars
    PROVE  TokenInv'
<1>1. CASE CourseToken!Initialize
  BY <1>1, TokenConstants DEF CourseToken!Initialize, CourseToken!allowanceVars, TokenInv,
     CourseToken!TypeOK, Balances, AllowancesAccounted
<1>2. ASSUME NEW h \in Holders, NEW k \in Holders, NEW a \in TransferAmounts,
             CourseToken!TransferOwn(h, k, a)
      PROVE  TokenInv'
  <2>1. /\ balances' \in [Holders -> CourseToken!I128] /\ Balances' = Balances
        /\ UNCHANGED <<initialized, totalSupply, minted, sequence>>
    BY <1>2, TransferKeeps DEF CourseToken!TransferOwn
  <2>2. UNCHANGED <<allowance, approved, moved>>
    BY <1>2 DEF CourseToken!TransferOwn, CourseToken!allowanceVars
  <2> QED
    BY <2>1, <2>2 DEF TokenInv, CourseToken!TypeOK, AllowancesAccounted
<1>3. CASE CourseToken!LedgerCloses
  BY <1>3 DEF CourseToken!LedgerCloses, CourseToken!allowanceVars, CourseToken!supplyVars,
     TokenInv, CourseToken!TypeOK, Balances, AllowancesAccounted
<1>4. CASE UNCHANGED tokenVars
  BY <1>4 DEF tokenVars, TokenInv, CourseToken!TypeOK, Balances, AllowancesAccounted
<1> QED
  BY <1>1, <1>2, <1>3, <1>4, MintKeeps, TransferFromKeeps, ApproveKeeps, StepOfOne
  DEF CourseToken!Next

\* The token's invariant holds throughout.
LEMMA TokenInvariance == Spec => []TokenInv
<1>1. ASSUME Init PROVE TokenInv
  <2>1. CourseToken!Init
    BY <1>1 DEF Init
  <2>2. CourseToken!TypeOK
    BY <2>1, TokenConstants DEF CourseToken!Init, CourseToken!TypeOK, CourseToken!AllowanceValue
  <2>3. Balances = minted
    <3>1. \A h \in Holders : balances[h] = 0
      BY <2>1 DEF CourseToken!Init
    <3>2. Balances = 0
      BY <3>1, TokenConstants, SumZero DEF Balances
    <3> QED
      BY <2>1, <3>2 DEF CourseToken!Init
  <2>4. AllowancesAccounted
    BY <2>1 DEF CourseToken!Init, AllowancesAccounted
  <2> QED
    BY <2>2, <2>3, <2>4 DEF TokenInv
<1> QED
  BY <1>1, TokensKeep, PTL DEF Spec

-----------------------------------------------------------------------------
(* Attestations: their records are well typed.                             *)

\* A multiplier is a natural number.
LEMMA MultiplierNat ==
    ASSUME NEW g \in Nat
    PROVE  Attestation!MultiplierBps(g) \in Nat
BY DEF Attestation!MultiplierBps

\* Every step of the services keeps the attestations well typed.
LEMMA AttestationsKeep ==
    ASSUME Attestation!TypeOK, [Next]_vars
    PROVE  Attestation!TypeOK'
<1>1. /\ Nonces \subseteq Nat /\ Gpas \subseteq Nat /\ StartTime \in Nat /\ MaxTime \in Nat
  BY ServicesAssumption DEF Attestation!AttestationAssumption
<1>2. now' \in Nat
  BY ClockRuns DEF Attestation!TypeOK
<1>3. ASSUME NEW o \in Oracles, NEW b \in BOOLEAN, Attestation!SetOracleStatus(o, b)
      PROVE  Attestation!TypeOK'
  BY <1>2, <1>3 DEF Attestation!SetOracleStatus, Attestation!TypeOK, Attestation!zkVars
<1>4. ASSUME NEW s \in Learners, NEW o \in Oracles, NEW n \in Nonces, NEW t \in Attestation!Times,
             Attestation!VerifyEnrollment(s, o, n, t)
      PROVE  Attestation!TypeOK'
  <2>1. t \in Nat
    BY <1>1 DEF Attestation!Times
  <2>2. [nonce |-> n, generated_at |-> t] \in Attestation!EnrollmentData
    BY <1>1, <2>1 DEF Attestation!EnrollmentData
  <2> QED
    BY <1>2, <1>4, <2>2 DEF Attestation!VerifyEnrollment, Attestation!TypeOK, Attestation!zkVars
<1>5. ASSUME NEW s \in Learners, NEW o \in Oracles, NEW n \in Nonces, NEW g \in Gpas,
             NEW t \in Attestation!Times, Attestation!ApplyGpaMultiplier(s, o, n, g, t)
      PROVE  Attestation!TypeOK'
  <2>1. Attestation!MultiplierBps(g) \in Nat /\ n \in Nat
    BY <1>1, MultiplierNat
  <2> QED
    BY <1>2, <1>5, <2>1 DEF Attestation!ApplyGpaMultiplier, Attestation!TypeOK,
       Attestation!zkVars
<1>6. CASE Attestation!InitZkVerificationKey
  BY <1>2, <1>6 DEF Attestation!InitZkVerificationKey, Attestation!TypeOK,
     Attestation!oracleVars
<1>7. ASSUME NEW s \in Learners, NEW c \in Courses, NEW x \in Attestation!AcademicStanding
                                                          \cup {None},
             standing' = [standing EXCEPT ![s] = [standing[s] EXCEPT ![c] = x]],
             UNCHANGED <<oracleRegistry, enrollment, gpaMultiplier, gpaEpoch, zkKey>>
      PROVE  Attestation!TypeOK'
  BY <1>2, <1>7 DEF Attestation!TypeOK
<1>8. ASSUME NEW s \in Learners, NEW c \in Courses, NEW p \in Attestation!GPAThresholdProof,
             Attestation!VerifyGpaThresholdProof(s, c, p)
      PROVE  Attestation!TypeOK'
  <2>1. [verified_at |-> now] \in Attestation!AcademicStanding
    BY DEF Attestation!TypeOK, Attestation!AcademicStanding
  <2>2. standing' = [standing EXCEPT ![s] = [standing[s] EXCEPT ![c] = [verified_at |-> now]]]
    BY <1>8 DEF Attestation!VerifyGpaThresholdProof, Attestation!TypeOK
  <2> QED
    BY <1>7, <1>8, <2>1, <2>2 DEF Attestation!VerifyGpaThresholdProof, Attestation!oracleVars
<1>9. ASSUME NEW s \in Learners, NEW c \in Courses, Attestation!RevokeAcademicStanding(s, c)
      PROVE  Attestation!TypeOK'
  <2>1. standing' = [standing EXCEPT ![s] = [standing[s] EXCEPT ![c] = None]]
    BY <1>9 DEF Attestation!RevokeAcademicStanding, Attestation!TypeOK
  <2> QED
    BY <1>7, <1>9, <2>1 DEF Attestation!RevokeAcademicStanding, Attestation!oracleVars
<1>10. CASE Attestation!Tick \/ UNCHANGED attestationVars
  BY <1>2, <1>10 DEF Attestation!Tick, attestationVars, Attestation!TypeOK,
     Attestation!oracleVars, Attestation!zkVars
<1> QED
  BY <1>3, <1>4, <1>5, <1>6, <1>8, <1>9, <1>10, StepOfOne DEF Attestation!Next

\* The attestations are well typed throughout.
LEMMA AttestationInvariance == Spec => []Attestation!TypeOK
<1>1. ASSUME Init PROVE Attestation!TypeOK
  <2>1. Attestation!Init
    BY <1>1 DEF Init
  <2>2. StartTime \in Nat
    BY ServicesAssumption DEF Attestation!AttestationAssumption
  <2>3. [nonce |-> 0, generated_at |-> None] \in Attestation!EnrollmentData
    BY DEF Attestation!EnrollmentData
  <2>4. enrollment \in [Learners -> Attestation!EnrollmentData]
    BY <2>1, <2>3 DEF Attestation!Init
  <2>5. gpaMultiplier \in [Learners -> Nat] /\ gpaEpoch \in [Learners -> Nat]
    BY <2>1 DEF Attestation!Init
  <2>6. standing \in [Learners -> [Courses -> Attestation!AcademicStanding \cup {None}]]
    BY <2>1 DEF Attestation!Init
  <2>7. oracleRegistry \in SUBSET Oracles
    BY <2>1 DEF Attestation!Init
  <2>9. now \in Nat
    BY <2>1, <2>2 DEF Attestation!Init
  <2>8. zkKey = FALSE
    BY <2>1 DEF Attestation!Init
  <2> QED
    BY <2>4, <2>5, <2>6, <2>7, <2>8, <2>9 DEF Attestation!TypeOK
<1> QED
  BY <1>1, AttestationsKeep, PTL DEF Spec

-----------------------------------------------------------------------------
(* All of them together.                                                   *)

\* The records of every service stay well typed, so that no balance is ever
\* negative, and the token's balances and allowances add up, for any instances of
\* the services and in any order of their calls (mint, transfer_from, and every
\* call that pays or records).
THEOREM BooksAlwaysKept == Spec => []BooksKept
<1>1. ASSUME FundingInv, PoolInv, StreamInv, VoteInv, PayoutInv, Attestation!TypeOK,
             ExportInv, TokenInv, RenewalInv
      PROVE  BooksKept
  <2>1. TypeOK
    BY <1>1, Zenon DEF TypeOK, FundingInv, PoolInv, StreamInv, VoteInv, PayoutInv, ExportInv,
       TokenInv, RenewalInv
  <2>2. CourseToken!TokensAccounted
    BY <1>1, TokenOperators DEF CourseToken!TokensAccounted, TokenInv, Balances,
       AllowancesAccounted
  <2> QED
    BY <2>1, <2>2 DEF BooksKept
<1> QED
  BY <1>1, FundingInvariance, PoolInvariance, StreamInvariance, VoteInvariance,
     PayoutInvariance, AttestationInvariance, ExportInvariance, TokenInvariance,
     RenewalInvariance, PTL

=============================================================================
