--------------------------- MODULE ClawbackProofs ---------------------------
(***************************************************************************)
(* Theorems about SponsorClawback, for any sponsors, students, conditions  *)
(* and periods: the escrow's invariant survives clawbacks, a condition     *)
(* pays once, and money is taken back only on a test that fails or failed  *)
(* within the window.                                                      *)
(***************************************************************************)
EXTENDS SponsorClawback, ScholarshipProofs

\* Since the trigger of c the student was last seen failing its test: still now,
\* with the tests st, or when it was passed again, at a time in lf.
FailedSince(c, st, lf) ==
    \/ c.trigger_type \in st
    \/ /\ lf[c.trigger_type] # None
       /\ c.triggered_at <= lf[c.trigger_type]

\* A trigger lies in the past and rests on a failed test.
Grounded(c, st, lf, time) ==
    c # None /\ c.triggered_at # None =>
        /\ c.triggered_at <= time
        /\ c.trigger_type # "TimeElapsed"
        /\ FailedSince(c, st, lf)

TriggersGrounded ==
    \A k \in Keys : Grounded(condition[k], standing[k[2]], lastFailed[k[2]], now)

CInv == IInv /\ ClawbackTypeOK /\ TriggersGrounded

-----------------------------------------------------------------------------
(* Records. *)

\* The fields of a condition.
LEMMA ConditionFields ==
    ASSUME NEW c \in ClawbackCondition
    PROVE  /\ c.trigger_type \in TriggerTypes
           /\ c.clawback_percentage \in 0..100
           /\ c.triggered_at \in Nat \cup {None} /\ c.executed_at \in Nat \cup {None}
           /\ c.is_active \in BOOLEAN /\ c.last_clawback_time \in Nat
BY DEF ClawbackCondition, MAX_CLAWBACK_PERCENTAGE

\* The parts of a key.
LEMMA KeyParts ==
    ASSUME NEW k \in Keys
    PROVE  k[1] \in Funders /\ k[2] \in Students
BY DEF Keys

\* What a clawback takes is part of the balance, and the record stays sound: when
\* the amount exceeds the unlocked part, it is the whole balance.
LEMMA ClawedBackSound ==
    ASSUME NEW sc, Sound(sc), NEW a \in Nat, a <= sc.balance
    PROVE  /\ Sound(ClawedBack(sc, a))
           /\ ClawedBack(sc, a).balance = sc.balance - a
           /\ ClawedBack(sc, a).total_grant = sc.total_grant
           /\ ClawedBack(sc, a).final_release_claimed = sc.final_release_claimed
           /\ ClawedBack(sc, a).funder = sc.funder
<1> DEFINE rest == IF sc.unlocked_balance > a THEN sc.unlocked_balance - a ELSE 0
           x1 == [sc EXCEPT !.balance = sc.balance - a]
           x2 == [x1 EXCEPT !.unlocked_balance = rest]
<1>1. ClawedBack(sc, a) = x2
  BY DEF Sound, ClawedBack, ScholarshipRecord
<1>2. sc.balance \in Nat /\ sc.unlocked_balance \in Nat /\ sc.balance <= sc.unlocked_balance
  BY DEF Sound, ScholarshipRecord
<1>3. rest \in Nat /\ sc.balance - a \in Nat /\ sc.balance - a <= rest
  BY <1>2
<1> HIDE DEF rest
<1>4. /\ x1 \in ScholarshipRecord
      /\ x1.balance = sc.balance - a
      /\ x1.total_grant = sc.total_grant
      /\ x1.final_release_claimed = sc.final_release_claimed
      /\ x1.funder = sc.funder
  BY <1>3 DEF Sound, ScholarshipRecord
<1> HIDE DEF x1
<1>5. /\ x2 \in ScholarshipRecord
      /\ x2.balance = sc.balance - a
      /\ x2.unlocked_balance = rest
      /\ x2.total_grant = sc.total_grant
      /\ x2.final_release_claimed = sc.final_release_claimed
      /\ x2.funder = sc.funder
  BY <1>3, <1>4 DEF ScholarshipRecord
<1> HIDE DEF x2
<1> QED
  BY <1>1, <1>3, <1>5 DEF Sound

\* A step that replaces one condition, and changes neither standing nor time,
\* keeps the types and the other triggers.
LEMMA OneCondition ==
    ASSUME CInv, NEW k \in Keys \cup (Funders \X Students \X Nat), NEW c \in ClawbackCondition,
           condition' = [condition EXCEPT ![k] = c],
           UNCHANGED <<standing, lastFailed, now>>,
           k \in Keys => Grounded(c, standing[k[2]], lastFailed[k[2]], now)
    PROVE  /\ condition' \in [Keys -> ClawbackCondition \cup {None}]
           /\ TriggersGrounded'
<1>1. condition \in [Keys -> ClawbackCondition \cup {None}]
  BY DEF CInv, ClawbackTypeOK
<1>2. condition' \in [Keys -> ClawbackCondition \cup {None}]
  BY <1>1
<1>3. ASSUME NEW x \in Keys
      PROVE  Grounded(condition'[x], standing[x[2]], lastFailed[x[2]], now)
  <2>1. CASE x = k
    <3>1. condition'[x] = c
      BY <1>1, <2>1
    <3> QED
      BY <2>1, <3>1
  <2>2. CASE x # k
    <3>1. condition'[x] = condition[x]
      BY <1>1, <2>2
    <3> QED
      BY <3>1 DEF CInv, TriggersGrounded
  <2> QED
    BY <2>1, <2>2
<1> QED
  BY <1>2, <1>3 DEF TriggersGrounded

\* A step that leaves the escrow alone keeps its invariant.
LEMMA EscrowUntouched ==
    ASSUME IInv, UNCHANGED coreVars
    PROVE  IInv'
BY CoreStep

-----------------------------------------------------------------------------
(* Initial states and steps. *)

\* No condition exists at the start.
LEMMA InitEstablishes == ClawbackInit => CInv
<1> SUFFICES ASSUME ClawbackInit PROVE CInv
  OBVIOUS
<1>1. IInv
  BY InitIInv DEF ClawbackInit
<1>2. ClawbackTypeOK
  BY <1>1 DEF ClawbackInit, ClawbackTypeOK, IInv
<1>3. TriggersGrounded
  BY DEF ClawbackInit, TriggersGrounded, Grounded
<1> QED
  BY <1>1, <1>2, <1>3 DEF CInv

\* A registration starts untriggered.
LEMMA RegisterKeeps ==
    ASSUME CInv, NEW f \in Funders, NEW s \in Students, NEW type \in TriggerTypes,
           NEW p \in Percentages, RegisterClawbackCondition(f, s, type, p)
    PROVE  CInv'
<1> DEFINE c == NewCondition(type, p)
           k == <<f, s, now>>
<1>1. p \in 0..100
  BY ClawbackAssumption DEF RegisterClawbackCondition, MAX_CLAWBACK_PERCENTAGE
<1>2. c \in ClawbackCondition /\ c.triggered_at = None
  BY <1>1 DEF NewCondition, ClawbackCondition, MAX_CLAWBACK_PERCENTAGE
<1>3. k \in Funders \X Students \X Nat
  BY DEF CInv, IInv, TypeOK
<1>4. /\ condition' = [condition EXCEPT ![k] = c]
      /\ UNCHANGED <<coreVars, clawbackLog, standing, lastFailed>>
  BY DEF RegisterClawbackCondition
<1> HIDE DEF c, k
<1>5. now' = now
  BY <1>4 DEF coreVars
<1>6. condition' \in [Keys -> ClawbackCondition \cup {None}] /\ TriggersGrounded'
  BY <1>2, <1>3, <1>4, <1>5, OneCondition DEF Grounded
<1>7. IInv'
  BY <1>4, EscrowUntouched DEF CInv
<1>8. ClawbackTypeOK'
  BY <1>4, <1>6, <1>7 DEF CInv, ClawbackTypeOK, IInv
<1> QED
  BY <1>6, <1>7, <1>8 DEF CInv

\* A trigger rests on a test that the student fails now.
LEMMA TriggerKeeps ==
    ASSUME CInv, NEW k \in Keys, CheckAndTriggerClawback(k)
    PROVE  CInv'
<1> DEFINE old == condition[k]
           c == Triggered(old)
<1>1. old \in ClawbackCondition /\ old # None /\ now \in Nat
  BY DEF CInv, ClawbackTypeOK, CheckAndTriggerClawback, IInv, TypeOK
<1>2. Grounded(old, standing[k[2]], lastFailed[k[2]], now)
  BY DEF CInv, TriggersGrounded
<1>3. old.trigger_type # "TimeElapsed" /\ old.trigger_type \in standing[k[2]]
  BY <1>1, <1>2 DEF CheckAndTriggerClawback, ConditionMet, Grounded
<1>4. c \in ClawbackCondition /\ c.triggered_at = now /\ c.trigger_type = old.trigger_type
  BY <1>1 DEF Triggered, ClawbackCondition
<1>5. /\ condition' = [condition EXCEPT ![k] = c]
      /\ UNCHANGED <<coreVars, clawbackLog, standing, lastFailed>>
  BY DEF CheckAndTriggerClawback
<1> HIDE DEF c, old
<1>6. Grounded(c, standing[k[2]], lastFailed[k[2]], now)
  BY <1>1, <1>3, <1>4 DEF Grounded, FailedSince
<1>7. now' = now
  BY <1>5 DEF coreVars
<1>8. condition' \in [Keys -> ClawbackCondition \cup {None}] /\ TriggersGrounded'
  BY <1>4, <1>5, <1>6, <1>7, OneCondition
<1>9. IInv'
  BY <1>5, EscrowUntouched DEF CInv
<1>10. ClawbackTypeOK'
  BY <1>5, <1>8, <1>9 DEF CInv, ClawbackTypeOK, IInv
<1> QED
  BY <1>8, <1>9, <1>10 DEF CInv

\* A revocation keeps trigger and test.
LEMMA RevokeKeeps ==
    ASSUME CInv, NEW k \in Keys, RevokeClawbackCondition(k)
    PROVE  CInv'
<1> DEFINE old == condition[k]
           c == [old EXCEPT !.is_active = FALSE]
<1>1. old \in ClawbackCondition /\ old # None
  BY DEF CInv, ClawbackTypeOK, RevokeClawbackCondition
<1>2. Grounded(old, standing[k[2]], lastFailed[k[2]], now)
  BY DEF CInv, TriggersGrounded
<1>3. /\ c \in ClawbackCondition /\ c.triggered_at = old.triggered_at
      /\ c.trigger_type = old.trigger_type
  BY <1>1 DEF ClawbackCondition
<1>4. /\ condition' = [condition EXCEPT ![k] = c]
      /\ UNCHANGED <<coreVars, clawbackLog, standing, lastFailed>>
  BY DEF RevokeClawbackCondition
<1> HIDE DEF c, old
<1>5. Grounded(c, standing[k[2]], lastFailed[k[2]], now)
  BY <1>1, <1>2, <1>3 DEF Grounded, FailedSince
<1>6. now' = now
  BY <1>4 DEF coreVars
<1>7. condition' \in [Keys -> ClawbackCondition \cup {None}] /\ TriggersGrounded'
  BY <1>3, <1>4, <1>5, <1>6, OneCondition
<1>8. IInv'
  BY <1>4, EscrowUntouched DEF CInv
<1>9. ClawbackTypeOK'
  BY <1>4, <1>7, <1>8 DEF CInv, ClawbackTypeOK, IInv
<1> QED
  BY <1>7, <1>8, <1>9 DEF CInv

\* What a condition asks for is part of the balance.
LEMMA AmountBound ==
    ASSUME NEW sc, Sound(sc), NEW c \in ClawbackCondition
    PROVE  ClawbackAmount(sc, c) \in Nat /\ ClawbackAmount(sc, c) <= sc.balance
<1>1. sc.balance \in Nat
  BY DEF Sound, ScholarshipRecord
<1>2. c.clawback_percentage \in Nat /\ c.clawback_percentage <= 100
  BY ConditionFields
<1> QED
  BY <1>1, <1>2, DivBound DEF ClawbackAmount

\* What an execution takes, and the record it leaves.
Taken(k) == ClawbackAmount(scholarship[k[2]], condition[k])
Left(k) == ClawedBack(scholarship[k[2]], Taken(k))

\* An execution takes part of the sponsor's scholarship, which stays sound.
LEMMA ExecutionFacts ==
    ASSUME CInv, NEW k \in Keys, ExecuteClawback(k)
    PROVE  /\ IInv /\ k[2] \in Students /\ scholarship[k[2]] # None
           /\ Taken(k) \in Nat /\ Taken(k) <= scholarship[k[2]].balance
           /\ Taken(k) <= custody[scholarship[k[2]].token]
           /\ Sound(scholarship[k[2]]) /\ Sound(Left(k)) /\ Left(k) # None
           /\ Left(k).balance = scholarship[k[2]].balance - Taken(k)
           /\ Left(k).total_grant = scholarship[k[2]].total_grant
           /\ Left(k).final_release_claimed = scholarship[k[2]].final_release_claimed
           /\ Left(k).funder = scholarship[k[2]].funder
           /\ scholarship' = [scholarship EXCEPT ![k[2]] = Left(k)]
           /\ reduced' = [reduced EXCEPT ![k[2]] = reduced[k[2]] + Taken(k)]
           /\ UNCHANGED <<vote, withdrawn, released>>
<1>1. IInv /\ k[2] \in Students /\ scholarship[k[2]] # None
  BY KeyParts DEF CInv, ExecuteClawback
<1>2. Taken(k) <= custody[scholarship[k[2]].token]
  BY DEF ExecuteClawback, Taken
<1>3. condition[k] \in ClawbackCondition
  BY DEF ExecuteClawback, CInv, ClawbackTypeOK
<1>4. Sound(scholarship[k[2]])
  BY <1>1, RecordsSound
<1>5. Taken(k) \in Nat /\ Taken(k) <= scholarship[k[2]].balance
  BY <1>3, <1>4, AmountBound DEF Taken
<1>6. /\ Sound(Left(k)) /\ Left(k) # None
      /\ Left(k).balance = scholarship[k[2]].balance - Taken(k)
      /\ Left(k).total_grant = scholarship[k[2]].total_grant
      /\ Left(k).final_release_claimed = scholarship[k[2]].final_release_claimed
      /\ Left(k).funder = scholarship[k[2]].funder
  BY <1>4, <1>5, ClawedBackSound, NoneAssumption DEF Left, Sound
<1>7. /\ scholarship' = [scholarship EXCEPT ![k[2]] = Left(k)]
      /\ reduced' = [reduced EXCEPT ![k[2]] = reduced[k[2]] + Taken(k)]
      /\ UNCHANGED <<vote, withdrawn, released>>
  BY DEF ExecuteClawback, Left, Taken
<1> QED
  BY <1>1, <1>2, <1>4, <1>5, <1>6, <1>7

\* A clawback keeps the escrow's invariant: what leaves the balance is booked as
\* taken back, so that the grant stays accounted for and the lock's meaning holds.
LEMMA ExecutionKeepsEscrow ==
    ASSUME CInv, NEW k \in Keys, ExecuteClawback(k)
    PROVE  IInv'
<1> DEFINE s == k[2]
           sc == scholarship[s]
           amount == Taken(k)
           new == Left(k)
<1>1. s \in Students /\ sc # None /\ amount <= custody[sc.token]
  BY ExecutionFacts
<1>2. IInv /\ Sound(sc)
  BY ExecutionFacts
<1>3. amount \in Nat /\ amount <= sc.balance
  BY ExecutionFacts
<1>4. /\ scholarship' = [scholarship EXCEPT ![s] = new]
      /\ custody' = [custody EXCEPT ![sc.token] = custody[sc.token] - amount]
      /\ reduced' = [reduced EXCEPT ![s] = reduced[s] + amount]
      /\ UNCHANGED <<now, vote, graduates, taxRate, feesAccrued, withdrawn, released,
                     tuitionHeld, universityAdmin, studentUniversity, securityHold>>
  BY ExecutionFacts DEF ExecuteClawback, holdVars, Taken
<1>5. /\ Sound(new)
      /\ new.balance = sc.balance - amount
      /\ new.total_grant = sc.total_grant
      /\ new.final_release_claimed = sc.final_release_claimed
      /\ new.funder = sc.funder
  BY ExecutionFacts
<1>6. new \in ScholarshipRecord /\ new # None
  BY <1>5, NoneAssumption DEF Sound
<1>7. sc.token \in Tokens /\ sc.balance \in Nat /\ sc.total_grant \in Nat
  BY <1>2 DEF Sound, ScholarshipRecord
<1> HIDE DEF new, amount, s
<1>8. TypeOK'
  <2>1. custody' \in [Tokens -> Nat]
    BY <1>1, <1>2, <1>3, <1>4, <1>7 DEF IInv, TypeOK
  <2>2. reduced' \in [Students -> Nat]
    BY <1>1, <1>2, <1>3, <1>4 DEF IInv, TypeOK
  <2>3. scholarship' \in [Students -> ScholarshipRecord \cup {None}]
    BY <1>1, <1>2, <1>4, <1>6 DEF IInv, TypeOK
  <2> QED
    BY <1>2, <1>4, <2>1, <2>2, <2>3 DEF IInv, TypeOK
<1>9. UnlockedCoversBalance'
  BY <1>1, <1>2, <1>4, <1>5 DEF IInv, TypeOK, UnlockedCoversBalance, Scholars, Sound
<1>10. GrantConserved'
  <2>1. ASSUME NEW x \in Students
        PROVE  Granted(x)' = Held(x)' + withdrawn'[x] + released'[x] + reduced'[x]
    <3>1. /\ Granted(x) = Held(x) + withdrawn[x] + released[x] + reduced[x]
          /\ withdrawn[x] \in Int /\ released[x] \in Nat /\ reduced[x] \in Nat
      BY <1>2 DEF IInv, GrantConserved, TypeOK
    <3>2. CASE x = s
      <4>1. scholarship'[x] = new /\ reduced'[x] = reduced[x] + amount
        BY <1>1, <1>2, <1>4, <3>2 DEF IInv, TypeOK
      <4>2. Granted(x)' = Granted(x) /\ Held(x) = sc.balance /\ Held(x)' = sc.balance - amount
        BY <1>1, <1>5, <1>6, <3>2, <4>1 DEF Granted, Held
      <4> QED
        BY <1>3, <1>4, <1>7, <3>1, <4>1, <4>2
    <3>3. CASE x # s
      <4>1. scholarship'[x] = scholarship[x] /\ reduced'[x] = reduced[x]
        BY <1>2, <1>4, <3>3 DEF IInv, TypeOK
      <4> QED
        BY <1>4, <3>1, <4>1 DEF Granted, Held
    <3> QED
      BY <3>2, <3>3
  <2> QED
    BY <2>1 DEF GrantConserved
<1>11. WithdrawalsRespectLock'
  BY <1>1, <1>2, <1>4, <1>5 DEF IInv, TypeOK, WithdrawalsRespectLock, Scholars
<1>12. ReleaseNeedsQuorum' /\ VotersFinite'
  BY <1>1, <1>2, <1>4, <1>5, <1>6, SameFlagStep
<1> QED
  BY <1>8, <1>9, <1>10, <1>11, <1>12 DEF IInv

\* An execution keeps the trigger it rests on.
LEMMA ExecuteKeeps ==
    ASSUME CInv, NEW k \in Keys, ExecuteClawback(k)
    PROVE  CInv'
<1> DEFINE old == condition[k]
           c == Executed(old)
           key == <<k[1], k[2], now>>
           event == [amount_clawed_back |-> ClawbackAmount(scholarship[k[2]], old),
                     triggered_at |-> old.triggered_at, executed_at |-> now]
<1>1. old \in ClawbackCondition /\ old # None /\ old.triggered_at # None /\ now \in Nat
  <2>1. condition[k] # None /\ condition[k].triggered_at # None
    BY DEF ExecuteClawback
  <2>2. condition[k] \in ClawbackCondition /\ now \in Nat
    BY <2>1 DEF CInv, ClawbackTypeOK, IInv, TypeOK
  <2> QED
    BY <2>1, <2>2
<1>2. Grounded(old, standing[k[2]], lastFailed[k[2]], now)
  BY DEF CInv, TriggersGrounded
<1>3. /\ c \in ClawbackCondition /\ c.triggered_at = old.triggered_at
      /\ c.trigger_type = old.trigger_type
  BY <1>1 DEF Executed, ClawbackCondition
<1>4. event \in ClawbackEvent
  <2>1. old.triggered_at \in Nat
    BY <1>1, ConditionFields
  <2>2. Sound(scholarship[k[2]])
    BY KeyParts, RecordsSound DEF CInv, ExecuteClawback
  <2>3. ClawbackAmount(scholarship[k[2]], old) \in Nat
    BY <1>1, <2>2, AmountBound
  <2> QED
    BY <1>1, <2>1, <2>3 DEF ClawbackEvent
<1>5. /\ condition' = [condition EXCEPT ![k] = c]
      /\ clawbackLog' = [clawbackLog EXCEPT ![key] = event]
      /\ UNCHANGED <<now, standing, lastFailed>>
  BY DEF ExecuteClawback
<1> HIDE DEF c, old, event, key
<1>6. Grounded(c, standing[k[2]], lastFailed[k[2]], now)
  BY <1>1, <1>2, <1>3 DEF Grounded, FailedSince
<1>7. condition' \in [Keys -> ClawbackCondition \cup {None}] /\ TriggersGrounded'
  BY <1>3, <1>5, <1>6, OneCondition
<1>8. IInv'
  BY ExecutionKeepsEscrow
<1>9. ClawbackTypeOK'
  BY <1>4, <1>5, <1>7, <1>8 DEF CInv, ClawbackTypeOK, IInv
<1> QED
  BY <1>7, <1>8, <1>9 DEF CInv

\* A test passed again is remembered at the time it was: no trigger is later.
LEMMA StandingKeeps ==
    ASSUME CInv, NEW s \in Students, NEW failing \in SUBSET (TriggerTypes \ {"TimeElapsed"}),
           StandingChanges(s, failing)
    PROVE  CInv'
<1> DEFINE lf == [type \in TriggerTypes |->
                    IF type \in standing[s] \ failing THEN now ELSE lastFailed[s][type]]
<1>1. /\ standing' = [standing EXCEPT ![s] = failing]
      /\ lastFailed' = [lastFailed EXCEPT ![s] = lf]
      /\ UNCHANGED <<coreVars, condition, clawbackLog>>
  BY DEF StandingChanges
<1> HIDE DEF lf
<1>2. /\ now \in Nat /\ now' = now
      /\ standing \in [Students -> SUBSET (TriggerTypes \ {"TimeElapsed"})]
      /\ lastFailed \in [Students -> [TriggerTypes -> Nat \cup {None}]]
      /\ condition \in [Keys -> ClawbackCondition \cup {None}]
  <2>1. now' = now
    BY <1>1 DEF coreVars
  <2> QED
    BY <2>1 DEF CInv, ClawbackTypeOK, IInv, TypeOK
<1>3. lf \in [TriggerTypes -> Nat \cup {None}]
  BY <1>2 DEF lf
<1>4. \A type \in TriggerTypes :
         lf[type] = IF type \in standing[s] \ failing THEN now ELSE lastFailed[s][type]
  BY DEF lf
<1>5. IInv'
  BY <1>1, EscrowUntouched DEF CInv
<1>6. ClawbackTypeOK'
  BY <1>1, <1>2, <1>3, <1>5 DEF CInv, ClawbackTypeOK, IInv
<1>7. ASSUME NEW k \in Keys
      PROVE  Grounded(condition[k], standing'[k[2]], lastFailed'[k[2]], now)
  <2> DEFINE c == condition[k]
  <2> SUFFICES ASSUME c # None, c.triggered_at # None
               PROVE  Grounded(c, standing'[k[2]], lastFailed'[k[2]], now)
    BY DEF Grounded
  <2>1. c \in ClawbackCondition /\ k[2] \in Students
    BY <1>2, KeyParts
  <2>2. /\ c.triggered_at \in Nat /\ c.triggered_at <= now /\ c.trigger_type \in TriggerTypes
        /\ c.trigger_type # "TimeElapsed"
        /\ FailedSince(c, standing[k[2]], lastFailed[k[2]])
    BY <2>1, ConditionFields DEF CInv, TriggersGrounded, Grounded
  <2> HIDE DEF c
  <2>3. CASE k[2] = s
    <3>1. standing'[k[2]] = failing /\ lastFailed'[k[2]] = lf
      BY <1>1, <1>2, <2>1, <2>3
    <3>2. FailedSince(c, failing, lf)
      BY <1>2, <1>4, <2>2, <2>3, NoConditionAssumption DEF FailedSince
    <3> QED
      BY <2>2, <3>1, <3>2 DEF Grounded
  <2>4. CASE k[2] # s
    <3>1. standing'[k[2]] = standing[k[2]] /\ lastFailed'[k[2]] = lastFailed[k[2]]
      BY <1>1, <1>2, <2>1, <2>4
    <3> QED
      BY <2>2, <3>1 DEF Grounded
  <2> QED
    BY <2>3, <2>4
<1>8. TriggersGrounded'
  BY <1>1, <1>2, <1>7 DEF TriggersGrounded
<1> QED
  BY <1>5, <1>6, <1>8 DEF CInv

\* Calls of the escrow do not turn the clock back.
LEMMA TimeForward ==
    ASSUME IInv, CoreNext
    PROVE  now \in Nat /\ now' \in Nat /\ now <= now'
<1>1. now \in Nat
  BY DEF IInv, TypeOK
<1>2. CASE Tick
  BY <1>1, <1>2 DEF Tick
<1>3. CASE ~Tick
  <2>1. now' = now
    BY <1>3 DEF CoreNext, FundScholarship, WithdrawScholarship, SetTaxRate, ClaimProtocolFees,
       InitiateFinalReleaseVote, CastCommunityVote, ClaimFinalRelease, VerifyAcademicProgress,
       RegisterUniversityAdmin, RegisterStudentUniversity, TriggerSecurityHold, LiftSecurityHold
  <2> QED
    BY <1>1, <2>1
<1> QED
  BY <1>2, <1>3

\* The escrow's own calls leave the conditions alone.
LEMMA EscrowKeeps ==
    ASSUME CInv, CoreNext, UNCHANGED clawVars
    PROVE  CInv'
<1>1. IInv'
  BY CoreStep DEF CInv
<1>2. UNCHANGED <<condition, clawbackLog, standing, lastFailed>>
  BY DEF clawVars
<1>3. ClawbackTypeOK'
  BY <1>1, <1>2 DEF CInv, ClawbackTypeOK, IInv
<1>4. now \in Nat /\ now' \in Nat /\ now <= now'
  BY TimeForward DEF CInv
<1>5. ASSUME NEW k \in Keys
      PROVE  Grounded(condition[k], standing[k[2]], lastFailed[k[2]], now')
  <2>1. Grounded(condition[k], standing[k[2]], lastFailed[k[2]], now)
    BY DEF CInv, TriggersGrounded
  <2>2. CASE condition[k] = None
    BY <2>2 DEF Grounded
  <2>3. CASE condition[k] # None
    <3>1. condition[k].triggered_at \in Nat \cup {None}
      BY <2>3, ConditionFields DEF CInv, ClawbackTypeOK
    <3> QED
      BY <1>4, <2>1, <3>1 DEF Grounded
  <2> QED
    BY <2>2, <2>3
<1>6. TriggersGrounded'
  BY <1>2, <1>5 DEF TriggersGrounded
<1> QED
  BY <1>1, <1>3, <1>6 DEF CInv

\* A step that changes nothing.
LEMMA StutterKeeps ==
    ASSUME CInv, UNCHANGED clawbackVars
    PROVE  CInv'
<1>1. UNCHANGED <<coreVars, condition, clawbackLog, standing, lastFailed>> /\ now' = now
  BY DEF clawbackVars, clawVars, coreVars
<1>2. IInv'
  BY <1>1, EscrowUntouched DEF CInv
<1> QED
  BY <1>1, <1>2 DEF CInv, ClawbackTypeOK, TriggersGrounded, IInv

\* Every step keeps the invariant.
LEMMA StepKeeps ==
    ASSUME CInv, [ClawbackNext]_clawbackVars
    PROVE  CInv'
<1>1. CASE SponsorNext
  BY <1>1, RegisterKeeps, TriggerKeeps, ExecuteKeeps, RevokeKeeps, StandingKeeps DEF SponsorNext
<1>2. CASE CoreNext /\ UNCHANGED clawVars
  BY <1>2, EscrowKeeps
<1>3. CASE UNCHANGED clawbackVars
  BY <1>3, StutterKeeps
<1> QED
  BY <1>1, <1>2, <1>3 DEF ClawbackNext

-----------------------------------------------------------------------------
(* Theorems. *)

\* The composition's invariant holds throughout, the escrow's within it: with
\* sponsors taking money back, grants are still conserved and the lock is kept.
THEOREM ClawbackInvariance == ClawbackSpec => []CInv
BY InitEstablishes, StepKeeps, PTL DEF ClawbackSpec

\* An execution is a forfeit in the student's account, and a stutter in others.
LEMMA ExecutionRefines ==
    ASSUME CInv, NEW k \in Keys, ExecuteClawback(k), NEW x \in Students
    PROVE  [Account(x)!Next]_(Account(x)!vars)
<1> DEFINE s == k[2]
           sc == scholarship[s]
<1>1. scholarship \in [Students -> ScholarshipRecord \cup {None}] /\ reduced \in [Students -> Nat]
  BY DEF CInv, IInv, TypeOK
<1>2. CASE x # s
  <2>1. UNCHANGED <<scholarship[x], vote[x], withdrawn[x], released[x], reduced[x]>>
    BY <1>1, <1>2, ExecutionFacts
  <2> QED
    BY <2>1, UntouchedAccount
<1>3. CASE x = s
  <2>1. scholarship'[s] = Left(k) /\ reduced'[s] = reduced[s] + Taken(k)
    BY <1>1, ExecutionFacts
  <2>2. /\ Granted(s)' = Granted(s) /\ FinallyOpen(s)' = FinallyOpen(s)
        /\ Held(s) = sc.balance /\ Held(s)' = sc.balance - Taken(k)
    BY <2>1, ExecutionFacts DEF Granted, FinallyOpen, Held
  <2>3. sc.balance \in Nat /\ Taken(k) \in Nat /\ Taken(k) <= sc.balance /\ reduced[s] \in Nat
    BY <1>1, ExecutionFacts DEF Sound, ScholarshipRecord
  <2>4. Held(s)' \in 0..Held(s) /\ reduced'[s] - reduced[s] = Held(s) - Held(s)'
    BY <2>1, <2>2, <2>3
  <2>5. /\ UNCHANGED <<withdrawn[s] + released[s], Approved(s)>>
        /\ OnHold(s)' = OnHold(s)
    BY ExecutionFacts, SameHold DEF Approved, ExecuteClawback
  <2> QED
    BY <1>3, <2>2, <2>4, <2>5 DEF Account!Next, Account!Forfeit
<1> QED
  BY <1>2, <1>3

\* With sponsors taking money back, the escrow still keeps the promise of
\* GrantAccount to every student, where no tax rate is full (withdraw_scholarship
\* would credit a negative request then).
THEOREM ClawbackRefinement ==
    ASSUME TaxBelowFull
    PROVE  ClawbackSpec => AccountsKept
<1> DEFINE Kept == \A s \in Students : [Account(s)!Next]_(Account(s)!vars)
<1>1. ClawbackInit => \A s \in Students : Account(s)!Init
  BY InitAccount DEF ClawbackInit
<1>2. ASSUME CInv, ClawbackNext PROVE Kept \/ UNCHANGED coreVars
  <2>1. CASE \E k \in Keys : ExecuteClawback(k)
    BY <1>2, <2>1, ExecutionRefines
  <2>2. CASE SponsorNext /\ ~\E k \in Keys : ExecuteClawback(k)
    BY <2>2 DEF SponsorNext, RegisterClawbackCondition, CheckAndTriggerClawback,
       RevokeClawbackCondition, StandingChanges
  <2>3. CASE CoreNext
    BY <1>2, <2>3, StepRefines DEF CInv
  <2> QED
    BY <1>2, <2>1, <2>2, <2>3 DEF ClawbackNext
<1>3. ASSUME UNCHANGED clawbackVars PROVE UNCHANGED coreVars
  BY <1>3 DEF clawbackVars
<1>4. CInv /\ [ClawbackNext]_clawbackVars => [Kept]_coreVars
  BY <1>2, <1>3
<1>5. ClawbackSpec => [][Kept]_coreVars
  BY <1>4, ClawbackInvariance, PTL DEF ClawbackSpec
<1>6. ClawbackSpec => \A s \in Students : Account(s)!Init
  BY <1>1, PTL DEF ClawbackSpec
<1> QED
  BY <1>5, <1>6 DEF AccountsKept

\* What an execution takes from the student leaves the custody with it.
LEMMA ExecutionSurplus ==
    ASSUME CInv, NEW k \in Keys, ExecuteClawback(k)
    PROVE  Surplus' = Surplus
<1> DEFINE s == k[2]
           sc == scholarship[s]
           amount == Taken(k)
           new == Left(k)
           t == sc.token
<1>1. /\ TypeOK /\ s \in Students /\ sc # None /\ Sound(sc)
      /\ amount \in Nat /\ new \in ScholarshipRecord
      /\ new.balance = sc.balance - amount
  BY ExecutionFacts DEF IInv, Sound
<1>2. /\ scholarship' = [scholarship EXCEPT ![s] = new]
      /\ custody' = [custody EXCEPT ![t] = custody[t] - amount]
      /\ feesAccrued' = feesAccrued /\ tuitionHeld' = tuitionHeld
  BY ExecutionFacts DEF ExecuteClawback, Taken
<1>3. sc.balance \in Nat /\ t \in Tokens /\ Held(s) = sc.balance
  BY <1>1 DEF Sound, ScholarshipRecord, Held
<1> HIDE DEF s, sc, amount, new, t
<1>4. TotalHeld' = TotalHeld - amount
  <2>1. TotalHeld' = TotalHeld - Held(s) + new.balance
    BY <1>1, <1>2, HeldUpdate
  <2> QED
    BY <1>1, <1>3, <2>1, HeldType
<1>5. TotalIn(custody)' = TotalIn(custody) + (-amount)
  <2>1. /\ custody \in [Tokens -> Int] /\ custody' \in [Tokens -> Int]
        /\ custody'[t] = custody[t] + (-amount)
        /\ \A x \in Tokens \ {t} : custody'[x] = custody[x]
    BY <1>1, <1>2, <1>3 DEF TypeOK
  <2>2. -amount \in Int
    BY <1>1
  <2>3. TotalIn(custody') = TotalIn(custody) + (-amount)
    BY <1>3, <2>1, <2>2, TotalUpdate
  <2> QED
    BY <2>3 DEF TotalIn
<1>6. TotalIn(feesAccrued)' = TotalIn(feesAccrued) /\ TotalIn(tuitionHeld)' = TotalIn(tuitionHeld)
  BY <1>2 DEF TotalIn
<1> QED
  BY <1>1, <1>4, <1>5, <1>6, TotalTypes DEF Surplus

\* With sponsors taking money back, too, the contract holds exactly what it
\* owes over all tokens, whatever amounts are asked for, negative ones included,
\* as long as no tax rate is full (execute_clawback, withdraw_scholarship).
THEOREM ClawbackBooked ==
    ASSUME TaxBelowFull
    PROVE  ClawbackSpec => [](Surplus = 0)
<1>1. ClawbackInit => Surplus = 0
  BY InitSurplus DEF ClawbackInit
<1>2. ASSUME CInv, [ClawbackNext]_clawbackVars PROVE Surplus' = Surplus
  <2>1. CASE \E k \in Keys : ExecuteClawback(k)
    BY <1>2, <2>1, ExecutionSurplus
  <2>2. CASE SponsorNext /\ ~\E k \in Keys : ExecuteClawback(k)
    <3>1. UNCHANGED coreVars
      BY <2>2 DEF SponsorNext, RegisterClawbackCondition, CheckAndTriggerClawback,
         RevokeClawbackCondition, StandingChanges
    <3> QED
      BY <1>2, <3>1, CoreSurplus DEF CInv
  <2>3. CASE CoreNext \/ UNCHANGED clawbackVars
    <3>1. [CoreNext]_coreVars
      BY <2>3 DEF clawbackVars
    <3> QED
      BY <1>2, <3>1, CoreSurplus DEF CInv
  <2> QED
    BY <1>2, <2>1, <2>2, <2>3 DEF ClawbackNext
<1>3. CInv /\ Surplus = 0 /\ [ClawbackNext]_clawbackVars => (Surplus = 0)'
  BY <1>2
<1> QED
  BY <1>1, <1>3, ClawbackInvariance, PTL DEF ClawbackSpec

\* Where the contract is used with one token and no full tax rate, a clawback leaves the token
\* balance what students, fees and universities are owed, and the unlocked part
\* of every scholarship covers its balance.
THEOREM ClawbackBooksKept ==
    ASSUME TaxBelowFull, \A t, u \in Tokens : t = u
    PROVE  ClawbackSpec => []BooksKept
<1>1. CInv /\ Surplus = 0 => BooksKept
  BY SurplusAccounts DEF CInv, IInv, BooksKept
<1> QED
  BY <1>1, ClawbackInvariance, ClawbackBooked, PTL

\* A TimeElapsed condition is not triggered, although lib.rs:385 counts it among the
\* "conditions that can trigger a scholarship clawback", with a threshold in "days".
TimeElapsedInert ==
    \A k \in Keys :
        /\ condition[k] # None
        /\ condition[k].trigger_type = "TimeElapsed"
        => condition[k].triggered_at = None

\* However long the sponsor waits and whatever the threshold, a TimeElapsed
\* condition is never triggered: check_time_elapsed counts from the trigger it is
\* asked to decide.
THEOREM TimeElapsedAlwaysInert == ClawbackSpec => []TimeElapsedInert
<1>1. CInv => TimeElapsedInert
  BY DEF CInv, TriggersGrounded, Grounded, TimeElapsedInert
<1> QED
  BY <1>1, ClawbackInvariance, PTL

\* For any conditions and periods, an execution stays on record unless the
\* sponsor registers again in the ledger of the condition (execute_clawback).
THEOREM ExecutedAlwaysFinal == ClawbackSpec => ExecutedIsFinal
<1> DEFINE Final ==
       \A k \in Keys :
         /\ condition[k] # None
         /\ condition[k].executed_at # None
         => \/ condition'[k].executed_at = condition[k].executed_at
            \/ k[3] = now
<1>1. ASSUME CInv, ClawbackNext PROVE Final
  <2> SUFFICES ASSUME NEW k \in Keys, condition[k] # None, condition[k].executed_at # None
               PROVE  \/ condition'[k].executed_at = condition[k].executed_at
                      \/ k[3] = now
    OBVIOUS
  <2>1. condition \in [Keys -> ClawbackCondition \cup {None}]
    BY <1>1 DEF CInv, ClawbackTypeOK
  <2>2. ASSUME NEW f \in Funders, NEW s \in Students, NEW type \in TriggerTypes,
               NEW p \in Percentages, RegisterClawbackCondition(f, s, type, p), k[3] # now
        PROVE  condition'[k] = condition[k]
    <3>1. k # <<f, s, now>>
      BY <2>2
    <3> QED
      BY <2>1, <2>2, <3>1 DEF RegisterClawbackCondition
  <2>3. ASSUME NEW x \in Keys, CheckAndTriggerClawback(x)
        PROVE  condition'[k].executed_at = condition[k].executed_at
    <3>1. condition' = [condition EXCEPT ![x] = Triggered(condition[x])]
      BY <2>3 DEF CheckAndTriggerClawback
    <3>2. condition[k] \in ClawbackCondition
      BY <2>1
    <3>3. Triggered(condition[k]).executed_at = condition[k].executed_at
      BY <3>2 DEF Triggered, ClawbackCondition
    <3> QED
      BY <2>1, <3>1, <3>3
  <2>4. ASSUME NEW x \in Keys, ExecuteClawback(x)
        PROVE  condition'[k] = condition[k]
    <3>1. condition[x].executed_at = None
      BY <2>4 DEF ExecuteClawback
    <3> QED
      BY <2>1, <2>4, <3>1 DEF ExecuteClawback
  <2>5. ASSUME NEW x \in Keys, RevokeClawbackCondition(x)
        PROVE  condition'[k] = condition[k]
    <3>1. condition[x].executed_at = None
      BY <2>5 DEF RevokeClawbackCondition
    <3> QED
      BY <2>1, <2>5, <3>1 DEF RevokeClawbackCondition
  <2>6. CASE \/ \E s \in Students, failing \in SUBSET (TriggerTypes \ {"TimeElapsed"}) :
                  StandingChanges(s, failing)
             \/ UNCHANGED clawVars
    BY <2>6 DEF StandingChanges, clawVars
  <2> QED
    BY <1>1, <2>2, <2>3, <2>4, <2>5, <2>6 DEF ClawbackNext, SponsorNext
<1>2. ASSUME UNCHANGED clawbackVars PROVE Final
  BY <1>2 DEF clawbackVars, clawVars
<1>3. CInv /\ [ClawbackNext]_clawbackVars => [Final]_clawbackVars
  BY <1>1, <1>2
<1>4. ClawbackSpec => [][Final]_clawbackVars
  BY <1>3, ClawbackInvariance, PTL DEF ClawbackSpec
<1> QED
  BY <1>4 DEF ExecutedIsFinal

\* For any tests, windows and changes of a student's standing, money goes back
\* only on a test that fails now or failed within the window (check_and_trigger_clawback,
\* execute_clawback).
THEOREM ClawbackAlwaysGrounded == ClawbackSpec => ClawbackGrounded
<1> DEFINE Entitled(k) ==
       LET type == condition[k].trigger_type IN
         \/ type \in standing[k[2]]
         \/ /\ lastFailed[k[2]][type] # None
            /\ now - lastFailed[k[2]][type] <= CLAWBACK_EXECUTION_TIMEOUT
<1>1. ASSUME CInv, NEW k \in Keys, ExecuteClawback(k)
      PROVE  /\ condition[k] # None
             /\ condition[k].executed_at # condition'[k].executed_at
             /\ Entitled(k)
  <2> DEFINE c == condition[k]
  <2>1. /\ c # None /\ c \in ClawbackCondition /\ c.triggered_at # None
        /\ c.executed_at = None /\ now <= c.triggered_at + CLAWBACK_EXECUTION_TIMEOUT
        /\ condition' = [condition EXCEPT ![k] = Executed(c)]
    BY <1>1 DEF CInv, ClawbackTypeOK, ExecuteClawback, WithinWindow
  <2>2. condition'[k].executed_at = now
    BY <1>1, <2>1 DEF CInv, ClawbackTypeOK, Executed, ClawbackCondition
  <2>3. now \in Nat /\ now # None /\ CLAWBACK_EXECUTION_TIMEOUT \in Nat
    BY <1>1, NoConditionAssumption, ClawbackAssumption DEF CInv, IInv, TypeOK
  <2>4. c.triggered_at \in Nat /\ c.trigger_type \in TriggerTypes
    BY <2>1, ConditionFields
  <2>5. lastFailed[k[2]][c.trigger_type] \in Nat \cup {None}
    BY <1>1, <2>4, KeyParts DEF CInv, ClawbackTypeOK
  <2>6. FailedSince(c, standing[k[2]], lastFailed[k[2]])
    BY <1>1, <2>1 DEF CInv, TriggersGrounded, Grounded
  <2> HIDE DEF c
  <2>7. \/ c.trigger_type \in standing[k[2]]
        \/ /\ lastFailed[k[2]][c.trigger_type] # None
           /\ now - lastFailed[k[2]][c.trigger_type] <= CLAWBACK_EXECUTION_TIMEOUT
    BY <2>1, <2>3, <2>4, <2>5, <2>6 DEF FailedSince
  <2> QED
    BY <2>1, <2>2, <2>3, <2>7 DEF c
<1> DEFINE Backed ==
       \A s \in Students : reduced'[s] > reduced[s] =>
         \E k \in Keys :
            /\ k[2] = s /\ condition[k] # None
            /\ condition[k].executed_at # condition'[k].executed_at
            /\ LET type == condition[k].trigger_type IN
                 \/ type \in standing[s]
                 \/ /\ lastFailed[s][type] # None
                    /\ now - lastFailed[s][type] <= CLAWBACK_EXECUTION_TIMEOUT
<1>2. ASSUME CInv, reduced' = reduced PROVE Backed
  <2>1. \A s \in Students : ~(reduced[s] > reduced[s])
    BY <1>2 DEF CInv, IInv, TypeOK
  <2> QED
    BY <1>2, <2>1
<1>3. ASSUME CInv, NEW k \in Keys, ExecuteClawback(k) PROVE Backed
  <2> SUFFICES ASSUME NEW s \in Students, reduced'[s] > reduced[s]
               PROVE  k[2] = s
    BY <1>1, <1>3
  <2>1. reduced' = [reduced EXCEPT ![k[2]] =
                      reduced[k[2]] + ClawbackAmount(scholarship[k[2]], condition[k])]
    BY <1>3 DEF ExecuteClawback
  <2>2. reduced \in [Students -> Nat]
    BY <1>3 DEF CInv, IInv, TypeOK
  <2>3. k[2] # s => reduced'[s] = reduced[s]
    BY <2>1, <2>2
  <2> QED
    BY <2>2, <2>3
<1>4. ASSUME CInv, ClawbackNext PROVE Backed
  <2>1. CASE \E k \in Keys : ExecuteClawback(k)
    BY <1>3, <1>4, <2>1
  <2>2. CASE SponsorNext /\ ~\E k \in Keys : ExecuteClawback(k)
    <3>1. UNCHANGED coreVars
      BY <2>2 DEF SponsorNext, RegisterClawbackCondition, CheckAndTriggerClawback,
         RevokeClawbackCondition, StandingChanges
    <3> QED
      BY <1>2, <1>4, <3>1 DEF coreVars, grantVars, historyVars
  <2>3. CASE CoreNext
    <3>1. reduced' = reduced
      BY <2>3 DEF CoreNext, FundScholarship, WithdrawScholarship, SetTaxRate, ClaimProtocolFees,
         InitiateFinalReleaseVote, CastCommunityVote, ClaimFinalRelease, VerifyAcademicProgress,
         RegisterUniversityAdmin, RegisterStudentUniversity, TriggerSecurityHold,
         LiftSecurityHold, Tick, grantVars, historyVars
    <3> QED
      BY <1>2, <1>4, <3>1
  <2> QED
    BY <1>4, <2>1, <2>2, <2>3 DEF ClawbackNext
<1>5. CInv /\ [ClawbackNext]_clawbackVars => [Backed]_clawbackVars
  BY <1>4
<1>6. ClawbackSpec => [][Backed]_clawbackVars
  BY <1>5, ClawbackInvariance, PTL DEF ClawbackSpec
<1> QED
  BY <1>6 DEF ClawbackGrounded

=============================================================================
