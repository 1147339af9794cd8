------------------------- MODULE ScholarshipProofs -------------------------
(***************************************************************************)
(* The safety invariants of the escrow, for every value of the constants.  *)
(* IInv is inductive: the conservation of each grant gives the locked      *)
(* tenth its meaning (what was withdrawn plus what is left is the grant),  *)
(* and the lock in turn needs that balances never exceed the unlocked      *)
(* part, which keeps every record well typed.                              *)
(***************************************************************************)
EXTENDS ClaimMirror, SumLemmas

\* A part of n, rounded down, is a natural number no larger than n.
LEMMA DivBound ==
    ASSUME NEW n \in Nat, NEW p \in Nat, NEW d \in Nat \ {0}, p <= d
    PROVE  /\ (n * p) \div d \in Nat
           /\ (n * p) \div d <= n
<1>1. n * p \in Nat /\ n * d \in Nat OBVIOUS
<1>2. n * p <= n * d OBVIOUS
<1>3. QED BY <1>1, <1>2

\* The two shares of a funding are natural numbers and add up to it.
LEMMA ShareBound ==
    ASSUME NEW a \in Nat
    PROVE  /\ UniversityShare(a) \in Nat /\ StudentShare(a) \in Nat
           /\ UniversityShare(a) + StudentShare(a) = a
BY DEF UniversityShare, StudentShare, UNIVERSITY_PERCENTAGE

\* The locked tenth is part of the grant, grows with the grant, and by no more
\* than the grant does.
LEMMA LockedBound ==
    ASSUME NEW a \in Nat, NEW b \in Nat
    PROVE  /\ Locked(a) \in Nat /\ Locked(a) <= a
           /\ Locked(a + b) <= Locked(a) + b
           /\ Locked(a) <= Locked(a + b)
BY DEF Locked, FINAL_RELEASE_PERCENTAGE

\* The tax on a withdrawal is a part of it.
LEMMA TaxBound ==
    ASSUME taxRate \in BasisPoints, NEW a \in Nat
    PROVE  Tax(a) \in Nat /\ Tax(a) <= a
<1> DEFINE rate == taxRate
<1>1. rate \in Nat /\ rate <= 10000
  BY DEF BasisPoints
<1> HIDE DEF rate
<1>2. (a * rate) \div 10000 \in Nat /\ (a * rate) \div 10000 <= a
  BY <1>1, DivBound
<1>3. QED BY <1>2 DEF Tax, rate

\* The rate in force is one that was set, or 0.
LEMMA RateBound == ASSUME TypeOK PROVE taxRate \in BasisPoints
<1>1. 0 \in BasisPoints
  BY DEF BasisPoints
<1> QED BY <1>1, AmountsAssumption DEF TypeOK

\* The tax on a request below zero is not positive; and unless everything is
\* taxed, less than nothing is left after it.
LEMMA NegativeTax ==
    ASSUME taxRate \in BasisPoints, NEW a \in Int, a < 0
    PROVE  /\ Tax(a) \in Int /\ Tax(a) <= 0 /\ a - Tax(a) <= 0
           /\ taxRate # 10000 => a - Tax(a) < 0
<1> DEFINE rate == taxRate
           n == -a
<1>1. rate \in Nat /\ rate <= 10000
  BY DEF BasisPoints
<1>2. n \in Nat /\ n > 0 /\ a = -n
  OBVIOUS
<1>3. Tax(a) = -((n * rate) \div 10000)
  BY DEF Tax
<1> HIDE DEF rate, n
<1>4. (n * rate) \div 10000 \in Nat /\ (n * rate) \div 10000 <= n
  BY <1>1, <1>2, DivBound
<1>5. rate # 10000 => (n * rate) \div 10000 < n
  <2> SUFFICES ASSUME rate # 10000 PROVE (n * rate) \div 10000 < n
    OBVIOUS
  <2>1. n * rate \in Nat /\ n * rate <= n * 9999
    BY <1>1, <1>2
  <2>2. n * rate < n * 10000
    BY <1>2, <2>1
  <2> QED BY <1>2, <2>1, <2>2
<1>6. Tax(a) \in Int /\ Tax(a) <= 0 /\ a - Tax(a) <= 0
  BY <1>2, <1>3, <1>4
<1>7. rate # 10000 => a - Tax(a) < 0
  BY <1>2, <1>3, <1>4, <1>5
<1> QED BY <1>6, <1>7 DEF rate

\* What an accepted request pays out and what it accrues: together the amount,
\* or nothing at all for an amount below zero.
LEMMA AcceptedTerms ==
    ASSUME TypeOK, NEW s \in Students, NEW a \in WithdrawAmounts, WithdrawalAccepted(s, a)
    PROVE  /\ a \in Int /\ Tax(a) \in Int /\ Fee(a) \in Nat
           /\ a - Tax(a) \in Nat
           /\ a - Tax(a) <= custody[scholarship[s].token]
           /\ a >= 0 => Fee(a) = Tax(a)
           /\ a < 0 => Fee(a) = 0 /\ a - Tax(a) = 0
<1>1. a \in Int /\ taxRate \in BasisPoints
  BY AmountsAssumption, RateBound
<1>2. /\ a - Tax(a) \in 0..custody[scholarship[s].token]
  BY DEF WithdrawalAccepted
<1>3. CASE a >= 0
  <2>1. Tax(a) \in Nat
    BY <1>1, <1>3, TaxBound
  <2>2. Fee(a) = Tax(a)
    BY <2>1 DEF Fee
  <2> QED BY <1>1, <1>2, <1>3, <2>1, <2>2
<1>4. CASE a < 0
  <2>1. Tax(a) \in Int /\ Tax(a) <= 0 /\ a - Tax(a) <= 0
    BY <1>1, <1>4, NegativeTax
  <2>2. Fee(a) = 0
    BY <2>1 DEF Fee
  <2> QED BY <1>1, <1>2, <1>4, <2>1, <2>2
<1> QED BY <1>1, <1>3, <1>4

\* Below full tax no request below zero is accepted.
LEMMA AcceptedNatural ==
    ASSUME TaxBelowFull, TypeOK, NEW s \in Students, NEW a \in WithdrawAmounts,
           WithdrawalAccepted(s, a)
    PROVE  a \in Nat
<1>1. a \in Int /\ taxRate \in BasisPoints /\ taxRate # 10000
  BY AmountsAssumption, RateBound DEF TaxBelowFull, TypeOK
<1>2. ~(a < 0)
  <2> SUFFICES ASSUME a < 0 PROVE FALSE
    OBVIOUS
  <2>1. a - Tax(a) < 0
    BY <1>1, NegativeTax
  <2> QED BY <2>1 DEF WithdrawalAccepted
<1> QED BY <1>1, <1>2

-----------------------------------------------------------------------------
(* What the helpers do to a record.  An EXCEPT of several fields is taken   *)
(* apart into one EXCEPT per field.                                         *)

\* A well-typed record whose unlocked part covers the balance.
Sound(sc) == sc \in ScholarshipRecord /\ sc.balance <= sc.unlocked_balance

\* Crediting a share keeps the record sound and adds to balance and grant alike.
LEMMA CreditedSound ==
    ASSUME NEW sc, Sound(sc), NEW share \in Nat, NEW n \in BOOLEAN
    PROVE  /\ Sound(Credited(sc, share, n))
           /\ Credited(sc, share, n).balance = sc.balance + share
           /\ Credited(sc, share, n).total_grant = sc.total_grant + share
           /\ Credited(sc, share, n).final_release_claimed = sc.final_release_claimed
           /\ Credited(sc, share, n).funder = sc.funder
<1> DEFINE x1 == [sc EXCEPT !.balance = sc.balance + share]
           x2 == [x1 EXCEPT !.unlocked_balance = sc.unlocked_balance + share]
           x3 == [x2 EXCEPT !.total_grant = sc.total_grant + share]
           x4 == [x3 EXCEPT !.is_native = n]
<1>0. Credited(sc, share, n) = x4 
   BY DEF Sound, Credited, ScholarshipRecord
<1>1. /\ x1 \in ScholarshipRecord
      /\ x1.balance = sc.balance + share
      /\ x1.unlocked_balance = sc.unlocked_balance
      /\ x1.total_grant = sc.total_grant
      /\ x1.final_release_claimed = sc.final_release_claimed
      /\ x1.funder = sc.funder
   BY DEF Sound, ScholarshipRecord
<1> HIDE DEF x1
<1>2. /\ x2 \in ScholarshipRecord
      /\ x2.balance = sc.balance + share
      /\ x2.unlocked_balance = sc.unlocked_balance + share
      /\ x2.total_grant = sc.total_grant
      /\ x2.final_release_claimed = sc.final_release_claimed
      /\ x2.funder = sc.funder
   BY <1>1 DEF Sound, ScholarshipRecord
<1> HIDE DEF x2
<1>3. /\ x3 \in ScholarshipRecord
      /\ x3.balance = sc.balance + share
      /\ x3.unlocked_balance = sc.unlocked_balance + share
      /\ x3.total_grant = sc.total_grant + share
      /\ x3.final_release_claimed = sc.final_release_claimed
      /\ x3.funder = sc.funder
   BY <1>2 DEF Sound, ScholarshipRecord
<1> HIDE DEF x3
<1>4. /\ x4 \in ScholarshipRecord
      /\ x4.balance = sc.balance + share
      /\ x4.unlocked_balance = sc.unlocked_balance + share
      /\ x4.total_grant = sc.total_grant + share
      /\ x4.final_release_claimed = sc.final_release_claimed
      /\ x4.funder = sc.funder
   BY <1>3 DEF ScholarshipRecord
<1> HIDE DEF x4
<1> QED BY <1>0, <1>4 DEF Sound, ScholarshipRecord

\* Debiting no more than the balance keeps the record sound.
LEMMA DebitedSound ==
    ASSUME NEW sc, Sound(sc), NEW a \in Int, a <= sc.balance
    PROVE  /\ Sound(Debited(sc, a))
           /\ Debited(sc, a).balance = sc.balance - a
           /\ Debited(sc, a).total_grant = sc.total_grant
           /\ Debited(sc, a).final_release_claimed = sc.final_release_claimed
           /\ Debited(sc, a).funder = sc.funder
<1> DEFINE x1 == [sc EXCEPT !.balance = sc.balance - a]
           x2 == [x1 EXCEPT !.unlocked_balance = sc.unlocked_balance - a]
<1>1. Debited(sc, a) = x2
  BY DEF Sound, Debited, ScholarshipRecord
<1>2. /\ x1 \in ScholarshipRecord
      /\ x1.balance = sc.balance - a
      /\ x1.unlocked_balance = sc.unlocked_balance
      /\ x1.total_grant = sc.total_grant
      /\ x1.final_release_claimed = sc.final_release_claimed
      /\ x1.funder = sc.funder
  BY DEF Sound, ScholarshipRecord
<1> HIDE DEF x1
<1>3. /\ x2 \in ScholarshipRecord
      /\ x2.balance = sc.balance - a
      /\ x2.unlocked_balance = sc.unlocked_balance - a
      /\ x2.total_grant = sc.total_grant
      /\ x2.final_release_claimed = sc.final_release_claimed
      /\ x2.funder = sc.funder
  BY <1>2 DEF Sound, ScholarshipRecord
<1> HIDE DEF x2
<1> QED BY <1>1, <1>3 DEF Sound, ScholarshipRecord

\* The final release leaves a sound record that holds just the reserve.
LEMMA FinallyReleasedSound ==
    ASSUME NEW sc, Sound(sc), ReserveKept(sc) <= sc.balance
    PROVE  /\ ReserveKept(sc) \in Nat
           /\ Sound(FinallyReleased(sc))
           /\ FinallyReleased(sc).balance = ReserveKept(sc)
           /\ FinallyReleased(sc).total_grant = sc.total_grant
           /\ FinallyReleased(sc).final_release_claimed
           /\ FinallyReleased(sc).funder = sc.funder
<1> DEFINE left == IF sc.is_native
                   THEN sc.unlocked_balance - (sc.balance - NATIVE_XLM_RESERVE) ELSE 0
           x1 == [sc EXCEPT !.balance = ReserveKept(sc)]
           x2 == [x1 EXCEPT !.unlocked_balance = left]
           x3 == [x2 EXCEPT !.final_release_claimed = TRUE]
<1>0. ReserveKept(sc) \in Nat /\ left \in Nat /\ ReserveKept(sc) <= left
  BY LimitsAssumption DEF Sound, ReserveKept, ScholarshipRecord
<1>1. FinallyReleased(sc) = x3
  BY DEF Sound, FinallyReleased, ScholarshipRecord
<1> HIDE DEF left
<1>2. /\ x1 \in ScholarshipRecord
      /\ x1.balance = ReserveKept(sc)
      /\ x1.total_grant = sc.total_grant
      /\ x1.funder = sc.funder
  BY <1>0 DEF Sound, ScholarshipRecord
<1> HIDE DEF x1
<1>3. /\ x2 \in ScholarshipRecord
      /\ x2.balance = ReserveKept(sc)
      /\ x2.unlocked_balance = left
      /\ x2.total_grant = sc.total_grant
      /\ x2.funder = sc.funder
  BY <1>0, <1>2 DEF ScholarshipRecord
<1> HIDE DEF x2
<1>4. /\ x3 \in ScholarshipRecord
      /\ x3.balance = ReserveKept(sc)
      /\ x3.unlocked_balance = left
      /\ x3.total_grant = sc.total_grant
      /\ x3.final_release_claimed
      /\ x3.funder = sc.funder
  BY <1>3 DEF ScholarshipRecord
<1> HIDE DEF x3
<1> QED BY <1>0, <1>1, <1>4 DEF Sound, ScholarshipRecord

\* Unlocking more changes nothing but the unlocked part.
LEMMA MoreUnlockedSound ==
    ASSUME NEW sc, Sound(sc)
    PROVE  /\ Sound(MoreUnlocked(sc))
           /\ MoreUnlocked(sc).balance = sc.balance
           /\ MoreUnlocked(sc).total_grant = sc.total_grant
           /\ MoreUnlocked(sc).final_release_claimed = sc.final_release_claimed
           /\ MoreUnlocked(sc).funder = sc.funder
BY LimitsAssumption DEF Sound, MoreUnlocked, ScholarshipRecord

-----------------------------------------------------------------------------
(* The inductive invariant.                                                *)

\* A vote's set of voters is finite, so that its cardinality counts it.
VotersFinite == \A s \in Students : vote[s] # None => IsFiniteSet(vote[s].voters)

\* The inductive invariant: the properties of the runs and the finiteness that
\* makes a vote's cardinality meaningful.
IInv ==
    /\ TypeOK
    /\ UnlockedCoversBalance
    /\ GrantConserved
    /\ WithdrawalsRespectLock
    /\ ReleaseNeedsQuorum
    /\ VotersFinite

\* The invariant holds initially.
LEMMA InitIInv == CoreInit => IInv
<1> SUFFICES ASSUME CoreInit PROVE IInv OBVIOUS
<1>1. TypeOK
  BY LimitsAssumption DEF CoreInit, TypeOK
<1> QED
  BY <1>1 DEF CoreInit, IInv, UnlockedCoversBalance, GrantConserved, Granted, Held,
              WithdrawalsRespectLock, ReleaseNeedsQuorum, VoteCounted,
       ReleaseApproved, FinallyOpen, Approved, VotersFinite, Scholars

\* Under the invariant every scholarship is a sound record.
LEMMA RecordsSound ==
    ASSUME IInv, NEW s \in Students, scholarship[s] # None
    PROVE  Sound(scholarship[s])
BY DEF IInv, TypeOK, UnlockedCoversBalance, Scholars, Sound

\* A step that leaves the records, the votes and the history alone.
LEMMA QuietStep ==
    ASSUME IInv, TypeOK',
           UNCHANGED <<scholarship, vote, graduates, withdrawn, released, reduced>>
    PROVE  IInv'
BY DEF IInv, UnlockedCoversBalance, GrantConserved, Granted, Held, WithdrawalsRespectLock,
       ReleaseNeedsQuorum, VoteCounted,
       ReleaseApproved, FinallyOpen, Approved, VotersFinite, Scholars

\* A step that rewrites the record of one student, not its final flag, and
\* leaves votes, registry and releases alone, keeps the quorum property.
LEMMA SameFlagStep ==
    ASSUME IInv, NEW s \in Students, NEW new,
           scholarship' = [scholarship EXCEPT ![s] = new],
           new # None,
           scholarship[s] = None => ~new.final_release_claimed,
           scholarship[s] # None =>
               /\ new.final_release_claimed = scholarship[s].final_release_claimed
               /\ new.funder = scholarship[s].funder,
           UNCHANGED <<vote, graduates, released>>
    PROVE  ReleaseNeedsQuorum' /\ VotersFinite'
<1>1. ASSUME NEW x \in Students PROVE VoteCounted(x)' /\ ReleaseApproved(x)'
  <2>1. VoteCounted(x) /\ ReleaseApproved(x)
    BY DEF IInv, ReleaseNeedsQuorum
  <2>2. VoteCounted(x)'
    BY <2>1 DEF VoteCounted
  <2>3. CASE x = s
    <3>1. scholarship'[x] = new
      BY <2>3 DEF IInv, TypeOK
    <3> QED BY <2>1, <2>2, <2>3, <3>1 DEF ReleaseApproved, FinallyOpen, Approved
  <2>4. CASE x # s
    <3>1. scholarship'[x] = scholarship[x]
      BY <2>4 DEF IInv, TypeOK
    <3> QED BY <2>1, <2>2, <3>1 DEF ReleaseApproved, FinallyOpen, Approved
  <2> QED BY <2>3, <2>4
<1>2. VotersFinite'
  BY DEF IInv, VotersFinite
<1> QED BY <1>1, <1>2 DEF ReleaseNeedsQuorum

\* fund_scholarship preserves the invariant: a larger grant raises the lock by
\* no more than it raises the balance.
LEMMA FundStep ==
    ASSUME IInv,
           NEW f \in Funders, NEW s \in Students, NEW a \in FundAmounts,
           NEW t \in Tokens, NEW n \in BOOLEAN,
           FundScholarship(f, s, a, t, n)
    PROVE  IInv'
<1> DEFINE share == StudentShare(a)
           old == RecordToFund(s, f, t, n)
           new == Credited(old, share, n)
<1>1. a \in Nat /\ share \in Nat /\ UniversityShare(a) \in Nat
  BY AmountsAssumption, ShareBound
<1>2. Sound(old)
  BY RecordsSound DEF RecordToFund, NewScholarship, Sound, ScholarshipRecord
<1>3. /\ scholarship[s] = None =>
             /\ old.balance = 0 /\ old.total_grant = 0
             /\ ~old.final_release_claimed
      /\ scholarship[s] # None => old = scholarship[s]
  BY DEF RecordToFund, NewScholarship
<1>4. /\ Sound(new)
      /\ new.balance = old.balance + share
      /\ new.total_grant = old.total_grant + share
      /\ new.final_release_claimed = old.final_release_claimed
      /\ new.funder = old.funder
  BY <1>1, <1>2, CreditedSound
<1>5. scholarship' = [scholarship EXCEPT ![s] = new]
  BY DEF FundScholarship
<1>6. UNCHANGED <<vote, graduates, withdrawn, released, reduced>>
  BY DEF FundScholarship
<1>7. old.balance \in Nat /\ old.total_grant \in Nat
  BY <1>2 DEF Sound, ScholarshipRecord
<1> HIDE DEF share, old, new
<1>8. new \in ScholarshipRecord /\ new # None
  BY <1>4, NoneAssumption DEF Sound
<1>9. TypeOK'
  <2>1. scholarship' \in [Students -> ScholarshipRecord \cup {None}]
    BY <1>5, <1>8 DEF IInv, TypeOK
  <2>2. custody' \in [Tokens -> Nat] /\ tuitionHeld' \in [Tokens -> Nat]
    BY <1>1 DEF IInv, TypeOK, FundScholarship
  <2> QED BY <2>1, <2>2 DEF IInv, TypeOK, FundScholarship, holdVars
<1>10. UnlockedCoversBalance'
  BY <1>4, <1>5 DEF IInv, TypeOK, UnlockedCoversBalance, Scholars, Sound
<1>11. GrantConserved'
  BY <1>1, <1>3, <1>4, <1>5, <1>6, <1>7, <1>8 DEF IInv, TypeOK, GrantConserved, Granted, Held
<1>12. WithdrawalsRespectLock'
  <2>0. withdrawn[s] \in Int /\ released[s] \in Nat /\ reduced[s] \in Nat
    BY DEF IInv, TypeOK
  <2>1. /\ Locked(old.total_grant + share) <= Locked(old.total_grant) + share
        /\ Locked(old.total_grant) \in Nat
        /\ Locked(old.total_grant) <= old.total_grant
        /\ Locked(old.total_grant + share) \in Nat
    <3> DEFINE total == old.total_grant
    <3>1. total \in Nat /\ share \in Nat
      BY <1>1, <1>7
    <3> HIDE DEF total
    <3>2. /\ Locked(total + share) <= Locked(total) + share
          /\ Locked(total) \in Nat /\ Locked(total) <= total
      BY <3>1, LockedBound
    <3>3. Locked(total + share) \in Nat
      BY <3>1, LockedBound
    <3> QED BY <3>2, <3>3 DEF total
  <2>2. ~old.final_release_claimed =>
          withdrawn[s] <= old.total_grant - Locked(old.total_grant)
    <3>1. CASE scholarship[s] = None
      <4>1. withdrawn[s] <= 0
        <5>1. Granted(s) = 0 /\ Held(s) = 0
          BY <3>1 DEF Granted, Held
        <5>2. Granted(s) = Held(s) + withdrawn[s] + released[s] + reduced[s]
          BY DEF IInv, GrantConserved
        <5> QED BY <2>0, <5>1, <5>2
      <4>2. old.total_grant = 0
        BY <1>3, <3>1
      <4> QED BY <4>1, <4>2, <2>0, <2>1
    <3>2. CASE scholarship[s] # None
      BY <3>2, <1>3 DEF IInv, WithdrawalsRespectLock, Scholars
    <3> QED BY <3>1, <3>2
  <2>3. ~new.final_release_claimed =>
          withdrawn[s] <= new.total_grant - Locked(new.total_grant)
    BY <2>0, <2>1, <2>2, <1>1, <1>4, <1>7
  <2> QED BY <2>3, <1>5, <1>6 DEF IInv, TypeOK, WithdrawalsRespectLock, Scholars
<1>13. ReleaseNeedsQuorum' /\ VotersFinite'
  BY <1>3, <1>4, <1>5, <1>6, <1>8, SameFlagStep
<1> QED BY <1>9, <1>10, <1>11, <1>12, <1>13 DEF IInv

\* A withdrawal leaves the locked tenth in the balance until the release.
LEMMA WithdrawalKeepsLock ==
    ASSUME IInv, NEW s \in Students, NEW a \in WithdrawAmounts, WithdrawScholarship(s, a)
    PROVE  LET sc == scholarship[s] IN
             ~sc.final_release_claimed => a <= sc.balance - Locked(sc.total_grant)
<1> DEFINE sc == scholarship[s]
           total == sc.total_grant
<1>1. a \in Int /\ a <= sc.balance /\ a <= Available(sc) /\ sc # None
  BY AmountsAssumption DEF WithdrawScholarship, WithdrawalAccepted
<1>2. sc.balance \in Nat /\ total \in Nat /\ sc.unlocked_balance \in Nat
  BY <1>1, RecordsSound DEF Sound, ScholarshipRecord
<1>3. Locked(total) \in Nat
  BY <1>2, LockedBound
<1>4. sc.final_release_claimed \/ sc.balance > Locked(total)
  BY DEF WithdrawScholarship, WithdrawalAccepted
<1>5. CASE total = 0
  BY <1>5, <1>1, <1>2 DEF Locked, FINAL_RELEASE_PERCENTAGE
<1>6. CASE total # 0 /\ ~sc.final_release_claimed
  <2>1. a <= Lesser(sc.unlocked_balance, sc.balance - Locked(total))
    BY <1>1, <1>4, <1>6 DEF Available
  <2> QED BY <2>1, <1>1, <1>2, <1>3 DEF Lesser
<1> QED BY <1>5, <1>6

\* withdraw_scholarship preserves the invariant.
LEMMA WithdrawStep ==
    ASSUME IInv, NEW s \in Students, NEW a \in WithdrawAmounts,
           WithdrawScholarship(s, a)
    PROVE  IInv'
<1> DEFINE sc == scholarship[s]
           new == Debited(sc, a)
           total == sc.total_grant
<1>1. a \in Int
  BY AmountsAssumption
<1>2. sc # None /\ a <= sc.balance /\ a <= Available(sc)
  BY DEF WithdrawScholarship, WithdrawalAccepted
<1>3. Sound(sc)
  BY <1>2, RecordsSound
<1>4. /\ Sound(new)
      /\ new.balance = sc.balance - a
      /\ new.total_grant = sc.total_grant
      /\ new.final_release_claimed = sc.final_release_claimed
      /\ new.funder = sc.funder
  BY <1>1, <1>2, <1>3, DebitedSound
<1>5. /\ scholarship' = [scholarship EXCEPT ![s] = new]
      /\ withdrawn' = [withdrawn EXCEPT ![s] = withdrawn[s] + a]
      /\ UNCHANGED <<vote, graduates, released, reduced>>
  BY DEF WithdrawScholarship, WithdrawalAccepted
<1>6. sc.balance \in Nat /\ total \in Nat /\ sc.token \in Tokens
  BY <1>3 DEF Sound, ScholarshipRecord
<1>7. new \in ScholarshipRecord /\ new # None
  BY <1>4, NoneAssumption DEF Sound
<1>8. withdrawn[s] \in Int /\ released[s] \in Nat /\ reduced[s] \in Nat
  BY DEF IInv, TypeOK
<1>9. TypeOK'
  <2>1. scholarship' \in [Students -> ScholarshipRecord \cup {None}]
    BY <1>5, <1>7 DEF IInv, TypeOK
  <2>2. withdrawn' \in [Students -> Int]
    BY <1>1, <1>5, <1>8 DEF IInv, TypeOK
  <2>3. Fee(a) \in Nat /\ a - Tax(a) \in Nat /\ a - Tax(a) <= custody[sc.token]
    BY AcceptedTerms DEF IInv, WithdrawScholarship
  <2>4. /\ custody' = [custody EXCEPT ![sc.token] = custody[sc.token] - (a - Tax(a))]
        /\ feesAccrued' = [feesAccrued EXCEPT ![sc.token] = feesAccrued[sc.token] + Fee(a)]
    BY DEF WithdrawScholarship, WithdrawalAccepted
  <2>5. custody[sc.token] \in Nat /\ feesAccrued[sc.token] \in Nat
    BY <1>6 DEF IInv, TypeOK
  <2>6. /\ custody[sc.token] - (a - Tax(a)) \in Nat
        /\ feesAccrued[sc.token] + Fee(a) \in Nat
    BY <2>3, <2>5
  <2>7. custody' \in [Tokens -> Nat] /\ feesAccrued' \in [Tokens -> Nat]
    BY <1>6, <2>4, <2>6 DEF IInv, TypeOK
  <2>8. UNCHANGED <<now, vote, graduates, taxRate, released, reduced, tuitionHeld,
                    universityAdmin, studentUniversity, securityHold>>
    BY DEF WithdrawScholarship, WithdrawalAccepted, holdVars
  <2> QED BY <2>1, <2>2, <2>7, <2>8 DEF IInv, TypeOK
<1>10. UnlockedCoversBalance'
  BY <1>4, <1>5 DEF IInv, TypeOK, UnlockedCoversBalance, Scholars, Sound
<1>11. GrantConserved'
  <2>1. total = sc.balance + withdrawn[s] + released[s] + reduced[s]
    BY <1>2 DEF IInv, GrantConserved, Granted, Held
  <2>2. total = (sc.balance - a) + (withdrawn[s] + a) + released[s] + reduced[s]
    BY <1>1, <1>6, <1>8, <2>1
  <2> HIDE DEF new
  <2> QED BY <1>2, <1>4, <1>5, <1>7, <2>2 DEF IInv, TypeOK, GrantConserved, Granted, Held
<1>12. WithdrawalsRespectLock'
  <2>1. total = sc.balance + withdrawn[s] + released[s] + reduced[s]
    BY <1>2 DEF IInv, GrantConserved, Granted, Held
  <2>2. Locked(total) \in Nat
    BY <1>6, LockedBound
  <2>3. ~sc.final_release_claimed => a <= sc.balance - Locked(total)
    BY WithdrawalKeepsLock
  <2>4. ~sc.final_release_claimed => withdrawn[s] + a <= total - Locked(total)
    BY <1>1, <1>6, <1>8, <2>1, <2>2, <2>3
  <2> HIDE DEF new
  <2> QED BY <1>4, <1>5, <2>4 DEF IInv, TypeOK, WithdrawalsRespectLock, Scholars
<1>13. ReleaseNeedsQuorum' /\ VotersFinite'
  <2> HIDE DEF new
  <2> QED BY <1>2, <1>4, <1>5, <1>7, SameFlagStep
<1> QED BY <1>9, <1>10, <1>11, <1>12, <1>13 DEF IInv

\* verify_academic_progress preserves the invariant.
LEMMA VerifyStep ==
    ASSUME IInv, NEW s \in Students, VerifyAcademicProgress(s)
    PROVE  IInv'
<1> DEFINE sc == scholarship[s]
           new == MoreUnlocked(sc)
<1>1. sc # None /\ scholarship' = [scholarship EXCEPT ![s] = new]
  BY DEF VerifyAcademicProgress
<1>2. UNCHANGED <<now, vote, graduates, taxRate, feesAccrued, custody, withdrawn,
                  released, reduced, tuitionHeld, universityAdmin,
                  studentUniversity, securityHold>>
  BY DEF VerifyAcademicProgress, historyVars, holdVars
<1>3. /\ Sound(new)
      /\ new.balance = sc.balance
      /\ new.total_grant = sc.total_grant
      /\ new.final_release_claimed = sc.final_release_claimed
      /\ new.funder = sc.funder
  BY <1>1, RecordsSound, MoreUnlockedSound
<1>4. new \in ScholarshipRecord /\ new # None
  BY <1>3, NoneAssumption DEF Sound
<1> HIDE DEF new
<1>5. TypeOK'
  BY <1>1, <1>2, <1>4 DEF IInv, TypeOK
<1>6. UnlockedCoversBalance'
  BY <1>1, <1>3 DEF IInv, TypeOK, UnlockedCoversBalance, Scholars, Sound
<1>7. GrantConserved'
  BY <1>1, <1>2, <1>3, <1>4 DEF IInv, TypeOK, GrantConserved, Granted, Held
<1>8. WithdrawalsRespectLock'
  BY <1>1, <1>2, <1>3 DEF IInv, TypeOK, WithdrawalsRespectLock, Scholars
<1>9. ReleaseNeedsQuorum' /\ VotersFinite'
  BY <1>1, <1>2, <1>3, <1>4, SameFlagStep
<1> QED BY <1>5, <1>6, <1>7, <1>8, <1>9 DEF IInv

\* A step on the votes alone preserves what does not speak of votes.
LEMMA VoteOnlyStep ==
    ASSUME IInv, vote' \in [Students -> CommunityVote \cup {None}],
           UNCHANGED <<now, scholarship, graduates, taxRate, feesAccrued, custody,
                       historyVars, holdVars>>
    PROVE  /\ TypeOK' /\ UnlockedCoversBalance' /\ GrantConserved'
           /\ WithdrawalsRespectLock'
<1>1. TypeOK'
  BY DEF IInv, TypeOK, historyVars, holdVars
<1>2. UnlockedCoversBalance' /\ GrantConserved' /\ WithdrawalsRespectLock'
  BY DEF IInv, UnlockedCoversBalance, GrantConserved, Granted, Held, WithdrawalsRespectLock,
         Scholars, historyVars
<1> QED BY <1>1, <1>2

\* What is left to prove of a step that replaces the vote of one student.
LEMMA NewVoteStep ==
    ASSUME IInv, NEW s \in Students, NEW new \in CommunityVote,
           vote' = [vote EXCEPT ![s] = new],
           IsFiniteSet(new.voters),
           new.yes_votes = Cardinality(new.voters),
           new.yes_votes <= COMMUNITY_VOTE_THRESHOLD,
           new.is_passed <=> new.yes_votes = COMMUNITY_VOTE_THRESHOLD,
           vote[s] = None \/ ~vote[s].is_passed,
           UNCHANGED <<now, scholarship, graduates, taxRate, feesAccrued, custody,
                       historyVars, holdVars>>
    PROVE  IInv'
<1>1. vote \in [Students -> CommunityVote \cup {None}]
  BY DEF IInv, TypeOK
<1>2. vote' \in [Students -> CommunityVote \cup {None}]
  BY <1>1
<1>3. /\ TypeOK' /\ UnlockedCoversBalance' /\ GrantConserved'
      /\ WithdrawalsRespectLock'
  BY <1>2, VoteOnlyStep
<1>4. ASSUME NEW x \in Students PROVE VoteCounted(x)' /\ ReleaseApproved(x)'
  <2>1. VoteCounted(x) /\ ReleaseApproved(x)
    BY DEF IInv, ReleaseNeedsQuorum
  <2>2. UNCHANGED <<scholarship, graduates, released>>
    BY DEF historyVars
  <2>3. CASE x = s
    <3>1. vote'[x] = new
      BY <1>1, <2>3
    <3>2. VoteCounted(x)'
      BY <3>1 DEF VoteCounted
    <3>3. ReleaseApproved(x)'
      BY <2>1, <2>2, <2>3 DEF ReleaseApproved, FinallyOpen, Approved
    <3> QED BY <3>2, <3>3
  <2>4. CASE x # s
    <3>1. vote'[x] = vote[x]
      BY <1>1, <2>4
    <3>2. VoteCounted(x)'
      BY <2>1, <3>1 DEF VoteCounted
    <3>3. ReleaseApproved(x)'
      BY <2>1, <2>2, <3>1 DEF ReleaseApproved, FinallyOpen, Approved
    <3> QED BY <3>2, <3>3
  <2> QED BY <2>3, <2>4
<1>5. VotersFinite'
  BY <1>1 DEF IInv, VotersFinite
<1> QED BY <1>3, <1>4, <1>5 DEF IInv, ReleaseNeedsQuorum

\* initiate_final_release_vote preserves the invariant.
LEMMA InitiateStep ==
    ASSUME IInv, NEW s \in Students, InitiateFinalReleaseVote(s)
    PROVE  IInv'
<1> DEFINE new == [voters |-> {}, yes_votes |-> 0, is_passed |-> FALSE]
<1>1. /\ vote' = [vote EXCEPT ![s] = new] /\ vote[s] = None
      /\ UNCHANGED <<now, scholarship, graduates, taxRate, feesAccrued, custody,
                     historyVars, holdVars>>
  BY DEF InitiateFinalReleaseVote
<1>2. new \in CommunityVote
  BY DEF CommunityVote
<1>3. new.yes_votes = Cardinality(new.voters) /\ IsFiniteSet(new.voters)
  BY FS_EmptySet
<1>4. /\ new.yes_votes <= COMMUNITY_VOTE_THRESHOLD
      /\ new.is_passed <=> new.yes_votes = COMMUNITY_VOTE_THRESHOLD
  BY LimitsAssumption
<1> HIDE DEF new
<1> QED BY <1>1, <1>2, <1>3, <1>4, NewVoteStep

\* cast_community_vote preserves the invariant: the voter is new to the set, so
\* the counter and the cardinality grow together.
LEMMA CastStep ==
    ASSUME IInv, NEW v \in Voters, NEW s \in Students, CastCommunityVote(v, s)
    PROVE  IInv'
<1> DEFINE old == vote[s]
           new == WithVoter(old, v)
<1>1. /\ vote' = [vote EXCEPT ![s] = new]
      /\ old # None /\ ~old.is_passed /\ v \notin old.voters
      /\ UNCHANGED <<now, scholarship, graduates, taxRate, feesAccrued, custody,
                     historyVars, holdVars>>
  BY DEF CastCommunityVote
<1>2. old \in CommunityVote
  BY <1>1 DEF IInv, TypeOK
<1>3. /\ new \in CommunityVote
      /\ new.voters = old.voters \cup {v}
      /\ new.yes_votes = old.yes_votes + 1
      /\ new.is_passed <=> new.yes_votes >= COMMUNITY_VOTE_THRESHOLD
  <2> DEFINE passes == old.yes_votes + 1 >= COMMUNITY_VOTE_THRESHOLD
  <2>1. new = [voters |-> old.voters \cup {v}, yes_votes |-> old.yes_votes + 1,
               is_passed |-> passes]
    BY DEF WithVoter
  <2>2. old.voters \in SUBSET Voters /\ old.yes_votes + 1 \in Nat
    BY <1>2 DEF CommunityVote
  <2>3. passes \in BOOLEAN
    OBVIOUS
  <2> HIDE DEF passes, new
  <2>4. /\ new.voters = old.voters \cup {v}
        /\ new.yes_votes = old.yes_votes + 1
    BY <2>1
  <2>5. new.is_passed = passes
    BY <2>1
  <2>6. new \in CommunityVote
    BY <2>1, <2>2, <2>3 DEF CommunityVote
  <2>7. new.is_passed <=> new.yes_votes >= COMMUNITY_VOTE_THRESHOLD
    BY <2>4, <2>5 DEF passes
  <2> QED BY <2>4, <2>6, <2>7
<1>4. VoteCounted(s) /\ IsFiniteSet(old.voters)
  BY <1>1 DEF IInv, ReleaseNeedsQuorum, VotersFinite
<1>5. /\ old.yes_votes = Cardinality(old.voters)
      /\ old.yes_votes <= COMMUNITY_VOTE_THRESHOLD
      /\ old.yes_votes # COMMUNITY_VOTE_THRESHOLD
  BY <1>1, <1>4 DEF VoteCounted
<1>6. /\ IsFiniteSet(new.voters)
      /\ new.yes_votes = Cardinality(new.voters)
  <2> HIDE DEF new
  <2>1. /\ IsFiniteSet(old.voters \cup {v})
        /\ Cardinality(old.voters \cup {v}) = Cardinality(old.voters) + 1
    BY <1>1, <1>4, FS_AddElement
  <2> QED BY <1>3, <1>5, <2>1
<1>7. /\ new.yes_votes <= COMMUNITY_VOTE_THRESHOLD
      /\ new.is_passed <=> new.yes_votes = COMMUNITY_VOTE_THRESHOLD
  <2>1. old.yes_votes \in Nat
    BY <1>2 DEF CommunityVote
  <2> QED BY <2>1, <1>3, <1>5, LimitsAssumption
<1> HIDE DEF old, new
<1> QED BY <1>1, <1>3, <1>6, <1>7, NewVoteStep DEF old

\* claim_final_release preserves the invariant: flag, vote and registry change
\* together.
LEMMA FinalReleaseStep ==
    ASSUME IInv, NEW s \in Students, ClaimFinalRelease(s)
    PROVE  IInv'
<1> DEFINE sc == scholarship[s]
           new == FinallyReleased(sc)
           kept == ReserveKept(sc)
           claim == sc.balance - kept
<1>1. /\ sc # None /\ ~sc.final_release_claimed /\ kept <= sc.balance
      /\ vote[s] # None /\ vote[s].is_passed
      /\ claim <= custody[sc.token]
  BY DEF ClaimFinalRelease
<1>2. Sound(sc)
  BY <1>1, RecordsSound
<1>3. /\ kept \in Nat
      /\ Sound(new)
      /\ new.balance = kept
      /\ new.total_grant = sc.total_grant
      /\ new.final_release_claimed
      /\ new.funder = sc.funder
  BY <1>1, <1>2, FinallyReleasedSound
<1>4. /\ scholarship' = [scholarship EXCEPT ![s] = new]
      /\ released' = [released EXCEPT ![s] = released[s] + claim]
      /\ custody' = [custody EXCEPT ![sc.token] = custody[sc.token] - claim]
      /\ graduates' = [graduates EXCEPT ![s] = graduates[s] \cup {sc.funder}]
      /\ UNCHANGED <<vote, withdrawn, reduced>>
  BY DEF ClaimFinalRelease, MarkAsGraduated
<1>5. /\ sc.balance \in Nat /\ sc.total_grant \in Nat
      /\ sc.token \in Tokens /\ sc.funder \in Funders
  BY <1>2 DEF Sound, ScholarshipRecord
<1>6. new \in ScholarshipRecord /\ new # None
  BY <1>3, NoneAssumption DEF Sound
<1> HIDE DEF new, kept
<1>7. claim \in Nat
  BY <1>1, <1>3, <1>5
<1>8. withdrawn[s] \in Int /\ released[s] \in Nat /\ reduced[s] \in Nat
  BY DEF IInv, TypeOK
<1>9. TypeOK'
  <2>1. scholarship' \in [Students -> ScholarshipRecord \cup {None}]
    BY <1>4, <1>6 DEF IInv, TypeOK
  <2>2. released' \in [Students -> Nat]
    BY <1>4, <1>7, <1>8 DEF IInv, TypeOK
  <2>3. custody[sc.token] - claim \in Nat
    BY <1>1, <1>5, <1>7 DEF IInv, TypeOK
  <2>4. custody' \in [Tokens -> Nat]
    BY <1>4, <1>5, <2>3 DEF IInv, TypeOK
  <2>5. graduates' \in [Students -> SUBSET Funders]
    BY <1>4, <1>5 DEF IInv, TypeOK
  <2> QED BY <2>1, <2>2, <2>4, <2>5 DEF IInv, TypeOK, ClaimFinalRelease, holdVars
<1>10. UnlockedCoversBalance'
  BY <1>3, <1>4 DEF IInv, TypeOK, UnlockedCoversBalance, Scholars, Sound
<1>11. GrantConserved'
  <2>1. sc.total_grant = sc.balance + withdrawn[s] + released[s] + reduced[s]
    BY <1>1 DEF IInv, GrantConserved, Granted, Held
  <2>2. sc.total_grant = kept + withdrawn[s] + (released[s] + claim) + reduced[s]
    BY <1>3, <1>5, <1>8, <2>1
  <2> QED BY <1>1, <1>3, <1>4, <1>6, <2>2 DEF IInv, TypeOK, GrantConserved, Granted, Held
<1>12. WithdrawalsRespectLock'
  BY <1>3, <1>4 DEF IInv, TypeOK, WithdrawalsRespectLock, Scholars
<1>13. ReleaseNeedsQuorum' /\ VotersFinite'
  <2>1. graduates[s] = {}
    BY <1>1 DEF IInv, ReleaseNeedsQuorum, ReleaseApproved, FinallyOpen
  <2>2. graduates'[s] = {new.funder}
    BY <1>3, <1>4, <2>1 DEF IInv, TypeOK
  <2>3. ASSUME NEW x \in Students PROVE VoteCounted(x)' /\ ReleaseApproved(x)'
    <3>1. VoteCounted(x) /\ ReleaseApproved(x)
      BY DEF IInv, ReleaseNeedsQuorum
    <3>2. VoteCounted(x)'
      BY <1>4, <3>1 DEF VoteCounted
    <3>3. CASE x = s
      <4>1. scholarship'[x] = new
        BY <1>4, <3>3 DEF IInv, TypeOK
      <4> QED BY <1>1, <1>3, <1>4, <1>6, <2>2, <3>2, <3>3, <4>1
              DEF ReleaseApproved, FinallyOpen, Approved
    <3>4. CASE x # s
      <4>1. /\ scholarship'[x] = scholarship[x] /\ released'[x] = released[x]
            /\ graduates'[x] = graduates[x] /\ vote'[x] = vote[x]
        BY <1>4, <3>4 DEF IInv, TypeOK
      <4> QED BY <3>1, <3>2, <4>1 DEF ReleaseApproved, FinallyOpen, Approved
    <3> QED BY <3>3, <3>4
  <2>4. VotersFinite'
    BY <1>4 DEF IInv, VotersFinite
  <2> QED BY <2>3, <2>4 DEF ReleaseNeedsQuorum
<1> QED BY <1>9, <1>10, <1>11, <1>12, <1>13 DEF IInv

-----------------------------------------------------------------------------
(* The steps that touch no record, no vote and no history of a student.    *)

\* set_tax_rate and claim_protocol_fees preserve the invariant.
LEMMA FeeSteps ==
    ASSUME IInv
    PROVE  /\ \A r \in TaxRates : SetTaxRate(r) => IInv'
           /\ \A t \in Tokens, a \in WithdrawAmounts : ClaimProtocolFees(t, a) => IInv'
<1>1. ASSUME NEW r \in TaxRates, SetTaxRate(r) PROVE IInv'
  <2>1. /\ taxRate' \in TaxRates \cup {0}
        /\ UNCHANGED <<now, scholarship, vote, graduates, feesAccrued, custody, withdrawn,
                       released, reduced, tuitionHeld, universityAdmin, studentUniversity,
                       securityHold>>
    BY <1>1, AmountsAssumption DEF SetTaxRate, historyVars, holdVars
  <2>2. TypeOK'
    BY <2>1 DEF IInv, TypeOK
  <2> QED BY <2>1, <2>2, QuietStep
<1>2. ASSUME NEW t \in Tokens, NEW a \in WithdrawAmounts, ClaimProtocolFees(t, a)
      PROVE  IInv'
  <2> DEFINE claim == Lesser(a, feesAccrued[t])
  <2>1. /\ a \in Nat /\ a > 0
        /\ feesAccrued[t] \in Nat /\ custody[t] \in Nat
    BY <1>2, AmountsAssumption DEF ClaimProtocolFees, IInv, TypeOK
  <2>2. claim \in Nat /\ claim <= feesAccrued[t]
    BY <2>1 DEF Lesser
  <2>3. /\ feesAccrued' = [feesAccrued EXCEPT ![t] = feesAccrued[t] - claim]
        /\ custody' = [custody EXCEPT ![t] = custody[t] - claim]
        /\ claim <= custody[t]
    BY <1>2 DEF ClaimProtocolFees
  <2> HIDE DEF claim
  <2>4. feesAccrued[t] - claim \in Nat /\ custody[t] - claim \in Nat
    BY <2>1, <2>2, <2>3
  <2>5. feesAccrued' \in [Tokens -> Nat] /\ custody' \in [Tokens -> Nat]
    BY <2>3, <2>4 DEF IInv, TypeOK
  <2>6. TypeOK'
    BY <1>2, <2>5 DEF ClaimProtocolFees, IInv, TypeOK, historyVars, holdVars
  <2> QED BY <1>2, <2>6, QuietStep DEF ClaimProtocolFees, historyVars
<1> QED BY <1>1, <1>2

\* The four university entry points preserve the invariant.
LEMMA HoldSteps ==
    ASSUME IInv, NEW o \in Officers, NEW u \in Universities
    PROVE  /\ RegisterUniversityAdmin(u, o) => IInv'
           /\ \A s \in Students : RegisterStudentUniversity(o, u, s) => IInv'
           /\ TriggerSecurityHold(o, u) => IInv'
           /\ LiftSecurityHold(o, u) => IInv'
<1>1. ASSUME RegisterUniversityAdmin(u, o) PROVE IInv'
  <2>1. TypeOK'
    BY <1>1 DEF RegisterUniversityAdmin, IInv, TypeOK, grantVars, historyVars
  <2> QED BY <1>1, <2>1, QuietStep DEF RegisterUniversityAdmin, grantVars, historyVars
<1>2. ASSUME NEW s \in Students, RegisterStudentUniversity(o, u, s) PROVE IInv'
  <2>1. TypeOK'
    BY <1>2 DEF RegisterStudentUniversity, IInv, TypeOK, grantVars, historyVars
  <2> QED BY <1>2, <2>1, QuietStep DEF RegisterStudentUniversity, grantVars, historyVars
<1>3. ASSUME TriggerSecurityHold(o, u) PROVE IInv'
  <2> DEFINE hold == [expires_at |-> now + SECURITY_HOLD_DURATION, is_active |-> TRUE]
  <2>1. hold \in SecurityHold
    BY LimitsAssumption DEF IInv, TypeOK, SecurityHold
  <2>2. securityHold' = [securityHold EXCEPT ![u] = hold]
    BY <1>3 DEF TriggerSecurityHold
  <2> HIDE DEF hold
  <2>3. securityHold' \in [Universities -> SecurityHold \cup {None}]
    BY <2>1, <2>2 DEF IInv, TypeOK
  <2>4. TypeOK'
    BY <1>3, <2>3
    DEF TriggerSecurityHold, IInv, TypeOK, grantVars, historyVars
  <2> QED BY <1>3, <2>4, QuietStep DEF TriggerSecurityHold, grantVars, historyVars
<1>4. ASSUME LiftSecurityHold(o, u) PROVE IInv'
  <2> DEFINE hold == [securityHold[u] EXCEPT !.is_active = FALSE]
  <2>1. securityHold[u] \in SecurityHold
    BY <1>4 DEF LiftSecurityHold, IInv, TypeOK
  <2>2. hold \in SecurityHold
    BY <2>1 DEF SecurityHold
  <2>3. securityHold' = [securityHold EXCEPT ![u] = hold]
    BY <1>4 DEF LiftSecurityHold
  <2> HIDE DEF hold
  <2>4. securityHold' \in [Universities -> SecurityHold \cup {None}]
    BY <2>2, <2>3 DEF IInv, TypeOK
  <2>5. TypeOK'
    BY <1>4, <2>4
    DEF LiftSecurityHold, IInv, TypeOK, grantVars, historyVars
  <2> QED BY <1>4, <2>5, QuietStep DEF LiftSecurityHold, grantVars, historyVars
<1> QED BY <1>1, <1>2, <1>3, <1>4

\* The passing of time preserves the invariant.
LEMMA TickStep == ASSUME IInv, Tick PROVE IInv'
<1>1. TypeOK'
  BY DEF Tick, IInv, TypeOK, grantVars, historyVars, holdVars
<1> QED BY <1>1, QuietStep DEF Tick, grantVars, historyVars

\* Every step of the escrow preserves the invariant.
LEMMA CoreStep == ASSUME IInv, [CoreNext]_coreVars PROVE IInv'
<1>1. CASE UNCHANGED coreVars
  <2>1. TypeOK'
    BY <1>1 DEF coreVars, IInv, TypeOK, grantVars, historyVars, holdVars
  <2> QED BY <1>1, <2>1, QuietStep DEF coreVars, grantVars, historyVars
<1>2. CASE CoreNext
  BY <1>2, FundStep, WithdrawStep, FeeSteps, InitiateStep, CastStep,
     FinalReleaseStep, VerifyStep, HoldSteps, TickStep DEF CoreNext
<1> QED BY <1>1, <1>2

-----------------------------------------------------------------------------
(* The theorems.                                                           *)

\* The inductive invariant holds in every reachable state.
THEOREM Invariance == Spec => []IInv
<1>1. CoreInit => IInv
  BY InitIInv
<1>2. IInv /\ [CoreNext]_coreVars => IInv'
  BY CoreStep
<1> QED BY <1>1, <1>2, PTL DEF Spec

\* The types of the state, whatever the constants.
THEOREM TypeCorrect == Spec => []TypeOK
<1>1. IInv => TypeOK
  BY DEF IInv
<1> QED BY <1>1, Invariance, PTL

\* The unlocked part of a scholarship always covers its balance.
THEOREM UnlockedNeverBinds == Spec => []UnlockedCoversBalance
<1>1. IInv => UnlockedCoversBalance
  BY DEF IInv
<1> QED BY <1>1, Invariance, PTL

\* Every unit granted to a student is accounted for.
THEOREM Conservation == Spec => []GrantConserved
<1>1. IInv => GrantConserved
  BY DEF IInv
<1> QED BY <1>1, Invariance, PTL

\* Withdrawals leave the locked tenth until the final release.
THEOREM LockRespected == Spec => []WithdrawalsRespectLock
<1>1. IInv => WithdrawalsRespectLock
  BY DEF IInv
<1> QED BY <1>1, Invariance, PTL

\* A final release has its quorum of distinct voters.
THEOREM QuorumNeeded == Spec => []ReleaseNeedsQuorum
<1>1. IInv => ReleaseNeedsQuorum
  BY DEF IInv
<1> QED BY <1>1, Invariance, PTL

-----------------------------------------------------------------------------
(* The escrow implements GrantAccount for every student: the step of an    *)
(* entry point is, in the account of the student it names, the abstract    *)
(* step of the same meaning, and in every other account a freeze or a      *)
(* stutter.                                                                *)

\* What a step on other students, on votes not passing, or on holds leaves of
\* the account of s: at most the hold changes.
LEMMA IdleAccount ==
    ASSUME NEW s \in Students,
           UNCHANGED <<Granted(s), Held(s), withdrawn[s], released[s], reduced[s],
                       Approved(s), FinallyOpen(s)>>
    PROVE  [Account(s)!Next]_(Account(s)!vars)
<1>1. CASE OnHold(s)' = OnHold(s)
  BY <1>1 DEF Account!vars, Account!balanceVars
<1>2. CASE OnHold(s)' # OnHold(s)
  BY <1>2 DEF Account!Next, Account!Freeze, Account!balanceVars
<1> QED BY <1>1, <1>2

\* The initial states map to initial states.
LEMMA InitAccount == ASSUME CoreInit, NEW s \in Students PROVE Account(s)!Init
BY DEF CoreInit, Account!Init, Granted, Held, Approved, FinallyOpen, OnHold

\* A hold changes only with the clock and the hold records.
LEMMA SameHold ==
    ASSUME UNCHANGED <<now, holdVars>>, NEW s \in Students
    PROVE  OnHold(s)' = OnHold(s)
BY DEF OnHold, holdVars

\* The account of a student whose record, vote and history stay.
LEMMA UntouchedAccount ==
    ASSUME NEW x \in Students,
           UNCHANGED <<scholarship[x], vote[x], withdrawn[x], released[x], reduced[x]>>
    PROVE  [Account(x)!Next]_(Account(x)!vars)
BY IdleAccount DEF Granted, Held, Approved, FinallyOpen

\* fund_scholarship credits the account it names.
LEMMA FundRefines ==
    ASSUME IInv, NEW f \in Funders, NEW s \in Students, NEW amount \in FundAmounts,
           NEW t \in Tokens, NEW native \in BOOLEAN,
           FundScholarship(f, s, amount, t, native), NEW x \in Students
    PROVE  [Account(x)!Next]_(Account(x)!vars)
<1> DEFINE old == RecordToFund(s, f, t, native)
           share == StudentShare(amount)
           new == Credited(old, share, native)
<1>1. /\ scholarship' = [scholarship EXCEPT ![s] = new]
      /\ UNCHANGED <<now, vote, withdrawn, released, reduced, holdVars>>
  BY DEF FundScholarship
<1>2. scholarship \in [Students -> ScholarshipRecord \cup {None}]
  BY DEF IInv, TypeOK
<1>3. CASE x # s
  BY <1>1, <1>2, <1>3, UntouchedAccount
<1>4. CASE x = s
  <2>1. share \in Nat
    BY AmountsAssumption, ShareBound
  <2>2. /\ Sound(old) /\ old.balance = Held(s) /\ old.total_grant = Granted(s)
        /\ old.final_release_claimed = FinallyOpen(s)
    <3>1. CASE scholarship[s] = None
      <4>1. old = NewScholarship(f, t, native)
        BY <3>1 DEF RecordToFund
      <4>2. Held(s) = 0 /\ Granted(s) = 0 /\ FinallyOpen(s) = FALSE
        BY <3>1 DEF Held, Granted, FinallyOpen
      <4> HIDE DEF old
      <4>3. Sound(old) /\ old.balance = 0 /\ old.total_grant = 0
        BY <4>1 DEF NewScholarship, Sound, ScholarshipRecord
      <4>4. old.final_release_claimed = FALSE
        BY <4>1 DEF NewScholarship
      <4> QED BY <4>2, <4>3, <4>4
    <3>2. CASE scholarship[s] # None
      <4>1. old = scholarship[s] /\ Sound(old)
        BY <3>2, RecordsSound DEF RecordToFund
      <4> HIDE DEF old
      <4>2. old.final_release_claimed \in BOOLEAN
        BY <4>1 DEF Sound, ScholarshipRecord
      <4> QED BY <3>2, <4>1, <4>2 DEF Held, Granted, FinallyOpen
    <3> QED BY <3>1, <3>2
  <2> HIDE DEF old, share
  <2>3. /\ Sound(new)
        /\ new.balance = Held(s) + share
        /\ new.total_grant = Granted(s) + share
        /\ new.final_release_claimed = FinallyOpen(s)
    BY <2>1, <2>2, CreditedSound
  <2>4. new \in ScholarshipRecord /\ new # None
    BY <2>3, NoneAssumption DEF Sound
  <2> HIDE DEF new
  <2>5. scholarship'[s] = new
    BY <1>1, <1>2
  <2>6. /\ Held(s)' = Held(s) + share
        /\ Granted(s)' = Granted(s) + share
        /\ FinallyOpen(s)' = FinallyOpen(s)
    BY <2>3, <2>4, <2>5 DEF Held, Granted, FinallyOpen
  <2>7. Held(s) \in Nat /\ Granted(s) \in Nat
    BY <1>2 DEF Held, Granted, ScholarshipRecord
  <2>8. /\ Granted(s)' >= Granted(s)
        /\ Held(s)' - Held(s) = Granted(s)' - Granted(s)
    BY <2>1, <2>6, <2>7
  <2>9. Account(s)!Credit
    BY <1>1, <2>6, <2>8, SameHold DEF Account!Credit, Approved
  <2> QED BY <1>4, <2>9 DEF Account!Next
<1> QED BY <1>3, <1>4

\* withdraw_scholarship pays from the account it names, which is not on hold.
LEMMA WithdrawRefines ==
    ASSUME TaxBelowFull, IInv, NEW s \in Students, NEW a \in WithdrawAmounts,
           WithdrawScholarship(s, a), NEW x \in Students
    PROVE  [Account(x)!Next]_(Account(x)!vars)
<1> DEFINE sc == scholarship[s]
           new == Debited(sc, a)
<1>1. /\ scholarship' = [scholarship EXCEPT ![s] = new]
      /\ withdrawn' = [withdrawn EXCEPT ![s] = withdrawn[s] + a]
      /\ UNCHANGED <<now, vote, released, reduced, holdVars>>
      /\ sc # None /\ a <= sc.balance /\ ~OnHold(s)
  BY DEF WithdrawScholarship, WithdrawalAccepted
<1>2. /\ scholarship \in [Students -> ScholarshipRecord \cup {None}]
      /\ withdrawn \in [Students -> Int] /\ released \in [Students -> Nat]
  BY DEF IInv, TypeOK
<1>3. CASE x # s
  BY <1>1, <1>2, <1>3, UntouchedAccount
<1>4. CASE x = s
  <2>1. a \in Nat /\ Sound(sc)
    BY <1>1, AcceptedNatural, RecordsSound DEF IInv, WithdrawScholarship
  <2>2. /\ Sound(new)
        /\ new.balance = sc.balance - a
        /\ new.total_grant = sc.total_grant
        /\ new.final_release_claimed = sc.final_release_claimed
    BY <2>1, <1>1, DebitedSound
  <2>3. ~sc.final_release_claimed => a <= sc.balance - Locked(sc.total_grant)
    BY WithdrawalKeepsLock
  <2>4. /\ sc.balance \in Nat /\ sc.total_grant \in Nat
        /\ Locked(sc.total_grant) \in Nat
        /\ withdrawn[s] \in Int /\ released[s] \in Nat
    BY <1>2, <2>1, LockedBound DEF Sound, ScholarshipRecord
  <2>5. new \in ScholarshipRecord /\ new # None
    BY <2>2, NoneAssumption DEF Sound
  <2> HIDE DEF new
  <2>6. /\ scholarship'[s] = new
        /\ withdrawn'[s] = withdrawn[s] + a
    BY <1>1, <1>2
  <2>7. /\ Held(s) = sc.balance /\ Held(s)' = sc.balance - a
        /\ Granted(s) = sc.total_grant /\ Granted(s)' = Granted(s)
    BY <1>1, <2>2, <2>5, <2>6 DEF Held, Granted
  <2>8. FinallyOpen(s)' = FinallyOpen(s)
    BY <1>1, <2>2, <2>5, <2>6 DEF FinallyOpen
  <2>9. FinallyOpen(s) \/ Held(s)' >= Account(s)!LockedShare(Granted(s))
    <3>1. Account(s)!LockedShare(Granted(s)) = Locked(sc.total_grant)
      BY <2>7 DEF Account!LockedShare, Locked, FINAL_RELEASE_PERCENTAGE
    <3>2. ~sc.final_release_claimed => sc.balance - a >= Locked(sc.total_grant)
      BY <2>1, <2>3, <2>4
    <3> QED BY <1>1, <2>7, <3>1, <3>2 DEF FinallyOpen
  <2>10. /\ Held(s)' \in 0..Held(s)
         /\ (withdrawn[s] + released[s])' - (withdrawn[s] + released[s]) = Held(s) - Held(s)'
    <3>1. Held(s) \in Nat /\ Held(s)' = Held(s) - a /\ a <= Held(s)
      BY <1>1, <2>4, <2>7
    <3>2. released'[s] = released[s]
      BY <1>1
    <3> QED BY <2>1, <2>4, <2>6, <3>1, <3>2
  <2>11. Account(s)!Pay
    BY <1>1, <2>7, <2>8, <2>9, <2>10, SameHold DEF Account!Pay, Approved
  <2> QED BY <1>4, <2>11 DEF Account!Next
<1> QED BY <1>3, <1>4

\* Opening a vote changes nothing in the account.
LEMMA InitiateRefines ==
    ASSUME IInv, NEW s \in Students, InitiateFinalReleaseVote(s), NEW x \in Students
    PROVE  [Account(x)!Next]_(Account(x)!vars)
<1>1. /\ vote' = [vote EXCEPT ![s] =
                    [voters |-> {}, yes_votes |-> 0, is_passed |-> FALSE]]
      /\ vote[s] = None
      /\ UNCHANGED <<scholarship, withdrawn, released, reduced>>
  BY DEF InitiateFinalReleaseVote, historyVars
<1>2. vote \in [Students -> CommunityVote \cup {None}]
  BY DEF IInv, TypeOK
<1>3. Approved(x)' = Approved(x)
  <2>1. CASE x = s
    <3>1. vote'[x].is_passed = FALSE
      BY <1>1, <1>2, <2>1
    <3> QED BY <1>1, <2>1, <3>1 DEF Approved
  <2>2. CASE x # s
    BY <1>1, <1>2, <2>2 DEF Approved
  <2> QED BY <2>1, <2>2
<1> QED BY <1>1, <1>3, IdleAccount DEF Granted, Held, FinallyOpen

\* The vote that reaches the threshold approves the account, no other does.
LEMMA CastRefines ==
    ASSUME IInv, NEW s \in Students, NEW v \in Voters, CastCommunityVote(v, s),
           NEW x \in Students
    PROVE  [Account(x)!Next]_(Account(x)!vars)
<1>1. /\ vote' = [vote EXCEPT ![s] = WithVoter(vote[s], v)]
      /\ vote[s] # None /\ ~vote[s].is_passed
      /\ UNCHANGED <<now, scholarship, withdrawn, released, reduced, holdVars>>
  BY DEF CastCommunityVote, historyVars
<1>2. vote \in [Students -> CommunityVote \cup {None}]
  BY DEF IInv, TypeOK
<1>3. CASE x # s
  BY <1>1, <1>2, <1>3, UntouchedAccount
<1>4. CASE x = s
  <2>1. /\ Granted(s)' = Granted(s) /\ Held(s)' = Held(s)
        /\ FinallyOpen(s)' = FinallyOpen(s)
    BY <1>1 DEF Granted, Held, FinallyOpen
  <2>2. ~Approved(s)
    BY <1>1 DEF Approved
  <2>3. CASE Approved(s)'
    <3>1. Account(s)!Approve
      BY <1>1, <2>1, <2>2, <2>3, SameHold DEF Account!Approve, Account!balanceVars
    <3> QED BY <1>4, <3>1 DEF Account!Next
  <2>4. CASE ~Approved(s)'
    <3>1. Approved(s)' = Approved(s)
      BY <2>2, <2>4 DEF Approved
    <3> QED BY <1>1, <1>4, <2>1, <3>1, IdleAccount
  <2> QED BY <2>3, <2>4
<1> QED BY <1>3, <1>4

\* claim_final_release is the one approved release of its account.
LEMMA FinalReleaseRefines ==
    ASSUME IInv, NEW s \in Students, ClaimFinalRelease(s), NEW x \in Students
    PROVE  [Account(x)!Next]_(Account(x)!vars)
<1> DEFINE sc == scholarship[s]
           kept == ReserveKept(sc)
           claim == sc.balance - kept
           new == FinallyReleased(sc)
<1>1. /\ scholarship' = [scholarship EXCEPT ![s] = new]
      /\ released' = [released EXCEPT ![s] = released[s] + claim]
      /\ UNCHANGED <<now, vote, withdrawn, reduced, holdVars>>
  BY DEF ClaimFinalRelease
<1>2. /\ sc # None /\ ~sc.final_release_claimed
      /\ sc.balance <= Locked(sc.total_grant)
      /\ kept <= sc.balance
      /\ vote[s] # None /\ vote[s].is_passed
  BY DEF ClaimFinalRelease
<1>3. /\ scholarship \in [Students -> ScholarshipRecord \cup {None}]
      /\ withdrawn \in [Students -> Int] /\ released \in [Students -> Nat]
  BY DEF IInv, TypeOK
<1>4. CASE x # s
  BY <1>1, <1>3, <1>4, UntouchedAccount
<1>5. CASE x = s
  <2>1. /\ Sound(sc) /\ kept \in Nat
        /\ Sound(new)
        /\ new.balance = kept
        /\ new.total_grant = sc.total_grant
        /\ new.final_release_claimed
    BY <1>2, RecordsSound, FinallyReleasedSound
  <2>2. /\ sc.balance \in Nat /\ sc.total_grant \in Nat
        /\ withdrawn[s] \in Int /\ released[s] \in Nat
    BY <1>3, <2>1 DEF Sound, ScholarshipRecord
  <2>3. new \in ScholarshipRecord /\ new # None
    BY <2>1, NoneAssumption DEF Sound
  <2> HIDE DEF new, kept
  <2>4. /\ scholarship'[s] = new
        /\ released'[s] = released[s] + claim
    BY <1>1, <1>3
  <2>5. /\ Held(s) = sc.balance /\ Held(s)' = kept
        /\ Granted(s) = sc.total_grant /\ Granted(s)' = Granted(s)
    BY <1>2, <2>1, <2>3, <2>4 DEF Held, Granted
  <2>6. ~FinallyOpen(s) /\ FinallyOpen(s)'
    BY <1>2, <2>1, <2>3, <2>4 DEF FinallyOpen
  <2>7. Approved(s) /\ Approved(s)' = Approved(s)
    BY <1>1, <1>2 DEF Approved
  <2>8. Held(s) <= Account(s)!LockedShare(Granted(s))
    BY <1>2, <2>5 DEF Account!LockedShare, Locked, FINAL_RELEASE_PERCENTAGE
  <2>9. /\ Held(s)' \in 0..Held(s)
        /\ (withdrawn[s] + released[s])' - (withdrawn[s] + released[s]) = Held(s) - Held(s)'
    <3>1. /\ Held(s) \in Nat /\ Held(s)' \in Nat /\ Held(s)' <= Held(s)
          /\ claim = Held(s) - Held(s)'
      BY <1>2, <2>1, <2>2, <2>5
    <3>2. withdrawn'[s] = withdrawn[s]
      BY <1>1
    <3> HIDE DEF claim
    <3> QED BY <2>2, <2>4, <3>1, <3>2
  <2>10. Account(s)!Release
    BY <1>1, <2>5, <2>6, <2>7, <2>8, <2>9, SameHold DEF Account!Release
  <2> QED BY <1>5, <2>10 DEF Account!Next
<1> QED BY <1>4, <1>5

\* verify_academic_progress touches no balance.
LEMMA VerifyRefines ==
    ASSUME IInv, NEW s \in Students, VerifyAcademicProgress(s), NEW x \in Students
    PROVE  [Account(x)!Next]_(Account(x)!vars)
<1> DEFINE new == MoreUnlocked(scholarship[s])
<1>1. /\ scholarship' = [scholarship EXCEPT ![s] = new]
      /\ scholarship[s] # None
      /\ UNCHANGED <<vote, withdrawn, released, reduced>>
  BY DEF VerifyAcademicProgress, historyVars
<1>2. scholarship \in [Students -> ScholarshipRecord \cup {None}]
  BY DEF IInv, TypeOK
<1>3. CASE x # s
  BY <1>1, <1>2, <1>3, UntouchedAccount
<1>4. CASE x = s
  <2>1. /\ Sound(new)
        /\ new.balance = scholarship[s].balance
        /\ new.total_grant = scholarship[s].total_grant
        /\ new.final_release_claimed = scholarship[s].final_release_claimed
    BY <1>1, RecordsSound, MoreUnlockedSound
  <2>2. new # None
    BY <2>1, NoneAssumption DEF Sound
  <2> HIDE DEF new
  <2>3. scholarship'[s] = new
    BY <1>1, <1>2
  <2>4. Held(s)' = Held(s) /\ Granted(s)' = Granted(s) /\ FinallyOpen(s)' = FinallyOpen(s)
    BY <1>1, <2>1, <2>2, <2>3 DEF Held, Granted, FinallyOpen
  <2> QED BY <1>1, <1>4, <2>4, IdleAccount DEF Approved
<1> QED BY <1>3, <1>4

\* Every step of the escrow is a step or a stutter of every account.
LEMMA StepRefines ==
    ASSUME TaxBelowFull, IInv, [CoreNext]_coreVars
    PROVE  \A s \in Students : [Account(s)!Next]_(Account(s)!vars)
<1> SUFFICES ASSUME NEW x \in Students PROVE [Account(x)!Next]_(Account(x)!vars)
  OBVIOUS
<1>1. CASE UNCHANGED <<scholarship, vote, withdrawn, released, reduced>>
  BY <1>1, UntouchedAccount
<1>2. CASE \E f \in Funders, s \in Students, a \in FundAmounts, t \in Tokens, n \in BOOLEAN :
             FundScholarship(f, s, a, t, n)
  BY <1>2, FundRefines
<1>3. CASE \E s \in Students, a \in WithdrawAmounts : WithdrawScholarship(s, a)
  BY <1>3, WithdrawRefines
<1>4. CASE \E s \in Students : InitiateFinalReleaseVote(s)
  BY <1>4, InitiateRefines
<1>5. CASE \E v \in Voters, s \in Students : CastCommunityVote(v, s)
  BY <1>5, CastRefines
<1>6. CASE \E s \in Students : ClaimFinalRelease(s)
  BY <1>6, FinalReleaseRefines
<1>7. CASE \E s \in Students : VerifyAcademicProgress(s)
  BY <1>7, VerifyRefines
<1>8. CASE \/ \E r \in TaxRates : SetTaxRate(r)
           \/ \E t \in Tokens, a \in WithdrawAmounts : ClaimProtocolFees(t, a)
           \/ \E u \in Universities, o \in Officers : RegisterUniversityAdmin(u, o)
           \/ \E o \in Officers, u \in Universities, s \in Students :
                RegisterStudentUniversity(o, u, s)
           \/ \E o \in Officers, u \in Universities : TriggerSecurityHold(o, u)
           \/ \E o \in Officers, u \in Universities : LiftSecurityHold(o, u)
           \/ Tick
           \/ UNCHANGED coreVars
  <2>1. UNCHANGED <<scholarship, vote, withdrawn, released, reduced>>
    BY <1>8 DEF SetTaxRate, ClaimProtocolFees, RegisterUniversityAdmin,
       RegisterStudentUniversity, TriggerSecurityHold, LiftSecurityHold, Tick,
       coreVars, grantVars, historyVars
  <2> QED BY <1>1, <2>1
<1> QED BY <1>2, <1>3, <1>4, <1>5, <1>6, <1>7, <1>8 DEF CoreNext

\* The escrow implements GrantAccount for every student: no interleaving of
\* entry points pays out of a held account, pays from the locked share before
\* the approved release, or changes what is owed in any other way.  At full tax
\* a request below zero would credit the account without a funding.
THEOREM Refinement ==
    ASSUME TaxBelowFull
    PROVE  Spec => AccountsKept
<1>1. CoreInit => \A s \in Students : Account(s)!Init
  BY InitAccount
<1>2. IInv /\ [CoreNext]_coreVars =>
        [\A s \in Students : [Account(s)!Next]_(Account(s)!vars)]_coreVars
  BY StepRefines
<1> QED BY <1>1, <1>2, Invariance, PTL DEF Spec, AccountsKept

-----------------------------------------------------------------------------
(* Custody: what the token contracts hold for this contract against what   *)
(* its books say it owes.  Over all tokens together the two agree whatever *)
(* happens; token by token they do when there is one token, because a      *)
(* later funding in another token is booked on the record of the first.    *)

TotalIn(f) == SumFunctionOnSet(f, Tokens)
TotalHeld == SumFunctionOnSet([s \in Students |-> Held(s)], Students)

\* What is in custody beyond what students, fees and universities are owed.
Surplus == TotalIn(custody) - (TotalHeld + TotalIn(feesAccrued) + TotalIn(tuitionHeld))

\* A total is an integer and moves with each of its entries.
LEMMA TotalUpdate ==
    ASSUME NEW f \in [Tokens -> Int], NEW g \in [Tokens -> Int], NEW t \in Tokens,
           NEW d \in Int, g[t] = f[t] + d,
           \A x \in Tokens \ {t} : g[x] = f[x]
    PROVE  TotalIn(g) = TotalIn(f) + d
<1>1. TotalIn(f) \in Int
  BY AddressesAssumption, SumInt DEF TotalIn
<1>2. TotalIn(g) = TotalIn(f) - f[t] + g[t]
  BY AddressesAssumption, SumExcept DEF TotalIn
<1> QED BY <1>1, <1>2

\* What a student is owed is a natural number, and so is what all are.
LEMMA HeldType ==
    ASSUME TypeOK
    PROVE  /\ \A s \in Students : Held(s) \in Nat
           /\ TotalHeld \in Nat
<1>1. \A s \in Students : Held(s) \in Nat
  BY DEF TypeOK, Held, ScholarshipRecord
<1> DEFINE h == [s \in Students |-> Held(s)]
<1>2. \A s \in Students : h[s] \in Nat
  BY <1>1
<1> HIDE DEF h
<1>3. SumFunctionOnSet(h, Students) \in Nat
  BY <1>2, AddressesAssumption, SumNat
<1> QED BY <1>1, <1>3 DEF TotalHeld, h

\* When one record is replaced, what is owed to all changes by what is owed to
\* that student.
LEMMA HeldUpdate ==
    ASSUME TypeOK, NEW s \in Students, NEW new \in ScholarshipRecord,
           scholarship' = [scholarship EXCEPT ![s] = new]
    PROVE  TotalHeld' = TotalHeld - Held(s) + new.balance
<1> DEFINE h == [x \in Students |-> Held(x)]
           k == [x \in Students |-> Held(x)']
<1>1. new # None /\ new.balance \in Nat
  BY NoneAssumption DEF ScholarshipRecord
<1>2. scholarship'[s] = new /\ \A x \in Students \ {s} : scholarship'[x] = scholarship[x]
  BY DEF TypeOK
<1>3. Held(s)' = new.balance /\ \A x \in Students \ {s} : Held(x)' = Held(x)
  BY <1>1, <1>2 DEF Held
<1>4. \A x \in Students : Held(x) \in Int /\ Held(x)' \in Int
  BY <1>1, <1>3, HeldType
<1>5. /\ h \in [Students -> Int] /\ k \in [Students -> Int]
      /\ k[s] = new.balance /\ h[s] = Held(s)
      /\ \A x \in Students \ {s} : k[x] = h[x]
  BY <1>3, <1>4
<1>6. TotalHeld = SumFunctionOnSet(h, Students) /\ TotalHeld' = SumFunctionOnSet(k, Students)
  BY DEF TotalHeld
<1> HIDE DEF h, k
<1>7. SumFunctionOnSet(k, Students) = SumFunctionOnSet(h, Students) - h[s] + k[s]
  BY <1>5, AddressesAssumption, SumExcept
<1> QED BY <1>5, <1>6, <1>7

\* The totals are natural numbers.
LEMMA TotalTypes ==
    ASSUME TypeOK
    PROVE  /\ TotalIn(custody) \in Nat /\ TotalIn(feesAccrued) \in Nat
           /\ TotalIn(tuitionHeld) \in Nat /\ TotalHeld \in Nat
<1>1. ASSUME NEW f \in [Tokens -> Nat] PROVE TotalIn(f) \in Nat
  BY AddressesAssumption, SumNat DEF TotalIn
<1> QED BY <1>1, HeldType DEF TypeOK

\* Nothing is in custody at the start, and nothing is owed.
LEMMA InitSurplus == ASSUME CoreInit PROVE Surplus = 0
<1> DEFINE h == [s \in Students |-> Held(s)]
<1>2. \A s \in Students : h[s] = 0
  BY DEF CoreInit, Held
<1> HIDE DEF h
<1>3. SumFunctionOnSet(h, Students) = 0
  BY <1>2, AddressesAssumption, SumZero
<1>4. TotalHeld = 0
  BY <1>3 DEF TotalHeld, h
<1>5. TotalIn(custody) = 0 /\ TotalIn(feesAccrued) = 0 /\ TotalIn(tuitionHeld) = 0
  <2>1. \A t \in Tokens : custody[t] = 0 /\ feesAccrued[t] = 0 /\ tuitionHeld[t] = 0
    BY DEF CoreInit
  <2> QED BY <2>1, AddressesAssumption, SumZero DEF TotalIn
<1> QED BY <1>4, <1>5 DEF Surplus

\* Calls that move neither a balance nor a book.
LEMMA QuietSurplus ==
    ASSUME UNCHANGED <<scholarship, custody, feesAccrued, tuitionHeld>>
    PROVE  Surplus' = Surplus
BY DEF Surplus, TotalHeld, TotalIn, Held

\* A funding books its whole amount, a part to the student and a part to the university.
LEMMA FundSurplus ==
    ASSUME IInv, NEW f \in Funders, NEW s \in Students, NEW a \in FundAmounts,
           NEW t \in Tokens, NEW n \in BOOLEAN, FundScholarship(f, s, a, t, n)
    PROVE  Surplus' = Surplus
<1> DEFINE share == StudentShare(a)
           old == RecordToFund(s, f, t, n)
           new == Credited(old, share, n)
<1>1. a \in Nat /\ share \in Nat /\ UniversityShare(a) \in Nat /\ UniversityShare(a) + share = a
  BY AmountsAssumption, ShareBound
<1>2. Sound(old)
  BY RecordsSound DEF RecordToFund, NewScholarship, Sound, ScholarshipRecord
<1>3. old.balance = Held(s)
  BY DEF RecordToFund, NewScholarship, Held
<1>4. new \in ScholarshipRecord /\ new.balance = old.balance + share
  BY <1>1, <1>2, CreditedSound DEF Sound
<1>5. /\ scholarship' = [scholarship EXCEPT ![s] = new]
      /\ custody' = [custody EXCEPT ![t] = custody[t] + a]
      /\ tuitionHeld' = [tuitionHeld EXCEPT ![t] = tuitionHeld[t] + UniversityShare(a)]
      /\ feesAccrued' = feesAccrued
  BY DEF FundScholarship
<1> HIDE DEF share, old, new
<1>6. TypeOK /\ custody[t] \in Nat /\ tuitionHeld[t] \in Nat /\ Held(s) \in Nat
  BY HeldType DEF IInv, TypeOK
<1>7. TotalHeld' = TotalHeld + share
  <2>1. TotalHeld' = TotalHeld - Held(s) + new.balance
    BY <1>4, <1>5, <1>6, HeldUpdate
  <2> QED BY <1>1, <1>3, <1>4, <1>6, <2>1, HeldType
<1>8. TotalIn(custody)' = TotalIn(custody) + a
  <2>1. /\ custody \in [Tokens -> Int] /\ custody' \in [Tokens -> Int]
        /\ custody'[t] = custody[t] + a
        /\ \A x \in Tokens \ {t} : custody'[x] = custody[x]
    BY <1>1, <1>5, <1>6 DEF TypeOK
  <2>2. TotalIn(custody') = TotalIn(custody) + a
    BY <1>1, <2>1, TotalUpdate
  <2> QED BY <2>2 DEF TotalIn
<1>9. TotalIn(tuitionHeld)' = TotalIn(tuitionHeld) + UniversityShare(a)
  <2>1. /\ tuitionHeld \in [Tokens -> Int] /\ tuitionHeld' \in [Tokens -> Int]
        /\ tuitionHeld'[t] = tuitionHeld[t] + UniversityShare(a)
        /\ \A x \in Tokens \ {t} : tuitionHeld'[x] = tuitionHeld[x]
    BY <1>1, <1>5, <1>6 DEF TypeOK
  <2>2. TotalIn(tuitionHeld') = TotalIn(tuitionHeld) + UniversityShare(a)
    BY <1>1, <2>1, TotalUpdate
  <2> QED BY <2>2 DEF TotalIn
<1>10. TotalIn(feesAccrued)' = TotalIn(feesAccrued)
  BY <1>5 DEF TotalIn
<1> QED BY <1>1, <1>6, <1>7, <1>8, <1>9, <1>10, TotalTypes DEF Surplus

\* A withdrawal moves the tax to the fees and the rest to the student.
LEMMA WithdrawSurplus ==
    ASSUME TaxBelowFull, IInv, NEW s \in Students, NEW a \in WithdrawAmounts,
           WithdrawScholarship(s, a)
    PROVE  Surplus' = Surplus
<1> DEFINE sc == scholarship[s]
           new == Debited(sc, a)
           tax == Fee(a)
           t == sc.token
<1>1. /\ a \in Nat /\ tax \in Nat /\ tax = Tax(a) /\ tax - a \in Int /\ t \in Tokens
      /\ Sound(sc) /\ a <= sc.balance /\ sc # None
  <2>1. a \in Nat /\ Fee(a) \in Nat /\ Fee(a) = Tax(a)
    BY AcceptedNatural, AcceptedTerms DEF IInv, WithdrawScholarship
  <2>2. a <= sc.balance /\ sc # None
    BY DEF WithdrawScholarship, WithdrawalAccepted
  <2>3. Sound(sc)
    BY <2>2, RecordsSound
  <2> QED BY <2>1, <2>2, <2>3 DEF Sound, ScholarshipRecord
<1>2. new \in ScholarshipRecord /\ new.balance = sc.balance - a
  BY <1>1, DebitedSound DEF Sound
<1>3. /\ scholarship' = [scholarship EXCEPT ![s] = new]
      /\ custody' = [custody EXCEPT ![t] = custody[t] - (a - tax)]
      /\ feesAccrued' = [feesAccrued EXCEPT ![t] = feesAccrued[t] + tax]
      /\ tuitionHeld' = tuitionHeld
  BY <1>1 DEF WithdrawScholarship, WithdrawalAccepted
<1>4. TypeOK /\ Held(s) = sc.balance /\ sc.balance \in Nat
  BY <1>1 DEF IInv, Held, Sound, ScholarshipRecord
<1> HIDE DEF sc, new, tax, t
<1>5. TotalHeld' = TotalHeld - a
  <2>1. TotalHeld' = TotalHeld - Held(s) + new.balance
    BY <1>2, <1>3, <1>4, HeldUpdate
  <2> QED BY <1>1, <1>2, <1>4, <2>1, HeldType
<1>6. TotalIn(custody)' = TotalIn(custody) + (tax - a)
  <2>1. /\ custody \in [Tokens -> Int] /\ custody' \in [Tokens -> Int]
        /\ custody'[t] = custody[t] + (tax - a)
        /\ \A x \in Tokens \ {t} : custody'[x] = custody[x]
    BY <1>1, <1>3, <1>4 DEF TypeOK
  <2>2. TotalIn(custody') = TotalIn(custody) + (tax - a)
    BY <1>1, <2>1, TotalUpdate
  <2> QED BY <2>2 DEF TotalIn
<1>7. TotalIn(feesAccrued)' = TotalIn(feesAccrued) + tax
  <2>1. /\ feesAccrued \in [Tokens -> Int] /\ feesAccrued' \in [Tokens -> Int]
        /\ feesAccrued'[t] = feesAccrued[t] + tax
        /\ \A x \in Tokens \ {t} : feesAccrued'[x] = feesAccrued[x]
    BY <1>1, <1>3, <1>4 DEF TypeOK
  <2>2. TotalIn(feesAccrued') = TotalIn(feesAccrued) + tax
    BY <1>1, <2>1, TotalUpdate
  <2> QED BY <2>2 DEF TotalIn
<1>8. TotalIn(tuitionHeld)' = TotalIn(tuitionHeld)
  BY <1>3 DEF TotalIn
<1> QED BY <1>1, <1>4, <1>5, <1>6, <1>7, <1>8, TotalTypes DEF Surplus

\* A claim of protocol fees takes from custody what it takes from the fees.
LEMMA FeeClaimSurplus ==
    ASSUME IInv, NEW t \in Tokens, NEW a \in WithdrawAmounts, ClaimProtocolFees(t, a)
    PROVE  Surplus' = Surplus
<1> DEFINE claim == Lesser(a, feesAccrued[t])
<1>1. claim \in Nat /\ -claim \in Int
  <2>1. a \in Nat /\ feesAccrued[t] \in Nat
    BY AmountsAssumption DEF IInv, TypeOK, ClaimProtocolFees
  <2> QED BY <2>1 DEF Lesser
<1>2. /\ scholarship' = scholarship /\ tuitionHeld' = tuitionHeld
      /\ custody' = [custody EXCEPT ![t] = custody[t] - claim]
      /\ feesAccrued' = [feesAccrued EXCEPT ![t] = feesAccrued[t] - claim]
  BY DEF ClaimProtocolFees, historyVars
<1>3. TypeOK
  BY DEF IInv
<1> HIDE DEF claim
<1>4. TotalIn(custody)' = TotalIn(custody) + (-claim)
  <2>1. /\ custody \in [Tokens -> Int] /\ custody' \in [Tokens -> Int]
        /\ custody'[t] = custody[t] + (-claim)
        /\ \A x \in Tokens \ {t} : custody'[x] = custody[x]
    BY <1>1, <1>2, <1>3 DEF TypeOK
  <2>2. TotalIn(custody') = TotalIn(custody) + (-claim)
    BY <1>1, <2>1, TotalUpdate
  <2> QED BY <2>2 DEF TotalIn
<1>5. TotalIn(feesAccrued)' = TotalIn(feesAccrued) + (-claim)
  <2>1. /\ feesAccrued \in [Tokens -> Int] /\ feesAccrued' \in [Tokens -> Int]
        /\ feesAccrued'[t] = feesAccrued[t] + (-claim)
        /\ \A x \in Tokens \ {t} : feesAccrued'[x] = feesAccrued[x]
    BY <1>1, <1>2, <1>3 DEF TypeOK
  <2>2. TotalIn(feesAccrued') = TotalIn(feesAccrued) + (-claim)
    BY <1>1, <2>1, TotalUpdate
  <2> QED BY <2>2 DEF TotalIn
<1>6. TotalIn(tuitionHeld)' = TotalIn(tuitionHeld) /\ TotalHeld' = TotalHeld
  BY <1>2 DEF TotalIn, TotalHeld, Held
<1> QED BY <1>1, <1>3, <1>4, <1>5, <1>6, TotalTypes DEF Surplus

\* The final release pays out what it takes from the balance.
LEMMA FinalReleaseSurplus ==
    ASSUME IInv, NEW s \in Students, ClaimFinalRelease(s)
    PROVE  Surplus' = Surplus
<1> DEFINE sc == scholarship[s]
           kept == ReserveKept(sc)
           new == FinallyReleased(sc)
           t == sc.token
<1>1. sc # None /\ kept <= sc.balance
  BY DEF ClaimFinalRelease
<1>2. /\ scholarship' = [scholarship EXCEPT ![s] = new]
      /\ custody' = [custody EXCEPT ![t] = custody[t] - (sc.balance - kept)]
      /\ feesAccrued' = feesAccrued /\ tuitionHeld' = tuitionHeld
  BY DEF ClaimFinalRelease
<1>3. Sound(sc)
  BY <1>1, RecordsSound
<1>4. /\ new \in ScholarshipRecord /\ new.balance = kept /\ kept \in Nat
  BY <1>1, <1>3, FinallyReleasedSound DEF Sound
<1>5. TypeOK /\ Held(s) = sc.balance /\ sc.balance \in Nat /\ t \in Tokens
  BY <1>1, <1>3 DEF IInv, Held, Sound, ScholarshipRecord
<1> HIDE DEF sc, new, kept, t
<1>6. TotalHeld' = TotalHeld - sc.balance + kept
  BY <1>2, <1>4, <1>5, HeldUpdate
<1>7. TotalIn(custody)' = TotalIn(custody) + (kept - sc.balance)
  <2>1. /\ custody \in [Tokens -> Int] /\ custody' \in [Tokens -> Int]
        /\ custody'[t] = custody[t] + (kept - sc.balance)
        /\ \A x \in Tokens \ {t} : custody'[x] = custody[x]
    BY <1>2, <1>4, <1>5 DEF TypeOK
  <2>2. kept - sc.balance \in Int
    BY <1>4, <1>5
  <2>3. TotalIn(custody') = TotalIn(custody) + (kept - sc.balance)
    BY <1>5, <2>1, <2>2, TotalUpdate
  <2> QED BY <2>3 DEF TotalIn
<1>8. TotalIn(feesAccrued)' = TotalIn(feesAccrued) /\ TotalIn(tuitionHeld)' = TotalIn(tuitionHeld)
  BY <1>2 DEF TotalIn
<1> QED BY <1>4, <1>5, <1>6, <1>7, <1>8, TotalTypes DEF Surplus

\* Progress unlocks more of the balance and leaves it as it is.
LEMMA VerifySurplus ==
    ASSUME IInv, NEW s \in Students, VerifyAcademicProgress(s)
    PROVE  Surplus' = Surplus
<1> DEFINE new == MoreUnlocked(scholarship[s])
<1>1. /\ scholarship[s] # None
      /\ scholarship' = [scholarship EXCEPT ![s] = new]
      /\ custody' = custody /\ feesAccrued' = feesAccrued /\ tuitionHeld' = tuitionHeld
  BY DEF VerifyAcademicProgress, historyVars
<1>2. Sound(scholarship[s])
  BY <1>1, RecordsSound
<1>3. new \in ScholarshipRecord /\ new.balance = scholarship[s].balance
  BY <1>2, MoreUnlockedSound DEF Sound
<1>4. TypeOK /\ Held(s) = scholarship[s].balance
  BY <1>1 DEF IInv, Held
<1> HIDE DEF new
<1>5. TotalHeld' = TotalHeld - Held(s) + new.balance
  BY <1>1, <1>3, <1>4, HeldUpdate
<1>6. TotalHeld' = TotalHeld
  BY <1>3, <1>4, <1>5, HeldType
<1> QED BY <1>1, <1>6 DEF Surplus, TotalIn

\* No step of the escrow changes the surplus.
LEMMA CoreSurplus ==
    ASSUME TaxBelowFull, IInv, [CoreNext]_coreVars
    PROVE  Surplus' = Surplus
<1>1. CASE \/ \E r \in TaxRates : SetTaxRate(r)
           \/ \E s \in Students : InitiateFinalReleaseVote(s)
           \/ \E v \in Voters, s \in Students : CastCommunityVote(v, s)
           \/ \E u \in Universities, o \in Officers : RegisterUniversityAdmin(u, o)
           \/ \E o \in Officers, u \in Universities, s \in Students :
                RegisterStudentUniversity(o, u, s)
           \/ \E o \in Officers, u \in Universities : TriggerSecurityHold(o, u)
           \/ \E o \in Officers, u \in Universities : LiftSecurityHold(o, u)
           \/ Tick
           \/ UNCHANGED coreVars
  <2>1. UNCHANGED <<scholarship, custody, tuitionHeld>>
    BY <1>1 DEF SetTaxRate, InitiateFinalReleaseVote, CastCommunityVote,
       RegisterUniversityAdmin, RegisterStudentUniversity, TriggerSecurityHold,
       LiftSecurityHold, Tick, coreVars, grantVars, historyVars
  <2>2. UNCHANGED feesAccrued
    BY <1>1 DEF SetTaxRate, InitiateFinalReleaseVote, CastCommunityVote,
       RegisterUniversityAdmin, RegisterStudentUniversity, TriggerSecurityHold,
       LiftSecurityHold, Tick, coreVars, grantVars
  <2> QED BY <2>1, <2>2, QuietSurplus
<1> QED BY <1>1, FundSurplus, WithdrawSurplus, FeeClaimSurplus, FinalReleaseSurplus,
           VerifySurplus DEF CoreNext

\* Over all tokens together the contract holds exactly what it owes: no entry
\* point of the escrow pays out what it does not book, or books what it does
\* not pay, as long as less than everything is taxed.
THEOREM NothingUnbooked ==
    ASSUME TaxBelowFull
    PROVE  Spec => [](Surplus = 0)
<1>1. CoreInit => Surplus = 0
  BY InitSurplus
<1>2. IInv /\ Surplus = 0 /\ [CoreNext]_coreVars => (Surplus = 0)'
  <2> SUFFICES ASSUME IInv, Surplus = 0, [CoreNext]_coreVars PROVE Surplus' = 0
    OBVIOUS
  <2> QED BY CoreSurplus
<1> QED BY <1>1, <1>2, Invariance, PTL DEF Spec

\* With one token a total is the entry of that token.
LEMMA OneEntry ==
    ASSUME NEW t \in Tokens, \A u \in Tokens : u = t, NEW f \in [Tokens -> Nat]
    PROVE  TotalIn(f) = f[t]
<1>1. Tokens = {t} /\ f[t] \in Int
  OBVIOUS
<1>2. SumFunctionOnSet(f, {t}) = f[t]
  BY <1>1, SumSingle
<1>3. SumFunctionOnSet(f, Tokens) = SumFunctionOnSet(f, {t})
  BY <1>1, Zenon
<1> QED BY <1>2, <1>3 DEF TotalIn

\* With one token the totals are the books of that token.
LEMMA OneToken ==
    ASSUME TypeOK, NEW t \in Tokens, \A u \in Tokens : u = t
    PROVE  /\ TotalIn(custody) = custody[t] /\ TotalIn(feesAccrued) = feesAccrued[t]
           /\ TotalIn(tuitionHeld) = tuitionHeld[t]
           /\ TotalHeld = LiabilityIn(t)
<1>1. ASSUME NEW f \in [Tokens -> Nat] PROVE TotalIn(f) = f[t]
  BY OneEntry
<1> DEFINE h == [s \in Students |-> Held(s)]
           T == {s \in Scholars : scholarship[s].token = t}
<1>2. T \in SUBSET Students /\ \A s \in Students \ T : h[s] = 0
  BY DEF TypeOK, Scholars, ScholarshipRecord, Held
<1>3. \A s \in Students : h[s] \in Int
  BY HeldType
<1> HIDE DEF h, T
<1>4. SumFunctionOnSet(h, Students) = SumFunctionOnSet(h, T)
  BY <1>2, <1>3, AddressesAssumption, SumSupport
<1>5. TotalHeld = LiabilityIn(t)
  BY <1>4 DEF TotalHeld, LiabilityIn, h, T
<1> QED BY <1>1, <1>5 DEF TypeOK

\* With one token, a surplus of 0 is what CustodyAccounted says.
LEMMA SurplusAccounts ==
    ASSUME TypeOK, \A t, u \in Tokens : t = u, Surplus = 0
    PROVE  CustodyAccounted
<1> SUFFICES ASSUME NEW t \in Tokens
             PROVE  custody[t] = LiabilityIn(t) + feesAccrued[t] + tuitionHeld[t]
  BY DEF CustodyAccounted
<1>1. /\ TotalIn(custody) = custody[t] /\ TotalIn(feesAccrued) = feesAccrued[t]
      /\ TotalIn(tuitionHeld) = tuitionHeld[t] /\ TotalHeld = LiabilityIn(t)
  BY OneToken
<1> QED BY <1>1, TotalTypes DEF Surplus

\* Where the contract is used with one token, what it holds is what it owes the
\* students, the fees it accrued and the university shares it received, as long
\* as less than everything is taxed.
THEOREM CustodyBacked ==
    ASSUME TaxBelowFull, \A t, u \in Tokens : t = u
    PROVE  Spec => []CustodyAccounted
<1>1. IInv /\ Surplus = 0 => CustodyAccounted
  BY SurplusAccounts DEF IInv
<1> QED BY <1>1, Invariance, NothingUnbooked, PTL

-----------------------------------------------------------------------------
(* The helpers of crates/claim_math and the escrow they mirror. *)

\* The crate rejects a request for one of three reasons, or accepts it.
LEMMA CrateAccepts ==
    ASSUME NEW unlocked \in Nat, NEW balance \in Nat, NEW total \in Nat, NEW open \in BOOLEAN,
           NEW requested \in Nat \ {0}
    PROVE  Math!ClaimError(unlocked, balance, total, open, requested) = "None"
             <=> /\ open \/ balance > Math!FinalReleaseLockedAmount(total)
                 /\ requested <= Math!AvailableToWithdraw(unlocked, balance, total, open)
                 /\ requested <= balance
<1> DEFINE locked == Math!FinalReleaseLockedAmount(total)
           available == Math!AvailableToWithdraw(unlocked, balance, total, open)
<1>1. locked \in Int /\ available \in Int
  <2>1. locked \in Int
    BY DEF Math!FinalReleaseLockedAmount
  <2> HIDE DEF locked
  <2>2. available = IF open \/ total <= 0 THEN Math!AtLeast(unlocked, 0)
                    ELSE IF balance > locked
                         THEN Math!AtMost(Math!AtLeast(unlocked, 0), balance - locked) ELSE 0
    BY DEF Math!AvailableToWithdraw, locked
  <2> QED BY <2>1, <2>2 DEF Math!AtLeast, Math!AtMost
<1>2. CASE ~open /\ balance <= locked
  <2>1. Math!ClaimError(unlocked, balance, total, open, requested) = "FinalReleaseLocked"
    BY <1>2 DEF Math!ClaimError
  <2> QED BY <1>1, <1>2, <2>1
<1>3. CASE open \/ balance > locked
  <2>1. ~(requested <= 0) /\ ~(requested > 0 /\ ~open /\ balance <= locked)
    BY <1>1, <1>3
  <2>2. Math!ClaimError(unlocked, balance, total, open, requested)
          = IF requested > available THEN "ExceedsAvailable"
            ELSE IF balance < requested THEN "InsufficientBalance" ELSE "None"
    BY <2>1 DEF Math!ClaimError
  <2> HIDE DEF locked, available
  <2> QED BY <1>1, <1>3, <2>2 DEF locked, available
<1> QED BY <1>1, <1>2, <1>3

\* The crate's available amount is the contract's.
LEMMA CrateAvailable ==
    ASSUME NEW sc, Sound(sc)
    PROVE  /\ Math!FinalReleaseLockedAmount(sc.total_grant) = Locked(sc.total_grant)
           /\ Math!AvailableToWithdraw(sc.unlocked_balance, sc.balance, sc.total_grant,
                  sc.final_release_claimed) = Available(sc)
           /\ Available(sc) \in Nat
<1>1. /\ sc.unlocked_balance \in Nat /\ sc.balance \in Nat /\ sc.total_grant \in Nat
      /\ sc.final_release_claimed \in BOOLEAN
  BY DEF Sound, ScholarshipRecord
<1>2. Locked(sc.total_grant) \in Nat
  BY <1>1, LockedBound
<1>3. Math!FinalReleaseLockedAmount(sc.total_grant) = Locked(sc.total_grant)
  BY <1>1 DEF Math!FinalReleaseLockedAmount, Locked, FINAL_RELEASE_PERCENTAGE
<1>4. Math!AvailableToWithdraw(sc.unlocked_balance, sc.balance, sc.total_grant,
          sc.final_release_claimed)
        = IF sc.final_release_claimed \/ sc.total_grant <= 0
          THEN Math!AtLeast(sc.unlocked_balance, 0)
          ELSE IF sc.balance > Locked(sc.total_grant)
               THEN Math!AtMost(Math!AtLeast(sc.unlocked_balance, 0),
                                sc.balance - Locked(sc.total_grant))
               ELSE 0
  BY <1>3 DEF Math!AvailableToWithdraw
<1>5. Math!AtLeast(sc.unlocked_balance, 0) = sc.unlocked_balance
  BY <1>1 DEF Math!AtLeast
<1>6. ASSUME sc.balance > Locked(sc.total_grant)
      PROVE  Math!AtMost(sc.unlocked_balance, sc.balance - Locked(sc.total_grant))
               = Lesser(sc.unlocked_balance, sc.balance - Locked(sc.total_grant))
  BY DEF Math!AtMost, Lesser
<1>7. Math!AvailableToWithdraw(sc.unlocked_balance, sc.balance, sc.total_grant,
          sc.final_release_claimed) = Available(sc)
  BY <1>1, <1>4, <1>5, <1>6 DEF Available
<1>8. Available(sc) \in Nat
  BY <1>1, <1>2 DEF Available, Lesser
<1> QED BY <1>3, <1>7, <1>8

\* What is owed to one student in a token is covered by what is held of it.
LEMMA CustodyCovers ==
    ASSUME TypeOK, CustodyAccounted, NEW s \in Students, scholarship[s] # None
    PROVE  scholarship[s].balance <= custody[scholarship[s].token]
<1> DEFINE t == scholarship[s].token
           h == [x \in Students |-> Held(x)]
           T == {x \in Scholars : scholarship[x].token = t}
<1>1. t \in Tokens /\ scholarship[s].balance \in Nat /\ h[s] = scholarship[s].balance
  BY DEF TypeOK, ScholarshipRecord, Held
<1>2. s \in T /\ T \in SUBSET Students
  BY DEF Scholars
<1>3. IsFiniteSet(T)
  BY <1>2, AddressesAssumption, FS_Subset
<1>4. \A x \in T : h[x] \in Nat
  BY <1>2 DEF TypeOK, ScholarshipRecord, Held
<1>5. LiabilityIn(t) = SumFunctionOnSet(h, T)
  BY DEF LiabilityIn
<1> HIDE DEF h, T, t
<1>6. h[s] <= SumFunctionOnSet(h, T) /\ SumFunctionOnSet(h, T) \in Nat
  BY <1>2, <1>3, <1>4, SumCovers, SumNat
<1>7. custody[t] = LiabilityIn(t) + feesAccrued[t] + tuitionHeld[t]
  BY <1>1 DEF CustodyAccounted
<1>8. custody[t] \in Nat /\ feesAccrued[t] \in Nat /\ tuitionHeld[t] \in Nat
  BY <1>1 DEF TypeOK
<1>9. scholarship[s].balance <= custody[t]
  BY <1>1, <1>5, <1>6, <1>7, <1>8
<1> QED BY <1>9 DEF t

\* The view releases what the crate computes.
LEMMA SimulationMirrors ==
    ASSUME NEW sc, Sound(sc), ~sc.is_paused, ~sc.is_disputed, NEW rate
    PROVE  SimulateClaim(sc) = Math!SimulatePartialClaim(sc.unlocked_balance, sc.balance,
               sc.total_grant, sc.final_release_claimed, sc.is_native, rate).tokens_to_release
<1> DEFINE free == Available(sc)
<1>1. /\ sc.balance \in Nat /\ sc.is_native \in BOOLEAN /\ NATIVE_XLM_RESERVE \in Nat
      /\ free \in Nat
  BY CrateAvailable, LimitsAssumption DEF Sound, ScholarshipRecord
<1>2. SimulateClaim(sc) = IF ~sc.is_native THEN free
                          ELSE IF sc.balance > NATIVE_XLM_RESERVE
                               THEN Lesser(free, sc.balance - NATIVE_XLM_RESERVE) ELSE 0
  BY DEF SimulateClaim, Available
<1>3. Math!SimulatePartialClaim(sc.unlocked_balance, sc.balance, sc.total_grant,
          sc.final_release_claimed, sc.is_native, rate).tokens_to_release
        = IF sc.is_native
          THEN Math!AtMost(free, Math!AtLeast(sc.balance - NATIVE_XLM_RESERVE, 0))
          ELSE free
  BY CrateAvailable DEF Math!SimulatePartialClaim
<1> HIDE DEF free
<1> QED BY <1>1, <1>2, <1>3 DEF Lesser, Math!AtMost, Math!AtLeast

\* With the books in order, the crate accepts what the contract accepts: the
\* token balance never refuses what the record allows.
LEMMA AcceptanceMirrors ==
    ASSUME IInv, CustodyAccounted, NEW s \in Students, scholarship[s] # None,
           Unhindered(s), NEW a \in WithdrawAmounts, a > 0
    PROVE  WithdrawalAccepted(s, a) <=> CrateAnswer(s, a) = "None"
<1> DEFINE sc == scholarship[s]
<1>1. Sound(sc)
  BY RecordsSound
<1>2. /\ sc.unlocked_balance \in Nat /\ sc.balance \in Nat /\ sc.total_grant \in Nat
      /\ sc.final_release_claimed \in BOOLEAN /\ a \in Nat \ {0} /\ sc.token \in Tokens
  BY <1>1, AmountsAssumption DEF Sound, ScholarshipRecord
<1>3. CrateAnswer(s, a) = "None"
        <=> /\ sc.final_release_claimed \/ sc.balance > Locked(sc.total_grant)
            /\ a <= Available(sc)
            /\ a <= sc.balance
  <2>1. CrateAnswer(s, a) = Math!ClaimError(sc.unlocked_balance, sc.balance,
                                sc.total_grant, sc.final_release_claimed, a)
    BY DEF CrateAnswer
  <2> HIDE DEF sc
  <2> QED BY <1>1, <1>2, <2>1, CrateAccepts, CrateAvailable
<1>4. Tax(a) \in Nat /\ Tax(a) <= a
  BY <1>2, TaxBound, RateBound DEF IInv
<1>5. a <= sc.balance => a - Tax(a) \in 0..custody[sc.token]
  <2>1. sc.balance <= custody[sc.token]
    BY CustodyCovers DEF IInv
  <2>2. custody[sc.token] \in Nat
    BY <1>2 DEF IInv, TypeOK
  <2> QED BY <1>2, <1>4, <2>1, <2>2
<1> QED BY <1>3, <1>5 DEF WithdrawalAccepted, Unhindered

\* A request of zero is granted whenever the lock leaves anything; the crate
\* refuses it, and both refuse what is below.
LEMMA NoAmountMirrors ==
    ASSUME TaxBelowFull, IInv, NEW s \in Students, scholarship[s] # None,
           Unhindered(s), NEW a \in WithdrawAmounts, a <= 0
    PROVE  /\ WithdrawalAccepted(s, a) <=> a = 0 /\ LockPassed(scholarship[s])
           /\ CrateAnswer(s, a) # "None"
<1> DEFINE sc == scholarship[s]
<1>1. Sound(sc)
  BY RecordsSound
<1>2. a \in Int /\ sc.balance \in Nat /\ sc.token \in Tokens /\ Available(sc) \in Nat
  BY <1>1, AmountsAssumption, CrateAvailable DEF Sound, ScholarshipRecord
<1>3. CrateAnswer(s, a) = "InvalidAmount"
  <2>1. a <= 0 /\ ~(a > 0)
    BY <1>2
  <2> QED BY <2>1 DEF CrateAnswer, Math!ClaimError
<1>4. CASE a = 0
  <2>1. Tax(0) = 0
    <3>1. taxRate \in BasisPoints
      BY RateBound DEF IInv
    <3>2. taxRate \in Int
      BY <3>1 DEF BasisPoints
    <3> QED BY <3>2 DEF Tax
  <2>2. custody[sc.token] \in Nat
    BY <1>2 DEF IInv, TypeOK
  <2>3. a - Tax(a) \in 0..custody[sc.token]
    BY <1>4, <2>1, <2>2
  <2>4. a <= Available(sc) /\ a <= sc.balance
    BY <1>2, <1>4
  <2> QED BY <1>3, <1>4, <2>3, <2>4 DEF WithdrawalAccepted, LockPassed, Unhindered
<1>5. CASE a # 0
  <2>1. ~WithdrawalAccepted(s, a)
    BY <1>2, <1>5, AcceptedNatural DEF IInv
  <2> QED BY <1>3, <1>5, <2>1
<1> QED BY <1>4, <1>5

\* The escrow's own entry points neither pause nor dispute a scholarship.
NothingStopped == \A s \in Scholars : ~scholarship[s].is_paused /\ ~scholarship[s].is_disputed

\* The helpers leave the two flags as they are.
LEMMA FlagsKept ==
    ASSUME NEW sc, sc \in ScholarshipRecord, NEW n, NEW native, ~sc.is_paused, ~sc.is_disputed
    PROVE  /\ ~Credited(sc, n, native).is_paused /\ ~Credited(sc, n, native).is_disputed
           /\ ~Debited(sc, n).is_paused /\ ~Debited(sc, n).is_disputed
           /\ ~FinallyReleased(sc).is_paused /\ ~FinallyReleased(sc).is_disputed
           /\ ~MoreUnlocked(sc).is_paused /\ ~MoreUnlocked(sc).is_disputed
BY DEF Credited, Debited, FinallyReleased, MoreUnlocked, ScholarshipRecord

\* No step of the escrow pauses or disputes a scholarship.
LEMMA NothingStoppedKept ==
    ASSUME IInv, NothingStopped, [CoreNext]_coreVars
    PROVE  NothingStopped'
<1>1. ASSUME NEW s \in Students, NEW new, scholarship' = [scholarship EXCEPT ![s] = new],
             ~new.is_paused, ~new.is_disputed
      PROVE  NothingStopped'
  BY <1>1 DEF NothingStopped, Scholars, IInv, TypeOK
<1>2. ASSUME scholarship' = scholarship PROVE NothingStopped'
  BY <1>2 DEF NothingStopped, Scholars
<1>3. ASSUME NEW s \in Students, scholarship[s] # None
      PROVE  /\ scholarship[s] \in ScholarshipRecord
             /\ ~scholarship[s].is_paused /\ ~scholarship[s].is_disputed
  BY <1>3 DEF NothingStopped, Scholars, IInv, TypeOK
<1>4. CASE \E f \in Funders, s \in Students, a \in FundAmounts, t \in Tokens, n \in BOOLEAN :
             FundScholarship(f, s, a, t, n)
  <2>1. PICK f \in Funders, s \in Students, a \in FundAmounts, t \in Tokens, n \in BOOLEAN :
          FundScholarship(f, s, a, t, n)
    BY <1>4
  <2> DEFINE sc == RecordToFund(s, f, t, n)
  <2>2. scholarship' = [scholarship EXCEPT ![s] = Credited(sc, StudentShare(a), n)]
    BY <2>1 DEF FundScholarship
  <2>3. sc \in ScholarshipRecord /\ ~sc.is_paused /\ ~sc.is_disputed
    BY <1>3 DEF RecordToFund, NewScholarship, ScholarshipRecord
  <2> HIDE DEF sc
  <2> QED BY <1>1, <2>2, <2>3, FlagsKept
<1>5. CASE \E s \in Students, a \in WithdrawAmounts : WithdrawScholarship(s, a)
  <2>1. PICK s \in Students, a \in WithdrawAmounts : WithdrawScholarship(s, a)
    BY <1>5
  <2>2. /\ scholarship[s] # None
        /\ scholarship' = [scholarship EXCEPT ![s] = Debited(scholarship[s], a)]
    BY <2>1 DEF WithdrawScholarship, WithdrawalAccepted
  <2> QED BY <1>1, <1>3, <2>2, FlagsKept
<1>6. CASE \E s \in Students : ClaimFinalRelease(s)
  <2>1. PICK s \in Students : ClaimFinalRelease(s)
    BY <1>6
  <2>2. /\ scholarship[s] # None
        /\ scholarship' = [scholarship EXCEPT ![s] = FinallyReleased(scholarship[s])]
    BY <2>1 DEF ClaimFinalRelease
  <2> QED BY <1>1, <1>3, <2>2, FlagsKept
<1>7. CASE \E s \in Students : VerifyAcademicProgress(s)
  <2>1. PICK s \in Students : VerifyAcademicProgress(s)
    BY <1>7
  <2>2. /\ scholarship[s] # None
        /\ scholarship' = [scholarship EXCEPT ![s] = MoreUnlocked(scholarship[s])]
    BY <2>1 DEF VerifyAcademicProgress
  <2> QED BY <1>1, <1>3, <2>2, FlagsKept
<1>8. CASE \/ \E r \in TaxRates : SetTaxRate(r)
           \/ \E t \in Tokens, a \in WithdrawAmounts : ClaimProtocolFees(t, a)
           \/ \E s \in Students : InitiateFinalReleaseVote(s)
           \/ \E v \in Voters, s \in Students : CastCommunityVote(v, s)
           \/ \E u \in Universities, o \in Officers : RegisterUniversityAdmin(u, o)
           \/ \E o \in Officers, u \in Universities, s \in Students :
                RegisterStudentUniversity(o, u, s)
           \/ \E o \in Officers, u \in Universities : TriggerSecurityHold(o, u)
           \/ \E o \in Officers, u \in Universities : LiftSecurityHold(o, u)
           \/ Tick
           \/ UNCHANGED coreVars
  <2>1. scholarship' = scholarship
    BY <1>8 DEF SetTaxRate, ClaimProtocolFees, InitiateFinalReleaseVote, CastCommunityVote,
       RegisterUniversityAdmin, RegisterStudentUniversity, TriggerSecurityHold,
       LiftSecurityHold, Tick, coreVars, grantVars
  <2> QED BY <1>2, <2>1
<1> QED BY <1>4, <1>5, <1>6, <1>7, <1>8 DEF CoreNext

\* Where the contract is used with one token and less than everything is taxed,
\* the crate that the fuzz targets exercise says of every claim, tax, simulation
\* and tuition split what the contract does, but for a claim of zero
\* (crates/claim_math, withdraw_scholarship, simulate_claim).
THEOREM ClaimMathAlwaysMirrors ==
    ASSUME TaxBelowFull, \A t, u \in Tokens : t = u
    PROVE  Spec => []ClaimMathMirrors
<1>1. ASSUME IInv, CustodyAccounted, NothingStopped PROVE ClaimMathMirrors
  <2> SUFFICES ASSUME NEW s \in Students, scholarship[s] # None
      PROVE LET sc == scholarship[s] IN
        /\ Unhindered(s) =>
             \A a \in WithdrawAmounts :
                WithdrawalAccepted(s, a) <=>
                    CrateAnswer(s, a) = "None" \/ (a = 0 /\ LockPassed(sc))
        /\ \A a \in WithdrawAmounts : a > 0 =>
             LET claim == Math!PartialClaim(sc.unlocked_balance, sc.balance, a, taxRate)
             IN  /\ Debited(sc, a).balance = claim.new_balance
                 /\ Debited(sc, a).unlocked_balance = claim.new_unlocked_balance
                 /\ Tax(a) = claim.tax_amount
        /\ SimulateClaim(sc) =
             Math!SimulatePartialClaim(sc.unlocked_balance, sc.balance, sc.total_grant,
                 sc.final_release_claimed, sc.is_native, taxRate).tokens_to_release
        /\ \A a \in FundAmounts :
             Math!TuitionSplit(a, UNIVERSITY_PERCENTAGE) =
                 [university |-> UniversityShare(a), student |-> StudentShare(a)]
    BY DEF ClaimMathMirrors
  <2> DEFINE sc == scholarship[s]
  <2>1. Sound(sc) /\ ~sc.is_paused /\ ~sc.is_disputed
    BY <1>1, RecordsSound DEF NothingStopped, Scholars
  <2>2. ASSUME NEW a \in WithdrawAmounts, a > 0
        PROVE  LET claim == Math!PartialClaim(sc.unlocked_balance, sc.balance, a, taxRate)
               IN  /\ Debited(sc, a).balance = claim.new_balance
                   /\ Debited(sc, a).unlocked_balance = claim.new_unlocked_balance
                   /\ Tax(a) = claim.tax_amount
    BY <2>1, <2>2, AmountsAssumption
    DEF Math!PartialClaim, Math!BpsTax, Tax, Debited, Sound, ScholarshipRecord
  <2>3. \A a \in FundAmounts :
          Math!TuitionSplit(a, UNIVERSITY_PERCENTAGE) =
             [university |-> UniversityShare(a), student |-> StudentShare(a)]
    BY DEF Math!TuitionSplit, UniversityShare, StudentShare
  <2>4. ASSUME Unhindered(s), NEW a \in WithdrawAmounts
        PROVE  WithdrawalAccepted(s, a) <=>
                 CrateAnswer(s, a) = "None" \/ (a = 0 /\ LockPassed(sc))
    <3>1. CASE a > 0
      <4>1. a # 0
        BY <3>1
      <4> QED BY <1>1, <2>4, <3>1, <4>1, AcceptanceMirrors
    <3>2. CASE a <= 0
      BY <1>1, <2>4, <3>2, NoAmountMirrors
    <3> QED BY <3>1, <3>2, AmountsAssumption
  <2> QED BY <2>1, <2>2, <2>3, <2>4, SimulationMirrors
<1>2. CoreInit => NothingStopped
  BY DEF CoreInit, NothingStopped, Scholars
<1>3. IInv /\ NothingStopped /\ [CoreNext]_coreVars => NothingStopped'
  BY NothingStoppedKept
<1>4. Spec => []NothingStopped
  BY <1>2, <1>3, Invariance, PTL DEF Spec
<1> QED BY <1>1, <1>4, Invariance, CustodyBacked, PTL

=============================================================================
