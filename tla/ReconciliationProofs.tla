------------------------ MODULE ReconciliationProofs ------------------------
(***************************************************************************)
(* Theorems about Reconciliation, for any students, tokens, issuers'       *)
(* clawbacks and reconciliations: the escrow's invariant and its promise   *)
(* to every student survive them, nothing that a terminated student had is *)
(* paid out, a haircut is proportional and takes just what is missing, and *)
(* all haircuts together take no more than the issuers' loss.              *)
(***************************************************************************)
EXTENDS Reconciliation, ScholarshipProofs

TotalReduced == SumFunctionOnSet(reduced, Students)

\* The scholarship of a terminated student stays paused.
TerminatedPaused ==
    \A s \in terminated : scholarship[s] # None /\ scholarship[s].is_paused

\* What a terminated student holds was granted after the termination.
HeldSinceCutOff == \A s \in terminated : Held(s) <= Granted(s) - cutOffAt[s]

RInv == IInv /\ ReconciliationTypeOK /\ TerminatedPaused /\ HeldSinceCutOff

\* What is in custody beyond what is owed, the issuers' take given back to it,
\* is what reconciliations took off the students' balances.
LossBooked == Surplus + TotalIn(issuerTaken) = TotalReduced

-----------------------------------------------------------------------------
(* The record a reconciliation leaves. *)

\* A record that lost some of its balance and nothing else that counts.
Lessened(old, new) ==
    /\ Sound(new) /\ new # None
    /\ new.balance <= old.balance
    /\ new.total_grant = old.total_grant
    /\ new.final_release_claimed = old.final_release_claimed
    /\ new.funder = old.funder
    /\ new.token = old.token
    /\ old.is_paused => new.is_paused

\* A student's share of what is available is part of the balance, and the
\* products say that it is the proportional part, rounded down.
LEMMA ShareFacts ==
    ASSUME NEW b \in Nat, NEW available \in Nat, NEW liability \in Nat, available < liability
    PROVE  /\ Share(b, available, liability) \in Nat
           /\ Share(b, available, liability) <= b
           /\ liability * Share(b, available, liability) <= available * b
           /\ available * b < liability * (Share(b, available, liability) + 1)
<1>1. Share(b, available, liability) \in Nat /\ Share(b, available, liability) <= b
  BY DivBound DEF Share
<1> DEFINE n == b * available
<1>2. n \in Nat /\ liability \in Nat \ {0} /\ n = available * b
  OBVIOUS
<1> HIDE DEF n
<1>3. liability * (n \div liability) <= n /\ n < liability * (n \div liability) + liability
  BY <1>2
<1>4. Share(b, available, liability) = n \div liability
  BY DEF Share, n
<1>5. liability * (n \div liability) + liability = liability * ((n \div liability) + 1)
  BY <1>2
<1> QED BY <1>1, <1>2, <1>3, <1>4, <1>5

\* Termination empties and pauses the record.
LEMMA TerminatedLessened ==
    ASSUME NEW sc, Sound(sc)
    PROVE  /\ Lessened(sc, Terminated(sc))
           /\ Terminated(sc).balance = 0 /\ Terminated(sc).is_paused
<1> DEFINE x1 == [sc EXCEPT !.balance = 0]
           x2 == [x1 EXCEPT !.unlocked_balance = 0]
           x3 == [x2 EXCEPT !.is_paused = TRUE]
           x4 == [x3 EXCEPT !.is_disputed = TRUE]
           Same(x) == /\ x.balance = 0
                      /\ x.total_grant = sc.total_grant
                      /\ x.final_release_claimed = sc.final_release_claimed
                      /\ x.funder = sc.funder /\ x.token = sc.token
<1>1. Terminated(sc) = x4
  BY DEF Sound, Terminated, ScholarshipRecord
<1>2. x1 \in ScholarshipRecord /\ Same(x1)
  BY DEF Sound, ScholarshipRecord
<1> HIDE DEF x1
<1>3. x2 \in ScholarshipRecord /\ Same(x2) /\ x2.unlocked_balance = 0
  BY <1>2 DEF ScholarshipRecord
<1> HIDE DEF x2
<1>4. x3 \in ScholarshipRecord /\ Same(x3) /\ x3.unlocked_balance = 0 /\ x3.is_paused
  BY <1>3 DEF ScholarshipRecord
<1> HIDE DEF x3
<1>5. x4 \in ScholarshipRecord /\ Same(x4) /\ x4.unlocked_balance = 0 /\ x4.is_paused
  BY <1>4 DEF ScholarshipRecord
<1> HIDE DEF x4
<1>6. sc.balance \in Nat
  BY DEF Sound, ScholarshipRecord
<1> QED BY <1>1, <1>5, <1>6, NoneAssumption DEF Lessened, Sound

\* A haircut leaves the proportional share, unlocked as far as it is there.
LEMMA CutLessened ==
    ASSUME NEW sc, Sound(sc), NEW available \in Nat, NEW liability \in Nat,
           available < liability
    PROVE  /\ Lessened(sc, Cut(sc, available, liability))
           /\ Cut(sc, available, liability).balance = Share(sc.balance, available, liability)
<1> DEFINE share == Share(sc.balance, available, liability)
           rest == Lesser(sc.unlocked_balance, share)
           x1 == [sc EXCEPT !.balance = share]
           x2 == [x1 EXCEPT !.unlocked_balance = rest]
           Same(x) == /\ x.balance = share
                      /\ x.total_grant = sc.total_grant
                      /\ x.final_release_claimed = sc.final_release_claimed
                      /\ x.funder = sc.funder /\ x.token = sc.token
                      /\ x.is_paused = sc.is_paused
<1>1. /\ sc.balance \in Nat /\ sc.unlocked_balance \in Nat /\ sc.is_paused \in BOOLEAN
      /\ sc.balance <= sc.unlocked_balance
  BY DEF Sound, ScholarshipRecord
<1>2. share \in Nat /\ share <= sc.balance
  BY <1>1, ShareFacts
<1>3. Cut(sc, available, liability) = x2
  BY DEF Sound, Cut, ScholarshipRecord
<1> HIDE DEF share
<1>4. rest \in Nat /\ share <= rest
  BY <1>1, <1>2 DEF Lesser
<1> HIDE DEF rest
<1>5. x1 \in ScholarshipRecord /\ Same(x1)
  BY <1>2 DEF Sound, ScholarshipRecord
<1> HIDE DEF x1
<1>6. x2 \in ScholarshipRecord /\ Same(x2) /\ x2.unlocked_balance = rest
  BY <1>4, <1>5 DEF ScholarshipRecord
<1> HIDE DEF x2
<1>7. /\ Lessened(sc, x2) /\ x2.balance = share
  BY <1>2, <1>4, <1>6, NoneAssumption DEF Lessened, Sound
<1> QED BY <1>3, <1>7 DEF share

\* Keeping a record lessens nothing.
LEMMA KeptLessened ==
    ASSUME NEW sc, Sound(sc)
    PROVE  Lessened(sc, sc)
<1>1. sc.balance \in Nat /\ sc # None
  BY NoneAssumption DEF Sound, ScholarshipRecord
<1> QED BY <1>1 DEF Lessened

\* The liability a haircut is computed from is a natural number.
LEMMA LiabilityNat ==
    ASSUME TypeOK, NEW t \in Tokens, NEW target
    PROVE  LiabilityWithout(t, target) \in Nat /\ LiabilityIn(t) \in Nat
<1> DEFINE h == [s \in Students |-> Held(s)]
<1>1. \A s \in Students : h[s] \in Nat
  BY HeldType
<1> HIDE DEF h
<1>2. ASSUME NEW T \in SUBSET Students PROVE SumFunctionOnSet(h, T) \in Nat
  <2>1. IsFiniteSet(T)
    BY AddressesAssumption, FS_Subset
  <2> QED BY <1>1, <2>1, SumNat
<1>3. {s \in Students \ {target} : Targeted(s, t)} \in SUBSET Students
  OBVIOUS
<1>4. {s \in Scholars : scholarship[s].token = t} \in SUBSET Students
  BY DEF Scholars
<1>5. SumFunctionOnSet(h, {s \in Students \ {target} : Targeted(s, t)}) \in Nat
  BY <1>2, <1>3
<1>6. SumFunctionOnSet(h, {s \in Scholars : scholarship[s].token = t}) \in Nat
  BY <1>2, <1>4
<1> QED BY <1>5, <1>6 DEF LiabilityWithout, LiabilityIn, h

\* What a reconciliation makes of one record, and of the absence of one.
LEMMA ReconciledFacts ==
    ASSUME IInv, NEW t \in Tokens, NEW target, NEW haircut \in BOOLEAN, NEW s \in Students
    PROVE  LET new == Reconciled(s, t, target, haircut)
               liability == LiabilityWithout(t, target)
           IN  /\ ~Targeted(s, t) => new = scholarship[s]
               /\ scholarship[s] # None => Lessened(scholarship[s], new)
               /\ Targeted(s, t) /\ s = target => new.balance = 0 /\ new.is_paused
               /\ Targeted(s, t) /\ s # target =>
                    IF haircut /\ custody[t] < liability
                    THEN new.balance = Share(scholarship[s].balance, custody[t], liability)
                    ELSE new = scholarship[s]
<1> DEFINE sc == scholarship[s]
           liability == LiabilityWithout(t, target)
           new == Reconciled(s, t, target, haircut)
<1>1. liability \in Nat /\ custody[t] \in Nat
  BY LiabilityNat DEF IInv, TypeOK
<1> HIDE DEF liability
<1>2. CASE ~Targeted(s, t)
  <2>1. new = sc
    BY <1>2 DEF Reconciled
  <2>2. sc # None => Lessened(sc, sc)
    BY RecordsSound, KeptLessened
  <2> QED BY <1>2, <2>1, <2>2
<1>3. CASE Targeted(s, t) /\ s = target
  <2>1. new = Terminated(sc) /\ Sound(sc)
    BY <1>3, RecordsSound DEF Reconciled, Targeted
  <2> QED BY <1>3, <2>1, TerminatedLessened
<1>4. CASE Targeted(s, t) /\ s # target
  <2>1. /\ Sound(sc) /\ sc.balance \in Nat
        /\ new = IF haircut /\ custody[t] < liability /\ sc.balance > 0
                 THEN Cut(sc, custody[t], liability) ELSE sc
    BY <1>4, RecordsSound DEF Reconciled, Targeted, liability, Sound, ScholarshipRecord
  <2>2. CASE haircut /\ custody[t] < liability /\ sc.balance > 0
    BY <1>1, <1>4, <2>1, <2>2, CutLessened DEF liability
  <2>3. CASE haircut /\ custody[t] < liability /\ ~(sc.balance > 0)
    <3>1. new = sc /\ sc.balance = 0
      BY <2>1, <2>3
    <3>2. Share(0, custody[t], liability) = 0
      BY <1>1, <2>3, ShareFacts
    <3> QED BY <1>4, <2>1, <2>3, <3>1, <3>2, KeptLessened DEF liability
  <2>4. CASE ~(haircut /\ custody[t] < liability)
    BY <1>4, <2>1, <2>4, KeptLessened DEF liability
  <2> QED BY <2>2, <2>3, <2>4
<1> QED BY <1>2, <1>3, <1>4

-----------------------------------------------------------------------------
(* Steps. *)

\* A reconciliation lessens records and books what it takes off them.
ReconcileFrame(t, e, d, target, haircut) ==
    /\ scholarship' = [s \in Students |-> Reconciled(s, t, target, haircut)]
    /\ reduced' = [s \in Students |->
         reduced[s] + Held(s) - BalanceOf(Reconciled(s, t, target, haircut))]
    /\ UNCHANGED <<now, vote, graduates, taxRate, feesAccrued, custody, withdrawn,
                   released, tuitionHeld, universityAdmin, studentUniversity, securityHold,
                   issuerTaken>>

\* What one student's account shows of a reconciliation: a forfeit, or nothing.
LEMMA ReconcileAccount ==
    ASSUME IInv, NEW t \in Tokens, NEW e, NEW d, NEW target, NEW haircut \in BOOLEAN,
           ReconcileFrame(t, e, d, target, haircut), NEW s \in Students
    PROVE  /\ scholarship[s] = None => scholarship'[s] = None
           /\ scholarship[s] # None => Lessened(scholarship[s], scholarship'[s])
           /\ Held(s) \in Nat /\ Held(s)' \in 0..Held(s)
           /\ reduced'[s] = reduced[s] + (Held(s) - Held(s)')
           /\ reduced'[s] \in Nat
           /\ Granted(s)' = Granted(s) /\ FinallyOpen(s)' = FinallyOpen(s)
<1> DEFINE sc == scholarship[s]
           new == Reconciled(s, t, target, haircut)
<1>1. scholarship'[s] = new /\ reduced'[s] = reduced[s] + Held(s) - BalanceOf(new)
  BY DEF ReconcileFrame
<1>2. reduced[s] \in Nat /\ Held(s) \in Nat
  BY HeldType DEF IInv, TypeOK
<1>3. CASE sc = None
  <2>1. new = None
    BY <1>3, ReconciledFacts DEF Targeted
  <2> QED BY <1>1, <1>2, <1>3, <2>1 DEF Held, BalanceOf, Granted, FinallyOpen
<1>4. CASE sc # None
  <2>1. Lessened(sc, new)
    BY <1>4, ReconciledFacts
  <2> HIDE DEF new
  <2>2. new.balance \in Nat /\ new.balance <= sc.balance /\ Held(s) = sc.balance
    BY <1>4, <2>1 DEF Lessened, Sound, ScholarshipRecord, Held
  <2>3. BalanceOf(new) = new.balance /\ Held(s)' = new.balance
    BY <1>1, <2>1 DEF BalanceOf, Held, Lessened
  <2>4. Granted(s)' = Granted(s) /\ FinallyOpen(s)' = FinallyOpen(s)
    BY <1>1, <1>4, <2>1 DEF Granted, FinallyOpen, Lessened
  <2> QED BY <1>1, <1>2, <1>4, <2>1, <2>2, <2>3, <2>4
<1> QED BY <1>3, <1>4

\* The facts of a reconciliation that the frame rests on.
LEMMA ReconcileFrames ==
    ASSUME NEW t, NEW e, NEW d, NEW target, NEW haircut,
           ReconcileBalances(t, e, d, target, haircut)
    PROVE  ReconcileFrame(t, e, d, target, haircut)
BY DEF ReconcileBalances, ReconcileFrame, holdVars

\* A reconciliation keeps the escrow's invariant.
LEMMA ReconcileKeepsEscrow ==
    ASSUME IInv, NEW t \in Tokens, NEW e, NEW d, NEW target, NEW haircut \in BOOLEAN,
           ReconcileFrame(t, e, d, target, haircut)
    PROVE  IInv'
<1>1. \A s \in Students :
        /\ scholarship[s] = None => scholarship'[s] = None
        /\ scholarship[s] # None => Lessened(scholarship[s], scholarship'[s])
  BY ReconcileAccount
<1>2. \A s \in Students : reduced'[s] \in Nat
  BY ReconcileAccount
<1>3. TypeOK'
  <2>1. scholarship' \in [Students -> ScholarshipRecord \cup {None}]
    <3>1. scholarship' = [s \in Students |-> Reconciled(s, t, target, haircut)]
      BY DEF ReconcileFrame
    <3>2. \A s \in Students : scholarship'[s] \in ScholarshipRecord \cup {None}
      BY <1>1 DEF Lessened, Sound
    <3> QED BY <3>1, <3>2
  <2>2. reduced' \in [Students -> Nat]
    <3>1. reduced' = [s \in Students |->
            reduced[s] + Held(s) - BalanceOf(Reconciled(s, t, target, haircut))]
      BY DEF ReconcileFrame
    <3> QED BY <1>2, <3>1
  <2>3. UNCHANGED <<now, vote, graduates, taxRate, feesAccrued, custody, withdrawn,
                   released, tuitionHeld, universityAdmin, studentUniversity, securityHold>>
    BY DEF ReconcileFrame
  <2> QED BY <2>1, <2>2, <2>3 DEF IInv, TypeOK
<1>4. UnlockedCoversBalance'
  BY <1>1 DEF UnlockedCoversBalance, Scholars, Lessened, Sound
<1>5. GrantConserved'
  <2>1. ASSUME NEW s \in Students
        PROVE  Granted(s)' = Held(s)' + withdrawn'[s] + released'[s] + reduced'[s]
    <3>1. /\ Held(s) \in Nat /\ Held(s)' \in 0..Held(s)
          /\ reduced'[s] = reduced[s] + (Held(s) - Held(s)')
          /\ Granted(s)' = Granted(s)
      BY ReconcileAccount
    <3>2. /\ Granted(s) = Held(s) + withdrawn[s] + released[s] + reduced[s]
          /\ withdrawn[s] \in Int /\ released[s] \in Nat /\ reduced[s] \in Nat
      BY DEF IInv, TypeOK, GrantConserved
    <3>3. withdrawn' = withdrawn /\ released' = released
      BY DEF ReconcileFrame
    <3> QED BY <3>1, <3>2, <3>3
  <2> QED BY <2>1 DEF GrantConserved
<1>6. WithdrawalsRespectLock'
  <2>1. withdrawn' = withdrawn
    BY DEF ReconcileFrame
  <2> QED BY <1>1, <2>1 DEF IInv, WithdrawalsRespectLock, Scholars, Lessened
<1>7. ReleaseNeedsQuorum' /\ VotersFinite'
  <2>1. UNCHANGED <<vote, graduates, released>>
    BY DEF ReconcileFrame
  <2>2. ASSUME NEW s \in Students PROVE VoteCounted(s)' /\ ReleaseApproved(s)'
    <3>1. VoteCounted(s) /\ ReleaseApproved(s)
      BY DEF IInv, ReleaseNeedsQuorum
    <3>2. FinallyOpen(s)' = FinallyOpen(s)
      BY ReconcileAccount
    <3>3. FinallyOpen(s) => scholarship'[s].funder = scholarship[s].funder
      BY <1>1 DEF FinallyOpen, Lessened
    <3> QED BY <2>1, <3>1, <3>2, <3>3 DEF VoteCounted, ReleaseApproved, Approved
  <2>3. VotersFinite'
    BY <2>1 DEF IInv, VotersFinite
  <2> QED BY <2>2, <2>3 DEF ReleaseNeedsQuorum
<1> QED BY <1>3, <1>4, <1>5, <1>6, <1>7 DEF IInv

\* What the balances lose is what is booked as taken back, in total too.
LEMMA ReconcileTotals ==
    ASSUME IInv, NEW t \in Tokens, NEW e, NEW d, NEW target, NEW haircut \in BOOLEAN,
           ReconcileFrame(t, e, d, target, haircut)
    PROVE  TotalReduced' = TotalReduced + TotalHeld - TotalHeld'
<1> DEFINE h == [s \in Students |-> Held(s)]
           k == [s \in Students |-> Held(s)']
           before == [s \in Students |-> Held(s) + reduced[s]]
<1>1. \A s \in Students :
        /\ Held(s) \in Int /\ Held(s)' \in Int /\ reduced[s] \in Int /\ reduced'[s] \in Int
        /\ Held(s)' + reduced'[s] = Held(s) + reduced[s]
  <2> SUFFICES ASSUME NEW s \in Students
               PROVE  /\ Held(s) \in Int /\ Held(s)' \in Int
                      /\ reduced[s] \in Int /\ reduced'[s] \in Int
                      /\ Held(s)' + reduced'[s] = Held(s) + reduced[s]
    OBVIOUS
  <2>1. reduced[s] \in Nat
    BY DEF IInv, TypeOK
  <2>2. /\ Held(s) \in Nat /\ Held(s)' \in 0..Held(s)
        /\ reduced'[s] = reduced[s] + (Held(s) - Held(s)')
    BY ReconcileAccount
  <2> QED BY <2>1, <2>2
<1>2. \A s \in Students :
        /\ h[s] \in Int /\ reduced[s] \in Int /\ before[s] = h[s] + reduced[s]
        /\ k[s] \in Int /\ reduced'[s] \in Int /\ before[s] = k[s] + reduced'[s]
  BY <1>1
<1>3. TotalHeld = SumFunctionOnSet(h, Students) /\ TotalHeld' = SumFunctionOnSet(k, Students)
  BY DEF TotalHeld
<1> HIDE DEF h, k, before
<1>4. SumFunctionOnSet(before, Students)
        = SumFunctionOnSet(h, Students) + SumFunctionOnSet(reduced, Students)
  BY <1>2, AddressesAssumption, SumPlus
<1>5. SumFunctionOnSet(before, Students)
        = SumFunctionOnSet(k, Students) + SumFunctionOnSet(reduced', Students)
  BY <1>2, AddressesAssumption, SumPlus
<1>6. /\ SumFunctionOnSet(h, Students) \in Int /\ SumFunctionOnSet(k, Students) \in Int
      /\ SumFunctionOnSet(reduced, Students) \in Int
      /\ SumFunctionOnSet(reduced', Students) \in Int
  <2>1. ASSUME NEW f, \A s \in Students : f[s] \in Int PROVE SumFunctionOnSet(f, Students) \in Int
    BY <2>1, AddressesAssumption, SumInt
  <2> QED BY <1>2, <2>1
<1>7. SumFunctionOnSet(reduced', Students)
        = SumFunctionOnSet(reduced, Students) + SumFunctionOnSet(h, Students)
            - SumFunctionOnSet(k, Students)
  BY <1>4, <1>5, <1>6
<1> QED BY <1>3, <1>7 DEF TotalReduced

\* So a reconciliation adds to the surplus what it books as taken back.
LEMMA ReconcileBooked ==
    ASSUME IInv, LossBooked, issuerTaken \in [Tokens -> Nat],
           NEW t \in Tokens, NEW e, NEW d, NEW target, NEW haircut \in BOOLEAN,
           ReconcileFrame(t, e, d, target, haircut)
    PROVE  LossBooked'
<1>1. /\ TotalIn(custody)' = TotalIn(custody) /\ TotalIn(feesAccrued)' = TotalIn(feesAccrued)
      /\ TotalIn(tuitionHeld)' = TotalIn(tuitionHeld)
      /\ TotalIn(issuerTaken)' = TotalIn(issuerTaken)
  BY DEF ReconcileFrame, TotalIn
<1>2. TotalReduced' = TotalReduced + TotalHeld - TotalHeld'
  BY ReconcileTotals
<1>3. /\ TotalIn(custody) \in Nat /\ TotalIn(feesAccrued) \in Nat
      /\ TotalIn(tuitionHeld) \in Nat /\ TotalHeld \in Nat
  BY TotalTypes DEF IInv
<1>4. TypeOK' /\ TypeOK
  BY ReconcileKeepsEscrow DEF IInv
<1>5. TotalHeld' \in Nat
  <2>1. \A s \in Students : Held(s)' \in Nat
    BY <1>4 DEF TypeOK, Held, ScholarshipRecord
  <2> DEFINE k == [s \in Students |-> Held(s)']
  <2>2. \A s \in Students : k[s] \in Nat
    BY <2>1
  <2>3. TotalHeld' = SumFunctionOnSet(k, Students)
    BY DEF TotalHeld
  <2> HIDE DEF k
  <2> QED BY <2>2, <2>3, AddressesAssumption, SumNat
<1>6. TotalReduced \in Nat /\ TotalReduced' \in Nat
  <2>1. \A s \in Students : reduced[s] \in Nat /\ reduced'[s] \in Nat
    BY <1>4 DEF TypeOK
  <2>2. ASSUME NEW f, \A s \in Students : f[s] \in Nat PROVE SumFunctionOnSet(f, Students) \in Nat
    BY <2>2, AddressesAssumption, SumNat
  <2>3. SumFunctionOnSet(reduced, Students) \in Nat /\ SumFunctionOnSet(reduced', Students) \in Nat
    BY <2>1, <2>2
  <2>4. /\ TotalReduced = SumFunctionOnSet(reduced, Students)
        /\ TotalReduced' = SumFunctionOnSet(reduced', Students)
    BY DEF TotalReduced
  <2> QED BY <2>3, <2>4, Zenon
<1>7. TotalIn(issuerTaken) \in Nat
  BY AddressesAssumption, SumNat DEF TotalIn
<1>8. Surplus = TotalIn(custody) - (TotalHeld + TotalIn(feesAccrued) + TotalIn(tuitionHeld))
  BY DEF Surplus
<1>9. Surplus' = TotalIn(custody) - (TotalHeld' + TotalIn(feesAccrued) + TotalIn(tuitionHeld))
  BY <1>1 DEF Surplus
<1>10. Surplus + TotalIn(issuerTaken) = TotalReduced
  BY DEF LossBooked
<1> HIDE DEF Surplus
<1>11. Surplus \in Int /\ Surplus' = Surplus + TotalHeld - TotalHeld'
  BY <1>3, <1>5, <1>8, <1>9
<1>12. Surplus' + TotalIn(issuerTaken) = TotalReduced'
  BY <1>2, <1>3, <1>5, <1>6, <1>7, <1>10, <1>11
<1> QED BY <1>1, <1>12 DEF LossBooked

\* A reconciliation keeps the whole invariant: the target is paused with it, and
\* who was paused stays paused.
LEMMA ReconcileKeeps ==
    ASSUME RInv, NEW t \in Tokens, NEW e \in Evidence, NEW d \in DeficitClaims,
           NEW target \in Students \cup {None}, NEW haircut \in BOOLEAN,
           ReconcileBalances(t, e, d, target, haircut)
    PROVE  RInv'
<1>1. ReconcileFrame(t, e, d, target, haircut) /\ IInv
  BY ReconcileFrames DEF RInv
<1>2. IInv' /\ TypeOK'
  BY <1>1, ReconcileKeepsEscrow DEF IInv
<1>3. ReconciliationTypeOK'
  <2>1. /\ processed' = processed \cup {e} /\ trackedTVL' = custody[t]
        /\ terminated' = terminated \cup {s \in Students : s = target /\ Targeted(s, t)}
        /\ issuerTaken' = issuerTaken
    BY DEF ReconcileBalances
  <2>2. custody[t] \in Nat
    BY DEF RInv, IInv, TypeOK
  <2>3. cutOffAt' \in [Students -> Nat]
    <3>1. cutOffAt' = [s \in Students |->
            IF s = target /\ Targeted(s, t) THEN scholarship[s].total_grant ELSE cutOffAt[s]]
      BY DEF ReconcileBalances
    <3>2. \A s \in Students : Targeted(s, t) => scholarship[s].total_grant \in Nat
      BY DEF RInv, IInv, TypeOK, Targeted, ScholarshipRecord
    <3>3. \A s \in Students : cutOffAt[s] \in Nat
      BY DEF RInv, ReconciliationTypeOK
    <3> QED BY <3>1, <3>2, <3>3
  <2> QED BY <1>2, <2>1, <2>2, <2>3 DEF RInv, ReconciliationTypeOK
<1>4. TerminatedPaused'
  <2>1. /\ terminated' = terminated \cup {s \in Students : s = target /\ Targeted(s, t)}
        /\ scholarship' = [s \in Students |-> Reconciled(s, t, target, haircut)]
        /\ terminated \subseteq Students
    BY DEF ReconcileBalances, RInv, ReconciliationTypeOK
  <2>2. ASSUME NEW s \in terminated PROVE scholarship'[s] # None /\ scholarship'[s].is_paused
    <3>1. s \in Students /\ scholarship[s] # None /\ scholarship[s].is_paused
      BY <2>1 DEF RInv, TerminatedPaused
    <3>2. Lessened(scholarship[s], scholarship'[s])
      BY <1>1, <3>1, ReconcileAccount
    <3> QED BY <3>1, <3>2 DEF Lessened
  <2>3. ASSUME NEW s \in Students, s = target, Targeted(s, t)
        PROVE  scholarship'[s] # None /\ scholarship'[s].is_paused
    <3>1. scholarship'[s] = Reconciled(s, t, target, haircut)
      BY <2>1
    <3>2. scholarship[s] # None
      BY <2>3 DEF Targeted
    <3>3. Lessened(scholarship[s], Reconciled(s, t, target, haircut))
      BY <1>1, <3>2, ReconciledFacts
    <3>4. Reconciled(s, t, target, haircut).is_paused
      BY <1>1, <2>3, ReconciledFacts
    <3> QED BY <3>1, <3>3, <3>4 DEF Lessened
  <2> QED BY <2>1, <2>2, <2>3 DEF TerminatedPaused
<1>5. HeldSinceCutOff'
  <2>1. /\ terminated' = terminated \cup {s \in Students : s = target /\ Targeted(s, t)}
        /\ scholarship' = [s \in Students |-> Reconciled(s, t, target, haircut)]
        /\ cutOffAt' = [s \in Students |->
             IF s = target /\ Targeted(s, t) THEN scholarship[s].total_grant ELSE cutOffAt[s]]
        /\ terminated \subseteq Students /\ cutOffAt \in [Students -> Nat]
    BY DEF ReconcileBalances, RInv, ReconciliationTypeOK
  <2>2. ASSUME NEW s \in Students, s = target, Targeted(s, t)
        PROVE  Held(s)' <= Granted(s)' - cutOffAt'[s]
    <3>1. scholarship'[s].balance = 0 /\ scholarship[s] # None
      <4>1. Reconciled(s, t, target, haircut).balance = 0
        BY <1>1, <2>2, ReconciledFacts
      <4>2. scholarship'[s] = Reconciled(s, t, target, haircut)
        BY <2>1
      <4> QED BY <2>2, <4>1, <4>2 DEF Targeted
    <3>2. scholarship'[s] # None /\ Granted(s)' = Granted(s)
      BY <1>1, <3>1, ReconcileAccount DEF Lessened
    <3>3. cutOffAt'[s] = Granted(s) /\ cutOffAt'[s] \in Nat
      BY <1>3, <2>1, <2>2, <3>1 DEF Granted, ReconciliationTypeOK
    <3> QED BY <3>1, <3>2, <3>3 DEF Held
  <2>3. ASSUME NEW s \in terminated, ~(s = target /\ Targeted(s, t))
        PROVE  Held(s)' <= Granted(s)' - cutOffAt'[s]
    <3>1. s \in Students /\ cutOffAt'[s] = cutOffAt[s] /\ cutOffAt[s] \in Nat
      BY <2>1, <2>3
    <3>2. Held(s) \in Nat /\ Held(s)' \in 0..Held(s) /\ Granted(s)' = Granted(s)
      BY <1>1, <3>1, ReconcileAccount
    <3>3. Held(s) <= Granted(s) - cutOffAt[s]
      BY <2>3 DEF RInv, HeldSinceCutOff
    <3>4. Granted(s) \in Nat
      BY <3>1 DEF RInv, IInv, TypeOK, Granted, ScholarshipRecord
    <3> QED BY <3>1, <3>2, <3>3, <3>4
  <2> QED BY <2>1, <2>2, <2>3 DEF HeldSinceCutOff
<1> QED BY <1>2, <1>3, <1>4, <1>5 DEF RInv

\* What an issuer takes is missing from custody and is on the record.
LEMMA IssuerKeeps ==
    ASSUME RInv, NEW t \in Tokens, NEW a \in IssuerAmounts, IssuerClawback(t, a)
    PROVE  RInv' /\ (LossBooked => LossBooked')
<1>1. /\ a \in Nat /\ -a \in Int /\ custody[t] \in Nat /\ a <= custody[t]
      /\ custody \in [Tokens -> Nat] /\ issuerTaken \in [Tokens -> Nat]
  <2>1. custody \in [Tokens -> Nat] /\ issuerTaken \in [Tokens -> Nat]
    BY DEF RInv, IInv, TypeOK, ReconciliationTypeOK
  <2>2. custody[t] \in Nat /\ a \in 1..custody[t]
    BY <2>1 DEF IssuerClawback
  <2> QED BY <2>1, <2>2
<1>2. /\ custody' = [custody EXCEPT ![t] = custody[t] - a]
      /\ issuerTaken' = [issuerTaken EXCEPT ![t] = issuerTaken[t] + a]
      /\ UNCHANGED <<now, scholarship, vote, graduates, taxRate, feesAccrued, withdrawn,
                     released, reduced, tuitionHeld, universityAdmin, studentUniversity,
                     securityHold, processed, terminated, trackedTVL, cutOffAt>>
  BY DEF IssuerClawback, historyVars, holdVars
<1>3. custody' \in [Tokens -> Nat] /\ issuerTaken' \in [Tokens -> Nat]
  BY <1>1, <1>2
<1>4. TypeOK' /\ ReconciliationTypeOK'
  <2>1. TypeOK'
    BY <1>2, <1>3 DEF RInv, IInv, TypeOK
  <2> QED BY <1>2, <1>3, <2>1 DEF RInv, ReconciliationTypeOK
<1>5. IInv'
  BY <1>2, <1>4, QuietStep DEF RInv
<1>6. TerminatedPaused' /\ HeldSinceCutOff'
  BY <1>2 DEF RInv, TerminatedPaused, HeldSinceCutOff, Held, Granted
<1>7. ASSUME LossBooked PROVE LossBooked'
  <2>1. TotalIn(custody)' = TotalIn(custody) + (-a)
    <3>1. /\ custody \in [Tokens -> Int] /\ custody' \in [Tokens -> Int]
          /\ custody'[t] = custody[t] + (-a)
          /\ \A x \in Tokens \ {t} : custody'[x] = custody[x]
      BY <1>1, <1>2, <1>3
    <3>2. TotalIn(custody') = TotalIn(custody) + (-a)
      BY <1>1, <3>1, TotalUpdate
    <3> QED BY <3>2 DEF TotalIn
  <2>2. TotalIn(issuerTaken)' = TotalIn(issuerTaken) + a
    <3>1. /\ issuerTaken \in [Tokens -> Int] /\ issuerTaken' \in [Tokens -> Int]
          /\ issuerTaken'[t] = issuerTaken[t] + a
          /\ \A x \in Tokens \ {t} : issuerTaken'[x] = issuerTaken[x]
      BY <1>1, <1>2, <1>3
    <3>2. TotalIn(issuerTaken') = TotalIn(issuerTaken) + a
      BY <1>1, <3>1, TotalUpdate
    <3> QED BY <3>2 DEF TotalIn
  <2>3. /\ TotalHeld' = TotalHeld /\ TotalIn(feesAccrued)' = TotalIn(feesAccrued)
        /\ TotalIn(tuitionHeld)' = TotalIn(tuitionHeld) /\ TotalReduced' = TotalReduced
    BY <1>2 DEF TotalHeld, Held, TotalIn, TotalReduced
  <2>4. /\ TotalIn(custody) \in Nat /\ TotalIn(feesAccrued) \in Nat
        /\ TotalIn(tuitionHeld) \in Nat /\ TotalHeld \in Nat
    BY TotalTypes DEF RInv, IInv
  <2>5. TotalIn(issuerTaken) \in Nat
    <3>1. \A x \in Tokens : issuerTaken[x] \in Nat
      BY <1>1
    <3> QED BY <3>1, AddressesAssumption, SumNat DEF TotalIn
  <2>6. Surplus \in Int /\ Surplus' = Surplus - a
    BY <1>1, <2>1, <2>3, <2>4 DEF Surplus
  <2>7. Surplus + TotalIn(issuerTaken) = TotalReduced
    BY <1>7 DEF LossBooked
  <2> HIDE DEF Surplus
  <2>8. Surplus' + TotalIn(issuerTaken)' = TotalReduced
    BY <1>1, <2>2, <2>5, <2>6, <2>7
  <2> QED BY <2>3, <2>8 DEF LossBooked
<1> QED BY <1>4, <1>5, <1>6, <1>7 DEF RInv

\* A paused record stays paused, and gains only what is granted anew.
PauseKept(old, new) ==
    /\ new # None
    /\ old.is_paused =>
         /\ new.is_paused
         /\ new.balance - new.total_grant <= old.balance - old.total_grant

\* No call of the escrow unpauses a scholarship, pays a paused one's balance back
\* in, or takes anything back.
LEMMA EscrowKeepsPauses ==
    ASSUME IInv, [CoreNext]_coreVars
    PROVE  /\ reduced' = reduced
           /\ \A s \in Students :
                 scholarship[s] # None => PauseKept(scholarship[s], scholarship'[s])
<1>0. /\ \A s \in Students : scholarship[s] # None => PauseKept(scholarship[s], scholarship[s])
      /\ DOMAIN scholarship = Students
  BY RecordsSound DEF PauseKept, Sound, ScholarshipRecord, IInv, TypeOK
<1>1. CASE \E f \in Funders, s \in Students, a \in FundAmounts, t \in Tokens, n \in BOOLEAN :
             FundScholarship(f, s, a, t, n)
  <2>1. PICK f \in Funders, s \in Students, a \in FundAmounts, t \in Tokens, n \in BOOLEAN :
               FundScholarship(f, s, a, t, n)
    BY <1>1
  <2> DEFINE old == RecordToFund(s, f, t, n)
             new == Credited(old, StudentShare(a), n)
  <2>2. reduced' = reduced /\ scholarship' = [scholarship EXCEPT ![s] = new]
    BY <2>1 DEF FundScholarship
  <2>3. scholarship[s] # None => Sound(old) /\ old = scholarship[s]
    BY RecordsSound DEF RecordToFund
  <2>4. StudentShare(a) \in Nat
    BY AmountsAssumption, ShareBound
  <2>5. scholarship[s] # None => PauseKept(scholarship[s], new)
    <3>1. ASSUME Sound(old)
          PROVE  /\ new # None
                 /\ new.balance - new.total_grant = old.balance - old.total_grant
                 /\ old.balance - old.total_grant \in Int
      <4>1. /\ Sound(new) /\ new.balance = old.balance + StudentShare(a)
            /\ new.total_grant = old.total_grant + StudentShare(a)
        BY <2>4, <3>1, CreditedSound
      <4>2. old.balance \in Nat /\ old.total_grant \in Nat
        BY <3>1 DEF Sound, ScholarshipRecord
      <4> HIDE DEF new, old
      <4> QED BY <2>4, <4>1, <4>2, NoneAssumption DEF Sound
    <3>2. ASSUME Sound(old) PROVE new.is_paused = old.is_paused
      BY <3>2 DEF Sound, ScholarshipRecord, Credited
    <3> HIDE DEF new, old
    <3> QED BY <2>3, <3>1, <3>2 DEF PauseKept
  <2> HIDE DEF new, old
  <2> QED BY <1>0, <2>2, <2>5
<1>2. CASE \E s \in Students, a \in WithdrawAmounts : WithdrawScholarship(s, a)
  <2>1. PICK s \in Students, a \in WithdrawAmounts : WithdrawScholarship(s, a)
    BY <1>2
  <2> DEFINE new == Debited(scholarship[s], a)
  <2>2. /\ reduced' = reduced /\ scholarship' = [scholarship EXCEPT ![s] = new]
        /\ scholarship[s] # None /\ a <= scholarship[s].balance /\ a \in Int
        /\ ~scholarship[s].is_paused
    BY <2>1, AmountsAssumption DEF WithdrawScholarship, WithdrawalAccepted
  <2>3. Sound(scholarship[s])
    BY <2>2, RecordsSound
  <2>4. new # None
    BY <2>2, <2>3, DebitedSound, NoneAssumption DEF Sound
  <2>5. PauseKept(scholarship[s], new)
    BY <2>2, <2>4 DEF PauseKept
  <2> HIDE DEF new
  <2> QED BY <1>0, <2>2, <2>5
<1>3. CASE \E s \in Students : ClaimFinalRelease(s)
  <2>1. PICK s \in Students : ClaimFinalRelease(s)
    BY <1>3
  <2> DEFINE new == FinallyReleased(scholarship[s])
  <2>2. /\ reduced' = reduced /\ scholarship' = [scholarship EXCEPT ![s] = new]
        /\ scholarship[s] # None /\ ReserveKept(scholarship[s]) <= scholarship[s].balance
    BY <2>1 DEF ClaimFinalRelease
  <2>3. Sound(scholarship[s])
    BY <2>2, RecordsSound
  <2>4. /\ new # None /\ new.balance = ReserveKept(scholarship[s])
        /\ new.total_grant = scholarship[s].total_grant /\ ReserveKept(scholarship[s]) \in Nat
    BY <2>2, <2>3, FinallyReleasedSound, NoneAssumption DEF Sound
  <2>5. new.is_paused = scholarship[s].is_paused
    BY <2>3 DEF Sound, ScholarshipRecord, FinallyReleased
  <2>6. scholarship[s].balance \in Nat /\ scholarship[s].total_grant \in Nat
    BY <2>3 DEF Sound, ScholarshipRecord
  <2> HIDE DEF new
  <2>7. PauseKept(scholarship[s], new)
    BY <2>2, <2>4, <2>5, <2>6 DEF PauseKept
  <2> QED BY <1>0, <2>2, <2>7
<1>4. CASE \E s \in Students : VerifyAcademicProgress(s)
  <2>1. PICK s \in Students : VerifyAcademicProgress(s)
    BY <1>4
  <2> DEFINE new == MoreUnlocked(scholarship[s])
  <2>2. /\ reduced' = reduced /\ scholarship' = [scholarship EXCEPT ![s] = new]
        /\ scholarship[s] # None
    BY <2>1 DEF VerifyAcademicProgress, historyVars
  <2>3. Sound(scholarship[s])
    BY <2>2, RecordsSound
  <2>4. /\ new # None /\ new.balance = scholarship[s].balance
        /\ new.total_grant = scholarship[s].total_grant
    BY <2>3, MoreUnlockedSound, NoneAssumption DEF Sound
  <2>5. new.is_paused = scholarship[s].is_paused
    BY <2>3 DEF Sound, ScholarshipRecord, MoreUnlocked
  <2>6. scholarship[s].balance \in Nat /\ scholarship[s].total_grant \in Nat
    BY <2>3 DEF Sound, ScholarshipRecord
  <2> HIDE DEF new
  <2>7. PauseKept(scholarship[s], new)
    BY <2>4, <2>5, <2>6 DEF PauseKept
  <2> QED BY <1>0, <2>2, <2>7
<1>5. CASE \/ \E r \in TaxRates : SetTaxRate(r)
           \/ \E t \in Tokens, a \in WithdrawAmounts : ClaimProtocolFees(t, a)
           \/ \E s \in Students : InitiateFinalReleaseVote(s)
           \/ \E v \in Voters, s \in Students : CastCommunityVote(v, s)
           \/ \E u \in Universities, o \in Officers : RegisterUniversityAdmin(u, o)
           \/ \E o \in Officers, u \in Universities, s \in Students :
                RegisterStudentUniversity(o, u, s)
           \/ \E o \in Officers, u \in Universities : TriggerSecurityHold(o, u)
           \/ \E o \in Officers, u \in Universities : LiftSecurityHold(o, u)
           \/ Tick
           \/ UNCHANGED coreVars
  <2>1. UNCHANGED <<scholarship, reduced>>
    BY <1>5 DEF SetTaxRate, ClaimProtocolFees, InitiateFinalReleaseVote, CastCommunityVote,
       RegisterUniversityAdmin, RegisterStudentUniversity, TriggerSecurityHold,
       LiftSecurityHold, Tick, coreVars, grantVars, historyVars
  <2> QED BY <1>0, <2>1
<1> QED BY <1>1, <1>2, <1>3, <1>4, <1>5 DEF CoreNext

\* The escrow's own calls keep the reconciliation's invariant.
LEMMA EscrowKeepsBooks ==
    ASSUME RInv, [CoreNext]_coreVars, UNCHANGED reconVars
    PROVE  RInv'
<1>1. IInv /\ UNCHANGED <<processed, terminated, trackedTVL, issuerTaken, cutOffAt>>
  BY DEF RInv, reconVars
<1>2. IInv'
  BY <1>1, CoreStep
<1>3. ReconciliationTypeOK'
  BY <1>1, <1>2 DEF RInv, IInv, ReconciliationTypeOK
<1>4. TerminatedPaused'
  <2>1. terminated \subseteq Students
    BY DEF RInv, ReconciliationTypeOK
  <2> QED BY <1>1, <2>1, EscrowKeepsPauses DEF RInv, TerminatedPaused, PauseKept
<1>5. HeldSinceCutOff'
  <2>1. terminated \subseteq Students /\ cutOffAt \in [Students -> Nat]
    BY DEF RInv, ReconciliationTypeOK
  <2> SUFFICES ASSUME NEW s \in terminated PROVE Held(s)' <= Granted(s)' - cutOffAt[s]
    BY <1>1 DEF HeldSinceCutOff
  <2> DEFINE old == scholarship[s]
             new == scholarship'[s]
  <2>2. /\ s \in Students /\ old # None /\ old.is_paused
        /\ old.balance <= old.total_grant - cutOffAt[s]
    BY <2>1 DEF RInv, TerminatedPaused, HeldSinceCutOff, Held, Granted
  <2>3. new # None /\ new.balance - new.total_grant <= old.balance - old.total_grant
    BY <1>1, <2>2, EscrowKeepsPauses DEF PauseKept
  <2>4. Sound(old) /\ Sound(new)
    BY <1>1, <1>2, <2>2, <2>3 DEF Sound, IInv, TypeOK, UnlockedCoversBalance, Scholars
  <2>5. /\ old.balance \in Nat /\ old.total_grant \in Nat /\ cutOffAt[s] \in Nat
        /\ new.balance \in Nat /\ new.total_grant \in Nat
    BY <2>1, <2>2, <2>4 DEF Sound, ScholarshipRecord
  <2>6. Held(s)' = new.balance /\ Granted(s)' = new.total_grant
    BY <2>3 DEF Held, Granted
  <2> HIDE DEF old, new
  <2> QED BY <2>2, <2>3, <2>5, <2>6
<1> QED BY <1>2, <1>3, <1>4, <1>5 DEF RInv

\* At the start nothing is booked and nothing is taken.
LEMMA ReconciliationInitKeeps == ReconciliationInit => RInv /\ LossBooked
<1> SUFFICES ASSUME ReconciliationInit PROVE RInv /\ LossBooked
  OBVIOUS
<1>1. CoreInit /\ IInv /\ Surplus = 0
  BY InitIInv, InitSurplus DEF ReconciliationInit
<1>2. ReconciliationTypeOK
  BY <1>1 DEF ReconciliationInit, ReconciliationTypeOK, IInv
<1>3. TerminatedPaused /\ HeldSinceCutOff
  BY DEF ReconciliationInit, TerminatedPaused, HeldSinceCutOff
<1>4. TotalIn(issuerTaken) = 0 /\ TotalReduced = 0
  <2>1. ASSUME NEW S, IsFiniteSet(S), NEW f, \A x \in S : f[x] = 0
        PROVE  SumFunctionOnSet(f, S) = 0
    BY <2>1, SumZero
  <2>2. \A t \in Tokens : issuerTaken[t] = 0
    BY DEF ReconciliationInit
  <2>3. \A s \in Students : reduced[s] = 0
    BY <1>1 DEF CoreInit
  <2>4. SumFunctionOnSet(issuerTaken, Tokens) = 0
    BY <2>1, <2>2, AddressesAssumption
  <2>5. SumFunctionOnSet(reduced, Students) = 0
    BY <2>1, <2>3, AddressesAssumption
  <2> QED BY <2>4, <2>5 DEF TotalIn, TotalReduced
<1>5. LossBooked
  BY <1>1, <1>4 DEF LossBooked
<1> QED BY <1>1, <1>2, <1>3, <1>5 DEF RInv

\* Every step keeps the invariant.
LEMMA ReconciliationStep ==
    ASSUME RInv, [ReconciliationNext]_reconciliationVars
    PROVE  RInv'
<1>1. CASE ReconNext
  BY <1>1, IssuerKeeps, ReconcileKeeps DEF ReconNext
<1>2. CASE (CoreNext \/ UNCHANGED coreVars) /\ UNCHANGED reconVars
  BY <1>2, EscrowKeepsBooks
<1> QED BY <1>1, <1>2 DEF ReconciliationNext, reconciliationVars

-----------------------------------------------------------------------------
(* Theorems. *)

\* The escrow's invariant, the pause of the terminated and the bound on what they
\* hold are kept throughout.
THEOREM ReconciliationInvariance == ReconciliationSpec => []RInv
BY ReconciliationInitKeeps, ReconciliationStep, PTL DEF ReconciliationSpec

\* Nothing that a terminated student had is ever paid out: no funding, verification
\* or later reconciliation lifts the pause that withdraw_scholarship checks, and
\* the final release, which checks no pause, finds only what was granted since.
THEOREM TerminatedShut == ReconciliationSpec => TerminatedStaysShut
<1>1. ASSUME RInv, [ReconciliationNext]_reconciliationVars, NEW s \in terminated
      PROVE  withdrawn'[s] = withdrawn[s]
  <2>1. CASE ReconNext \/ UNCHANGED reconciliationVars
    <3>1. withdrawn' = withdrawn
      BY <2>1 DEF ReconNext, IssuerClawback, ReconcileBalances, reconciliationVars, coreVars,
         grantVars, historyVars
    <3> QED BY <3>1
  <2>2. CASE \E x \in Students, a \in WithdrawAmounts : WithdrawScholarship(x, a)
    <3>1. PICK x \in Students, a \in WithdrawAmounts : WithdrawScholarship(x, a)
      BY <2>2
    <3>2. x \notin terminated
      BY <1>1, <3>1 DEF WithdrawScholarship, WithdrawalAccepted, RInv, TerminatedPaused
    <3>3. withdrawn' = [withdrawn EXCEPT ![x] = withdrawn[x] + a]
      BY <3>1 DEF WithdrawScholarship
    <3> QED BY <1>1, <3>2, <3>3 DEF RInv, IInv, TypeOK, ReconciliationTypeOK
  <2>3. CASE CoreNext /\ ~\E x \in Students, a \in WithdrawAmounts : WithdrawScholarship(x, a)
    <3>1. withdrawn' = withdrawn
      BY <2>3 DEF CoreNext, FundScholarship, SetTaxRate, ClaimProtocolFees,
         InitiateFinalReleaseVote, CastCommunityVote, ClaimFinalRelease,
         VerifyAcademicProgress, RegisterUniversityAdmin, RegisterStudentUniversity,
         TriggerSecurityHold, LiftSecurityHold, Tick, grantVars, historyVars
    <3> QED BY <3>1
  <2> QED BY <1>1, <2>1, <2>2, <2>3 DEF ReconciliationNext
<1>2. ASSUME RInv, [ReconciliationNext]_reconciliationVars, NEW s \in terminated
      PROVE  released'[s] - released[s] <= Granted(s) - cutOffAt[s]
  <2>1. /\ s \in Students /\ released \in [Students -> Nat] /\ Held(s) \in Nat
        /\ cutOffAt[s] \in Nat /\ Granted(s) \in Nat
        /\ Held(s) <= Granted(s) - cutOffAt[s]
    <3>1. s \in Students /\ TypeOK /\ released \in [Students -> Nat] /\ cutOffAt[s] \in Nat
      BY <1>2 DEF RInv, IInv, TypeOK, ReconciliationTypeOK
    <3>2. Granted(s) \in Nat
      BY <3>1 DEF TypeOK, Granted, ScholarshipRecord
    <3> QED BY <1>2, <3>1, <3>2, HeldType DEF RInv, HeldSinceCutOff
  <2>2. CASE \E x \in Students : ClaimFinalRelease(x)
    <3>1. PICK x \in Students : ClaimFinalRelease(x)
      BY <2>2
    <3> DEFINE kept == ReserveKept(scholarship[x])
               balance == scholarship[x].balance
    <3>2. /\ scholarship[x] # None
          /\ released' = [released EXCEPT ![x] = released[x] + (balance - kept)]
      BY <3>1 DEF ClaimFinalRelease
    <3>3. kept \in Nat
      BY LimitsAssumption DEF ReserveKept
    <3>4. balance = Held(x)
      BY <3>2 DEF Held
    <3> HIDE DEF kept, balance
    <3>5. CASE x = s
      <4>1. released'[s] = released[s] + (Held(s) - kept)
        BY <2>1, <3>2, <3>4, <3>5
      <4>2. released[s] \in Nat
        BY <2>1
      <4> QED BY <2>1, <3>3, <4>1, <4>2
    <3>6. CASE x # s
      <4>1. released'[s] = released[s] /\ released[s] \in Nat
        BY <2>1, <3>2, <3>6
      <4> QED BY <2>1, <4>1
    <3> QED BY <3>5, <3>6
  <2>3. CASE \/ CoreNext /\ ~\E x \in Students : ClaimFinalRelease(x)
             \/ ReconNext \/ UNCHANGED reconciliationVars
    <3>1. CASE ReconNext \/ UNCHANGED reconciliationVars
      <4>1. released' = released
        BY <3>1 DEF ReconNext, IssuerClawback, ReconcileBalances, reconciliationVars, coreVars,
           grantVars, historyVars
      <4>2. released'[s] = released[s] /\ released[s] \in Nat
        BY <2>1, <4>1
      <4> QED BY <2>1, <4>2
    <3>2. CASE CoreNext /\ ~\E x \in Students : ClaimFinalRelease(x)
      <4>1. released' = released
        BY <3>2 DEF CoreNext, FundScholarship, SetTaxRate, ClaimProtocolFees,
           InitiateFinalReleaseVote, CastCommunityVote, WithdrawScholarship,
           VerifyAcademicProgress, RegisterUniversityAdmin, RegisterStudentUniversity,
           TriggerSecurityHold, LiftSecurityHold, Tick, grantVars, historyVars
      <4>2. released'[s] = released[s] /\ released[s] \in Nat
        BY <2>1, <4>1
      <4> QED BY <2>1, <4>2
    <3> QED BY <2>3, <3>1, <3>2
  <2> QED BY <1>2, <2>2, <2>3 DEF ReconciliationNext
<1> DEFINE Shut == \A s \in terminated :
                      /\ withdrawn'[s] = withdrawn[s]
                      /\ released'[s] - released[s] <= Granted(s) - cutOffAt[s]
<1>3. RInv /\ [ReconciliationNext]_reconciliationVars => [Shut]_reconciliationVars
  BY <1>1, <1>2
<1> QED BY <1>3, ReconciliationInvariance, PTL DEF ReconciliationSpec, TerminatedStaysShut

\* Records stay well formed and their unlocked parts cover the balances.
THEOREM ReconciliationKeepsBooks == ReconciliationSpec => []BooksKept
<1>1. RInv => BooksKept
  BY DEF BooksKept, RInv, IInv
<1> QED BY <1>1, ReconciliationInvariance, PTL

\* An issuer's clawback is nothing to any account; a reconciliation is a forfeit
\* in some.
LEMMA ReconRefines ==
    ASSUME RInv, ReconNext, NEW x \in Students
    PROVE  [Account(x)!Next]_(Account(x)!vars)
<1>1. CASE \E t \in Tokens, a \in IssuerAmounts : IssuerClawback(t, a)
  BY <1>1, UntouchedAccount DEF IssuerClawback, historyVars
<1>2. CASE \E t \in Tokens, e \in Evidence, d \in DeficitClaims,
              target \in Students \cup {None}, h \in BOOLEAN :
             ReconcileBalances(t, e, d, target, h)
  <2>1. PICK t \in Tokens, e \in Evidence, d \in DeficitClaims,
             target \in Students \cup {None}, h \in BOOLEAN :
               ReconcileBalances(t, e, d, target, h)
    BY <1>2
  <2>2. IInv /\ ReconcileFrame(t, e, d, target, h)
    BY <2>1, ReconcileFrames DEF RInv
  <2>3. /\ Held(x) \in Nat /\ Held(x)' \in 0..Held(x)
        /\ reduced'[x] = reduced[x] + (Held(x) - Held(x)')
        /\ Granted(x)' = Granted(x) /\ FinallyOpen(x)' = FinallyOpen(x)
    BY <2>2, ReconcileAccount
  <2>4. reduced[x] \in Nat
    BY <2>2 DEF IInv, TypeOK
  <2>5. reduced'[x] - reduced[x] = Held(x) - Held(x)'
    BY <2>3, <2>4
  <2>6. /\ UNCHANGED <<withdrawn[x] + released[x], Approved(x)>>
        /\ OnHold(x)' = OnHold(x)
    <3>1. UNCHANGED <<now, holdVars, vote, withdrawn, released>>
      BY <2>2 DEF ReconcileFrame, holdVars
    <3> QED BY <3>1, SameHold DEF Approved
  <2> QED BY <2>3, <2>5, <2>6 DEF Account!Next, Account!Forfeit
<1> QED BY <1>1, <1>2 DEF ReconNext

\* Issuers' clawbacks and reconciliations leave the promise of GrantAccount to
\* every student intact.
THEOREM ReconciliationRefinement ==
    ASSUME TaxBelowFull
    PROVE  ReconciliationSpec => AccountsKept
<1> DEFINE Promise == \A s \in Students : [Account(s)!Next]_(Account(s)!vars)
<1>1. ReconciliationInit => \A s \in Students : Account(s)!Init
  BY InitAccount DEF ReconciliationInit
<1>2. ASSUME RInv, ReconciliationNext PROVE Promise
  <2>1. CASE ReconNext
    BY <1>2, <2>1, ReconRefines
  <2>2. CASE CoreNext
    BY <1>2, <2>2, StepRefines DEF RInv
  <2> QED BY <1>2, <2>1, <2>2 DEF ReconciliationNext
<1>3. ASSUME UNCHANGED reconciliationVars PROVE UNCHANGED coreVars
  BY <1>3 DEF reconciliationVars
<1>4. RInv /\ [ReconciliationNext]_reconciliationVars => [Promise]_coreVars
  BY <1>2, <1>3
<1>5. ReconciliationSpec => [][Promise]_coreVars
  BY <1>4, ReconciliationInvariance, PTL DEF ReconciliationSpec
<1>6. ReconciliationSpec => \A s \in Students : Account(s)!Init
  BY <1>1, PTL DEF ReconciliationSpec
<1> QED BY <1>5, <1>6 DEF AccountsKept

-----------------------------------------------------------------------------
(* The fairness of a haircut. *)

\* Two shares of the same total are in the proportion of the balances, to a unit.
LEMMA SharesProportional ==
    ASSUME NEW b \in Nat, NEW c \in Nat, NEW available \in Nat, NEW liability \in Nat,
           available < liability
    PROVE  Share(b, available, liability) * c <= (Share(c, available, liability) + 1) * b
<1> DEFINE q == Share(b, available, liability)
           r == Share(c, available, liability) + 1
<1>1. /\ q \in Nat /\ r \in Nat
      /\ liability * q <= available * b /\ available * c <= liability * r
  <2>1. /\ Share(b, available, liability) \in Nat
        /\ liability * Share(b, available, liability) <= available * b
    BY ShareFacts
  <2>2. /\ Share(c, available, liability) \in Nat
        /\ available * c < liability * (Share(c, available, liability) + 1)
    BY ShareFacts
  <2> QED BY <2>1, <2>2
<1> HIDE DEF q, r
<1>2. (liability * q) * c <= (available * b) * c
  BY <1>1
<1>3. (available * c) * b <= (liability * r) * b
  BY <1>1
<1>4. /\ (available * b) * c = (available * c) * b
      /\ (liability * q) * c = liability * (q * c)
      /\ (liability * r) * b = liability * (r * b)
  BY <1>1
<1> DEFINE x == q * c
           y == r * b
<1>5. x \in Nat /\ y \in Nat
  BY <1>1
<1>6. liability * x <= liability * y
  BY <1>1, <1>2, <1>3, <1>4
<1> HIDE DEF x, y
<1>7. x <= y
  BY <1>5, <1>6
<1> QED BY <1>7 DEF x, y, q, r

\* Shares of a total add up to what is available, to a unit each.
LEMMA SharesCover ==
    ASSUME NEW S, IsFiniteSet(S), NEW b, \A x \in S : b[x] \in Nat,
           NEW available \in Nat, available < SumFunctionOnSet(b, S), NEW k,
           \A x \in S : k[x] = Share(b[x], available, SumFunctionOnSet(b, S))
    PROVE  /\ SumFunctionOnSet(k, S) <= available
           /\ available < SumFunctionOnSet(k, S) + Cardinality(S)
<1> DEFINE liability == SumFunctionOnSet(b, S)
           scaled == [x \in S |-> liability * k[x]]
           offered == [x \in S |-> available * b[x]]
           ones == [x \in S |-> 1]
           above == [x \in S |-> k[x] + 1]
           scaledAbove == [x \in S |-> liability * (k[x] + 1)]
           offeredAbove == [x \in S |-> available * b[x] + 1]
<1>1. liability \in Nat /\ available < liability
  BY SumNat
<1>2. \A x \in S : k[x] = Share(b[x], available, liability)
  OBVIOUS
<1> HIDE DEF liability
<1>3. ASSUME NEW x \in S
      PROVE  /\ k[x] \in Nat /\ b[x] \in Nat
             /\ liability * k[x] <= available * b[x]
             /\ available * b[x] + 1 <= liability * (k[x] + 1)
             /\ liability * k[x] \in Int /\ available * b[x] \in Int
             /\ liability * (k[x] + 1) \in Int
  <2>1. /\ k[x] \in Nat /\ liability * k[x] <= available * b[x]
        /\ available * b[x] < liability * (k[x] + 1)
    <3>1. b[x] \in Nat /\ k[x] = Share(b[x], available, liability)
      BY <1>2
    <3>2. /\ Share(b[x], available, liability) \in Nat
          /\ liability * Share(b[x], available, liability) <= available * b[x]
          /\ available * b[x] < liability * (Share(b[x], available, liability) + 1)
      BY <1>1, <3>1, ShareFacts
    <3> QED BY <3>1, <3>2
  <2> QED BY <1>1, <2>1
<1>4. \A x \in S :
        /\ k[x] \in Int /\ b[x] \in Int /\ ones[x] \in Int /\ ones[x] = 1
        /\ above[x] \in Int /\ above[x] = k[x] + ones[x]
        /\ scaled[x] \in Int /\ scaled[x] = liability * k[x]
        /\ offered[x] \in Int /\ offered[x] = available * b[x]
        /\ scaled[x] <= offered[x]
        /\ scaledAbove[x] \in Int /\ scaledAbove[x] = liability * above[x]
        /\ offeredAbove[x] \in Int /\ offeredAbove[x] = offered[x] + ones[x]
        /\ offeredAbove[x] <= scaledAbove[x]
  BY <1>3
<1> HIDE DEF scaled, offered, ones, above, scaledAbove, offeredAbove
<1> DEFINE sum == SumFunctionOnSet(k, S)
           n == Cardinality(S)
<1>5. sum \in Int /\ n \in Nat
  BY <1>4, SumInt, FS_CardinalityType
<1>6. SumFunctionOnSet(scaled, S) = liability * sum
  BY <1>1, <1>4, SumScale
<1>7. SumFunctionOnSet(offered, S) = available * liability
  BY <1>1, <1>4, SumScale DEF liability
<1>8. SumFunctionOnSet(scaled, S) <= SumFunctionOnSet(offered, S)
  BY <1>4, SumMonotone
<1>9. SumFunctionOnSet(ones, S) = n
  BY <1>4, SumOnes
<1>10. SumFunctionOnSet(above, S) = sum + n
  BY <1>4, <1>9, SumPlus
<1>11. SumFunctionOnSet(scaledAbove, S) = liability * SumFunctionOnSet(above, S)
  BY <1>1, <1>4, SumScale
<1>12. SumFunctionOnSet(offeredAbove, S) = SumFunctionOnSet(offered, S) + n
  BY <1>4, <1>9, SumPlus
<1>13. SumFunctionOnSet(offeredAbove, S) <= SumFunctionOnSet(scaledAbove, S)
  BY <1>4, SumMonotone
<1>14. n > 0
  <2>1. S # {}
    <3>1. SumFunctionOnSet(b, {}) = 0
      BY SumEmpty
    <3>2. S = {} => liability = SumFunctionOnSet(b, {})
      BY Zenon DEF liability
    <3> QED BY <1>1, <3>1, <3>2
  <2> QED BY <1>5, <2>1, FS_EmptySet
<1> HIDE DEF sum, n
<1>15. liability * sum <= available * liability
  BY <1>6, <1>7, <1>8
<1>16. sum <= available
  BY <1>1, <1>5, <1>15
<1> DEFINE all == sum + n
<1>17. available * liability + n <= liability * all /\ all \in Int
  BY <1>5, <1>7, <1>10, <1>11, <1>12, <1>13
<1> HIDE DEF all
<1>18. available < all
  BY <1>1, <1>5, <1>14, <1>17
<1> QED BY <1>16, <1>18 DEF all, sum, n

\* What a reconciliation leaves to the students of a token.
LEMMA LiabilityAfter ==
    ASSUME IInv, NEW t \in Tokens, NEW e, NEW d, NEW target, NEW haircut \in BOOLEAN,
           ReconcileFrame(t, e, d, target, haircut), NEW u \in Tokens
    PROVE  /\ LiabilityIn(u) = SumFunctionOnSet([s \in Students |-> Held(s)], StudentsOf(u))
           /\ LiabilityIn(u)' = SumFunctionOnSet([s \in Students |-> Held(s)'], StudentsOf(u))
           /\ IsFiniteSet(StudentsOf(u)) /\ StudentsOf(u) \subseteq Students
<1>1. StudentsOf(u)' = StudentsOf(u)
  <2>1. \A s \in Students :
          /\ scholarship[s] = None => scholarship'[s] = None
          /\ scholarship[s] # None =>
               scholarship'[s] # None /\ scholarship'[s].token = scholarship[s].token
    BY ReconcileAccount DEF Lessened
  <2> QED BY <2>1 DEF StudentsOf, Scholars
<1>2. StudentsOf(u) \subseteq Students
  BY DEF StudentsOf, Scholars
<1>3. LiabilityIn(u) = SumFunctionOnSet([s \in Students |-> Held(s)], StudentsOf(u))
  BY DEF LiabilityIn, StudentsOf
<1>4. LiabilityIn(u)' = SumFunctionOnSet([s \in Students |-> Held(s)'], StudentsOf(u)')
  BY DEF LiabilityIn, StudentsOf
<1>5. LiabilityIn(u)' = SumFunctionOnSet([s \in Students |-> Held(s)'], StudentsOf(u))
  BY <1>1, <1>4, Zenon
<1> QED BY <1>2, <1>3, <1>5, AddressesAssumption, FS_Subset

\* Who is singled out by a reconciliation of token t: the target, if it has
\* that token.
Singled(t, target) == IF target \in StudentsOf(t) THEN target ELSE None

\* What a reconciliation of token t leaves to the students of token u: the one
\* singled out nothing, the others their share or what they had.
LEMMA ReconcileOthers ==
    ASSUME IInv, NEW t \in Tokens, NEW e, NEW d, NEW target, NEW haircut \in BOOLEAN,
           ReconcileFrame(t, e, d, target, haircut), NEW u \in Tokens, NEW s \in StudentsOf(u)
    PROVE  /\ s \in Students /\ Held(s) \in Nat /\ Held(s)' \in Nat
           /\ s = Singled(t, target) => Held(s)' = 0
           /\ s # Singled(t, target) =>
                IF u = t /\ haircut /\ custody[t] < LiabilityWithout(t, target)
                THEN Held(s)' = Share(Held(s), custody[t], LiabilityWithout(t, target))
                ELSE Held(s)' = Held(s)
<1> DEFINE liability == LiabilityWithout(t, target)
           new == Reconciled(s, t, target, haircut)
<1>1. s \in Students /\ scholarship[s] # None /\ scholarship[s].token = u
  BY DEF StudentsOf, Scholars
<1>2. /\ Held(s) \in Nat /\ Held(s)' \in 0..Held(s)
      /\ Lessened(scholarship[s], scholarship'[s]) /\ scholarship'[s] = new
  BY <1>1, ReconcileAccount DEF ReconcileFrame
<1>3. Held(s) = scholarship[s].balance /\ Held(s)' = new.balance
  BY <1>1, <1>2 DEF Held, Lessened
<1>4. /\ ~Targeted(s, t) => new = scholarship[s]
      /\ Targeted(s, t) /\ s = target => new.balance = 0
      /\ Targeted(s, t) /\ s # target =>
           IF haircut /\ custody[t] < liability
           THEN new.balance = Share(scholarship[s].balance, custody[t], liability)
           ELSE new = scholarship[s]
  BY <1>1, ReconciledFacts
<1>5. /\ Targeted(s, t) <=> u = t
      /\ s = Singled(t, target) => Targeted(s, t) /\ s = target
      /\ s # Singled(t, target) => ~(Targeted(s, t) /\ s = target)
  BY <1>1, ReconciliationAssumption DEF Targeted, Singled, StudentsOf, Scholars
<1> HIDE DEF new, liability
<1> QED BY <1>1, <1>2, <1>3, <1>4, <1>5 DEF liability

\* The haircut is computed from what the others of that token hold.
LEMMA LiabilityOfOthers ==
    ASSUME NEW t \in Tokens, NEW target, NEW out, out = Singled(t, target)
    PROVE  LiabilityWithout(t, target)
             = SumFunctionOnSet([s \in Students |-> Held(s)], StudentsOf(t) \ {out})
<1> DEFINE S == StudentsOf(t) \ {out}
           R == {s \in Students \ {target} : Targeted(s, t)}
<1>1. R = S
  BY ReconciliationAssumption DEF Singled, StudentsOf, Scholars, Targeted
<1>2. LiabilityWithout(t, target) = SumFunctionOnSet([s \in Students |-> Held(s)], R)
  BY DEF LiabilityWithout
<1> HIDE DEF R, S
<1> QED BY <1>1, <1>2, Zenon DEF S

\* The students of token u, all but one, keep the proportions of what they hold
\* and lose nothing, or just what is missing for them.
OthersFair(u, out) ==
    LET others == StudentsOf(u) \ {out}
        short == SumFunctionOnSet([s \in Students |-> Held(s)], others) - custody[u]
        taken == SumFunctionOnSet([s \in Students |-> Held(s) - Held(s)'], others)
    IN  /\ \A s, x \in others : Held(s)' * Held(x) <= (Held(x)' + 1) * Held(s)
        /\ \/ taken = 0
           \/ short > 0 /\ short <= taken /\ taken < short + Cardinality(others)

\* A reconciliation treats the students it does not single out alike, and takes
\* from them just what the termination leaves missing.
LEMMA ReconcileFair ==
    ASSUME IInv, NEW t \in Tokens, NEW e, NEW d, NEW target, NEW haircut \in BOOLEAN,
           ReconcileFrame(t, e, d, target, haircut), NEW u \in Tokens,
           NEW out, out = Singled(t, target)
    PROVE  OthersFair(u, out)
<1> DEFINE S == StudentsOf(u) \ {out}
           liability == LiabilityWithout(t, target)
           cutting == u = t /\ haircut /\ custody[t] < liability
           h == [s \in Students |-> Held(s)]
           k == [s \in Students |-> Held(s)']
           lost == [s \in Students |-> Held(s) - Held(s)']
<1>1. TypeOK /\ custody[t] \in Nat /\ custody[u] \in Nat /\ liability \in Nat
  BY LiabilityNat DEF IInv, TypeOK
<1>2. StudentsOf(u) \subseteq Students /\ S \subseteq Students /\ IsFiniteSet(S)
  <2>1. StudentsOf(u) \subseteq Students
    BY DEF StudentsOf, Scholars
  <2> QED BY <2>1, AddressesAssumption, FS_Subset
<1>3. ASSUME NEW s \in S
      PROVE  /\ Held(s) \in Nat /\ Held(s)' \in Nat
             /\ cutting => Held(s)' = Share(Held(s), custody[t], liability)
             /\ ~cutting => Held(s)' = Held(s)
  BY ReconcileOthers
<1>4. ASSUME NEW s \in S, NEW x \in S
      PROVE  Held(s)' * Held(x) <= (Held(x)' + 1) * Held(s)
  <2> DEFINE b == Held(s)
             c == Held(x)
  <2>1. b \in Nat /\ c \in Nat
    BY <1>3
  <2>2. CASE cutting
    <3>1. Held(s)' = Share(b, custody[t], liability) /\ Held(x)' = Share(c, custody[t], liability)
      BY <1>3, <2>2
    <3>2. custody[t] < liability
      BY <2>2
    <3> HIDE DEF b, c, liability
    <3>3. Share(b, custody[t], liability) * c <= (Share(c, custody[t], liability) + 1) * b
      BY <1>1, <2>1, <3>2, SharesProportional
    <3> QED BY <3>1, <3>3 DEF b, c
  <2>3. CASE ~cutting
    <3>1. Held(s)' = b /\ Held(x)' = c
      BY <1>3, <2>3
    <3> HIDE DEF b, c
    <3>2. b * c <= (c + 1) * b
      BY <2>1
    <3> QED BY <3>1, <3>2 DEF b, c
  <2> QED BY <2>2, <2>3
<1>5. \A s \in S : /\ h[s] \in Nat /\ k[s] \in Nat /\ lost[s] \in Int /\ h[s] = k[s] + lost[s]
                   /\ cutting => k[s] = Share(h[s], custody[t], liability)
                   /\ ~cutting => lost[s] = 0
  BY <1>2, <1>3
<1> HIDE DEF h, k, lost
<1>6. \/ SumFunctionOnSet(lost, S) = 0
      \/ /\ SumFunctionOnSet(h, S) - custody[u] > 0
         /\ SumFunctionOnSet(h, S) - custody[u] <= SumFunctionOnSet(lost, S)
         /\ SumFunctionOnSet(lost, S) < SumFunctionOnSet(h, S) - custody[u] + Cardinality(S)
  <2>1. CASE ~cutting
    <3>1. \A s \in S : lost[s] = 0
      BY <1>5, <2>1
    <3> HIDE DEF S
    <3> QED BY <1>2, <3>1, SumZero
  <2>2. CASE cutting
    <3>1. custody[u] < liability /\ liability = SumFunctionOnSet(h, S)
      BY <2>2, LiabilityOfOthers DEF h
    <3>2. \A s \in S : k[s] = Share(h[s], custody[u], liability)
      BY <1>5, <2>2
    <3> HIDE DEF S, liability, cutting
    <3>3. \A s \in S : k[s] = Share(h[s], custody[u], SumFunctionOnSet(h, S))
      BY <3>1, <3>2
    <3>4. /\ SumFunctionOnSet(k, S) <= custody[u]
          /\ custody[u] < SumFunctionOnSet(k, S) + Cardinality(S)
      BY <1>1, <1>2, <1>5, <3>1, <3>3, SharesCover
    <3>5. \A s \in S : k[s] \in Int /\ lost[s] \in Int /\ h[s] = k[s] + lost[s]
      BY <1>5
    <3>6. SumFunctionOnSet(h, S) = SumFunctionOnSet(k, S) + SumFunctionOnSet(lost, S)
      BY <1>2, <3>5, SumPlus
    <3>7. SumFunctionOnSet(k, S) \in Int /\ SumFunctionOnSet(lost, S) \in Int
      BY <1>2, <3>5, SumInt
    <3>8. Cardinality(S) \in Nat
      BY <1>2, FS_CardinalityType
    <3> QED BY <1>1, <3>1, <3>4, <3>6, <3>7, <3>8
  <2> QED BY <2>1, <2>2
<1> HIDE DEF S
<1>7. /\ \A s, x \in S : Held(s)' * Held(x) <= (Held(x)' + 1) * Held(s)
      /\ \/ SumFunctionOnSet(lost, S) = 0
         \/ /\ SumFunctionOnSet(h, S) - custody[u] > 0
            /\ SumFunctionOnSet(h, S) - custody[u] <= SumFunctionOnSet(lost, S)
            /\ SumFunctionOnSet(lost, S) < SumFunctionOnSet(h, S) - custody[u] + Cardinality(S)
  BY <1>4, <1>6
<1> QED BY <1>7 DEF S, h, lost, OthersFair

\* A haircut is fair: nobody but the terminated student is singled out, and the
\* others lose, in proportion, just what the termination leaves missing.
THEOREM HaircutFair == ReconciliationSpec => CutFair
<1> DEFINE Fair ==
      processed' # processed =>
         \E target \in Students \cup {None} :
            /\ terminated' \subseteq terminated \cup {target}
            /\ \A t \in Tokens : FairCut(t, target)
<1>1. ASSUME RInv, [ReconciliationNext]_reconciliationVars, processed' # processed PROVE Fair
  <2>1. PICK t \in Tokens, e \in Evidence, d \in DeficitClaims,
             target \in Students \cup {None}, h \in BOOLEAN :
               ReconcileBalances(t, e, d, target, h)
    BY <1>1 DEF ReconciliationNext, ReconNext, IssuerClawback, reconVars, reconciliationVars
  <2>2. IInv /\ ReconcileFrame(t, e, d, target, h)
    BY <1>1, <2>1, ReconcileFrames DEF RInv
  <2>3. terminated' = terminated \cup {s \in Students : s = target /\ Targeted(s, t)}
    BY <2>1 DEF ReconcileBalances
  <2>4. PICK out \in Students \cup {None} : out = Singled(t, target)
    BY DEF Singled, StudentsOf, Scholars
  <2>5. terminated' = terminated \cup ({out} \cap Students)
    BY <2>3, <2>4, ReconciliationAssumption DEF Singled, StudentsOf, Scholars, Targeted
  <2>6. ASSUME NEW u \in Tokens PROVE FairCut(u, out)
    <3>1. out \in StudentsOf(u) => out \in terminated' /\ Held(out)' = 0
      <4>1. ASSUME NEW s \in StudentsOf(u) PROVE s \in Students /\ (s = out => Held(s)' = 0)
        BY <2>2, <2>4, ReconcileOthers
      <4>2. ASSUME out \in StudentsOf(u) PROVE out \in terminated' /\ Held(out)' = 0
        BY <2>5, <4>1, <4>2
      <4> QED BY <4>2
    <3>2. OthersFair(u, out)
      BY <2>2, <2>4, ReconcileFair
    <3> QED BY <3>1, <3>2 DEF FairCut, OthersFair
  <2> QED BY <2>4, <2>5, <2>6
<1>2. RInv /\ [ReconciliationNext]_reconciliationVars => [Fair]_reconciliationVars
  BY <1>1
<1> QED BY <1>2, ReconciliationInvariance, PTL DEF ReconciliationSpec, CutFair

-----------------------------------------------------------------------------
(* A loss is passed on once. *)

\* Below full tax every step keeps the account of the issuers' loss.
LEMMA LossStaysBooked ==
    ASSUME TaxBelowFull, RInv, LossBooked, [ReconciliationNext]_reconciliationVars
    PROVE  LossBooked'
<1>1. CASE ReconNext
  <2>1. CASE \E t \in Tokens, a \in IssuerAmounts : IssuerClawback(t, a)
    BY <2>1, IssuerKeeps
  <2>2. CASE \E t \in Tokens, e \in Evidence, d \in DeficitClaims,
                target \in Students \cup {None}, h \in BOOLEAN :
               ReconcileBalances(t, e, d, target, h)
    <3>1. IInv /\ issuerTaken \in [Tokens -> Nat]
      BY DEF RInv, ReconciliationTypeOK
    <3> QED BY <2>2, <3>1, ReconcileFrames, ReconcileBooked
  <2> QED BY <1>1, <2>1, <2>2 DEF ReconNext
<1>2. CASE (CoreNext \/ UNCHANGED coreVars) /\ UNCHANGED reconVars
  <2>1. Surplus' = Surplus /\ reduced' = reduced
    BY <1>2, CoreSurplus, EscrowKeepsPauses DEF RInv
  <2>2. issuerTaken' = issuerTaken
    BY <1>2 DEF reconVars
  <2>3. TotalIn(issuerTaken)' = TotalIn(issuerTaken) /\ TotalReduced' = TotalReduced
    BY <2>1, <2>2 DEF TotalIn, TotalReduced
  <2> QED BY <2>1, <2>3 DEF LossBooked
<1> QED BY <1>1, <1>2 DEF ReconciliationNext, reconciliationVars

\* A student loses by a reconciliation only when it makes a haircut, which leaves
\* the students of that token no less than what is there, to a unit each.
LEMMA LossLeavesCustody ==
    ASSUME IInv, NEW t \in Tokens, NEW e, NEW d, NEW target, NEW haircut \in BOOLEAN,
           ReconcileFrame(t, e, d, target, haircut),
           terminated' = terminated \cup {s \in Students : s = target /\ Targeted(s, t)},
           NEW x \in Students \ terminated', reduced'[x] > reduced[x]
    PROVE  custody[t] < LiabilityIn(t)' + Cardinality(Students)
<1>0. PICK out : out = Singled(t, target)
  OBVIOUS
<1> DEFINE T == StudentsOf(t)
           S == T \ {out}
           h == [s \in Students |-> Held(s)]
           k == [s \in Students |-> Held(s)']
           liability == LiabilityWithout(t, target)
<1>1. /\ LiabilityIn(t)' = SumFunctionOnSet(k, T) /\ IsFiniteSet(T) /\ T \subseteq Students
  BY LiabilityAfter
<1>2. TypeOK /\ custody[t] \in Nat /\ liability \in Nat
  BY LiabilityNat DEF IInv, TypeOK
<1>3. ASSUME NEW s \in T
      PROVE  /\ h[s] \in Nat /\ k[s] \in Nat /\ s \in Students
             /\ s = out => k[s] = 0
             /\ s # out =>
                  IF haircut /\ custody[t] < liability
                  THEN k[s] = Share(h[s], custody[t], liability) ELSE k[s] = h[s]
  BY <1>0, <1>1, ReconcileOthers
<1>4. haircut /\ custody[t] < liability
  <2>1. /\ Held(x) \in Nat /\ Held(x)' \in 0..Held(x) /\ reduced[x] \in Nat
        /\ reduced'[x] = reduced[x] + (Held(x) - Held(x)')
    BY ReconcileAccount DEF IInv, TypeOK
  <2>2. Held(x)' < Held(x)
    BY <2>1
  <2>3. scholarship[x] # None
    BY <2>1, <2>2 DEF Held
  <2>4. ~Targeted(x, t) => scholarship'[x] = scholarship[x]
    <3>1. scholarship'[x] = Reconciled(x, t, target, haircut)
      BY DEF ReconcileFrame
    <3>2. ~Targeted(x, t) => Reconciled(x, t, target, haircut) = scholarship[x]
      BY ReconciledFacts
    <3> QED BY <3>1, <3>2
  <2>5. Targeted(x, t)
    <3>1. scholarship'[x] = scholarship[x] => Held(x)' = Held(x)
      BY DEF Held
    <3> QED BY <2>1, <2>2, <2>4, <3>1
  <2>6. x \in T /\ x # target
    BY <2>5 DEF StudentsOf, Scholars, Targeted
  <2>7. x # out
    BY <1>0, <2>6, ReconciliationAssumption DEF Singled
  <2>8. k[x] # h[x]
    BY <2>1, <2>2
  <2> QED BY <1>3, <2>6, <2>7, <2>8
<1>5. liability = SumFunctionOnSet(h, S)
  BY <1>0, LiabilityOfOthers
<1>6. S \in SUBSET T /\ IsFiniteSet(S)
  BY <1>1, FS_Subset
<1> HIDE DEF h, k, liability
<1>7. \A s \in S : h[s] \in Nat /\ k[s] = Share(h[s], custody[t], SumFunctionOnSet(h, S))
  BY <1>3, <1>4, <1>5
<1>8. \A s \in T : k[s] \in Int
  BY <1>3
<1>9. \A s \in T \ S : k[s] = 0
  BY <1>3
<1> HIDE DEF S, T
<1>10. custody[t] < SumFunctionOnSet(k, S) + Cardinality(S)
  BY <1>2, <1>4, <1>5, <1>6, <1>7, SharesCover
<1>11. SumFunctionOnSet(k, T) = SumFunctionOnSet(k, S)
  BY <1>1, <1>6, <1>8, <1>9, SumSupport
<1>12. /\ Cardinality(S) \in Nat /\ Cardinality(Students) \in Nat
       /\ Cardinality(S) <= Cardinality(Students)
  BY <1>1, <1>6, AddressesAssumption, FS_Subset, FS_CardinalityType
<1>13. SumFunctionOnSet(k, S) \in Int
  <2>1. \A s \in S : k[s] \in Int
    BY <1>6, <1>8
  <2> QED BY <1>6, <2>1, SumInt
<1> QED BY <1>1, <1>2, <1>10, <1>11, <1>12, <1>13

\* Where the contract is used with one token and a tax below 100%, haircuts,
\* however many and of whatever losses, together take no more than the issuers'
\* loss, to a unit per student.
THEOREM LossPassedOn ==
    ASSUME TaxBelowFull, \A t, u \in Tokens : t = u
    PROVE  ReconciliationSpec => LossPassedOnOnce
<1> DEFINE Once ==
      \A s \in Students \ terminated' : reduced'[s] > reduced[s] =>
         SumFunctionOnSet(reduced', Students) < IssuerLoss + Cardinality(Students)
<1>1. ASSUME RInv, LossBooked, [ReconciliationNext]_reconciliationVars PROVE Once
  <2> SUFFICES ASSUME NEW x \in Students \ terminated', reduced'[x] > reduced[x]
               PROVE  TotalReduced' < IssuerLoss + Cardinality(Students)
    BY DEF TotalReduced
  <2>1. reduced' # reduced
    <3>1. reduced[x] \in Nat
      BY <1>1 DEF RInv, IInv, TypeOK
    <3>2. reduced' = reduced => reduced'[x] = reduced[x]
      OBVIOUS
    <3> QED BY <3>1, <3>2
  <2>2. PICK t \in Tokens, e \in Evidence, d \in DeficitClaims,
             target \in Students \cup {None}, h \in BOOLEAN :
               ReconcileBalances(t, e, d, target, h)
    <3>1. ~[CoreNext]_coreVars
      BY <1>1, <2>1, EscrowKeepsPauses DEF RInv
    <3>2. ~\E t \in Tokens, a \in IssuerAmounts : IssuerClawback(t, a)
      BY <2>1 DEF IssuerClawback, historyVars
    <3> QED BY <1>1, <3>1, <3>2 DEF ReconciliationNext, ReconNext, reconciliationVars
  <2>3. /\ IInv /\ TypeOK /\ TypeOK' /\ ReconcileFrame(t, e, d, target, h)
        /\ terminated' = terminated \cup {s \in Students : s = target /\ Targeted(s, t)}
    <3>1. IInv /\ ReconcileFrame(t, e, d, target, h)
      BY <1>1, <2>2, ReconcileFrames DEF RInv
    <3>2. IInv'
      BY <3>1, ReconcileKeepsEscrow
    <3> QED BY <2>2, <3>1, <3>2 DEF ReconcileBalances, IInv
  <2>4. custody[t] < LiabilityIn(t)' + Cardinality(Students)
    BY <2>3, LossLeavesCustody
  <2>5. TotalReduced' = TotalReduced + TotalHeld - TotalHeld'
    BY <2>3, ReconcileTotals
  <2>6. TotalHeld' = LiabilityIn(t)' /\ TotalIn(custody) = custody[t]
    <3>1. TotalIn(custody) = custody[t]
      BY <2>3, OneToken
    <3>2. StudentsOf(t)' = Scholars'
      BY <2>3 DEF StudentsOf, Scholars, TypeOK, ScholarshipRecord
    <3> DEFINE k == [s \in Students |-> Held(s)']
    <3>3. Scholars' \in SUBSET Students
      BY DEF Scholars
    <3>4. \A s \in Students \ Scholars' : k[s] = 0
      BY DEF Scholars, Held
    <3>5. \A s \in Students : k[s] \in Int
      BY <2>3, ReconcileAccount
    <3>6. TotalHeld' = SumFunctionOnSet(k, Students)
      BY DEF TotalHeld
    <3>7. LiabilityIn(t)' = SumFunctionOnSet(k, StudentsOf(t)')
      BY DEF LiabilityIn, StudentsOf
    <3> HIDE DEF k
    <3>8. SumFunctionOnSet(k, Students) = SumFunctionOnSet(k, Scholars')
      BY <3>3, <3>4, <3>5, AddressesAssumption, SumSupport
    <3>9. SumFunctionOnSet(k, StudentsOf(t)') = SumFunctionOnSet(k, Scholars')
      BY <3>2, Zenon
    <3> QED BY <3>1, <3>6, <3>7, <3>8, <3>9
  <2>7. Surplus = TotalIn(custody) - (TotalHeld + TotalIn(feesAccrued) + TotalIn(tuitionHeld))
    BY DEF Surplus
  <2>8. Surplus + TotalIn(issuerTaken) = TotalReduced
    BY <1>1 DEF LossBooked
  <2>9. IssuerLoss = TotalIn(issuerTaken) - TotalIn(feesAccrued) - TotalIn(tuitionHeld)
    BY DEF IssuerLoss, TotalIn
  <2>10. /\ TotalIn(custody) \in Nat /\ TotalIn(feesAccrued) \in Nat
         /\ TotalIn(tuitionHeld) \in Nat /\ TotalHeld \in Nat
    BY <2>3, TotalTypes
  <2>11. TotalIn(issuerTaken) \in Nat
    <3>1. \A u \in Tokens : issuerTaken[u] \in Nat
      BY <1>1 DEF RInv, ReconciliationTypeOK
    <3> QED BY <3>1, AddressesAssumption, SumNat DEF TotalIn
  <2>12. TotalHeld' \in Nat
    <3>1. \A s \in Students : Held(s)' \in Nat
      BY <2>3, ReconcileAccount
    <3> DEFINE k == [s \in Students |-> Held(s)']
    <3>2. \A s \in Students : k[s] \in Nat
      BY <3>1
    <3>3. TotalHeld' = SumFunctionOnSet(k, Students)
      BY DEF TotalHeld
    <3> HIDE DEF k
    <3> QED BY <3>2, <3>3, AddressesAssumption, SumNat
  <2>13. Cardinality(Students) \in Nat
    BY AddressesAssumption, FS_CardinalityType
  <2> HIDE DEF Surplus, IssuerLoss, TotalHeld, TotalReduced
  <2>14. Surplus \in Int
    BY <2>7, <2>10
  <2>15. TotalIn(custody) < TotalHeld' + Cardinality(Students)
    BY <2>4, <2>6
  <2>16. TotalReduced' = Surplus + TotalIn(issuerTaken) + TotalHeld - TotalHeld'
    BY <2>5, <2>8
  <2> QED BY <2>7, <2>9, <2>10, <2>11, <2>12, <2>13, <2>14, <2>15, <2>16
<1>2. RInv /\ LossBooked /\ [ReconciliationNext]_reconciliationVars => [Once]_reconciliationVars
  BY <1>1
<1>3. RInv /\ LossBooked /\ [ReconciliationNext]_reconciliationVars => LossBooked'
  BY LossStaysBooked
<1>4. ReconciliationSpec => [](RInv /\ LossBooked)
  BY <1>3, ReconciliationInitKeeps, ReconciliationStep, PTL DEF ReconciliationSpec
<1> QED BY <1>2, <1>4, PTL DEF ReconciliationSpec, LossPassedOnOnce

=============================================================================
