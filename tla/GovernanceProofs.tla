-------------------------- MODULE GovernanceProofs --------------------------
(***************************************************************************)
(* Theorems about Governance, for any referenda, voters and delays: what   *)
(* is executed was decided, queued and delayed, and rotations keep their   *)
(* distance.  A referendum is followed through its record alone, so the    *)
(* lemmas speak of records.                                                *)
(***************************************************************************)
EXTENDS Governance, SumLemmas

\* What is queued was decided when its vote was over, and has not changed since:
\* this is what the vote's end and the queue's beginning owe each other.
QueuedGrounded(r, time) ==
    r.queued_at # None =>
        /\ Passed(r)
        /\ r.queued_at >= r.end_time
        /\ r.queued_at <= time

\* What is executed came out of the queue, after the delay, unvetoed.
ExecutedGrounded(r, time) ==
    r.executed =>
        /\ r.queued_at # None
        /\ time >= r.queued_at + EXECUTION_DELAY
        /\ ~r.vetoed

Grounded(r, time) ==
    r # None => QueuedGrounded(r, time) /\ ExecutedGrounded(r, time)

\* What is queued for the council keeps its distance and was not struck.
RotationQueued ==
    rotation # None =>
        /\ ~dissolved
        /\ lastRotation > 0 =>
             rotation.execution_time >= lastRotation + ROTATION_INTERVAL + ROTATION_TIMELOCK

Inv ==
    /\ TypeOK
    /\ \A id \in Referenda : Grounded(referendum[id], now)
    /\ RotationQueued

-----------------------------------------------------------------------------
(* Records. *)

\* The moment of queueing is a time, if there is one.
LEMMA RecordTimes ==
    ASSUME NEW r \in Referendum
    PROVE  /\ r.end_time \in Nat /\ r.yes_votes \in Int /\ r.no_votes \in Int
           /\ r.executed \in BOOLEAN /\ r.vetoed \in BOOLEAN /\ r.bond_amount \in Nat
           /\ r.queued_at \in Nat \cup {None}
BY GovernanceAssumption DEF Referendum

\* Time only helps.
LEMMA GroundedLater ==
    ASSUME NEW r \in Referendum \cup {None}, NEW t \in Nat, Grounded(r, t)
    PROVE  Grounded(r, t + 1)
<1>1. CASE r = None
  BY <1>1 DEF Grounded
<1>2. CASE r # None
  <2>1. r \in Referendum
    BY <1>2
  <2>2. QueuedGrounded(r, t) /\ ExecutedGrounded(r, t)
    BY <1>2 DEF Grounded
  <2>3. CASE r.queued_at = None
    BY <2>2, <2>3 DEF Grounded, QueuedGrounded, ExecutedGrounded
  <2>4. CASE r.queued_at # None
    <3>1. r.queued_at \in Nat /\ EXECUTION_DELAY \in Nat
      BY <2>1, <2>4, RecordTimes, GovernanceAssumption
    <3>2. QueuedGrounded(r, t + 1)
      BY <2>2, <2>4, <3>1 DEF QueuedGrounded
    <3>3. ExecutedGrounded(r, t + 1)
      BY <2>2, <3>1 DEF ExecutedGrounded
    <3> QED
      BY <3>2, <3>3 DEF Grounded
  <2> QED
    BY <2>3, <2>4
<1> QED
  BY <1>1, <1>2

\* A step that changes one referendum, and no time, keeps the others grounded.
LEMMA OneReferendum ==
    ASSUME Inv, NEW id \in Referenda, NEW r \in Referendum,
           referendum' = [referendum EXCEPT ![id] = r], now' = now, Grounded(r, now)
    PROVE  /\ referendum' \in [Referenda -> Referendum \cup {None}]
           /\ \A x \in Referenda : Grounded(referendum'[x], now')
BY DEF Inv, TypeOK

\* The council's variables decide about the rotation.
LEMMA RotationUntouched ==
    ASSUME Inv, UNCHANGED councilVars
    PROVE  RotationQueued'
BY DEF Inv, RotationQueued, councilVars

\* The referenda's variables and the clock decide about the referenda.
LEMMA ReferendaUntouched ==
    ASSUME Inv, UNCHANGED <<now, referendumVars>>
    PROVE  \A id \in Referenda : Grounded(referendum'[id], now')
BY DEF Inv, referendumVars

-----------------------------------------------------------------------------
(* Initial states and steps. *)

\* Nothing is proposed or queued at the start.
LEMMA InitEstablishes == Init => Inv
<1> SUFFICES ASSUME Init PROVE Inv
  OBVIOUS
<1>1. TypeOK
  BY GovernanceAssumption DEF Init, TypeOK
<1>2. \A id \in Referenda : Grounded(referendum[id], now)
  BY DEF Init, Grounded
<1>3. RotationQueued
  BY DEF Init, RotationQueued
<1> QED
  BY <1>1, <1>2, <1>3 DEF Inv

\* A rotation is queued a year after the last one, and is struck with the council.
LEMMA CouncilKeeps ==
    ASSUME Inv,
           \/ \E c \in Councils : SetSecurityCouncil(c) \/ QueueCouncilRotation(c)
           \/ ExecuteCouncilRotation
           \/ EmergencyDissolveCouncil
           \/ TriggerEmergencyPause
           \/ ResumeProtocol
    PROVE  Inv'
<1>1. \A id \in Referenda : Grounded(referendum'[id], now')
  BY ReferendaUntouched DEF SetSecurityCouncil, QueueCouncilRotation, ExecuteCouncilRotation,
     EmergencyDissolveCouncil, TriggerEmergencyPause, ResumeProtocol
<1>2. ASSUME NEW c \in Councils, SetSecurityCouncil(c)
      PROVE  Inv'
  <2>1. TypeOK'
    BY <1>2 DEF Inv, TypeOK, SetSecurityCouncil, referendumVars
  <2>2. RotationQueued'
    BY <1>2 DEF Inv, RotationQueued, SetSecurityCouncil
  <2> QED
    BY <1>1, <2>1, <2>2 DEF Inv
<1>3. ASSUME NEW c \in Councils, QueueCouncilRotation(c)
      PROVE  Inv'
  <2>1. /\ now \in Nat /\ ROTATION_TIMELOCK \in Nat /\ ROTATION_INTERVAL \in Nat
        /\ lastRotation \in Nat
    BY GovernanceAssumption DEF Inv, TypeOK
  <2>2. rotation' = [new_council |-> c, execution_time |-> now + ROTATION_TIMELOCK]
    BY <1>3 DEF QueueCouncilRotation
  <2>3. rotation' \in Rotation
    BY <2>1, <2>2 DEF Rotation
  <2>4. TypeOK'
    BY <1>3, <2>3 DEF Inv, TypeOK, QueueCouncilRotation, referendumVars
  <2>5. lastRotation > 0 =>
          now + ROTATION_TIMELOCK >= lastRotation + ROTATION_INTERVAL + ROTATION_TIMELOCK
    BY <1>3, <2>1 DEF QueueCouncilRotation, YearPassed
  <2>6. RotationQueued'
    BY <1>3, <2>2, <2>5 DEF RotationQueued, QueueCouncilRotation
  <2> QED
    BY <1>1, <2>4, <2>6 DEF Inv
<1>4. ASSUME ExecuteCouncilRotation
      PROVE  Inv'
  <2>1. TypeOK'
    BY <1>4 DEF Inv, TypeOK, ExecuteCouncilRotation, Rotation, referendumVars
  <2>2. RotationQueued'
    BY <1>4 DEF RotationQueued, ExecuteCouncilRotation
  <2> QED
    BY <1>1, <2>1, <2>2 DEF Inv
<1>5. ASSUME EmergencyDissolveCouncil
      PROVE  Inv'
  <2>1. TypeOK'
    BY <1>5 DEF Inv, TypeOK, EmergencyDissolveCouncil, referendumVars
  <2>2. RotationQueued'
    BY <1>5 DEF RotationQueued, EmergencyDissolveCouncil
  <2> QED
    BY <1>1, <2>1, <2>2 DEF Inv
<1>6. ASSUME TriggerEmergencyPause \/ ResumeProtocol
      PROVE  Inv'
  <2>1. TypeOK'
    BY <1>6 DEF Inv, TypeOK, TriggerEmergencyPause, ResumeProtocol, councilVars, referendumVars
  <2>2. RotationQueued'
    BY <1>6, RotationUntouched DEF TriggerEmergencyPause, ResumeProtocol
  <2> QED
    BY <1>1, <2>1, <2>2 DEF Inv
<1> QED
  BY <1>2, <1>3, <1>4, <1>5, <1>6

\* A new referendum is neither queued nor executed.
LEMMA CreateKeeps ==
    ASSUME Inv, NEW id \in Referenda, NEW target \in Targets, NEW bond \in Bonds,
           CreateReferendum(id, target, bond)
    PROVE  Inv'
<1> DEFINE r == NewReferendum(target, bond)
<1>1. now \in Nat /\ VOTING_PERIOD \in Nat /\ bond \in Nat
  BY GovernanceAssumption DEF Inv, TypeOK
<1>2. r \in Referendum
  BY <1>1 DEF NewReferendum, Referendum
<1>3. Grounded(r, now)
  BY DEF NewReferendum, Grounded, QueuedGrounded, ExecutedGrounded
<1>4. referendum' = [referendum EXCEPT ![id] = r] /\ now' = now
  BY DEF CreateReferendum
<1> HIDE DEF r
<1>5. /\ referendum' \in [Referenda -> Referendum \cup {None}]
      /\ \A x \in Referenda : Grounded(referendum'[x], now')
  BY <1>2, <1>3, <1>4, OneReferendum
<1>6. TypeOK'
  BY <1>1, <1>5 DEF Inv, TypeOK, CreateReferendum, councilVars
<1>7. RotationQueued'
  BY RotationUntouched DEF CreateReferendum
<1> QED
  BY <1>5, <1>6, <1>7 DEF Inv

\* Who can still vote finds nothing in the queue: the vote's end lies ahead of
\* the clock, and what is queued behind it.
LEMMA VoteKeeps ==
    ASSUME Inv, NEW v \in Voters, NEW id \in Referenda, NEW y \in BOOLEAN, NEW p \in Powers,
           VoteReferendum(v, id, y, p)
    PROVE  Inv'
<1> DEFINE old == referendum[id]
           r == Tallied(old, y, p)
<1>1. /\ old \in Referendum /\ old # None /\ now \in Nat /\ p \in Int
      /\ Grounded(old, now)
  BY GovernanceAssumption DEF Inv, TypeOK, VoteReferendum, Exists
<1>2. now < old.end_time
  BY DEF VoteReferendum, VotingOpen
<1>3. old.queued_at = None
  <2> SUFFICES ASSUME old.queued_at # None PROVE FALSE
    OBVIOUS
  <2>1. old.queued_at >= old.end_time /\ old.queued_at <= now
    BY <1>1 DEF Grounded, QueuedGrounded
  <2>2. old.queued_at \in Nat /\ old.end_time \in Nat
    BY <1>1, RecordTimes
  <2> QED
    BY <1>1, <1>2, <2>1, <2>2
<1>4. ~old.executed
  BY <1>1, <1>3 DEF Grounded, ExecutedGrounded
<1>5. r \in Referendum
  BY <1>1 DEF Tallied, Referendum
<1>6. r.queued_at = None /\ ~r.executed
  BY <1>1, <1>3, <1>4 DEF Tallied, Referendum
<1>7. referendum' = [referendum EXCEPT ![id] = r] /\ now' = now
  BY DEF VoteReferendum
<1> HIDE DEF r
<1>8. Grounded(r, now)
  BY <1>6 DEF Grounded, QueuedGrounded, ExecutedGrounded
<1>9. /\ referendum' \in [Referenda -> Referendum \cup {None}]
      /\ \A x \in Referenda : Grounded(referendum'[x], now')
  BY <1>5, <1>7, <1>8, OneReferendum
<1>10. TypeOK'
  BY <1>9 DEF Inv, TypeOK, VoteReferendum, councilVars
<1>11. RotationQueued'
  BY RotationUntouched DEF VoteReferendum
<1> QED
  BY <1>9, <1>10, <1>11 DEF Inv

\* What is queued is queued now, after its vote.
LEMMA QueueKeeps ==
    ASSUME Inv, NEW id \in Referenda, QueueReferendum(id)
    PROVE  Inv'
<1> DEFINE old == referendum[id]
           r == [old EXCEPT !.queued_at = now]
<1>1. old \in Referendum /\ old # None /\ now \in Nat
  BY DEF Inv, TypeOK, QueueReferendum, Exists
<1>2. now >= old.end_time /\ Passed(old) /\ ~old.executed
  BY DEF QueueReferendum, VoteOver
<1>3. r \in Referendum
  BY <1>1 DEF Referendum
<1>4. /\ r.queued_at = now /\ r.end_time = old.end_time /\ r.executed = old.executed
      /\ r.yes_votes = old.yes_votes /\ r.no_votes = old.no_votes
  BY <1>1 DEF Referendum
<1>5. referendum' = [referendum EXCEPT ![id] = r] /\ now' = now
  BY DEF QueueReferendum
<1> HIDE DEF r
<1>6. Grounded(r, now)
  BY <1>1, <1>2, <1>4 DEF Grounded, QueuedGrounded, ExecutedGrounded, Passed
<1>7. /\ referendum' \in [Referenda -> Referendum \cup {None}]
      /\ \A x \in Referenda : Grounded(referendum'[x], now')
  BY <1>3, <1>5, <1>6, OneReferendum
<1>8. TypeOK'
  BY <1>7 DEF Inv, TypeOK, QueueReferendum, councilVars
<1>9. RotationQueued'
  BY RotationUntouched DEF QueueReferendum
<1> QED
  BY <1>7, <1>8, <1>9 DEF Inv

\* What is executed waited in the queue.
LEMMA ExecuteKeeps ==
    ASSUME Inv, NEW id \in Referenda, ExecuteReferendum(id)
    PROVE  Inv'
<1> DEFINE old == referendum[id]
           r == Executed(old)
<1>1. old \in Referendum /\ old # None /\ bondsHeld \in Nat /\ Grounded(old, now)
  BY DEF Inv, TypeOK, ExecuteReferendum, Exists
<1>2. ~old.vetoed /\ old.queued_at # None /\ now >= old.queued_at + EXECUTION_DELAY
  BY DEF ExecuteReferendum, DelayPassed
<1>3. r \in Referendum
  BY <1>1 DEF Executed, Referendum
<1>4. /\ r.queued_at = old.queued_at /\ r.end_time = old.end_time /\ r.vetoed = old.vetoed
      /\ r.yes_votes = old.yes_votes /\ r.no_votes = old.no_votes
  BY <1>1 DEF Executed, Referendum
<1>5. referendum' = [referendum EXCEPT ![id] = r] /\ now' = now
  BY DEF ExecuteReferendum
<1> HIDE DEF r
<1>6. Grounded(r, now)
  BY <1>1, <1>2, <1>4 DEF Grounded, QueuedGrounded, ExecutedGrounded, Passed
<1>7. /\ referendum' \in [Referenda -> Referendum \cup {None}]
      /\ \A x \in Referenda : Grounded(referendum'[x], now')
  BY <1>3, <1>5, <1>6, OneReferendum
<1>8. bondsHeld' \in Nat
  <2>1. old.bond_amount \in Nat
    BY <1>1, RecordTimes
  <2>2. bondsHeld' = bondsHeld - old.bond_amount /\ bondsHeld >= old.bond_amount
    BY DEF ExecuteReferendum
  <2> QED
    BY <1>1, <2>1, <2>2
<1>9. TypeOK'
  BY <1>7, <1>8 DEF Inv, TypeOK, ExecuteReferendum, councilVars
<1>10. RotationQueued'
  BY RotationUntouched DEF ExecuteReferendum
<1> QED
  BY <1>7, <1>9, <1>10 DEF Inv

\* A veto comes before the execution or not at all.
LEMMA VetoKeeps ==
    ASSUME Inv, NEW id \in Referenda, VetoAction(id)
    PROVE  Inv'
<1> DEFINE old == referendum[id]
           r == [old EXCEPT !.vetoed = TRUE]
<1>1. old \in Referendum /\ old # None /\ Grounded(old, now) /\ ~old.executed
  BY DEF Inv, TypeOK, VetoAction, Exists
<1>2. r \in Referendum
  BY <1>1 DEF Referendum
<1>3. /\ r.queued_at = old.queued_at /\ r.end_time = old.end_time /\ ~r.executed
      /\ r.yes_votes = old.yes_votes /\ r.no_votes = old.no_votes
  BY <1>1 DEF Referendum
<1>4. referendum' = [referendum EXCEPT ![id] = r] /\ now' = now
  BY DEF VetoAction
<1> HIDE DEF r
<1>5. Grounded(r, now)
  BY <1>1, <1>3 DEF Grounded, QueuedGrounded, ExecutedGrounded, Passed
<1>6. /\ referendum' \in [Referenda -> Referendum \cup {None}]
      /\ \A x \in Referenda : Grounded(referendum'[x], now')
  BY <1>2, <1>4, <1>5, OneReferendum
<1>7. TypeOK'
  BY <1>6 DEF Inv, TypeOK, VetoAction, councilVars
<1>8. RotationQueued'
  BY RotationUntouched DEF VetoAction
<1> QED
  BY <1>6, <1>7, <1>8 DEF Inv

\* The clock only lets delays pass.
LEMMA TickKeeps ==
    ASSUME Inv, Tick
    PROVE  Inv'
<1>1. now \in Nat /\ now' = now + 1 /\ referendum' = referendum
  BY DEF Inv, TypeOK, Tick, referendumVars
<1>2. \A id \in Referenda : Grounded(referendum'[id], now')
  BY <1>1, GroundedLater DEF Inv, TypeOK
<1>3. TypeOK'
  BY <1>1 DEF Inv, TypeOK, Tick, councilVars, referendumVars
<1>4. RotationQueued'
  BY RotationUntouched DEF Tick
<1> QED
  BY <1>2, <1>3, <1>4 DEF Inv

\* Every step keeps the invariant.
LEMMA StepKeeps ==
    ASSUME Inv, [Next]_vars
    PROVE  Inv'
<1>1. CASE UNCHANGED vars
  <2>1. TypeOK'
    BY <1>1 DEF Inv, TypeOK, vars, councilVars, referendumVars
  <2>2. (\A id \in Referenda : Grounded(referendum'[id], now')) /\ RotationQueued'
    BY <1>1, RotationUntouched, ReferendaUntouched DEF vars
  <2> QED
    BY <2>1, <2>2 DEF Inv
<1>2. CASE \/ \E c \in Councils : SetSecurityCouncil(c) \/ QueueCouncilRotation(c)
           \/ ExecuteCouncilRotation
           \/ EmergencyDissolveCouncil
           \/ TriggerEmergencyPause
           \/ ResumeProtocol
  BY <1>2, CouncilKeeps
<1>3. CASE \E id \in Referenda, t \in Targets, b \in Bonds : CreateReferendum(id, t, b)
  BY <1>3, CreateKeeps
<1>4. CASE \E v \in Voters, id \in Referenda, y \in BOOLEAN, p \in Powers :
             VoteReferendum(v, id, y, p)
  BY <1>4, VoteKeeps
<1>5. CASE \E id \in Referenda :
             QueueReferendum(id) \/ ExecuteReferendum(id) \/ VetoAction(id)
  BY <1>5, QueueKeeps, ExecuteKeeps, VetoKeeps
<1>6. CASE Tick
  BY <1>6, TickKeeps
<1> QED
  BY <1>1, <1>2, <1>3, <1>4, <1>5, <1>6 DEF Next

-----------------------------------------------------------------------------
(* Theorems. *)

\* The invariant holds throughout.
LEMMA Invariance == Spec => []Inv
BY InitEstablishes, StepKeeps, PTL DEF Spec

\* For any referenda, voters, powers and delays, what is executed was decided,
\* queued after the vote, delayed and not vetoed (queue_referendum,
\* execute_referendum, veto_action).
THEOREM ExecutionAlwaysGrounded == Spec => []ExecutionGrounded
<1>1. ASSUME Inv PROVE ExecutionGrounded
  BY <1>1 DEF Inv, Grounded, QueuedGrounded, ExecutedGrounded, ExecutionGrounded, Exists
<1> QED
  BY <1>1, Invariance, PTL

\* For any councils and periods, a rotation takes effect a year and a timelock
\* after the one before, and none survives a dissolution (queue_council_rotation,
\* execute_council_rotation, emergency_dissolve_council).
THEOREM RotationAlwaysGrounded == Spec => RotationGrounded
<1> DEFINE Distance ==
       lastRotation' # lastRotation =>
         /\ ~dissolved
         /\ lastRotation > 0 => now >= lastRotation + ROTATION_INTERVAL + ROTATION_TIMELOCK
<1>1. ASSUME Inv, [Next]_vars PROVE Distance
  <2> SUFFICES ASSUME lastRotation' # lastRotation PROVE Distance
    OBVIOUS
  <2>1. ExecuteCouncilRotation
    BY <1>1 DEF Next, vars, councilVars, SetSecurityCouncil, QueueCouncilRotation,
       EmergencyDissolveCouncil, TriggerEmergencyPause, ResumeProtocol, CreateReferendum,
       VoteReferendum, QueueReferendum, ExecuteReferendum, VetoAction, Tick
  <2>2. rotation # None /\ now >= rotation.execution_time
    BY <2>1 DEF ExecuteCouncilRotation
  <2>3. /\ rotation.execution_time \in Nat /\ now \in Nat /\ lastRotation \in Nat
        /\ ROTATION_INTERVAL \in Nat /\ ROTATION_TIMELOCK \in Nat
    BY <1>1, <2>2, GovernanceAssumption DEF Inv, TypeOK, Rotation
  <2>4. /\ ~dissolved
        /\ lastRotation > 0 =>
             rotation.execution_time >= lastRotation + ROTATION_INTERVAL + ROTATION_TIMELOCK
    BY <1>1, <2>2 DEF Inv, RotationQueued
  <2> QED
    BY <2>2, <2>3, <2>4
<1>2. Inv /\ [Next]_vars => [Distance]_vars
  BY <1>1
<1> QED
  BY <1>2, Invariance, PTL DEF Spec, RotationGrounded

-----------------------------------------------------------------------------
(* The bonds. *)

TotalBonds == SumFunctionOnSet([id \in Referenda |-> BondOf(referendum[id])], Referenda)

\* What is deposited for a referendum is a natural number.
LEMMA BondType ==
    ASSUME NEW r \in Referendum \cup {None}
    PROVE  BondOf(r) \in Nat
BY RecordTimes DEF BondOf

\* When one referendum is replaced, the total changes by its bond.
LEMMA OneBond ==
    ASSUME TypeOK, NEW id \in Referenda, NEW r \in Referendum,
           referendum' = [referendum EXCEPT ![id] = r]
    PROVE  /\ TotalBonds \in Nat
           /\ TotalBonds' = TotalBonds - BondOf(referendum[id]) + BondOf(r)
<1> DEFINE f == [x \in Referenda |-> BondOf(referendum[x])]
           g == [x \in Referenda |-> BondOf(referendum'[x])]
<1>1. /\ \A x \in Referenda : referendum[x] \in Referendum \cup {None}
      /\ referendum'[id] = r
      /\ \A x \in Referenda \ {id} : referendum'[x] = referendum[x]
  BY DEF TypeOK
<1>2. \A x \in Referenda : BondOf(referendum[x]) \in Nat
  BY <1>1, BondType
<1>3. BondOf(r) \in Nat
  BY BondType
<1>4. /\ f \in [Referenda -> Nat] /\ g \in [Referenda -> Nat]
      /\ f[id] = BondOf(referendum[id]) /\ g[id] = BondOf(r)
      /\ \A x \in Referenda \ {id} : g[x] = f[x]
  BY <1>1, <1>2, <1>3
<1>5. TotalBonds = SumFunctionOnSet(f, Referenda) /\ TotalBonds' = SumFunctionOnSet(g, Referenda)
  BY DEF TotalBonds
<1> HIDE DEF f, g
<1>6. f \in [Referenda -> Int] /\ g \in [Referenda -> Int]
  BY <1>4
<1>7. SumFunctionOnSet(g, Referenda) = SumFunctionOnSet(f, Referenda) - f[id] + g[id]
  BY <1>4, <1>6, GovernanceAssumption, SumExcept
<1>8. \A x \in Referenda : f[x] \in Nat
  BY <1>4
<1>9. SumFunctionOnSet(f, Referenda) \in Nat
  BY <1>8, GovernanceAssumption, SumNat
<1> QED
  BY <1>4, <1>5, <1>7, <1>9

\* Each step returns what it takes off the records, and holds what it puts there.
LEMMA BondsKept ==
    ASSUME Inv, bondsHeld = TotalBonds, [Next]_vars
    PROVE  bondsHeld' = TotalBonds'
<1>1. TypeOK /\ bondsHeld \in Nat
  BY DEF Inv, TypeOK
<1>2. CASE \E id \in Referenda, t \in Targets, b \in Bonds : CreateReferendum(id, t, b)
  <2>1. PICK id \in Referenda, t \in Targets, b \in Bonds : CreateReferendum(id, t, b)
    BY <1>2
  <2> DEFINE r == NewReferendum(t, b)
  <2>2. /\ referendum' = [referendum EXCEPT ![id] = r] /\ bondsHeld' = bondsHeld + b
        /\ referendum[id] = None
    BY <2>1 DEF CreateReferendum, Exists
  <2>3. now \in Nat /\ VOTING_PERIOD \in Nat /\ b \in Nat
    BY <1>1, GovernanceAssumption DEF TypeOK
  <2>4. r \in Referendum /\ r # None
    <3>1. r \in Referendum
      BY <2>3 DEF NewReferendum, Referendum
    <3> QED
      BY <3>1, NoReferendum
  <2>5. BondOf(r) = b /\ BondOf(referendum[id]) = 0
    BY <2>2, <2>4 DEF BondOf, NewReferendum
  <2> HIDE DEF r
  <2>6. TotalBonds \in Nat /\ TotalBonds' = TotalBonds - BondOf(referendum[id]) + BondOf(r)
    BY <1>1, <2>2, <2>4, OneBond
  <2> QED
    BY <2>2, <2>3, <2>5, <2>6
<1>3. CASE \E id \in Referenda : ExecuteReferendum(id)
  <2>1. PICK id \in Referenda : ExecuteReferendum(id)
    BY <1>3
  <2> DEFINE old == referendum[id]
             r == Executed(old)
  <2>2. /\ referendum' = [referendum EXCEPT ![id] = r]
        /\ bondsHeld' = bondsHeld - old.bond_amount
        /\ old # None /\ ~old.executed
    BY <2>1 DEF ExecuteReferendum, Exists
  <2>3. old \in Referendum
    BY <1>1, <2>2 DEF TypeOK
  <2>4. r \in Referendum /\ r.executed
    BY <2>3 DEF Executed, Referendum
  <2>5. BondOf(r) = 0 /\ BondOf(old) = old.bond_amount /\ old.bond_amount \in Nat
    BY <2>2, <2>3, <2>4, RecordTimes DEF BondOf
  <2> HIDE DEF r
  <2>6. TotalBonds \in Nat /\ TotalBonds' = TotalBonds - BondOf(old) + BondOf(r)
    BY <1>1, <2>2, <2>4, OneBond
  <2> QED
    BY <2>2, <2>5, <2>6
<1>4. ASSUME NEW id \in Referenda, NEW r \in Referendum, referendum[id] # None,
             referendum' = [referendum EXCEPT ![id] = r], bondsHeld' = bondsHeld,
             r.executed = referendum[id].executed, r.bond_amount = referendum[id].bond_amount
      PROVE  bondsHeld' = TotalBonds'
  <2>1. BondOf(r) = BondOf(referendum[id]) /\ BondOf(r) \in Nat
    BY <1>4, NoReferendum, BondType DEF BondOf
  <2>2. TotalBonds \in Nat /\ TotalBonds' = TotalBonds - BondOf(referendum[id]) + BondOf(r)
    BY <1>1, <1>4, OneBond
  <2> QED
    BY <1>4, <2>1, <2>2
<1>5. CASE \E v \in Voters, id \in Referenda, y \in BOOLEAN, p \in Powers :
             VoteReferendum(v, id, y, p)
  <2>1. PICK v \in Voters, id \in Referenda, y \in BOOLEAN, p \in Powers :
               VoteReferendum(v, id, y, p)
    BY <1>5
  <2> DEFINE old == referendum[id]
             r == Tallied(old, y, p)
  <2>2. /\ referendum' = [referendum EXCEPT ![id] = r] /\ bondsHeld' = bondsHeld
        /\ old # None
    BY <2>1 DEF VoteReferendum, Exists
  <2>3. old \in Referendum /\ p \in Int
    BY <1>1, <2>2, GovernanceAssumption DEF TypeOK
  <2>4. /\ r \in Referendum /\ r.executed = old.executed
        /\ r.bond_amount = old.bond_amount
    BY <2>3 DEF Tallied, Referendum
  <2> HIDE DEF r
  <2> QED
    BY <1>4, <2>2, <2>4
<1>6. CASE \E id \in Referenda : QueueReferendum(id)
  <2>1. PICK id \in Referenda : QueueReferendum(id)
    BY <1>6
  <2> DEFINE old == referendum[id]
             r == [old EXCEPT !.queued_at = now]
  <2>2. /\ referendum' = [referendum EXCEPT ![id] = r] /\ bondsHeld' = bondsHeld
        /\ old # None
    BY <2>1 DEF QueueReferendum, Exists
  <2>3. old \in Referendum /\ now \in Nat
    BY <1>1, <2>2 DEF TypeOK
  <2>4. /\ r \in Referendum /\ r.executed = old.executed
        /\ r.bond_amount = old.bond_amount
    BY <2>3 DEF Referendum
  <2> HIDE DEF r
  <2> QED
    BY <1>4, <2>2, <2>4
<1>7. CASE \E id \in Referenda : VetoAction(id)
  <2>1. PICK id \in Referenda : VetoAction(id)
    BY <1>7
  <2> DEFINE old == referendum[id]
             r == [old EXCEPT !.vetoed = TRUE]
  <2>2. /\ referendum' = [referendum EXCEPT ![id] = r] /\ bondsHeld' = bondsHeld
        /\ old # None
    BY <2>1 DEF VetoAction, Exists
  <2>3. old \in Referendum
    BY <1>1, <2>2 DEF TypeOK
  <2>4. /\ r \in Referendum /\ r.executed = old.executed
        /\ r.bond_amount = old.bond_amount
    BY <2>3 DEF Referendum
  <2> HIDE DEF r
  <2> QED
    BY <1>4, <2>2, <2>4
<1>8. CASE \/ \E c \in Councils : SetSecurityCouncil(c) \/ QueueCouncilRotation(c)
           \/ ExecuteCouncilRotation
           \/ EmergencyDissolveCouncil
           \/ TriggerEmergencyPause
           \/ ResumeProtocol
           \/ Tick
           \/ UNCHANGED vars
  <2>1. UNCHANGED <<referendum, bondsHeld>>
    BY <1>8 DEF SetSecurityCouncil, QueueCouncilRotation, ExecuteCouncilRotation,
       EmergencyDissolveCouncil, TriggerEmergencyPause, ResumeProtocol, Tick, vars,
       referendumVars
  <2> QED
    BY <2>1 DEF TotalBonds
<1> QED
  BY <1>2, <1>3, <1>5, <1>6, <1>7, <1>8 DEF Next

\* For any referenda and bonds, the records are well typed and the contract
\* holds the bond of every referendum not executed, and no other
\* (create_referendum, execute_referendum).
THEOREM BondsAlwaysBacked == Spec => []BooksKept
<1>1. Init => bondsHeld = TotalBonds
  <2> SUFFICES ASSUME Init PROVE bondsHeld = TotalBonds
    OBVIOUS
  <2> DEFINE f == [id \in Referenda |-> BondOf(referendum[id])]
  <2>1. \A id \in Referenda : f[id] = 0
    BY DEF Init, BondOf
  <2> HIDE DEF f
  <2>2. SumFunctionOnSet(f, Referenda) = 0
    BY <2>1, GovernanceAssumption, SumZero
  <2> QED
    BY <2>2 DEF Init, TotalBonds, f
<1>2. Inv /\ bondsHeld = TotalBonds /\ [Next]_vars => (bondsHeld = TotalBonds)'
  BY BondsKept
<1>3. Inv /\ bondsHeld = TotalBonds => BooksKept
  BY DEF Inv, BooksKept, BondsBacked, TotalBonds
<1> QED
  BY <1>1, <1>2, <1>3, Invariance, PTL DEF Spec

=============================================================================
