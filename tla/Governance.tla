----------------------------- MODULE Governance -----------------------------
(***************************************************************************)
(* Governance in contracts/scholar_contracts/src/lib.rs: the security      *)
(* council and its rotation, the emergency pause, and referenda, which are *)
(* voted on, queued, delayed, executed or vetoed, against a bond.          *)
(***************************************************************************)
EXTENDS Integers, FiniteSets, FiniteSetsExt

CONSTANTS
    Referenda,             \* ids, handed out in ascending order
    Voters, Councils,
    Bonds,                 \* anti-spam bonds
    Powers,                \* voting powers, which the voter states himself
    Targets, This,         \* contracts a referendum calls; this contract
    VOTING_PERIOD,         \* 7 days in the code
    EXECUTION_DELAY,       \* 72 hours in the code
    ROTATION_TIMELOCK,     \* 7 days in the code
    ROTATION_INTERVAL,     \* 365 days in the code
    None,
    StartTime,
    LastCreation,          \* bound: no referendum is created later
    LastQueue,             \* bound: no rotation is queued later
    MaxTime                \* bound: the clock stops unless a delay still runs

ASSUME GovernanceAssumption ==
    /\ IsFiniteSet(Referenda) /\ Referenda = 1..Cardinality(Referenda)
    /\ Bonds \subseteq Nat
    /\ Powers \subseteq Int
    /\ None \notin Councils
    /\ VOTING_PERIOD \in Nat /\ EXECUTION_DELAY \in Nat
    /\ ROTATION_TIMELOCK \in Nat /\ ROTATION_INTERVAL \in Nat
    /\ StartTime \in Nat \ {0}
    /\ LastCreation \in Nat /\ LastQueue \in Nat /\ MaxTime \in Nat

VARIABLES
    now,
    council,         \* DataKey::SecurityCouncil, None while there is none
    rotation,        \* DataKey::CouncilRotationTimelock
    lastRotation,    \* DataKey::LastCouncilRotation, 0 while never set
    paused,          \* DataKey::IsPaused
    referendum,      \* DataKey::Referendum, per id
    voted,           \* DataKey::ReferendumVote, the voters per id
    bondsHeld,       \* tokens paid as bonds and not returned
    \* History: no entry point reads it.
    dissolved        \* the council was dissolved since a rotation was last queued

councilVars == <<council, rotation, lastRotation, dissolved>>
referendumVars == <<referendum, voted, bondsHeld>>
vars == <<now, councilVars, paused, referendumVars>>

Rotation == [new_council : Councils, execution_time : Nat]
\* Proposer, token, function and arguments play no part.
Referendum ==
    [target_contract : Targets, end_time : Nat, yes_votes : Int, no_votes : Int,
     executed : BOOLEAN, bond_amount : Bonds, queued_at : Nat \cup {None}, vetoed : BOOLEAN]

ASSUME NoReferendum == None \notin Referendum

TypeOK ==
    /\ now \in Nat
    /\ council \in Councils \cup {None}
    /\ rotation \in Rotation \cup {None}
    /\ lastRotation \in Nat
    /\ paused \in BOOLEAN
    /\ referendum \in [Referenda -> Referendum \cup {None}]
    /\ voted \in [Referenda -> SUBSET Voters]
    /\ bondsHeld \in Nat
    /\ dissolved \in BOOLEAN

Init ==
    /\ now = StartTime
    /\ council = None
    /\ rotation = None
    /\ lastRotation = 0
    /\ paused = FALSE
    /\ referendum = [id \in Referenda |-> None]
    /\ voted = [id \in Referenda |-> {}]
    /\ bondsHeld = 0
    /\ dissolved = FALSE

-----------------------------------------------------------------------------
(* The council, its rotation and the pause. *)

\* By the administrator, at once; a rotation in the queue stays there.
SetSecurityCouncil(c) ==
    /\ council' = c
    /\ UNCHANGED <<now, rotation, lastRotation, paused, referendumVars, dissolved>>

\* Mutant of YearPassed: whatever the last rotation.
AnyTimePassed == now >= StartTime

YearPassed == lastRotation > 0 => now >= lastRotation + ROTATION_INTERVAL

\* Under the contract's own authority, which a referendum was to give; the host
\* refuses a referendum's call of the contract itself (Answers), so that only a
\* host that signs for the contract gets here.  Queueing again starts the
\* timelock anew.
QueueCouncilRotation(c) ==
    /\ now <= LastQueue
    /\ YearPassed
    /\ rotation' = [new_council |-> c, execution_time |-> now + ROTATION_TIMELOCK]
    /\ dissolved' = FALSE
    /\ UNCHANGED <<now, council, lastRotation, paused, referendumVars>>

\* By anyone.
ExecuteCouncilRotation ==
    /\ rotation # None
    /\ now >= rotation.execution_time
    /\ council' = rotation.new_council
    /\ lastRotation' = now
    /\ rotation' = None
    /\ UNCHANGED <<now, paused, referendumVars, dissolved>>

\* Under the contract's own authority.
EmergencyDissolveCouncil ==
    /\ council' = None
    /\ rotation' = None
    /\ dissolved' = TRUE
    /\ UNCHANGED <<now, lastRotation, paused, referendumVars>>

\* By the council.
TriggerEmergencyPause ==
    /\ council # None
    /\ paused' = TRUE
    /\ UNCHANGED <<now, councilVars, referendumVars>>

\* By the council; the extension of the accesses by the pause is a placeholder.
ResumeProtocol ==
    /\ council # None
    /\ paused' = FALSE
    /\ UNCHANGED <<now, councilVars, referendumVars>>

-----------------------------------------------------------------------------
(* Referenda. *)

Exists(id) == referendum[id] # None

NewReferendum(target, bond) ==
    [target_contract |-> target, end_time |-> now + VOTING_PERIOD, yes_votes |-> 0,
     no_votes |-> 0, executed |-> FALSE, bond_amount |-> bond, queued_at |-> None,
     vetoed |-> FALSE]

CreateReferendum(id, target, bond) ==
    /\ now <= LastCreation
    /\ ~Exists(id)
    /\ \A earlier \in 1..(id - 1) : Exists(earlier)
    /\ referendum' = [referendum EXCEPT ![id] = NewReferendum(target, bond)]
    /\ bondsHeld' = bondsHeld + bond
    /\ UNCHANGED <<now, councilVars, paused, voted>>

\* Mutant of VotingOpen: the last moment of the vote is the first of the queue.
VotingOpenAtEnd(r) == now <= r.end_time

VotingOpen(r) == now < r.end_time

Tallied(r, vote_yes, voting_power) ==
    IF vote_yes THEN [r EXCEPT !.yes_votes = @ + voting_power]
                ELSE [r EXCEPT !.no_votes = @ + voting_power]

VoteReferendum(voter, id, vote_yes, voting_power) ==
    /\ Exists(id)
    /\ VotingOpen(referendum[id])
    /\ voter \notin voted[id]
    /\ voted' = [voted EXCEPT ![id] = @ \cup {voter}]
    /\ referendum' = [referendum EXCEPT ![id] = Tallied(@, vote_yes, voting_power)]
    /\ UNCHANGED <<now, councilVars, paused, bondsHeld>>

Passed(r) == r.yes_votes > r.no_votes

\* Mutant of VoteOver: at the end of the vote only.
VoteJustOver(r) == now = r.end_time

VoteOver(r) == now >= r.end_time

QueueReferendum(id) ==
    /\ Exists(id)
    /\ VoteOver(referendum[id])
    /\ ~referendum[id].executed
    /\ referendum[id].queued_at = None
    /\ Passed(referendum[id])
    /\ ~referendum[id].vetoed
    /\ referendum' = [referendum EXCEPT ![id].queued_at = now]
    /\ UNCHANGED <<now, councilVars, paused, voted, bondsHeld>>

\* The host lets no contract call itself again while it runs.
Answers(target) == target # This

\* Mutant of Executed: the flag is not set.
ExecutedUnmarked(r) == r

Executed(r) == [r EXCEPT !.executed = TRUE]

DelayPassed(r) == now >= r.queued_at + EXECUTION_DELAY

\* The bond returns to its proposer; a call that fails undoes the whole step.
ExecuteReferendum(id) ==
    /\ Exists(id)
    /\ ~referendum[id].executed
    /\ ~referendum[id].vetoed
    /\ referendum[id].queued_at # None
    /\ DelayPassed(referendum[id])
    /\ bondsHeld >= referendum[id].bond_amount
    /\ Answers(referendum[id].target_contract)
    /\ referendum' = [referendum EXCEPT ![id] = Executed(@)]
    /\ bondsHeld' = bondsHeld - referendum[id].bond_amount
    /\ UNCHANGED <<now, councilVars, paused, voted>>

\* By the council; the bond stays, and votes still count.
VetoAction(id) ==
    /\ council # None
    /\ Exists(id)
    /\ ~referendum[id].executed
    /\ referendum' = [referendum EXCEPT ![id].vetoed = TRUE]
    /\ UNCHANGED <<now, councilVars, paused, voted, bondsHeld>>

\* What is queued keeps the clock running until it can be executed.
DelayRuns ==
    \E id \in Referenda :
        /\ Exists(id)
        /\ referendum[id].queued_at # None
        /\ ~DelayPassed(referendum[id])

Tick ==
    /\ now < MaxTime \/ DelayRuns
    /\ now' = now + 1
    /\ UNCHANGED <<councilVars, paused, referendumVars>>

Next ==
    \/ \E c \in Councils : SetSecurityCouncil(c) \/ QueueCouncilRotation(c)
    \/ ExecuteCouncilRotation
    \/ EmergencyDissolveCouncil
    \/ TriggerEmergencyPause
    \/ ResumeProtocol
    \/ \E id \in Referenda, t \in Targets, b \in Bonds : CreateReferendum(id, t, b)
    \/ \E v \in Voters, id \in Referenda, y \in BOOLEAN, p \in Powers :
         VoteReferendum(v, id, y, p)
    \/ \E id \in Referenda : QueueReferendum(id) \/ ExecuteReferendum(id) \/ VetoAction(id)
    \/ Tick

\* Ledgers keep closing, and what anyone may call and the proposer gets his bond
\* back by calling is called in the end.
Fairness ==
    /\ WF_vars(Tick)
    /\ \A id \in Referenda : WF_vars(QueueReferendum(id)) /\ WF_vars(ExecuteReferendum(id))

Spec == Init /\ [][Next]_vars /\ Fairness

-----------------------------------------------------------------------------
(* Properties. *)

\* What is executed had its majority when the vote was over, waited in the queue
\* for the council to see it, and was not vetoed, then or ever (vote, queue,
\* execute and veto each check a part of this at a moment of their own).
ExecutionGrounded ==
    \A id \in Referenda :
        Exists(id) /\ referendum[id].executed =>
            /\ Passed(referendum[id])
            /\ referendum[id].queued_at # None
            /\ referendum[id].queued_at >= referendum[id].end_time
            /\ now >= referendum[id].queued_at + EXECUTION_DELAY
            /\ ~referendum[id].vetoed

BondOf(r) == IF r = None \/ r.executed THEN 0 ELSE r.bond_amount

\* The contract holds the bond of every referendum not executed, and no other:
\* no bond returns twice (execute_referendum).
BondsBacked ==
    bondsHeld = SumFunctionOnSet([id \in Referenda |-> BondOf(referendum[id])], Referenda)

\* The records are well typed, and the bonds are there.
BooksKept == TypeOK /\ BondsBacked

\* A rotation takes effect at least a year and a timelock after the one before,
\* and never one that was queued before the council was dissolved
\* (queue_council_rotation, execute_council_rotation, emergency_dissolve_council).
RotationGrounded ==
    [][lastRotation' # lastRotation =>
         /\ ~dissolved
         /\ lastRotation > 0 =>
              now >= lastRotation + ROTATION_INTERVAL + ROTATION_TIMELOCK]_vars

HasPassed(id) ==
    Exists(id) /\ Passed(referendum[id]) /\ now >= referendum[id].end_time

Settled(id) == Exists(id) /\ (referendum[id].executed \/ referendum[id].vetoed)

\* A referendum that passed is executed or vetoed in the end, if the contract it
\* calls answers.
PassedIsExecuted ==
    \A id \in Referenda :
        HasPassed(id) /\ Answers(referendum[id].target_contract) ~> Settled(id)

\* What test_referendum_lifecycle expects of a referendum that calls
\* set_tax_rate of the contract itself: once passed, it is executed and the bond
\* returned, unless the council vetoes it.
LifecycleEnds ==
    \A id \in Referenda : HasPassed(id) ~> Settled(id)

=============================================================================
