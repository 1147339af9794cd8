----------------------------- MODULE Milestones -----------------------------
(***************************************************************************)
(* Milestone bounties of contracts/scholar_contracts/src/lib.rs and their  *)
(* governance in issue_batch.rs: a reserve pays each milestone of a grant  *)
(* once, after its prerequisites and, when one is bound, after the review  *)
(* of a committee; an oracle may revoke a milestone, which freezes those   *)
(* that depend on it.                                                      *)
(***************************************************************************)
EXTENDS MilestoneGraph, FiniteSetsExt

CONSTANTS
    Grants,              \* a student's grant on a course
    MilestoneIds,        \* the milestone ids callers name
    ReviewedIds,         \* bound: those that committees review
    Graphs,              \* the parent masks that administrators submit
    Committees, Members,
    Thresholds,          \* the approval thresholds that administrators set
    Amounts,             \* amounts funded and claimed, 0 included
    None,
    COMMITTEE_SLOTS,     \* 64 in the code
    COMMITTEE_REVIEW_TIMEOUT_SECS,   \* 30 days in the code
    StartTime, MaxTime,  \* the ledger clock's range
    MaxReserve           \* bound: everything funded for one grant

ASSUME MilestonesAssumption ==
    /\ MilestoneIds \subseteq Nat /\ IsFiniteSet(Members)
    /\ ReviewedIds \subseteq MilestoneIds
    /\ \A p \in Graphs : \E n \in 1..64 :
         DOMAIN p = 0..(n - 1) /\ \A i \in DOMAIN p : p[i] \subseteq 0..63
    /\ Thresholds \subseteq Nat
    /\ Amounts \subseteq Nat
    /\ COMMITTEE_SLOTS \in 1..64
    /\ COMMITTEE_REVIEW_TIMEOUT_SECS \in Nat
    /\ StartTime \in Nat \ {0}
    /\ MaxTime \in Nat
    /\ MaxReserve \in Nat
    /\ None \notin Graphs
    /\ None \notin Nat
    /\ None \notin [committee_id : Committees, approval_threshold : Thresholds]
    /\ None \notin [started_at : Nat, finalized : BOOLEAN]

VARIABLES
    now,
    access,         \* does the grant's student have access to the course?
    reserve,        \* DataKey::BountyReserve: the balance, None while never funded
    custody,        \* the tokens held for the reserves
    claimed,        \* DataKey::ClaimedMilestone, per grant
    parents,        \* DataKey::GrantMilestoneParents
    frozen,         \* DataKey::MilestoneFrozen, per grant
    committee,      \* DataKey::GrantReviewerCommittee
    memberSlot,     \* DataKey::CommitteeMember and CommitteeMemberSlot
    nextMemberIdx,  \* DataKey::CommitteeNextMemberIdx
    verified,       \* DataKey::CommitteeSep12Verified
    session,        \* DataKey::MilestoneReviewSession, per grant and milestone
    approvals,      \* DataKey::CommitteeApprovalBitmap, as the set of its bits
    \* History: no entry point reads these.
    funded, paid,   \* per grant
    claimedBefore,  \* per grant: claimed when the prerequisites were last set
    cutOff,         \* per grant: what a revocation should have shut
    signers,        \* per grant and milestone: who signed
    registered,     \* per member: how often registered, in all committees
    openedAt        \* per grant and milestone: when the first signature came

payVars == <<reserve, custody, claimed, funded, paid>>
graphVars == <<parents, frozen, claimedBefore, cutOff>>
panelVars == <<committee, memberSlot, nextMemberIdx, verified, registered>>
reviewVars == <<session, approvals, signers, openedAt>>
vars == <<now, access, payVars, graphVars, panelVars, reviewVars>>

Slots == 0..(COMMITTEE_SLOTS - 1)

MilestoneReviewCommittee == [committee_id : Committees, approval_threshold : Thresholds]
MilestoneReviewSession == [started_at : Nat, finalized : BOOLEAN]

TypeOK ==
    /\ now \in Nat
    /\ access \in [Grants -> BOOLEAN]
    /\ reserve \in [Grants -> Nat \cup {None}]
    /\ custody \in Nat
    /\ claimed \in [Grants -> SUBSET MilestoneIds]
    /\ parents \in [Grants -> Graphs \cup {None}]
    /\ frozen \in [Grants -> SUBSET Nat]
    /\ committee \in [Grants -> MilestoneReviewCommittee \cup {None}]
    /\ memberSlot \in [Committees -> [Members -> Slots \cup {None}]]
    /\ nextMemberIdx \in [Committees -> 0..COMMITTEE_SLOTS]
    /\ verified \in SUBSET Members
    /\ session \in [Grants -> [MilestoneIds -> MilestoneReviewSession \cup {None}]]
    /\ approvals \in [Grants -> [MilestoneIds -> SUBSET Slots]]
    /\ funded \in [Grants -> Nat]
    /\ paid \in [Grants -> Nat]
    /\ claimedBefore \in [Grants -> SUBSET MilestoneIds]
    /\ cutOff \in [Grants -> SUBSET Nat]
    /\ signers \in [Grants -> [MilestoneIds -> SUBSET Members]]
    /\ registered \in [Members -> Nat]
    /\ openedAt \in [Grants -> [MilestoneIds -> Nat]]

Init ==
    /\ now = StartTime
    /\ access = [g \in Grants |-> FALSE]
    /\ reserve = [g \in Grants |-> None]
    /\ custody = 0
    /\ claimed = [g \in Grants |-> {}]
    /\ parents = [g \in Grants |-> None]
    /\ frozen = [g \in Grants |-> {}]
    /\ committee = [g \in Grants |-> None]
    /\ memberSlot = [c \in Committees |-> [m \in Members |-> None]]
    /\ nextMemberIdx = [c \in Committees |-> 0]
    /\ verified = {}
    /\ session = [g \in Grants |-> [i \in MilestoneIds |-> None]]
    /\ approvals = [g \in Grants |-> [i \in MilestoneIds |-> {}]]
    /\ funded = [g \in Grants |-> 0]
    /\ paid = [g \in Grants |-> 0]
    /\ claimedBefore = [g \in Grants |-> {}]
    /\ cutOff = [g \in Grants |-> {}]
    /\ signers = [g \in Grants |-> [i \in MilestoneIds |-> {}]]
    /\ registered = [m \in Members |-> 0]
    /\ openedAt = [g \in Grants |-> [i \in MilestoneIds |-> 0]]

-----------------------------------------------------------------------------

Balance(record) == IF record = None THEN 0 ELSE record

FundBountyReserve(g, amount) ==
    /\ funded[g] + amount <= MaxReserve
    /\ reserve' = [reserve EXCEPT ![g] = Balance(@) + amount]
    /\ custody' = custody + amount
    /\ funded' = [funded EXCEPT ![g] = @ + amount]
    /\ UNCHANGED <<now, access, claimed, paid, graphVars, panelVars, reviewVars>>

ValidGraphs == {p \in Graphs : ~MilestoneGraphHasCycle(p)}

\* The administrator sets or replaces the prerequisites at any time; what was
\* claimed or frozen stays so.
InitGrantMilestoneDeps(g, p) ==
    /\ p \in ValidGraphs
    /\ parents' = [parents EXCEPT ![g] = p]
    /\ claimedBefore' = [claimedBefore EXCEPT ![g] = claimed[g]]
    /\ UNCHANGED <<now, access, payVars, frozen, cutOff, panelVars, reviewVars>>

\* Freezes the dependents under the graph in force; the revoked milestone is
\* marked with a key that nothing reads.
RevokeMilestoneParent(g, m) ==
    /\ parents[g] # None
    /\ frozen' = [frozen EXCEPT ![g] = @ \cup DescendantMask(parents[g], m)]
    /\ cutOff' = [cutOff EXCEPT ![g] = @ \cup
         IF m \in DOMAIN parents[g] THEN DependentsOf(parents[g], m) ELSE {}]
    /\ UNCHANGED <<now, access, payVars, parents, claimedBefore, panelVars, reviewVars>>

ConfigureMilestoneCommittee(g, c, threshold) ==
    /\ committee' = [committee EXCEPT ![g] =
         [committee_id |-> c, approval_threshold |-> threshold]]
    /\ UNCHANGED <<now, access, payVars, graphVars, memberSlot, nextMemberIdx, verified,
                   registered, reviewVars>>

\* Mutant of HasRoom: one member too many.
HasRoomForOneMore(c) == nextMemberIdx[c] <= COMMITTEE_SLOTS

HasRoom(c) == nextMemberIdx[c] < COMMITTEE_SLOTS

\* A member registered again gets the next slot as well.
RegisterCommitteeMember(c, m) ==
    /\ HasRoom(c)
    /\ memberSlot' = [memberSlot EXCEPT ![c][m] = nextMemberIdx[c]]
    /\ nextMemberIdx' = [nextMemberIdx EXCEPT ![c] = @ + 1]
    /\ registered' = [registered EXCEPT ![m] = @ + 1]
    /\ UNCHANGED <<now, access, payVars, graphVars, committee, verified, reviewVars>>

MarkCommitteeSep12Verified(m, is_verified) ==
    /\ verified' = IF is_verified THEN verified \cup {m} ELSE verified \ {m}
    /\ UNCHANGED <<now, access, payVars, graphVars, committee, memberSlot, nextMemberIdx,
                   registered, reviewVars>>

\* Mutant of Sufficient: one approval short.
SufficientButOne(bits, threshold) == Cardinality(bits) + 1 >= threshold

Sufficient(bits, threshold) == Cardinality(bits) >= threshold

\* Mutant of Opened: every signature opens the window anew.
OpenedAnew(s) == [started_at |-> now, finalized |-> FALSE]

\* The session a signature belongs to: the first one starts it.
Opened(s) == IF s = None THEN [started_at |-> now, finalized |-> FALSE] ELSE s

CommitteeSignMilestone(m, g, i) ==
    LET cfg == committee[g]
        slot == memberSlot[cfg.committee_id][m]
        bits == approvals[g][i] \cup {slot}
    IN  /\ cfg # None
        /\ slot # None
        /\ m \in verified
        /\ session[g][i] # None => ~session[g][i].finalized
        /\ approvals' = [approvals EXCEPT ![g][i] = bits]
        /\ session' = [session EXCEPT ![g][i] =
             [started_at |-> Opened(session[g][i]).started_at,
              finalized |-> Sufficient(bits, cfg.approval_threshold)]]
        /\ signers' = [signers EXCEPT ![g][i] = @ \cup {m}]
        /\ openedAt' = [openedAt EXCEPT ![g][i] =
             IF session[g][i] = None THEN now ELSE @]
        /\ UNCHANGED <<now, access, payVars, graphVars, panelVars>>

\* The security council finalises a session that stayed open too long; one
\* that is final already is only written again.
SudoFinalizeCommitteeReview(g, i) ==
    /\ session[g][i] # None
    /\ now >= session[g][i].started_at + COMMITTEE_REVIEW_TIMEOUT_SECS
    /\ session' = [session EXCEPT ![g][i].finalized = TRUE]
    /\ UNCHANGED <<now, access, payVars, graphVars, panelVars, approvals, signers, openedAt>>

\* Mutant of PrereqsSatisfied: one claimed parent is enough.
SomePrereqSatisfied(g, i) ==
    /\ i \in DOMAIN parents[g]
    /\ parents[g][i] = {} \/ parents[g][i] \cap claimed[g] # {}

PrereqsSatisfied(g, i) ==
    /\ i \in DOMAIN parents[g]
    /\ parents[g][i] \cap DOMAIN parents[g] \subseteq claimed[g]

\* Mutant of Remaining: the reserve is only reduced by what exceeds it.
UnreducedReserve(balance, amount) == balance

Remaining(balance, amount) == balance - amount

\* What verify_advisor_signature and the claim tell apart: nothing, something, and
\* a signature of the length that is asked for when no committee is bound.
Signatures == {"empty", "other", "advisor"}

\* The student names the amount; a claim of nothing uses the milestone up as well.
ClaimMilestoneBounty(g, i, amount, signature) ==
    /\ signature # "empty"
    /\ access[g]
    /\ i \notin frozen[g]
    /\ parents[g] # None => PrereqsSatisfied(g, i)
    /\ i \notin claimed[g]
    /\ reserve[g] # None /\ amount <= reserve[g]
    /\ IF committee[g] # None
       THEN session[g][i] # None /\ session[g][i].finalized
       ELSE signature = "advisor"
    /\ amount <= custody
    /\ reserve' = [reserve EXCEPT ![g] = Remaining(@, amount)]
    /\ custody' = custody - amount
    /\ claimed' = [claimed EXCEPT ![g] = @ \cup {i}]
    /\ paid' = [paid EXCEPT ![g] = @ + amount]
    /\ UNCHANGED <<now, access, funded, graphVars, panelVars, reviewVars>>

\* Access runs out, is bought, or is vetoed.
AccessChanges(g) ==
    /\ access' = [access EXCEPT ![g] = ~@]
    /\ UNCHANGED <<now, payVars, graphVars, panelVars, reviewVars>>

Tick ==
    /\ now < MaxTime
    /\ now' = now + 1
    /\ UNCHANGED <<access, payVars, graphVars, panelVars, reviewVars>>

Next ==
    \/ \E g \in Grants, a \in Amounts : FundBountyReserve(g, a)
    \/ \E g \in Grants, p \in Graphs : InitGrantMilestoneDeps(g, p)
    \/ \E g \in Grants, m \in MilestoneIds : RevokeMilestoneParent(g, m)
    \/ \E g \in Grants, c \in Committees, t \in Thresholds :
         ConfigureMilestoneCommittee(g, c, t)
    \/ \E c \in Committees, m \in Members : RegisterCommitteeMember(c, m)
    \/ \E m \in Members, v \in BOOLEAN : MarkCommitteeSep12Verified(m, v)
    \/ \E m \in Members, g \in Grants, i \in ReviewedIds : CommitteeSignMilestone(m, g, i)
    \/ \E g \in Grants, i \in ReviewedIds : SudoFinalizeCommitteeReview(g, i)
    \/ \E g \in Grants, i \in MilestoneIds, a \in Amounts, signature \in Signatures :
         ClaimMilestoneBounty(g, i, a, signature)
    \/ \E g \in Grants : AccessChanges(g)
    \/ Tick

Spec == Init /\ [][Next]_vars

-----------------------------------------------------------------------------
(* Properties. *)

\* The graph in force can be worked through: no set of milestones waits for
\* itself and none waits for a milestone that does not exist
\* (milestone_graph_has_cycle accepts nothing else).
GraphOrderable ==
    \A g \in Grants : parents[g] # None => Orderable(parents[g])

\* What is claimed under a graph has its prerequisites claimed, in whatever
\* order claims, reviews, revocations, fundings and new graphs come.
PrerequisitesKept ==
    \A g \in Grants : parents[g] # None =>
        \A i \in claimed[g] \ claimedBefore[g] :
            i \in DOMAIN parents[g] /\ parents[g][i] \cap DOMAIN parents[g] \subseteq claimed[g]

\* Once a milestone is revoked, whatever depended on it then, directly or not,
\* is never paid any more, even under a graph set later.
CutOffStaysShut ==
    [][\A g \in Grants : (claimed'[g] \ claimed[g]) \cap cutOff[g] = {}]_vars

\* Every unit of a reserve is still there or was paid (claim_milestone_bounty
\* reduces the reserve by what it transfers), and nothing is paid where nobody
\* funded, not even a claim of nothing.
ReserveConserved ==
    \A g \in Grants :
        /\ funded[g] = Balance(reserve[g]) + paid[g]
        /\ reserve[g] = None => claimed[g] = {}

Finalized(g, i) == session[g][i] # None /\ session[g][i].finalized

\* A review ends with the approvals of enough members, each counted as often
\* as it was registered, or by the council after the full time since the first
\* signature - whatever committee, threshold, member or slot changed meanwhile.
\* With members registered once, these are that many distinct members.
ReviewGrounded ==
    [][\A g \in Grants, i \in MilestoneIds : Finalized(g, i)' /\ ~Finalized(g, i) =>
         \/ committee[g].approval_threshold
               <= SumFunctionOnSet(registered, signers'[g][i])
         \/ now >= openedAt'[g][i] + COMMITTEE_REVIEW_TIMEOUT_SECS]_vars

\* Later signatures do not postpone the moment from which the council may end
\* the review (committee_sign_milestone keeps the first started_at).
ReviewWindowFixed ==
    \A g \in Grants, i \in MilestoneIds :
        session[g][i] # None => session[g][i].started_at = openedAt[g][i]

=============================================================================
