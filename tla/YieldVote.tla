----------------------------- MODULE YieldVote -----------------------------
(***************************************************************************)
(* The alumni's vote on where idle capital is to earn yield.  One tally is *)
(* kept, that of the leading AMM.                                          *)
(***************************************************************************)
EXTENDS Integers, FiniteSets

CONSTANTS Alumni, Amms, None,
          MaxWeight             \* bound of the tally

\* The time of the last vote plays no part.
YieldAllocation == [amm : Amms, total_weight : Nat]

YieldVoteAssumption == MaxWeight \in Nat /\ None \notin YieldAllocation

VARIABLES
    isAlumni, approvedAmm,
    yieldVote,          \* AlumniYieldVote
    yieldAllocation     \* YieldAllocation

vars == <<isAlumni, approvedAmm, yieldVote, yieldAllocation>>

TypeOK ==
    /\ isAlumni \in SUBSET Alumni /\ approvedAmm \in SUBSET Amms
    /\ yieldVote \in [Alumni -> Amms \cup {None}]
    /\ yieldAllocation \in YieldAllocation \cup {None}

Init ==
    /\ isAlumni = {} /\ approvedAmm = {}
    /\ yieldVote = [a \in Alumni |-> None]
    /\ yieldAllocation = None

RegisterAlumni(a) ==
    /\ isAlumni' = isAlumni \cup {a}
    /\ UNCHANGED <<approvedAmm, yieldVote, yieldAllocation>>

WhitelistAmm(m) ==
    /\ approvedAmm' = approvedAmm \cup {m}
    /\ UNCHANGED <<isAlumni, yieldVote, yieldAllocation>>

\* The reputation is raised by record_milestone_voting alone, for oracles with
\* an OracleStatus; no entry point writes that key (set_oracle_status writes
\* OracleRegistry), so the call always panics and every vote weighs the default.
Weight == 1

Overtakes == yieldAllocation.total_weight < Weight

\* A vote for the leader is added even if it is the voter's second; what other
\* AMMs got so far is kept nowhere.
NewAllocation(m) ==
    IF yieldAllocation = None THEN [amm |-> m, total_weight |-> Weight]
    ELSE IF yieldAllocation.amm = m
         THEN [yieldAllocation EXCEPT !.total_weight = @ + Weight]
    ELSE IF Overtakes THEN [amm |-> m, total_weight |-> Weight]
    ELSE yieldAllocation

AllocateYield(a, m) ==
    /\ a \in isAlumni /\ m \in approvedAmm
    /\ yieldAllocation # None => yieldAllocation.total_weight < MaxWeight
    /\ yieldVote' = [yieldVote EXCEPT ![a] = m]
    /\ yieldAllocation' = NewAllocation(m)
    /\ UNCHANGED <<isAlumni, approvedAmm>>

\* The destination that the administrator is given, None where the call panics.
RouteCapitalToAmm ==
    IF yieldAllocation = None THEN None
    ELSE IF yieldAllocation.amm \in approvedAmm THEN yieldAllocation.amm ELSE None

Next ==
    \/ \E a \in Alumni : RegisterAlumni(a)
    \/ \E m \in Amms : WhitelistAmm(m)
    \/ \E a \in Alumni, m \in Amms : AllocateYield(a, m)

Spec == Init /\ [][Next]_vars

-----------------------------------------------------------------------------
(* Properties. *)

\* The alumni whose vote on record is for m; all votes weigh the same.
Supporters(m) == {a \in Alumni : yieldVote[a] = m}

\* lib.rs:6433 "New AMM has overtaken the current leader" and 6454 "Routes idle
\* capital to the AMM that won the alumni vote", a vote on record being the
\* voter's last (6411 "overwrite previous vote"): no AMM has more votes on record
\* than the destination.  It is not so: the tally of allocate_yield knows only
\* the leader, and a vote that leaves the leader is not taken off it.
WinnerRouted ==
    LET Votes(m) == Cardinality(Supporters(m)) IN
      RouteCapitalToAmm # None =>
          \A m \in approvedAmm : Votes(m) <= Votes(RouteCapitalToAmm)

=============================================================================
