-------------------------- MODULE SponsorClawback --------------------------
(***************************************************************************)
(* The sponsor's clawback conditions of contracts/scholar_contracts/src/   *)
(* lib.rs, composed with the escrow whose balances they reduce: a sponsor  *)
(* registers a condition, anyone may have it checked, and once it has been *)
(* found met the sponsor may execute it within a window.                   *)
(***************************************************************************)
EXTENDS Scholarship

CONSTANTS
    TriggerTypes,                \* those in use, of ClawbackTriggerType
    Percentages,                 \* the percentages sponsors ask for
    TIME_THRESHOLD,              \* threshold_value of a TimeElapsed condition, in seconds
    DEFAULT_CLAWBACK_COOLDOWN,   \* 30 days in the code
    CLAWBACK_EXECUTION_TIMEOUT   \* 7 days in the code

ClawbackTriggerType ==
    {"GpaThreshold", "CourseCompletion", "TimeElapsed", "ActivityInactive",
     "CombinedConditions"}

MAX_CLAWBACK_PERCENTAGE == 100

\* A ledger's clock starts decades after the epoch: a condition that was never
\* executed (last_clawback_time = 0) is not in its cooldown.
ASSUME ClawbackAssumption ==
    /\ TriggerTypes \subseteq ClawbackTriggerType
    /\ Percentages \subseteq Nat
    /\ TIME_THRESHOLD \in Nat
    /\ DEFAULT_CLAWBACK_COOLDOWN \in Nat
    /\ CLAWBACK_EXECUTION_TIMEOUT \in Nat
    /\ StartTime >= DEFAULT_CLAWBACK_COOLDOWN

VARIABLES
    condition,     \* DataKey::ClawbackCondition, per sponsor, student and timestamp
    clawbackLog,   \* DataKey::ClawbackEventLog, per sponsor, student and timestamp
    standing,      \* per student, the trigger types whose test the student fails now
    lastFailed     \* history: per student and type, when a failed test was last passed

clawVars == <<condition, clawbackLog, standing, lastFailed>>
clawbackVars == <<coreVars, clawVars>>

Keys == Funders \X Students \X (StartTime..MaxTime)

ClawbackCondition ==
    [trigger_type : TriggerTypes, clawback_percentage : 0..MAX_CLAWBACK_PERCENTAGE,
     triggered_at : Nat \cup {None}, executed_at : Nat \cup {None},
     is_active : BOOLEAN, last_clawback_time : Nat]

ClawbackEvent ==
    [amount_clawed_back : Nat, triggered_at : Nat, executed_at : Nat]

ASSUME NoConditionAssumption ==
    /\ None \notin ClawbackCondition
    /\ None \notin ClawbackEvent
    /\ None \notin Nat

ClawbackTypeOK ==
    /\ TypeOK
    /\ condition \in [Keys -> ClawbackCondition \cup {None}]
    /\ clawbackLog \in [Keys -> ClawbackEvent \cup {None}]
    /\ standing \in [Students -> SUBSET (TriggerTypes \ {"TimeElapsed"})]
    /\ lastFailed \in [Students -> [TriggerTypes -> Nat \cup {None}]]

ClawbackInit ==
    /\ CoreInit
    /\ condition = [k \in Keys |-> None]
    /\ clawbackLog = [k \in Keys |-> None]
    /\ standing = [s \in Students |-> {}]
    /\ lastFailed = [s \in Students |-> [type \in TriggerTypes |-> None]]

-----------------------------------------------------------------------------

NewCondition(type, percentage) ==
    [trigger_type |-> type, clawback_percentage |-> percentage,
     triggered_at |-> None, executed_at |-> None,
     is_active |-> TRUE, last_clawback_time |-> 0]

\* Elapsed time is counted from an earlier trigger; the other tests read the
\* student's GPA and profile.
ConditionMet(k, c) ==
    IF c.trigger_type = "TimeElapsed"
    THEN c.triggered_at # None /\ now >= c.triggered_at + TIME_THRESHOLD
    ELSE c.trigger_type \in standing[k[2]]

ClawbackAmount(sc, c) == (sc.balance * c.clawback_percentage) \div 100

\* Mutant of ClawedBack: whatever is left is locked as well.
ClawedBackAndLocked(sc, amount) ==
    [sc EXCEPT !.balance = @ - amount, !.unlocked_balance = 0]

\* Mutant of ClawedBack: only the unlocked part is reduced.
ClawedBackUnlocked(sc, amount) ==
    [sc EXCEPT !.unlocked_balance = IF @ > amount THEN @ - amount ELSE 0]

ClawedBack(sc, amount) ==
    [sc EXCEPT !.balance = @ - amount,
               !.unlocked_balance = IF @ > amount THEN @ - amount ELSE 0]

\* A second registration in the same ledger replaces the first.
RegisterClawbackCondition(f, s, type, percentage) ==
    /\ percentage <= MAX_CLAWBACK_PERCENTAGE
    /\ scholarship[s] # None /\ scholarship[s].funder = f
    /\ condition' = [condition EXCEPT ![<<f, s, now>>] = NewCondition(type, percentage)]
    /\ UNCHANGED <<coreVars, clawbackLog, standing, lastFailed>>

\* Mutant of Triggered: a new trigger forgets the execution.
TriggeredAfresh(c) == [c EXCEPT !.triggered_at = now, !.executed_at = None]

Triggered(c) == [c EXCEPT !.triggered_at = now]

\* When the condition is inactive, cooling down or not met the call returns
\* false and changes nothing.
CheckAndTriggerClawback(k) ==
    /\ condition[k] # None
    /\ condition[k].is_active
    /\ now >= condition[k].last_clawback_time + DEFAULT_CLAWBACK_COOLDOWN
    /\ ConditionMet(k, condition[k])
    /\ condition' = [condition EXCEPT ![k] = Triggered(condition[k])]
    /\ UNCHANGED <<coreVars, clawbackLog, standing, lastFailed>>

\* Mutant of WithinWindow: once triggered, always executable.
WithinAnyWindow(c) == TRUE

WithinWindow(c) == now <= c.triggered_at + CLAWBACK_EXECUTION_TIMEOUT

Executed(c) == [c EXCEPT !.executed_at = now, !.last_clawback_time = now]

\* What was true at the trigger is not checked again.
ExecuteClawback(k) ==
    LET f == k[1]
        s == k[2]
        c == condition[k]
        sc == scholarship[s]
        amount == ClawbackAmount(sc, c)
    IN  /\ c # None
        /\ c.is_active
        /\ c.triggered_at # None
        /\ WithinWindow(c)
        /\ c.executed_at = None
        /\ sc # None /\ sc.funder = f
        /\ amount > 0
        /\ amount <= custody[sc.token]
        /\ scholarship' = [scholarship EXCEPT ![s] = ClawedBack(sc, amount)]
        /\ condition' = [condition EXCEPT ![k] = Executed(c)]
        /\ clawbackLog' = [clawbackLog EXCEPT ![<<f, s, now>>] =
             [amount_clawed_back |-> amount,
              triggered_at |-> c.triggered_at, executed_at |-> now]]
        /\ custody' = [custody EXCEPT ![sc.token] = @ - amount]
        /\ reduced' = [reduced EXCEPT ![s] = @ + amount]
        /\ UNCHANGED <<now, vote, graduates, taxRate, feesAccrued, withdrawn, released,
                       tuitionHeld, holdVars, standing, lastFailed>>

RevokeClawbackCondition(k) ==
    /\ condition[k] # None
    /\ condition[k].is_active
    /\ condition[k].executed_at = None
    /\ condition' = [condition EXCEPT ![k] = [condition[k] EXCEPT !.is_active = FALSE]]
    /\ UNCHANGED <<coreVars, clawbackLog, standing, lastFailed>>

\* Oracles and the student's own activity move GPA, courses and last activity
\* across the thresholds, either way.
StandingChanges(s, failing) ==
    /\ failing # standing[s]
    /\ standing' = [standing EXCEPT ![s] = failing]
    /\ lastFailed' = [lastFailed EXCEPT ![s] =
         [type \in TriggerTypes |->
            IF type \in standing[s] \ failing THEN now ELSE lastFailed[s][type]]]
    /\ UNCHANGED <<coreVars, condition, clawbackLog>>

SponsorNext ==
    \/ \E f \in Funders, s \in Students, type \in TriggerTypes, p \in Percentages :
         RegisterClawbackCondition(f, s, type, p)
    \/ \E k \in Keys : CheckAndTriggerClawback(k)
    \/ \E k \in Keys : ExecuteClawback(k)
    \/ \E k \in Keys : RevokeClawbackCondition(k)
    \/ \E s \in Students, failing \in SUBSET (TriggerTypes \ {"TimeElapsed"}) :
         StandingChanges(s, failing)

ClawbackNext == SponsorNext \/ (CoreNext /\ UNCHANGED clawVars)

ClawbackSpec == ClawbackInit /\ [][ClawbackNext]_clawbackVars

-----------------------------------------------------------------------------
(* Properties. *)

\* A condition takes money once: its execution stays on record, and the only
\* way back is a fresh registration in the ledger of the first one, whose key
\* is the timestamp (register_clawback_condition, execute_clawback).
ExecutedIsFinal ==
    [][\A k \in Keys :
         /\ condition[k] # None
         /\ condition[k].executed_at # None
         => \/ condition'[k].executed_at = condition[k].executed_at
            \/ k[3] = now]_clawbackVars

\* Money goes back to the sponsor only on a condition whose test the student
\* fails now or failed within the execution window, whatever happened to GPA
\* and profile between registration, trigger and execution.
ClawbackGrounded ==
    [][\A s \in Students : reduced'[s] > reduced[s] =>
         \E k \in Keys :
            /\ k[2] = s /\ condition[k] # None
            /\ condition[k].executed_at # condition'[k].executed_at
            /\ LET type == condition[k].trigger_type IN
                 \/ type \in standing[s]
                 \/ /\ lastFailed[s][type] # None
                    /\ now - lastFailed[s][type] <= CLAWBACK_EXECUTION_TIMEOUT
       ]_clawbackVars

\* The escrow's books through registrations, triggers and executions: what a
\* clawback takes from the balance leaves the custody and the unlocked part with
\* it (execute_clawback 3511), so that the token balance still is what students,
\* fees and universities are owed.
BooksKept == ClawbackTypeOK /\ UnlockedCoversBalance /\ CustodyAccounted

=============================================================================
