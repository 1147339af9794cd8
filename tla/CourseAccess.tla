---------------------------- MODULE CourseAccess ----------------------------
(***************************************************************************)
(* Time-limited access to courses in contracts/scholar_contracts/src/      *)
(* lib.rs: purchases and subscriptions, heartbeats that count watch time,  *)
(* proofs of attendance per checkpoint, and disciplinary slashes, which    *)
(* rewrite the access and book a refund.                                   *)
(***************************************************************************)
EXTENDS Integers

CONSTANTS
    Students, Courses,
    Payments,              \* what purchases and subscriptions pay, 0 included
    Intervals,             \* checkpoint intervals administrators set, 0 included
    BaseRate, DiscountThreshold, DiscountPercentage, MinDeposit,
    SUBSCRIPTION,          \* 30 days in the code
    MINOR_PAUSE,           \* 30 days in the code
    PAYLOAD_AGE,           \* 24 hours in the code
    CLOCK_TOLERANCE,       \* 5 minutes in the code
    HALT_FOREVER,          \* u64::MAX, the greatest time
    None,
    StartTime, MaxTime,    \* the ledger clock's range
    MaxCustody, MaxRefund  \* bounds: what is paid in, what is booked to refund

ASSUME CourseAccessAssumption ==
    /\ Payments \subseteq Nat
    /\ Intervals \subseteq Nat
    /\ BaseRate \in Nat \ {0}
    /\ DiscountThreshold \in Nat
    /\ DiscountPercentage \in 0..100
    /\ MinDeposit \in Nat
    /\ SUBSCRIPTION \in Nat /\ MINOR_PAUSE \in Nat
    /\ PAYLOAD_AGE \in Nat /\ CLOCK_TOLERANCE \in Nat
    /\ StartTime \in Nat \ {0}
    /\ MaxTime \in Nat /\ StartTime <= MaxTime
    /\ HALT_FOREVER \in Nat /\ HALT_FOREVER > MaxTime + MINOR_PAUSE
    /\ HALT_FOREVER >= MaxTime + SUBSCRIPTION
    /\ MaxCustody \in Nat /\ MaxRefund \in Nat

VARIABLES
    now,
    access,          \* DataKey::Access, per student and course
    subscription,    \* DataKey::Subscription, per student
    bonus,           \* DataKey::ReputationBonus, the set of students with it
    shutOut,         \* students whom has_access rejects (reconcile_balances)
    interval,        \* DataKey::PoAConfig: the interval, None while inactive
    checkpoint,      \* DataKey::AttendanceCheckpoint, per checkpoint number
    poa,             \* DataKey::StudentPoAState
    oracle,          \* DataKey::UniversityOracle is set
    slashed,         \* DataKey::SlashedStudent
    pendingRefund,   \* DataKey::PendingRefund of the administrator
    custody,         \* the tokens paid in and not refunded
    \* History: no entry point reads it.
    firstBeat        \* per student and course: the first heartbeat, 0 before

poaVars == <<interval, checkpoint>>
refundVars == <<slashed, pendingRefund>>
vars == <<now, access, subscription, bonus, shutOut, poaVars, poa, oracle, refundVars,
          custody, firstBeat>>

Access == [expiry_time : Nat, total_watch_time : Nat, last_heartbeat : Nat]
SubscriptionTier == [expiry_time : Nat, course_ids : SUBSET Courses]
AttendanceCheckpoint == [epoch_start : Nat, epoch_end : Nat]
\* The fields missed_checkpoints and grace_period_end are only ever set to 0.
StudentPoAState ==
    [current_state : {"Compliant", "Halted"}, last_checkpoint_submitted : Nat,
     stream_halted_until : Nat]
SlashedStudent ==
    [violation_type : {"Minor", "Major"}, slashed_at : Nat, stream_halted_until : Nat,
     refunded_amount : Nat]

ASSUME NoneAssumption ==
    /\ None \notin Access
    /\ None \notin StudentPoAState
    /\ None \notin Nat

TypeOK ==
    /\ now \in Nat
    /\ access \in [Students -> [Courses -> Access \cup {None}]]
    /\ subscription \in [Students -> SubscriptionTier \cup {None}]
    /\ bonus \in SUBSET Students
    /\ shutOut \in SUBSET Students
    /\ interval \in Intervals \cup {None}
    /\ checkpoint \in [0..MaxTime -> AttendanceCheckpoint \cup {None}]
    /\ poa \in [Students -> [Courses -> StudentPoAState \cup {None}]]
    /\ oracle \in BOOLEAN
    /\ slashed \in [Students -> [Courses -> SlashedStudent \cup {None}]]
    /\ pendingRefund \in Nat
    /\ custody \in Nat
    /\ firstBeat \in [Students -> [Courses -> Nat]]

Init ==
    /\ now = StartTime
    /\ access = [s \in Students |-> [c \in Courses |-> None]]
    /\ subscription = [s \in Students |-> None]
    /\ bonus = {}
    /\ shutOut = {}
    /\ interval = None
    /\ checkpoint = [k \in 0..MaxTime |-> None]
    /\ poa = [s \in Students |-> [c \in Courses |-> None]]
    /\ oracle = FALSE
    /\ slashed = [s \in Students |-> [c \in Courses |-> None]]
    /\ pendingRefund = 0
    /\ custody = 0
    /\ firstBeat = [s \in Students |-> [c \in Courses |-> 0]]

-----------------------------------------------------------------------------
(* Access. *)

NoAccessYet == [expiry_time |-> 0, total_watch_time |-> 0, last_heartbeat |-> 0]

AccessOf(s, c) == IF access[s][c] = None THEN NoAccessYet ELSE access[s][c]

HasActiveSubscription(s, c) ==
    /\ subscription[s] # None
    /\ now < subscription[s].expiry_time
    /\ c \in subscription[s].course_ids

\* No entry point writes the vetoes that has_access reads as well.
HasAccess(s, c) ==
    /\ s \notin shutOut
    /\ \/ HasActiveSubscription(s, c)
       \/ access[s][c] # None /\ now < access[s][c].expiry_time

\* No entry point writes the GPA multiplier where the rate reads it.
DynamicRate(s, c) ==
    LET rate == IF s \in bonus THEN (BaseRate * 98) \div 100 ELSE BaseRate
    IN  IF AccessOf(s, c).total_watch_time >= DiscountThreshold
        THEN rate - (rate * DiscountPercentage) \div 100 ELSE rate

\* The quotient is an i128, of which the conversion to u64 keeps the low half.
SecondsBought(payment) == (payment \div BaseRate) % (HALT_FOREVER + 1)

\* Paid time is added to what is left, up to the end of time.
BoughtUntil(expiry_time, payment) ==
    LET sum == (IF expiry_time > now THEN expiry_time ELSE now) + SecondsBought(payment)
    IN  IF sum <= HALT_FOREVER THEN sum ELSE HALT_FOREVER

BuyAccess(s, c, payment) ==
    /\ payment >= MinDeposit
    /\ custody + payment <= MaxCustody
    /\ access' = [access EXCEPT ![s][c] =
         [AccessOf(s, c) EXCEPT !.expiry_time = BoughtUntil(@, payment)]]
    /\ custody' = custody + payment
    /\ UNCHANGED <<now, subscription, bonus, shutOut, poaVars, poa, oracle, refundVars, firstBeat>>

\* A subscription replaces the one before, whatever was left of it.  Its price
\* is the subscriber's choice: the transfer of any amount, of 0 too, is enough.
BuySubscription(s, courses, payment) ==
    /\ custody + payment <= MaxCustody
    /\ subscription' = [subscription EXCEPT ![s] =
         [expiry_time |-> now + SUBSCRIPTION, course_ids |-> courses]]
    /\ custody' = custody + payment
    /\ UNCHANGED <<now, access, bonus, shutOut, poaVars, poa, oracle, refundVars, firstBeat>>

SetReputationBonus(s, has_bonus) ==
    /\ bonus' = IF has_bonus THEN bonus \cup {s} ELSE bonus \ {s}
    /\ UNCHANGED <<now, access, subscription, shutOut, poaVars, poa, oracle, refundVars, custody,
                   firstBeat>>

\* reconcile_balances terminates or disputes a student; nothing undoes it.
ShutOut(s) ==
    /\ shutOut' = shutOut \cup {s}
    /\ UNCHANGED <<now, access, subscription, bonus, poaVars, poa, oracle, refundVars, custody,
                   firstBeat>>

Watched(a) == a.total_watch_time + (now - a.last_heartbeat)

\* Mutant of Beaten: the last heartbeat stays.
CountedOnly(a) ==
    [a EXCEPT !.total_watch_time =
        IF now < a.expiry_time /\ a.last_heartbeat > 0 THEN Watched(a) ELSE @,
      !.last_heartbeat = IF @ = 0 THEN now ELSE @]

\* The time since the last heartbeat counts if the access lasts now, even if it
\* had lapsed in between.
Beaten(a) ==
    [a EXCEPT !.total_watch_time =
        IF now < a.expiry_time /\ a.last_heartbeat > 0 THEN Watched(a) ELSE @,
      !.last_heartbeat = now]

\* While a halt lasts a heartbeat returns without effect.  It creates the
\* record of a student who has none.
Heartbeat(s, c) ==
    /\ poa[s][c] # None => now >= poa[s][c].stream_halted_until
    /\ access' = [access EXCEPT ![s][c] = Beaten(AccessOf(s, c))]
    /\ firstBeat' = [firstBeat EXCEPT ![s][c] = IF @ = 0 THEN now ELSE @]
    /\ UNCHANGED <<now, subscription, bonus, shutOut, poaVars, poa, oracle, refundVars, custody>>

-----------------------------------------------------------------------------
(* Proofs of attendance. *)

\* Checkpoints that exist keep the bounds of the interval they were made with.
InitPoAConfig(i) ==
    /\ interval' = i
    /\ UNCHANGED <<now, access, subscription, bonus, shutOut, checkpoint, poa, oracle, refundVars,
                   custody, firstBeat>>

CurrentCheckpoint == IF interval = 0 THEN 0 ELSE now \div interval

GetOrCreateCheckpoint(k) ==
    IF checkpoint[k] # None THEN checkpoint[k]
    ELSE [epoch_start |-> k * interval, epoch_end |-> k * interval + interval]

\* Mutant of Attended: the record is made anew, a halt included.
AttendedAnew(p, k) ==
    [current_state |-> "Compliant", last_checkpoint_submitted |-> k, stream_halted_until |-> 0]

\* The checkpoint submitted is the current one, so that the code's branch for
\* late submissions is never taken.
Attended(p, k) ==
    [current_state |-> "Compliant", last_checkpoint_submitted |-> k,
     stream_halted_until |-> IF p = None THEN 0 ELSE p.stream_halted_until]

\* timestamp: the proofs' own, all within the epoch.
SubmitAttendanceProof(s, c, timestamp) ==
    /\ interval # None
    /\ HasAccess(s, c)
    /\ LET k == CurrentCheckpoint
           epoch == GetOrCreateCheckpoint(k)
       IN  /\ timestamp \in epoch.epoch_start..epoch.epoch_end
           /\ checkpoint' = [checkpoint EXCEPT ![k] = epoch]
           /\ poa' = [poa EXCEPT ![s][c] = Attended(@, k)]
    /\ UNCHANGED <<now, access, subscription, bonus, shutOut, interval, oracle, refundVars, custody,
                   firstBeat>>

-----------------------------------------------------------------------------
(* Slashes and refunds. *)

InitUniversityOracle ==
    /\ oracle' = TRUE
    /\ UNCHANGED <<now, access, subscription, bonus, shutOut, poaVars, poa, refundVars, custody,
                   firstBeat>>

\* The caller's signature stands for all the oracle's members.
OracleAuthorized == oracle

Fresh(timestamp) ==
    /\ now <= timestamp + PAYLOAD_AGE
    /\ timestamp <= now + CLOCK_TOLERANCE

Unvested(s, c) ==
    IF now >= access[s][c].expiry_time THEN 0
    ELSE (access[s][c].expiry_time - now) * DynamicRate(s, c)

\* Mutant of WorthSlashing: nothing left is enough.
AnythingLeft(amount) == amount >= 0

WorthSlashing(amount) == amount > 0

HaltUntil(violation) == IF violation = "Minor" THEN now + MINOR_PAUSE ELSE HALT_FOREVER

\* For a minor violation the access then ends with the halt.
HaltedExpiry(until) == IF until = HALT_FOREVER THEN 0 ELSE until

Halted(p, until) ==
    [current_state |-> "Halted",
     last_checkpoint_submitted |-> IF p = None THEN 0 ELSE p.last_checkpoint_submitted,
     stream_halted_until |-> until]

\* Booked for the original donor, who is the administrator, always.
ExecuteRefundToDonor(amount) ==
    /\ pendingRefund + amount <= MaxRefund
    /\ pendingRefund' = pendingRefund + amount

TriggerDisciplinarySlash(s, c, violation, timestamp) ==
    LET amount == Unvested(s, c)
        until == HaltUntil(violation)
    IN  /\ OracleAuthorized
        /\ Fresh(timestamp)
        /\ access[s][c] # None
        /\ WorthSlashing(amount)
        /\ ExecuteRefundToDonor(amount)
        /\ access' = [access EXCEPT ![s][c].expiry_time = HaltedExpiry(until)]
        /\ poa' = [poa EXCEPT ![s][c] = Halted(@, until)]
        /\ slashed' = [slashed EXCEPT ![s][c] =
             [violation_type |-> violation, slashed_at |-> now,
              stream_halted_until |-> until, refunded_amount |-> amount]]
        /\ UNCHANGED <<now, subscription, bonus, shutOut, poaVars, oracle, custody, firstBeat>>

\* All or nothing: the transfer fails while the tokens do not cover the refund.
ClaimPendingRefund ==
    /\ pendingRefund > 0
    /\ pendingRefund <= custody
    /\ pendingRefund' = 0
    /\ custody' = custody - pendingRefund
    /\ UNCHANGED <<now, access, subscription, bonus, shutOut, poaVars, poa, oracle, slashed,
                   firstBeat>>

Tick ==
    /\ now < MaxTime
    /\ now' = now + 1
    /\ UNCHANGED <<access, subscription, bonus, shutOut, poaVars, poa, oracle, refundVars, custody,
                   firstBeat>>

Next ==
    \/ \E s \in Students, c \in Courses, p \in Payments : BuyAccess(s, c, p)
    \/ \E s \in Students, cs \in SUBSET Courses, p \in Payments : BuySubscription(s, cs, p)
    \/ \E s \in Students, b \in BOOLEAN : SetReputationBonus(s, b)
    \/ \E s \in Students : ShutOut(s)
    \/ \E s \in Students, c \in Courses : Heartbeat(s, c)
    \/ \E i \in Intervals : InitPoAConfig(i)
    \/ \E s \in Students, c \in Courses, t \in 0..MaxTime : SubmitAttendanceProof(s, c, t)
    \/ InitUniversityOracle
    \/ \E s \in Students, c \in Courses, v \in {"Minor", "Major"}, t \in 0..MaxTime :
         TriggerDisciplinarySlash(s, c, v, t)
    \/ ClaimPendingRefund
    \/ Tick

Spec == Init /\ [][Next]_vars

-----------------------------------------------------------------------------
(* Properties. *)

\* No time is counted twice: the watch time fits between the first and the last
\* heartbeat, across lapses, purchases and slashes (heartbeat).
WatchTimeElapsed ==
    \A s \in Students, c \in Courses :
        firstBeat[s][c] # 0 =>
            /\ access[s][c] # None
            /\ access[s][c].total_watch_time <= access[s][c].last_heartbeat - firstBeat[s][c]

\* The slash on record is the halt in force: attendance proofs, purchases and
\* new configurations do not lift it (halt_student_stream and
\* update_student_poa_state write the same record).
HaltAgrees ==
    \A s \in Students, c \in Courses :
        slashed[s][c] # None =>
            /\ poa[s][c] # None
            /\ poa[s][c].stream_halted_until = slashed[s][c].stream_halted_until

Times == INSTANCE ExpiryMath WITH U64_MAX <- HALT_FOREVER, MONTH_IN_SECONDS <- SUBSCRIPTION

\* The crate's functions mirror the contract: for every access on record, and at
\* the end of time, checked_access_expiry is the expiry that buy_access sets,
\* which stays at the greatest time where the crate reports an overflow, and
\* checked_subscription_expiry of a month that of buy_subscription.
ExpiryMirrors ==
    /\ \A s \in Students, c \in Courses, p \in Payments :
         \A e \in {AccessOf(s, c).expiry_time, HALT_FOREVER - 1, HALT_FOREVER} :
            LET checked == Times!CheckedAccessExpiry(now, e, SecondsBought(p))
            IN  BoughtUntil(e, p) = IF checked = None THEN HALT_FOREVER ELSE checked
    /\ \A s \in Students : subscription[s] # None =>
         \E bought \in StartTime..now :
            subscription[s].expiry_time = Times!CheckedSubscriptionExpiry(bought, 1)

\* The records are well typed, and the crate's arithmetic is the contract's.
RecordsKept == TypeOK /\ ExpiryMirrors

\* Nobody gains access but by his own purchase of time or subscription to the
\* course: no slash, heartbeat, proof, refund or other student's purchase opens
\* a course that was closed.  What he pays for a purchase is at least a second's
\* price; a subscription may be had for nothing (buy_subscription).
AccessIsBought ==
    [][\A s \in Students, c \in Courses :
         HasAccess(s, c)' /\ ~HasAccess(s, c) =>
            \/ custody' >= custody + BaseRate /\ \E p \in Payments : BuyAccess(s, c, p)
            \/ \E cs \in SUBSET Courses, p \in Payments :
                  c \in cs /\ BuySubscription(s, cs, p)]_vars

=============================================================================
