---------------------------- MODULE AccessProofs ----------------------------
(***************************************************************************)
(* Theorems about CourseAccess, for any students, courses, prices and      *)
(* periods: records are well typed, no watch time counts twice, the halt   *)
(* in force is the slash on record, and access opens by purchase alone.    *)
(***************************************************************************)
EXTENDS CourseAccess, TLAPS

\* Heartbeats of a record: between the first one and now, and watch time fits.
BeatsKept(a, first, time) ==
    IF first = 0
    THEN a.total_watch_time = 0 /\ a.last_heartbeat = 0
    ELSE /\ first <= a.last_heartbeat /\ a.last_heartbeat <= time
         /\ a.total_watch_time <= a.last_heartbeat - first

WatchKept ==
    \A s \in Students, c \in Courses :
        /\ access[s][c] = None => firstBeat[s][c] = 0
        /\ BeatsKept(AccessOf(s, c), firstBeat[s][c], now)

Inv == TypeOK /\ now > 0 /\ WatchKept /\ HaltAgrees

-----------------------------------------------------------------------------
(* Arithmetic and records. *)

\* A percentage of a natural number is a natural number not above it.
LEMMA PercentBound ==
    ASSUME NEW n \in Nat, NEW p \in 0..100
    PROVE  (n * p) \div 100 \in Nat /\ (n * p) \div 100 <= n
<1>1. n * p \in Nat /\ n * 100 \in Nat
  OBVIOUS
<1>2. n * p <= n * 100
  OBVIOUS
<1> QED
  BY <1>1, <1>2

\* The access that a student has or would be given is a record.
LEMMA AccessIsRecord ==
    ASSUME Inv, NEW s \in Students, NEW c \in Courses
    PROVE  /\ AccessOf(s, c) \in Access
           /\ access[s][c] # None => AccessOf(s, c) = access[s][c]
<1>1. NoAccessYet \in Access
  BY DEF NoAccessYet, Access
<1> QED
  BY <1>1 DEF Inv, TypeOK, AccessOf

\* Rates are natural numbers.
LEMMA RateNat ==
    ASSUME Inv, NEW s \in Students, NEW c \in Courses
    PROVE  DynamicRate(s, c) \in Nat
<1> DEFINE rate == IF s \in bonus THEN (BaseRate * 98) \div 100 ELSE BaseRate
<1>1. rate \in Nat
  BY CourseAccessAssumption, PercentBound
<1> HIDE DEF rate
<1>2. (rate * DiscountPercentage) \div 100 \in Nat /\ (rate * DiscountPercentage) \div 100 <= rate
  BY <1>1, CourseAccessAssumption, PercentBound
<1>3. rate - (rate * DiscountPercentage) \div 100 \in Nat
  BY <1>1, <1>2
<1>4. DynamicRate(s, c) = rate
      \/ DynamicRate(s, c) = rate - (rate * DiscountPercentage) \div 100
  BY DEF DynamicRate, rate
<1> QED
  BY <1>1, <1>3, <1>4

\* A slash refunds a natural number, and more than nothing only while the access
\* lasts.
LEMMA UnvestedNat ==
    ASSUME Inv, NEW s \in Students, NEW c \in Courses, access[s][c] # None
    PROVE  /\ Unvested(s, c) \in Nat
           /\ Unvested(s, c) > 0 => now < access[s][c].expiry_time
<1>1. access[s][c].expiry_time \in Nat /\ now \in Nat
  BY DEF Inv, TypeOK, Access
<1>2. CASE now >= access[s][c].expiry_time
  BY <1>1, <1>2 DEF Unvested
<1>3. CASE ~(now >= access[s][c].expiry_time)
  <2>1. access[s][c].expiry_time - now \in Nat
    BY <1>1, <1>3
  <2>2. (access[s][c].expiry_time - now) * DynamicRate(s, c) \in Nat
    BY <2>1, RateNat
  <2> QED
    BY <1>1, <1>3, <2>2 DEF Unvested
<1> QED
  BY <1>2, <1>3

\* A step that writes one access record and its first heartbeat, and no time,
\* keeps the watch time of all.
LEMMA OneAccess ==
    ASSUME Inv, NEW s \in Students, NEW c \in Courses, NEW a \in Access, NEW b \in Nat,
           access' = [access EXCEPT ![s] = [access[s] EXCEPT ![c] = a]],
           firstBeat' = [firstBeat EXCEPT ![s] = [firstBeat[s] EXCEPT ![c] = b]],
           now' = now, BeatsKept(a, b, now)
    PROVE  /\ access' \in [Students -> [Courses -> Access \cup {None}]]
           /\ firstBeat' \in [Students -> [Courses -> Nat]]
           /\ WatchKept'
<1>1. access' \in [Students -> [Courses -> Access \cup {None}]]
  BY DEF Inv, TypeOK
<1>2. firstBeat' \in [Students -> [Courses -> Nat]]
  BY DEF Inv, TypeOK
<1>3. ASSUME NEW x \in Students, NEW y \in Courses
      PROVE  /\ access'[x][y] = None => firstBeat'[x][y] = 0
             /\ BeatsKept(IF access'[x][y] = None THEN NoAccessYet ELSE access'[x][y],
                          firstBeat'[x][y], now')
  <2>1. CASE x = s /\ y = c
    <3>1. access'[x][y] = a /\ firstBeat'[x][y] = b /\ a # None
      BY <2>1, NoneAssumption DEF Inv, TypeOK
    <3> QED
      BY <3>1
  <2>2. CASE ~(x = s /\ y = c)
    <3>1. access'[x][y] = access[x][y] /\ firstBeat'[x][y] = firstBeat[x][y]
      BY <2>2 DEF Inv, TypeOK
    <3> QED
      BY <3>1 DEF Inv, WatchKept, AccessOf
  <2> QED
    BY <2>1, <2>2
<1> QED
  BY <1>1, <1>2, <1>3 DEF WatchKept, AccessOf

\* The accesses, heartbeats and the clock decide about the watch time, attendance
\* and slashes about the halts.
LEMMA WatchUntouched ==
    ASSUME Inv, UNCHANGED <<access, firstBeat, now>>
    PROVE  WatchKept'
BY DEF Inv, WatchKept, AccessOf

\* The same for the halts.
LEMMA HaltUntouched ==
    ASSUME Inv, UNCHANGED <<poa, slashed>>
    PROVE  HaltAgrees'
BY DEF Inv, HaltAgrees

\* What a payment buys is a natural number of seconds, and none if it is less
\* than the price of one.
LEMMA SecondsNat ==
    ASSUME NEW p \in Payments
    PROVE  /\ p \in Nat /\ SecondsBought(p) \in Nat
           /\ SecondsBought(p) > 0 => p >= BaseRate
<1> DEFINE quotient == p \div BaseRate
           width == HALT_FOREVER + 1
<1>1. /\ p \in Nat /\ BaseRate \in Nat \ {0} /\ width \in Nat \ {0}
  BY CourseAccessAssumption
<1>2. quotient \in Nat /\ (p < BaseRate => quotient = 0)
  BY <1>1
<1>3. SecondsBought(p) = quotient % width
  BY DEF SecondsBought
<1> HIDE DEF quotient, width
<1>4. quotient % width \in Nat /\ (quotient = 0 => quotient % width = 0)
  BY <1>1, <1>2
<1> QED
  BY <1>1, <1>2, <1>3, <1>4

-----------------------------------------------------------------------------
(* Initial states and steps. *)

\* No record exists at the start.
LEMMA InitEstablishes == Init => Inv
<1> SUFFICES ASSUME Init PROVE Inv
  OBVIOUS
<1>1. TypeOK
  BY CourseAccessAssumption DEF Init, TypeOK
<1>2. WatchKept
  BY DEF Init, WatchKept, AccessOf, NoAccessYet, BeatsKept
<1>3. HaltAgrees
  BY DEF Init, HaltAgrees
<1> QED
  BY <1>1, <1>2, <1>3, CourseAccessAssumption DEF Inv, Init

\* A purchase moves the expiry only.
LEMMA BuyKeeps ==
    ASSUME Inv, NEW s \in Students, NEW c \in Courses, NEW p \in Payments, BuyAccess(s, c, p)
    PROVE  Inv'
<1> DEFINE old == AccessOf(s, c)
           a == [old EXCEPT !.expiry_time = BoughtUntil(@, p)]
<1>1. /\ old \in Access /\ now \in Nat /\ p \in Nat /\ HALT_FOREVER \in Nat
      /\ BaseRate \in Nat \ {0} /\ custody \in Nat
  BY AccessIsRecord, CourseAccessAssumption DEF Inv, TypeOK
<1>2. SecondsBought(p) \in Nat
  BY SecondsNat
<1>3. BoughtUntil(old.expiry_time, p) \in Nat
  BY <1>1, <1>2 DEF BoughtUntil, Access
<1>4. a \in Access
  BY <1>1, <1>3 DEF Access
<1>5. a.total_watch_time = old.total_watch_time /\ a.last_heartbeat = old.last_heartbeat
  BY <1>1 DEF Access
<1>6. BeatsKept(old, firstBeat[s][c], now) /\ firstBeat[s][c] \in Nat
  BY DEF Inv, TypeOK, WatchKept
<1>7. BeatsKept(a, firstBeat[s][c], now)
  BY <1>5, <1>6 DEF BeatsKept
<1>8. /\ access' = [access EXCEPT ![s] = [access[s] EXCEPT ![c] = a]]
      /\ firstBeat' = [firstBeat EXCEPT ![s] = [firstBeat[s] EXCEPT ![c] = firstBeat[s][c]]]
      /\ now' = now
  BY DEF BuyAccess, Inv, TypeOK
<1> HIDE DEF a
<1>9. /\ access' \in [Students -> [Courses -> Access \cup {None}]]
      /\ firstBeat' \in [Students -> [Courses -> Nat]]
      /\ WatchKept'
  BY <1>4, <1>6, <1>7, <1>8, OneAccess
<1>10. TypeOK' /\ now' > 0
  BY <1>1, <1>9 DEF Inv, TypeOK, BuyAccess, poaVars, refundVars
<1>11. HaltAgrees'
  BY HaltUntouched DEF BuyAccess, refundVars
<1> QED
  BY <1>9, <1>10, <1>11 DEF Inv

\* A heartbeat counts the time since the last one and moves it to now.
LEMMA HeartbeatKeeps ==
    ASSUME Inv, NEW s \in Students, NEW c \in Courses, Heartbeat(s, c)
    PROVE  Inv'
<1> DEFINE old == AccessOf(s, c)
           a == Beaten(old)
           first == firstBeat[s][c]
           b == IF first = 0 THEN now ELSE first
           total == IF now < old.expiry_time /\ old.last_heartbeat > 0 THEN Watched(old)
                    ELSE old.total_watch_time
<1>1. old \in Access /\ now \in Nat /\ now > 0 /\ first \in Nat /\ BeatsKept(old, first, now)
  BY AccessIsRecord DEF Inv, TypeOK, WatchKept
<1>2. old.total_watch_time \in Nat /\ old.last_heartbeat \in Nat /\ old.expiry_time \in Nat
  BY <1>1 DEF Access
<1>3. b \in Nat /\ b # 0 /\ b <= now
  BY <1>1, <1>2 DEF BeatsKept
<1>4. total \in Nat /\ total <= now - b
  <2>1. CASE first = 0
    <3>1. total = 0
      BY <1>1, <2>1 DEF BeatsKept
    <3> QED
      BY <1>1, <2>1, <3>1
  <2>2. CASE first # 0
    <3>1. /\ first <= old.last_heartbeat /\ old.last_heartbeat <= now
          /\ old.total_watch_time <= old.last_heartbeat - first
      BY <1>1, <2>2 DEF BeatsKept
    <3>2. Watched(old) = old.total_watch_time + (now - old.last_heartbeat)
      BY DEF Watched
    <3> QED
      BY <1>1, <1>2, <2>2, <3>1, <3>2
  <2> QED
    BY <2>1, <2>2
<1>5. /\ a \in Access /\ a.total_watch_time = total /\ a.last_heartbeat = now
  BY <1>1, <1>2, <1>4 DEF Beaten, Access
<1>6. /\ access' = [access EXCEPT ![s] = [access[s] EXCEPT ![c] = a]]
      /\ firstBeat' = [firstBeat EXCEPT ![s] = [firstBeat[s] EXCEPT ![c] = b]]
      /\ now' = now
  BY DEF Heartbeat, Inv, TypeOK
<1> HIDE DEF a, b, total
<1>7. BeatsKept(a, b, now)
  BY <1>1, <1>3, <1>4, <1>5 DEF BeatsKept
<1>8. /\ access' \in [Students -> [Courses -> Access \cup {None}]]
      /\ firstBeat' \in [Students -> [Courses -> Nat]]
      /\ WatchKept'
  BY <1>3, <1>5, <1>6, <1>7, OneAccess
<1>9. TypeOK' /\ now' > 0
  BY <1>8 DEF Inv, TypeOK, Heartbeat, poaVars, refundVars
<1>10. HaltAgrees'
  BY HaltUntouched DEF Heartbeat, refundVars
<1> QED
  BY <1>8, <1>9, <1>10 DEF Inv

\* A proof keeps the halt of the record it renews.
LEMMA SubmitKeeps ==
    ASSUME Inv, NEW s \in Students, NEW c \in Courses, NEW t \in 0..MaxTime,
           SubmitAttendanceProof(s, c, t)
    PROVE  Inv'
<1> DEFINE k == CurrentCheckpoint
           epoch == GetOrCreateCheckpoint(k)
           q == Attended(poa[s][c], k)
<1>1. now \in Nat /\ interval \in Nat /\ interval # None
  BY CourseAccessAssumption DEF Inv, TypeOK, SubmitAttendanceProof
<1>2. k \in Nat
  BY <1>1 DEF CurrentCheckpoint
<1>3. q \in StudentPoAState
  BY <1>2 DEF Attended, StudentPoAState, Inv, TypeOK
<1>4. poa' = [poa EXCEPT ![s] = [poa[s] EXCEPT ![c] = q]]
  BY DEF SubmitAttendanceProof, Inv, TypeOK
<1>5. poa[s][c] # None => q.stream_halted_until = poa[s][c].stream_halted_until
  BY DEF Attended
<1>6. poa' \in [Students -> [Courses -> StudentPoAState \cup {None}]]
  BY <1>3, <1>4 DEF Inv, TypeOK
<1>7. checkpoint' \in [0..MaxTime -> AttendanceCheckpoint \cup {None}]
  <2>1. CASE k \in 0..MaxTime
    <3>1. k * interval \in Nat /\ k * interval + interval \in Nat
      BY <1>1, <1>2
    <3>2. epoch \in AttendanceCheckpoint
      BY <2>1, <3>1 DEF GetOrCreateCheckpoint, AttendanceCheckpoint, Inv, TypeOK
    <3>3. checkpoint' = [checkpoint EXCEPT ![k] = epoch]
      BY DEF SubmitAttendanceProof
    <3> QED
      BY <2>1, <3>2, <3>3 DEF Inv, TypeOK
  <2>2. CASE k \notin 0..MaxTime
    <3>1. checkpoint' = [checkpoint EXCEPT ![k] = epoch]
      BY DEF SubmitAttendanceProof
    <3> QED
      BY <2>2, <3>1 DEF Inv, TypeOK
  <2> QED
    BY <2>1, <2>2
<1>8. TypeOK' /\ now' > 0
  BY <1>6, <1>7 DEF Inv, TypeOK, SubmitAttendanceProof, refundVars
<1>9. WatchKept'
  BY WatchUntouched DEF SubmitAttendanceProof
<1>10. slashed' = slashed
  BY DEF SubmitAttendanceProof, refundVars
<1> HIDE DEF q
<1>11. HaltAgrees'
  <2> SUFFICES ASSUME NEW x \in Students, NEW y \in Courses, slashed[x][y] # None
               PROVE  /\ poa'[x][y] # None
                      /\ poa'[x][y].stream_halted_until = slashed[x][y].stream_halted_until
    BY <1>10 DEF HaltAgrees
  <2>1. /\ poa[x][y] # None
        /\ poa[x][y].stream_halted_until = slashed[x][y].stream_halted_until
    BY DEF Inv, HaltAgrees
  <2>2. CASE x = s /\ y = c
    <3>1. poa'[x][y] = q
      BY <1>4, <2>2 DEF Inv, TypeOK
    <3> QED
      BY <1>3, <1>5, <2>1, <2>2, <3>1, NoneAssumption
  <2>3. CASE ~(x = s /\ y = c)
    <3>1. poa'[x][y] = poa[x][y]
      BY <1>4, <2>3 DEF Inv, TypeOK
    <3> QED
      BY <2>1, <3>1
  <2> QED
    BY <2>2, <2>3
<1> QED
  BY <1>8, <1>9, <1>11 DEF Inv

\* A slash writes the halt and its record together.
LEMMA SlashKeeps ==
    ASSUME Inv, NEW s \in Students, NEW c \in Courses, NEW v \in {"Minor", "Major"},
           NEW t \in 0..MaxTime, TriggerDisciplinarySlash(s, c, v, t)
    PROVE  Inv'
<1> DEFINE until == HaltUntil(v)
           amount == Unvested(s, c)
           old == access[s][c]
           a == [old EXCEPT !.expiry_time = HaltedExpiry(until)]
           q == Halted(poa[s][c], until)
           r == [violation_type |-> v, slashed_at |-> now, stream_halted_until |-> until,
                 refunded_amount |-> amount]
<1>1. now \in Nat /\ HALT_FOREVER \in Nat /\ MINOR_PAUSE \in Nat /\ pendingRefund \in Nat
  BY CourseAccessAssumption DEF Inv, TypeOK
<1>2. until \in Nat /\ HaltedExpiry(until) \in Nat
  BY <1>1 DEF HaltUntil, HaltedExpiry
<1>3. old # None /\ old \in Access /\ old = AccessOf(s, c)
  BY AccessIsRecord DEF TriggerDisciplinarySlash, AccessOf
<1>4. amount \in Nat
  BY <1>3, UnvestedNat
<1>5. a \in Access /\ a.total_watch_time = old.total_watch_time
      /\ a.last_heartbeat = old.last_heartbeat
  BY <1>2, <1>3 DEF Access
<1>6. q \in StudentPoAState /\ q.stream_halted_until = until
  BY <1>2 DEF Halted, StudentPoAState, Inv, TypeOK
<1>7. r \in SlashedStudent /\ r.stream_halted_until = until
  BY <1>1, <1>2, <1>4 DEF SlashedStudent
<1>8. /\ access' = [access EXCEPT ![s] = [access[s] EXCEPT ![c] = a]]
      /\ poa' = [poa EXCEPT ![s] = [poa[s] EXCEPT ![c] = q]]
      /\ slashed' = [slashed EXCEPT ![s] = [slashed[s] EXCEPT ![c] = r]]
      /\ firstBeat' = [firstBeat EXCEPT ![s] = [firstBeat[s] EXCEPT ![c] = firstBeat[s][c]]]
      /\ now' = now
  BY DEF TriggerDisciplinarySlash, Inv, TypeOK
<1>9. pendingRefund' = pendingRefund + amount
  BY DEF TriggerDisciplinarySlash, ExecuteRefundToDonor
<1>10. BeatsKept(old, firstBeat[s][c], now) /\ firstBeat[s][c] \in Nat
  BY <1>3 DEF Inv, TypeOK, WatchKept
<1> HIDE DEF a, q, r, amount, until
<1>11. BeatsKept(a, firstBeat[s][c], now)
  BY <1>5, <1>10 DEF BeatsKept
<1>12. /\ access' \in [Students -> [Courses -> Access \cup {None}]]
       /\ firstBeat' \in [Students -> [Courses -> Nat]]
       /\ WatchKept'
  BY <1>5, <1>8, <1>10, <1>11, OneAccess
<1>13. /\ poa' \in [Students -> [Courses -> StudentPoAState \cup {None}]]
       /\ slashed' \in [Students -> [Courses -> SlashedStudent \cup {None}]]
       /\ pendingRefund' \in Nat
  BY <1>1, <1>4, <1>6, <1>7, <1>8, <1>9 DEF Inv, TypeOK
<1>14. TypeOK' /\ now' > 0
  BY <1>12, <1>13 DEF Inv, TypeOK, TriggerDisciplinarySlash, poaVars
<1>15. HaltAgrees'
  <2> SUFFICES ASSUME NEW x \in Students, NEW y \in Courses, slashed'[x][y] # None
               PROVE  /\ poa'[x][y] # None
                      /\ poa'[x][y].stream_halted_until = slashed'[x][y].stream_halted_until
    BY DEF HaltAgrees
  <2>1. CASE x = s /\ y = c
    <3>1. poa'[x][y] = q /\ slashed'[x][y] = r
      BY <1>8, <2>1 DEF Inv, TypeOK
    <3> QED
      BY <1>6, <1>7, <3>1, NoneAssumption
  <2>2. CASE ~(x = s /\ y = c)
    <3>1. poa'[x][y] = poa[x][y] /\ slashed'[x][y] = slashed[x][y]
      BY <1>8, <2>2 DEF Inv, TypeOK
    <3> QED
      BY <3>1 DEF Inv, HaltAgrees
  <2> QED
    BY <2>1, <2>2
<1> QED
  BY <1>12, <1>14, <1>15 DEF Inv

\* Subscriptions, settings and refunds write none of these records.
LEMMA OtherKeeps ==
    ASSUME Inv,
           \/ \E s \in Students, cs \in SUBSET Courses, p \in Payments : BuySubscription(s, cs, p)
           \/ \E s \in Students, b \in BOOLEAN : SetReputationBonus(s, b)
           \/ \E s \in Students : ShutOut(s)
           \/ \E i \in Intervals : InitPoAConfig(i)
           \/ InitUniversityOracle
           \/ ClaimPendingRefund
    PROVE  Inv'
<1>1. UNCHANGED <<access, firstBeat, now, poa, slashed>>
  BY DEF BuySubscription, SetReputationBonus, ShutOut, InitPoAConfig, InitUniversityOracle,
     ClaimPendingRefund, refundVars
<1>2. WatchKept' /\ HaltAgrees'
  BY <1>1, WatchUntouched, HaltUntouched
<1>3. ASSUME NEW s \in Students, NEW cs \in SUBSET Courses, NEW p \in Payments,
             BuySubscription(s, cs, p)
      PROVE  TypeOK'
  <2>1. now + SUBSCRIPTION \in Nat /\ custody + p \in Nat
    BY CourseAccessAssumption DEF Inv, TypeOK
  <2>2. [expiry_time |-> now + SUBSCRIPTION, course_ids |-> cs] \in SubscriptionTier
    BY <2>1 DEF SubscriptionTier
  <2>3. subscription' \in [Students -> SubscriptionTier \cup {None}]
    BY <1>3, <2>2 DEF Inv, TypeOK, BuySubscription
  <2> QED
    BY <1>3, <2>1, <2>3 DEF Inv, TypeOK, BuySubscription, poaVars, refundVars
<1>4. ASSUME NEW s \in Students, NEW b \in BOOLEAN, SetReputationBonus(s, b)
      PROVE  TypeOK'
  BY <1>4 DEF Inv, TypeOK, SetReputationBonus, poaVars, refundVars
<1>5. ASSUME NEW s \in Students, ShutOut(s)
      PROVE  TypeOK'
  BY <1>5 DEF Inv, TypeOK, ShutOut, poaVars, refundVars
<1>6. ASSUME NEW i \in Intervals, InitPoAConfig(i)
      PROVE  TypeOK'
  BY <1>6 DEF Inv, TypeOK, InitPoAConfig, refundVars
<1>7. ASSUME InitUniversityOracle
      PROVE  TypeOK'
  BY <1>7 DEF Inv, TypeOK, InitUniversityOracle, poaVars, refundVars
<1>8. ASSUME ClaimPendingRefund
      PROVE  TypeOK'
  BY <1>8 DEF Inv, TypeOK, ClaimPendingRefund, poaVars
<1>9. TypeOK'
  BY <1>3, <1>4, <1>5, <1>6, <1>7, <1>8
<1> QED
  BY <1>1, <1>2, <1>9 DEF Inv

\* The clock runs on.
LEMMA TickKeeps ==
    ASSUME Inv, Tick
    PROVE  Inv'
<1>1. now \in Nat /\ now' = now + 1 /\ UNCHANGED <<access, firstBeat, poa, slashed>>
  BY DEF Inv, TypeOK, Tick, refundVars
<1>2. TypeOK' /\ now' > 0
  BY <1>1 DEF Inv, TypeOK, Tick, poaVars, refundVars
<1>3. HaltAgrees'
  BY <1>1, HaltUntouched
<1>4. ASSUME NEW s \in Students, NEW c \in Courses
      PROVE  BeatsKept(AccessOf(s, c), firstBeat[s][c], now + 1)
  <2>1. AccessOf(s, c) \in Access /\ BeatsKept(AccessOf(s, c), firstBeat[s][c], now)
    BY AccessIsRecord DEF Inv, WatchKept
  <2>2. AccessOf(s, c).last_heartbeat \in Nat
    BY <2>1 DEF Access
  <2> QED
    BY <1>1, <2>1, <2>2 DEF BeatsKept
<1>5. WatchKept'
  BY <1>1, <1>4 DEF Inv, WatchKept, AccessOf
<1> QED
  BY <1>2, <1>3, <1>5 DEF Inv

\* Every step keeps the invariant.
LEMMA StepKeeps ==
    ASSUME Inv, [Next]_vars
    PROVE  Inv'
<1>1. CASE UNCHANGED vars
  <2>1. TypeOK' /\ now' > 0
    BY <1>1 DEF Inv, TypeOK, vars, poaVars, refundVars
  <2>2. WatchKept' /\ HaltAgrees'
    BY <1>1, WatchUntouched, HaltUntouched DEF vars, refundVars
  <2> QED
    BY <2>1, <2>2 DEF Inv
<1>2. CASE \E s \in Students, c \in Courses, p \in Payments : BuyAccess(s, c, p)
  BY <1>2, BuyKeeps
<1>3. CASE \E s \in Students, c \in Courses : Heartbeat(s, c)
  BY <1>3, HeartbeatKeeps
<1>4. CASE \E s \in Students, c \in Courses, t \in 0..MaxTime : SubmitAttendanceProof(s, c, t)
  BY <1>4, SubmitKeeps
<1>5. CASE \E s \in Students, c \in Courses, v \in {"Minor", "Major"}, t \in 0..MaxTime :
             TriggerDisciplinarySlash(s, c, v, t)
  BY <1>5, SlashKeeps
<1>6. CASE \/ \E s \in Students, cs \in SUBSET Courses, p \in Payments :
                 BuySubscription(s, cs, p)
           \/ \E s \in Students, b \in BOOLEAN : SetReputationBonus(s, b)
           \/ \E s \in Students : ShutOut(s)
           \/ \E i \in Intervals : InitPoAConfig(i)
           \/ InitUniversityOracle
           \/ ClaimPendingRefund
  BY <1>6, OtherKeeps
<1>7. CASE Tick
  BY <1>7, TickKeeps
<1> QED
  BY <1>1, <1>2, <1>3, <1>4, <1>5, <1>6, <1>7 DEF Next

-----------------------------------------------------------------------------
(* Theorems. *)

\* The invariant holds throughout.
LEMMA Invariance == Spec => []Inv
BY InitEstablishes, StepKeeps, PTL DEF Spec

\* For any students, courses and prices, the watch time of an access fits between
\* the first heartbeat and the last (heartbeat).
THEOREM WatchTimeAlwaysElapsed == Spec => []WatchTimeElapsed
<1>1. ASSUME Inv PROVE WatchTimeElapsed
  BY <1>1 DEF Inv, WatchKept, BeatsKept, AccessOf, WatchTimeElapsed
<1> QED
  BY <1>1, Invariance, PTL

\* For any students, courses and configurations, the slash on record is the halt
\* in force (trigger_disciplinary_slash, submit_attendance_proof).
THEOREM HaltAlwaysAgrees == Spec => []HaltAgrees
BY Invariance, PTL DEF Inv

\* What decides about an access: the student's own records and the clock.
LEMMA SameAccess ==
    ASSUME NEW s \in Students, NEW c \in Courses, now' = now,
           shutOut \subseteq shutOut', access'[s][c] = access[s][c],
           subscription'[s] = subscription[s], HasAccess(s, c)'
    PROVE  HasAccess(s, c)
BY DEF HasAccess, HasActiveSubscription

\* Nobody gains access but by his own purchase, for at least a second's price, or
\* his own subscription to the course, for whatever amount, 0 included, and
\* whatever the prices, periods and slashes (has_access, buy_access,
\* buy_subscription, trigger_disciplinary_slash).
THEOREM AccessAlwaysBought == Spec => AccessIsBought
<1> DEFINE Purchase(s, c) ==
             custody' >= custody + BaseRate /\ \E p \in Payments : BuyAccess(s, c, p)
           Subscribed(s, c) ==
             \E cs \in SUBSET Courses, p \in Payments : c \in cs /\ BuySubscription(s, cs, p)
           Bought ==
             \A s \in Students, c \in Courses :
               HasAccess(s, c)' /\ ~HasAccess(s, c) =>
                  \/ custody' >= custody + BaseRate /\ \E p \in Payments : BuyAccess(s, c, p)
                  \/ \E cs \in SUBSET Courses, p \in Payments :
                        c \in cs /\ BuySubscription(s, cs, p)
<1>1. ASSUME Inv, Next PROVE Bought
  <2> SUFFICES ASSUME NEW s \in Students, NEW c \in Courses, HasAccess(s, c)', ~HasAccess(s, c)
               PROVE  Purchase(s, c) \/ Subscribed(s, c)
    OBVIOUS
  <2> USE <1>1
  \* A purchase of less than a second, and one of another access, opens nothing.
  <2>1. ASSUME NEW x \in Students, NEW y \in Courses, NEW p \in Payments, BuyAccess(x, y, p)
        PROVE  Purchase(s, c)
    <3> DEFINE a == [AccessOf(x, y) EXCEPT !.expiry_time = BoughtUntil(@, p)]
               old == AccessOf(x, y).expiry_time
    <3>1. /\ now' = now /\ shutOut' = shutOut /\ subscription' = subscription
          /\ custody' = custody + p
          /\ access' = [access EXCEPT ![x] = [access[x] EXCEPT ![y] = a]]
      BY <2>1 DEF BuyAccess, Inv, TypeOK
    <3>2. AccessOf(x, y) \in Access /\ now \in Nat /\ custody \in Nat /\ old \in Nat
          /\ BaseRate \in Nat \ {0} /\ HALT_FOREVER \in Nat
      BY AccessIsRecord, CourseAccessAssumption DEF Inv, TypeOK, Access
    <3>3. a.expiry_time = BoughtUntil(old, p)
      BY <3>2 DEF Access
    <3> HIDE DEF a
    <3>4. s = x /\ c = y
      BY <3>1, SameAccess DEF Inv, TypeOK
    <3>5. access'[s][c] = a
      BY <3>1, <3>4 DEF Inv, TypeOK
    <3>6. s \notin shutOut /\ ~HasActiveSubscription(s, c)
      BY <3>1 DEF HasAccess, HasActiveSubscription
    <3>7. HasActiveSubscription(s, c)' <=> HasActiveSubscription(s, c)
      BY <3>1 DEF HasActiveSubscription
    <3>8. now < BoughtUntil(old, p)
      BY <3>1, <3>3, <3>5, <3>6, <3>7 DEF HasAccess
    <3>9. ~(now < old)
      <4>1. CASE access[s][c] = None
        BY <3>2, <3>4, <4>1 DEF AccessOf, NoAccessYet
      <4>2. CASE access[s][c] # None
        BY <3>4, <3>6, <4>2 DEF AccessOf, HasAccess
      <4> QED
        BY <4>1, <4>2
    <3>10. SecondsBought(p) \in Nat /\ p \in Nat /\ (SecondsBought(p) > 0 => p >= BaseRate)
      BY SecondsNat
    <3> HIDE DEF old
    <3>11. BoughtUntil(old, p) <= now + SecondsBought(p)
      BY <3>2, <3>9, <3>10 DEF BoughtUntil
    <3>12. BoughtUntil(old, p) \in Nat
      BY <3>2, <3>10 DEF BoughtUntil
    <3>13. p >= BaseRate
      BY <3>2, <3>8, <3>10, <3>11, <3>12
    <3> QED
      BY <2>1, <3>1, <3>2, <3>4, <3>10, <3>13
  <2>2. ASSUME NEW x \in Students, NEW cs \in SUBSET Courses, NEW p \in Payments,
               BuySubscription(x, cs, p)
        PROVE  Subscribed(s, c)
    <3> DEFINE r == [expiry_time |-> now + SUBSCRIPTION, course_ids |-> cs]
    <3>1. /\ now' = now /\ shutOut' = shutOut /\ access' = access
          /\ subscription' = [subscription EXCEPT ![x] = r]
      BY <2>2 DEF BuySubscription
    <3>2. r.course_ids = cs
      OBVIOUS
    <3> HIDE DEF r
    <3>3. s = x
      BY <3>1, SameAccess DEF Inv, TypeOK
    <3>4. subscription'[s] = r
      BY <3>1, <3>3 DEF Inv, TypeOK
    <3>5. HasActiveSubscription(s, c)'
      BY <3>1 DEF HasAccess
    <3>6. c \in cs
      BY <3>2, <3>4, <3>5 DEF HasActiveSubscription
    <3> QED
      BY <2>2, <3>3, <3>6
  \* A heartbeat keeps the expiry, and a record that it creates has none.
  <2>3. ASSUME NEW x \in Students, NEW y \in Courses, Heartbeat(x, y)
        PROVE  FALSE
    <3> DEFINE a == Beaten(AccessOf(x, y))
    <3>1. AccessOf(x, y) \in Access /\ now \in Nat
      BY AccessIsRecord DEF Inv, TypeOK
    <3>2. a.expiry_time = AccessOf(x, y).expiry_time
      BY <3>1 DEF Beaten, Access
    <3>3. access' = [access EXCEPT ![x] = [access[x] EXCEPT ![y] = a]]
      BY <2>3 DEF Heartbeat, Inv, TypeOK
    <3>4. now' = now /\ shutOut' = shutOut /\ subscription' = subscription
      BY <2>3 DEF Heartbeat
    <3> HIDE DEF a
    <3>5. s = x /\ c = y
      BY <3>3, <3>4, SameAccess DEF Inv, TypeOK
    <3>6. access'[s][c] = a
      BY <3>3, <3>5 DEF Inv, TypeOK
    <3>7. s \notin shutOut /\ ~HasActiveSubscription(s, c)
      BY <3>4 DEF HasAccess, HasActiveSubscription
    <3>8. HasActiveSubscription(s, c)' <=> HasActiveSubscription(s, c)
      BY <3>4 DEF HasActiveSubscription
    <3>9. now < a.expiry_time
      BY <3>4, <3>6, <3>7, <3>8 DEF HasAccess
    <3>10. CASE access[s][c] = None
      BY <3>1, <3>2, <3>5, <3>9, <3>10 DEF AccessOf, NoAccessYet
    <3>11. CASE access[s][c] # None
      BY <3>2, <3>5, <3>7, <3>9, <3>11 DEF AccessOf, HasAccess
    <3> QED
      BY <3>10, <3>11
  \* A slash finds an access that lasts.
  <2>4. ASSUME NEW x \in Students, NEW y \in Courses, NEW v \in {"Minor", "Major"},
               NEW t \in 0..MaxTime, TriggerDisciplinarySlash(x, y, v, t)
        PROVE  FALSE
    <3>1. access[x][y] # None /\ Unvested(x, y) > 0
      BY <2>4 DEF TriggerDisciplinarySlash, WorthSlashing
    <3>2. now < access[x][y].expiry_time
      BY <3>1, UnvestedNat
    <3>3. now' = now /\ shutOut' = shutOut /\ subscription' = subscription
      BY <2>4 DEF TriggerDisciplinarySlash
    <3>4. s \notin shutOut
      BY <3>3 DEF HasAccess
    <3>5. ~(s = x /\ c = y)
      BY <3>1, <3>2, <3>4 DEF HasAccess
    <3>6. access'[s][c] = access[s][c]
      BY <2>4, <3>5 DEF TriggerDisciplinarySlash, Inv, TypeOK
    <3> QED
      BY <3>3, <3>6, SameAccess
  <2>5. ASSUME \/ \E x \in Students, b \in BOOLEAN : SetReputationBonus(x, b)
               \/ \E x \in Students : ShutOut(x)
               \/ \E i \in Intervals : InitPoAConfig(i)
               \/ \E x \in Students, y \in Courses, t \in 0..MaxTime :
                    SubmitAttendanceProof(x, y, t)
               \/ InitUniversityOracle
               \/ ClaimPendingRefund
        PROVE  FALSE
    <3>1. /\ now' = now /\ shutOut \subseteq shutOut' /\ access' = access
          /\ subscription' = subscription
      BY <2>5 DEF SetReputationBonus, ShutOut, InitPoAConfig, SubmitAttendanceProof,
         InitUniversityOracle, ClaimPendingRefund
    <3> QED
      BY <3>1, SameAccess
  \* Time only ends accesses.
  <2>6. ASSUME Tick
        PROVE  FALSE
    <3>1. /\ now \in Nat /\ now' = now + 1 /\ shutOut' = shutOut /\ access' = access
          /\ subscription' = subscription
      BY <2>6 DEF Tick, Inv, TypeOK
    <3>2. ASSUME access[s][c] # None PROVE access[s][c].expiry_time \in Nat
      BY <3>2 DEF Inv, TypeOK, Access
    <3>3. ASSUME subscription[s] # None PROVE subscription[s].expiry_time \in Nat
      BY <3>3 DEF Inv, TypeOK, SubscriptionTier
    <3> QED
      BY <3>1, <3>2, <3>3 DEF HasAccess, HasActiveSubscription
  <2> QED
    BY <2>1, <2>2, <2>3, <2>4, <2>5, <2>6 DEF Next
<1>2. Inv /\ [Next]_vars => [Bought]_vars
  BY <1>1
<1> QED
  BY <1>2, Invariance, PTL DEF Spec, AccessIsBought

-----------------------------------------------------------------------------
(* The expiry crate mirrors the contract. *)

\* The clock's range, and every subscription on record was bought within it.
MonthsBought ==
    /\ StartTime <= now /\ now <= MaxTime
    /\ \A s \in Students : subscription[s] # None =>
         \E bought \in StartTime..now : subscription[s].expiry_time = bought + SUBSCRIPTION

\* Purchases of a month are the only writes of a subscription.
LEMMA MonthsKeep ==
    ASSUME Inv, MonthsBought, [Next]_vars
    PROVE  MonthsBought'
<1> USE CourseAccessAssumption
<1>1. now \in Nat /\ subscription \in [Students -> SubscriptionTier \cup {None}]
  BY DEF Inv, TypeOK
<1>2. ASSUME NEW s \in Students, NEW cs \in SUBSET Courses, NEW p \in Payments,
             BuySubscription(s, cs, p)
      PROVE  MonthsBought'
  <2> DEFINE r == [expiry_time |-> now + SUBSCRIPTION, course_ids |-> cs]
  <2>1. now' = now /\ subscription' = [subscription EXCEPT ![s] = r]
    BY <1>2 DEF BuySubscription
  <2>2. r.expiry_time = now + SUBSCRIPTION
    OBVIOUS
  <2> HIDE DEF r
  <2>3. ASSUME NEW x \in Students, subscription'[x] # None
        PROVE  \E bought \in StartTime..now : subscription'[x].expiry_time = bought + SUBSCRIPTION
    <3>1. CASE x = s
      <4>1. subscription'[x] = r /\ now \in StartTime..now
        BY <1>1, <2>1, <3>1 DEF MonthsBought
      <4> QED
        BY <2>2, <4>1
    <3>2. CASE x # s
      <4>1. subscription'[x] = subscription[x]
        BY <1>1, <2>1, <3>2
      <4> QED
        BY <2>3, <4>1 DEF MonthsBought
    <3> QED
      BY <3>1, <3>2
  <2> QED
    BY <2>1, <2>3 DEF MonthsBought
<1>3. CASE Tick
  <2>1. now' = now + 1 /\ now < MaxTime /\ subscription' = subscription
    BY <1>3 DEF Tick
  <2>2. StartTime <= now' /\ now' <= MaxTime
    BY <1>1, <2>1 DEF MonthsBought
  <2>3. StartTime..now \subseteq StartTime..now'
    BY <1>1, <2>1
  <2> QED
    BY <2>1, <2>2, <2>3 DEF MonthsBought
<1>4. CASE UNCHANGED <<now, subscription>>
  BY <1>4 DEF MonthsBought
<1>5. ASSUME \/ \E s \in Students, c \in Courses, p \in Payments : BuyAccess(s, c, p)
             \/ \E s \in Students, b \in BOOLEAN : SetReputationBonus(s, b)
             \/ \E s \in Students : ShutOut(s)
             \/ \E s \in Students, c \in Courses : Heartbeat(s, c)
             \/ \E i \in Intervals : InitPoAConfig(i)
             \/ \E s \in Students, c \in Courses, t \in 0..MaxTime :
                  SubmitAttendanceProof(s, c, t)
             \/ InitUniversityOracle
             \/ \E s \in Students, c \in Courses, v \in {"Minor", "Major"}, t \in 0..MaxTime :
                  TriggerDisciplinarySlash(s, c, v, t)
             \/ ClaimPendingRefund
             \/ UNCHANGED vars
      PROVE  UNCHANGED <<now, subscription>>
  BY <1>5 DEF BuyAccess, SetReputationBonus, ShutOut, Heartbeat, InitPoAConfig,
     SubmitAttendanceProof, InitUniversityOracle, TriggerDisciplinarySlash, ClaimPendingRefund,
     vars
<1> QED
  BY <1>2, <1>3, <1>4, <1>5 DEF Next

\* An expiry is added up the same in both, overflow included.
LEMMA SameExpiry ==
    ASSUME NEW e \in Nat, NEW p \in Payments, now \in Nat
    PROVE  LET checked == Times!CheckedAccessExpiry(now, e, SecondsBought(p))
           IN  BoughtUntil(e, p) = IF checked = None THEN HALT_FOREVER ELSE checked
<1>1. SecondsBought(p) \in Nat
  BY SecondsNat
<1> DEFINE base == IF e > now THEN e ELSE now
           sum == base + SecondsBought(p)
<1>2. sum \in Nat
  BY <1>1
<1>3. BoughtUntil(e, p) = IF sum <= HALT_FOREVER THEN sum ELSE HALT_FOREVER
  BY DEF BoughtUntil
<1>4. Times!CheckedAccessExpiry(now, e, SecondsBought(p))
        = IF sum <= HALT_FOREVER THEN sum ELSE None
  BY DEF Times!CheckedAccessExpiry, Times!CheckedAddTime
<1> HIDE DEF sum
<1>5. sum # None
  BY <1>2, NoneAssumption
<1> QED
  BY <1>3, <1>4, <1>5

\* For any prices, periods and clock, records are well typed, and whatever access
\* or subscription is on record, the expiry crate computes what the contract sets
\* (buy_access, buy_subscription; checked_access_expiry, checked_subscription_expiry).
THEOREM RecordsAlwaysKept == Spec => []RecordsKept
<1>1. Init => MonthsBought
  BY CourseAccessAssumption DEF Init, MonthsBought
<1>2. Inv /\ MonthsBought /\ [Next]_vars => MonthsBought'
  BY MonthsKeep
<1>3. ASSUME Inv, MonthsBought PROVE RecordsKept
  <2> USE <1>3
  <2>1. now \in Nat /\ HALT_FOREVER \in Nat /\ HALT_FOREVER - 1 \in Nat /\ SUBSCRIPTION \in Nat
        /\ MaxTime \in Nat
    BY CourseAccessAssumption DEF Inv, TypeOK
  <2>2. ASSUME NEW s \in Students, NEW c \in Courses, NEW p \in Payments,
               NEW e \in {AccessOf(s, c).expiry_time, HALT_FOREVER - 1, HALT_FOREVER}
        PROVE  LET checked == Times!CheckedAccessExpiry(now, e, SecondsBought(p))
               IN  BoughtUntil(e, p) = IF checked = None THEN HALT_FOREVER ELSE checked
    <3>1. AccessOf(s, c).expiry_time \in Nat
      BY AccessIsRecord DEF Access
    <3>2. e \in Nat
      BY <2>1, <3>1
    <3> QED
      BY <2>1, <3>2, SameExpiry
  <2>3. ASSUME NEW s \in Students, subscription[s] # None
        PROVE  \E bought \in StartTime..now :
                  subscription[s].expiry_time = Times!CheckedSubscriptionExpiry(bought, 1)
    <3>1. PICK bought \in StartTime..now : subscription[s].expiry_time = bought + SUBSCRIPTION
      BY <2>3 DEF MonthsBought
    <3>2. bought + SUBSCRIPTION <= HALT_FOREVER /\ 1 * SUBSCRIPTION = SUBSCRIPTION
          /\ SUBSCRIPTION <= HALT_FOREVER
      BY <2>1, <3>1, CourseAccessAssumption DEF MonthsBought
    <3>3. Times!CheckedSubscriptionExpiry(bought, 1) = bought + SUBSCRIPTION
      BY <3>2 DEF Times!CheckedSubscriptionExpiry, Times!CheckedAddTime
    <3> QED
      BY <3>1, <3>3
  <2>4. ExpiryMirrors
    BY <2>2, <2>3 DEF ExpiryMirrors
  <2> QED
    BY <2>4 DEF RecordsKept, Inv
<1> QED
  BY <1>1, <1>2, <1>3, Invariance, PTL DEF Spec

=============================================================================
