-------------------------- MODULE PayoutWhitelist --------------------------
(***************************************************************************)
(* The address a student's claims are paid to: a change is announced and   *)
(* confirmed no sooner than UNLOCK_DELAY (48 hours) later.                 *)
(***************************************************************************)
EXTENDS Integers

CONSTANTS Students, Addresses, UNLOCK_DELAY, None, StartTime,
          MaxTime               \* bound of the clock

PayoutAssumption ==
    /\ {UNLOCK_DELAY, StartTime, MaxTime} \subseteq Nat
    /\ None \notin Nat /\ None \notin Addresses

VARIABLES
    authorized,     \* AuthorizedPayout: None means the student's own address
    pending,        \* AuthorizedPayoutPending
    unlockTime,     \* UnlockTime
    now,
    announced       \* history: when an address was last announced

vars == <<authorized, pending, unlockTime, now, announced>>

TypeOK ==
    /\ authorized \in [Students -> Addresses \cup {None}]
    /\ pending \in [Students -> Addresses \cup {None}]
    /\ unlockTime \in [Students -> Nat \cup {None}]
    /\ now \in Nat
    /\ announced \in [Students -> [Addresses -> Nat \cup {None}]]

Init ==
    /\ authorized = [s \in Students |-> None]
    /\ pending = [s \in Students |-> None]
    /\ unlockTime = [s \in Students |-> None]
    /\ now = StartTime
    /\ announced = [s \in Students |-> [a \in Addresses |-> None]]

\* Mutant of Unlocking: a pending announcement keeps its time.
UnlockingOnce(s) == IF unlockTime[s] = None THEN now + UNLOCK_DELAY ELSE unlockTime[s]

Unlocking(s) == now + UNLOCK_DELAY

SetAuthorizedPayoutAddress(s, a) ==
    /\ pending' = [pending EXCEPT ![s] = a]
    /\ unlockTime' = [unlockTime EXCEPT ![s] = Unlocking(s)]
    /\ announced' = [announced EXCEPT ![s] = [announced[s] EXCEPT ![a] = now]]
    /\ UNCHANGED <<authorized, now>>

ConfirmPayoutUnlock(s) ==
    /\ unlockTime[s] # None /\ now >= unlockTime[s]
    /\ pending[s] # None
    /\ authorized' = [authorized EXCEPT ![s] = pending[s]]
    /\ pending' = [pending EXCEPT ![s] = None]
    /\ unlockTime' = [unlockTime EXCEPT ![s] = None]
    /\ UNCHANGED <<now, announced>>

Tick ==
    /\ now < MaxTime
    /\ now' = now + 1
    /\ UNCHANGED <<authorized, pending, unlockTime, announced>>

Next ==
    \/ \E s \in Students, a \in Addresses : SetAuthorizedPayoutAddress(s, a)
    \/ \E s \in Students : ConfirmPayoutUnlock(s)
    \/ Tick

Spec == Init /\ [][Next]_vars

-----------------------------------------------------------------------------
(* Properties. *)

\* Announcements replace each other while the clock runs; the address that
\* comes into force was announced the full delay ago and no other was since
\* (set_authorized_payout_address 3041, confirm_payout_unlock 3048).
PayoutTimelocked ==
    [][\A s \in Students : authorized'[s] # authorized[s] =>
          LET a == authorized'[s] IN
          /\ announced[s][a] # None /\ now >= announced[s][a] + UNLOCK_DELAY
          /\ \A b \in Addresses : announced[s][b] # None =>
                announced[s][b] <= announced[s][a]]_vars

=============================================================================
