---------------------------- MODULE GrantAccount ----------------------------
(***************************************************************************)
(* What one student's escrowed grant promises, whatever the contract does  *)
(* to keep the promise.  Every unit ever granted is still held, has been   *)
(* paid to the student, or was forfeited to the sponsor or the issuer; and *)
(* until an approved release opens the account, no payment touches the     *)
(* locked share of what was granted.  A frozen account pays nothing but    *)
(* the approved release.                                                   *)
(***************************************************************************)
EXTENDS Integers

VARIABLES
    granted,      \* everything ever credited to the student
    held,         \* what the contract still owes the student
    paid,         \* what left the account in the student's favour (tax included)
    forfeited,    \* what was taken back
    approved,     \* has the community approved the final release?
    open,         \* has the final release happened?
    frozen        \* is the account under a security hold?

balanceVars == <<granted, held, paid, forfeited>>
vars == <<balanceVars, approved, open, frozen>>

\* The share of a grant that only an approved release may pay out.
LockedShare(total) == (total * 10) \div 100

Init ==
    /\ granted = 0 /\ held = 0 /\ paid = 0 /\ forfeited = 0
    /\ ~approved /\ ~open /\ ~frozen

\* A sponsor adds to the grant; everything credited is held.
Credit ==
    /\ granted' >= granted
    /\ held' - held = granted' - granted
    /\ UNCHANGED <<paid, forfeited, approved, open, frozen>>

\* The student draws; a closed account keeps the locked share.
Pay ==
    /\ ~frozen
    /\ held' \in 0..held
    /\ paid' - paid = held - held'
    /\ open \/ held' >= LockedShare(granted) \/ held' = held
    /\ UNCHANGED <<granted, forfeited, approved, open, frozen>>

Approve ==
    /\ ~approved
    /\ approved'
    /\ UNCHANGED <<balanceVars, open, frozen>>

\* The one approved release: it starts from the locked share or less.
Release ==
    /\ approved /\ ~open
    /\ held <= LockedShare(granted)
    /\ open'
    /\ held' \in 0..held
    /\ paid' - paid = held - held'
    /\ UNCHANGED <<granted, forfeited, approved, frozen>>

\* A clawback or a write-off: the student loses, nobody is paid.
Forfeit ==
    /\ held' \in 0..held
    /\ forfeited' - forfeited = held - held'
    /\ UNCHANGED <<granted, paid, approved, open, frozen>>

\* A hold begins or ends.
Freeze ==
    /\ frozen' # frozen
    /\ UNCHANGED <<balanceVars, approved, open>>

Next == Credit \/ Pay \/ Approve \/ Release \/ Forfeit \/ Freeze

Spec == Init /\ [][Next]_vars

=============================================================================
