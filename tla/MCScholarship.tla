--------------------------- MODULE MCScholarship ---------------------------
(***************************************************************************)
(* A small instance of the escrow for TLC. Amounts are chosen so that the  *)
(* rounding shows: 34 funds 11 for the student and 23 for the university,  *)
(* the tenth of 11 rounds down to 1 and a tax of 25% of 5 to 1.            *)
(* Requests of zero and below reach the contract as well.                  *)
(***************************************************************************)
EXTENDS ClaimMirror, TLC

Requests == {-5, 0, 5, 6}

\* Students, voters and universities are interchangeable.
Symmetry == Permutations(Students) \cup Permutations(Voters)
            \cup Permutations(Universities)

\* The bound of the exploration: the custody that students share is explored with
\* two students at one time, holds and the clock with one student.
Untouched(s) ==
    /\ scholarship[s] = None /\ vote[s] = None
    /\ studentUniversity[s] = None /\ graduates[s] = {}

Small ==
    \/ /\ now = StartTime
       /\ \A u \in Universities : universityAdmin[u] = None /\ securityHold[u] = None
       /\ \A s \in Students : studentUniversity[s] = None
       /\ \A s \in Scholars : scholarship[s].unlocked_balance = scholarship[s].balance
    \/ \E s \in Students : \A other \in Students \ {s} : Untouched(other)

=============================================================================
