---------------------------- MODULE Attestations ----------------------------
(***************************************************************************)
(* What others attest of a student: an oracle's enrollment and GPA data    *)
(* and the proofs of a GPA threshold with the standing they give.  The     *)
(* oracles' signatures are not checked by the code but for one constant.   *)
(***************************************************************************)
EXTENDS Integers

CONSTANTS
    Students, Oracles, Courses, None,
    Nonces,                         \* nonces and epochs of payloads
    Gpas,                           \* GPA in hundredths
    ORACLE_STALENESS_THRESHOLD,
    StartTime, MaxTime              \* bounds of the clock

AttestationAssumption ==
    /\ Nonces \subseteq Nat /\ Gpas \subseteq Nat
    /\ {ORACLE_STALENESS_THRESHOLD, StartTime, MaxTime} \subseteq Nat

VARIABLES
    oracleRegistry,     \* OracleRegistry
    enrollment,         \* Enrollment, and Nonce in it
    gpaMultiplier, gpaEpoch,
    zkKey,              \* whether ZKVerificationKey is set
    standing,           \* AcademicStanding and ZKProofRecord: when verified
    now

oracleVars == <<oracleRegistry, enrollment, gpaMultiplier, gpaEpoch>>
zkVars == <<zkKey, standing>>
vars == <<oracleVars, zkVars, now>>

EnrollmentData == [nonce : Nat, generated_at : Nat \cup {None}]

\* The lengths in bytes of a proof's parts.
GPAThresholdProof == [a : {0, 64}, b : {64, 128}, c : {64}, public_signals : {0, 96}]

\* semester_passed is always set.
AcademicStanding == [verified_at : Nat]

TypeOK ==
    /\ oracleRegistry \in SUBSET Oracles
    /\ enrollment \in [Students -> EnrollmentData]
    /\ gpaMultiplier \in [Students -> Nat] /\ gpaEpoch \in [Students -> Nat]
    /\ zkKey \in BOOLEAN
    /\ standing \in [Students -> [Courses -> AcademicStanding \cup {None}]]
    /\ now \in Nat

Init ==
    /\ oracleRegistry = {}
    /\ enrollment = [s \in Students |-> [nonce |-> 0, generated_at |-> None]]
    /\ gpaMultiplier = [s \in Students |-> 10000]
    /\ gpaEpoch = [s \in Students |-> 0]
    /\ zkKey = FALSE
    /\ standing = [s \in Students |-> [c \in Courses |-> None]]
    /\ now = StartTime

-----------------------------------------------------------------------------
(* Oracles. *)

SetOracleStatus(o, status) ==
    /\ oracleRegistry' = IF status THEN oracleRegistry \cup {o} ELSE oracleRegistry \ {o}
    /\ UNCHANGED <<enrollment, gpaMultiplier, gpaEpoch, zkVars, now>>

FreshOraclePayload(generated_at) ==
    generated_at <= now /\ now - generated_at <= ORACLE_STALENESS_THRESHOLD

\* A later nonce may carry older data, within the threshold.
VerifyEnrollment(s, o, nonce, generated_at) ==
    /\ o \in oracleRegistry
    /\ FreshOraclePayload(generated_at)
    /\ nonce > enrollment[s].nonce
    /\ enrollment' = [enrollment EXCEPT ![s] = [nonce |-> nonce, generated_at |-> generated_at]]
    /\ UNCHANGED <<oracleRegistry, gpaMultiplier, gpaEpoch, zkVars, now>>

\* Zero pauses the stream.
MultiplierBps(gpa) ==
    CASE gpa >= 400 -> 12000
      [] gpa >= 350 /\ gpa < 400 -> 10000
      [] gpa >= 300 /\ gpa < 350 -> 8000
      [] gpa >= 250 /\ gpa < 300 -> 4000
      [] OTHER -> 0

ApplyGpaMultiplier(s, o, epoch, gpa, generated_at) ==
    /\ o \in oracleRegistry
    /\ FreshOraclePayload(generated_at)
    /\ epoch > gpaEpoch[s]
    /\ gpaMultiplier' = [gpaMultiplier EXCEPT ![s] = MultiplierBps(gpa)]
    /\ gpaEpoch' = [gpaEpoch EXCEPT ![s] = epoch]
    /\ UNCHANGED <<oracleRegistry, enrollment, zkVars, now>>

Math == INSTANCE ClaimMath WITH NATIVE_XLM_RESERVE <- 0

\* The seconds that a balance lasts at the student's rate.
CalculateRemainingAirtime(s, balance, base_rate, has_reputation_bonus) ==
    LET bonus == IF has_reputation_bonus THEN (base_rate * 98) \div 100 ELSE base_rate
        rate == Math!GpaMultipliedRate(bonus, gpaMultiplier[s])
    IN  IF balance > 0 /\ rate > 0 THEN balance \div rate ELSE 0

-----------------------------------------------------------------------------
(* Proofs of a GPA threshold.  A proof is verified by its shape alone. *)

ValidProofFormat(proof) ==
    /\ proof.a = 64 /\ proof.c = 64 /\ proof.b = 128
    /\ proof.public_signals >= 96

\* The verification key and the pairing are not used; after the test of the
\* format this one never fails.
VerifyGroth16Proof(proof) ==
    \A part \in {"a", "b", "c", "public_signals"} : proof[part] > 0

InitZkVerificationKey ==
    /\ zkKey' = TRUE
    /\ UNCHANGED <<oracleVars, standing, now>>

\* A proof may be shown again, also after a revocation.
VerifyGpaThresholdProof(s, c, proof) ==
    /\ zkKey
    /\ ValidProofFormat(proof)
    /\ VerifyGroth16Proof(proof)
    /\ standing' = [standing EXCEPT ![s][c] = [verified_at |-> now]]
    /\ UNCHANGED <<oracleVars, zkKey, now>>

HasAcademicStanding(s, c) == standing[s][c] # None

RevokeAcademicStanding(s, c) ==
    /\ standing' = [standing EXCEPT ![s][c] = None]
    /\ UNCHANGED <<oracleVars, zkKey, now>>

-----------------------------------------------------------------------------

Tick ==
    /\ now < MaxTime
    /\ now' = now + 1
    /\ UNCHANGED <<oracleVars, zkVars>>

Times == StartTime..MaxTime

Next ==
    \/ \E o \in Oracles, b \in BOOLEAN : SetOracleStatus(o, b)
    \/ \E s \in Students, o \in Oracles, n \in Nonces, t \in Times : VerifyEnrollment(s, o, n, t)
    \/ \E s \in Students, o \in Oracles, n \in Nonces, g \in Gpas, t \in Times :
          ApplyGpaMultiplier(s, o, n, g, t)
    \/ InitZkVerificationKey
    \/ \E s \in Students, c \in Courses, p \in GPAThresholdProof : VerifyGpaThresholdProof(s, c, p)
    \/ \E s \in Students, c \in Courses : RevokeAcademicStanding(s, c)
    \/ Tick

Spec == Init /\ [][Next]_vars

=============================================================================
