-------------------------- MODULE ReputationExport --------------------------
(***************************************************************************)
(* A student's reputation is exported to other chains for a fee.  Payload  *)
(* and message are hashes: they differ when the client nonce or the        *)
(* sequence number does, so the code's second check, for a message that    *)
(* was sent before, never fails after that of the nonce.                   *)
(***************************************************************************)
EXTENDS Integers, FiniteSets, FiniteSetsExt

CONSTANTS
    Students,
    Clients,                \* client nonces
    EXPORT_FEE,
    MaxWallet               \* what a student can spend on exports

ExportAssumption == IsFiniteSet(Students) /\ EXPORT_FEE \in Nat /\ MaxWallet \in Nat

VARIABLES
    hold,                   \* ExportDisciplineHold
    feeSink,                \* whether ReputationFeeSink is set, or the contract takes the fees
    exportNonce,            \* ReputationExportNonce: the used ones
    exportSequence,         \* ReputationExportSequence
    exportAudit,            \* ExportedScholarAudit
    feeWallet,              \* the students' balances of the fee token
    fees                    \* the contract's and the sink's

feeVars == <<feeSink, feeWallet, fees>>
vars == <<hold, exportNonce, exportSequence, exportAudit, feeVars>>

ScholarExportAudit == [export_count : Nat, last_seq : Nat]

TypeOK ==
    /\ hold \in SUBSET Students
    /\ feeSink \in BOOLEAN
    /\ exportNonce \in [Students -> SUBSET Clients]
    /\ exportSequence \in Nat
    /\ exportAudit \in [Students -> ScholarExportAudit]
    /\ feeWallet \in [Students -> Nat] /\ fees \in [{"contract", "sink"} -> Nat]

Init ==
    /\ hold = {}
    /\ feeSink = FALSE /\ fees = [f \in {"contract", "sink"} |-> 0]
    /\ exportNonce = [s \in Students |-> {}]
    /\ exportSequence = 0
    /\ exportAudit = [s \in Students |-> [export_count |-> 0, last_seq |-> 0]]
    /\ feeWallet = [s \in Students |-> MaxWallet]

\* By the administrator or the council.
SetReputationFeeSink ==
    /\ feeSink' = TRUE
    /\ UNCHANGED <<hold, exportNonce, exportSequence, exportAudit, feeWallet, fees>>

FeeSink == IF feeSink THEN "sink" ELSE "contract"

\* Mutant of Unused: a nonce is looked up, but in the other students' too.
UnusedByOthers(s, n) == \A t \in Students \ {s} : n \notin exportNonce[t]

Unused(s, n) == n \notin exportNonce[s]

RequestReputationExport(s, n) ==
    /\ s \notin hold
    /\ Unused(s, n)
    /\ feeWallet[s] >= EXPORT_FEE
    /\ exportNonce' = [exportNonce EXCEPT ![s] = @ \cup {n}]
    /\ feeWallet' = [feeWallet EXCEPT ![s] = @ - EXPORT_FEE]
    /\ fees' = [fees EXCEPT ![FeeSink] = @ + EXPORT_FEE]
    /\ exportSequence' = exportSequence + 1
    /\ exportAudit' = [exportAudit EXCEPT ![s] =
            [export_count |-> @.export_count + 1, last_seq |-> exportSequence + 1]]
    /\ UNCHANGED <<hold, feeSink>>

\* trigger_disciplinary_slash (CourseAccess) puts a student on hold.
DisciplineHold(s) ==
    /\ hold' = hold \cup {s}
    /\ UNCHANGED <<exportNonce, exportSequence, exportAudit, feeVars>>

ClearExportDisciplineHold(s) ==
    /\ hold' = hold \ {s}
    /\ UNCHANGED <<exportNonce, exportSequence, exportAudit, feeVars>>

Next ==
    \/ SetReputationFeeSink
    \/ \E s \in Students, n \in Clients : RequestReputationExport(s, n)
    \/ \E s \in Students : DisciplineHold(s) \/ ClearExportDisciplineHold(s)

Spec == Init /\ [][Next]_vars

-----------------------------------------------------------------------------
(* Properties. *)

\* Exports of all students share one sequence and each pays one fee: however
\* they interleave, with repeated client nonces and holds, the audits count
\* every used nonce once, add up to the sequence, and number it without a
\* repetition (request_reputation_export, issue_batch.rs 38).
ExportsCounted ==
    /\ \A s \in Students :
         /\ exportAudit[s].export_count = Cardinality(exportNonce[s])
         /\ feeWallet[s] = MaxWallet - EXPORT_FEE * exportAudit[s].export_count
    /\ exportSequence = SumFunctionOnSet([s \in Students |-> exportAudit[s].export_count], Students)
    /\ fees["contract"] + fees["sink"] = EXPORT_FEE * exportSequence
    /\ \A s, t \in Students :
         s # t /\ exportAudit[s].last_seq = exportAudit[t].last_seq => exportAudit[s].last_seq = 0

=============================================================================
