-------------------------- MODULE TerminalEvidence --------------------------
(***************************************************************************)
(* The evidence tables beside the executions table: the scope of an        *)
(* execution, the finalization of its terminal state, the audit seal over  *)
(* the finalization and the certificate over all three.  Each is written   *)
(* once, in one immediate transaction, for digests its caller computed     *)
(* elsewhere and may have computed from something stale.                   *)
(*                                                                         *)
(* Digests are members of small sets.  The fields that are always compared *)
(* together are one value here: trace stands for finops_observation_digest *)
(* and observability_trace_id, seal for the two digests of the audit seal, *)
(* chain for pre_terminal_audit_chain_digest.                              *)
(***************************************************************************)
EXTENDS ExecutionStore

CONSTANTS Scopes, Digests, Traces, Chains, Revisions, None

VARIABLES scope, finalization, seal, certificate

evidence == <<scope, finalization, seal, certificate>>

FinalStates == {"FINALIZED_SUCCESS", "FINALIZED_TERMINAL_FAILURE"}

Finalization == [revision: Revisions, core: TERMINAL, final: FinalStates,
                 digest: Digests, trace: Traces, chain: Chains]

Seal == [revision: Revisions, digest: Digests, trace: Traces, seal: Digests]

Certificate == [revision: Revisions, final: FinalStates, scope: Scopes,
                digest: Digests, seal: Digests, trace: Traces, chain: Chains]

ASSUME EvidenceAssumption ==
    None \notin Scopes \cup Finalization \cup Seal \cup Certificate

EvidenceTypeOK ==
    /\ scope \in [Executions -> Scopes \cup {None}]
    /\ finalization \in [Executions -> Finalization \cup {None}]
    /\ seal \in [Executions -> Seal \cup {None}]
    /\ certificate \in [Executions -> Certificate \cup {None}]

EvidenceInit ==
    /\ scope = [x \in Executions |-> None]
    /\ finalization = [x \in Executions |-> None]
    /\ seal = [x \in Executions |-> None]
    /\ certificate = [x \in Executions |-> None]

(* Faulty variant: a second record replaces the first.                     *)
WriteAgain(table, x, record) == [table EXCEPT ![x] = record]

(* Writing the same record again is a replay, another one a conflict, and  *)
(* neither changes the table.                                              *)
WriteOnce(table, x, record) ==
    IF table[x] = None THEN [table EXCEPT ![x] = record] ELSE table

FinalStateOf(core) ==
    IF core = "COMPLETED" THEN "FINALIZED_SUCCESS" ELSE "FINALIZED_TERMINAL_FAILURE"

-----------------------------------------------------------------------------
BindExecutionScope(x, s) ==
    /\ Exists(x)
    /\ scope' = WriteOnce(scope, x, s)
    /\ UNCHANGED <<finalization, seal, certificate>>

PersistFinalization(x, f) ==
    /\ store[x].state \in TERMINAL
    /\ scope[x] # None
    /\ f.final = FinalStateOf(store[x].state)
    /\ f.core = store[x].state
    /\ finalization' = WriteOnce(finalization, x, f)
    /\ UNCHANGED <<scope, seal, certificate>>

SealMatches(f, s) ==
    f.revision = s.revision /\ f.digest = s.digest /\ f.trace = s.trace

(* Faulty variant: the record it was checked against is stored.            *)
SealStoresFinalization(x, s) ==
    /\ finalization[x] # None
    /\ SealMatches(finalization[x], s)
    /\ seal' = WriteOnce(seal, x, finalization[x])
    /\ UNCHANGED <<scope, finalization, certificate>>

PersistAuditSeal(x, s) ==
    /\ finalization[x] # None
    /\ SealMatches(finalization[x], s)
    /\ seal' = WriteOnce(seal, x, s)
    /\ UNCHANGED <<scope, finalization, certificate>>

CertificateMatches(x, c) ==
    /\ scope[x] = c.scope
    /\ finalization[x].revision = c.revision
    /\ finalization[x].final = c.final
    /\ finalization[x].digest = c.digest
    /\ finalization[x].trace = c.trace
    /\ finalization[x].chain = c.chain
    /\ seal[x].seal = c.seal

PersistCertificate(x, c) ==
    /\ scope[x] # None /\ finalization[x] # None /\ seal[x] # None
    /\ CertificateMatches(x, c)
    /\ certificate' = WriteOnce(certificate, x, c)
    /\ UNCHANGED <<scope, finalization, seal>>

EvidenceStep(x) ==
    \/ \E s \in Scopes : BindExecutionScope(x, s)
    \/ \E f \in Finalization : PersistFinalization(x, f)
    \/ \E s \in Seal : PersistAuditSeal(x, s)
    \/ \E c \in Certificate : PersistCertificate(x, c)

EvidenceNext ==
    /\ \E x \in Executions : EvidenceStep(x)
    /\ UNCHANGED <<store, now>>

-----------------------------------------------------------------------------
(* read_terminal_certificate_snapshot reads the four tables in one         *)
(* transaction and compares them again, for a reader of scope s.           *)
Verdict(x, s) ==
    IF scope[x] = None THEN "UNAVAILABLE"
    ELSE IF scope[x] # s THEN "MISMATCH"
    ELSE IF None \in {finalization[x], seal[x], certificate[x]} THEN "UNAVAILABLE"
    ELSE IF SealMatches(finalization[x], seal[x]) /\ CertificateMatches(x, certificate[x])
         THEN "VERIFIED"
    ELSE "MISMATCH"
=============================================================================
