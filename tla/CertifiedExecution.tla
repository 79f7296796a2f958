------------------------- MODULE CertifiedExecution -------------------------
(***************************************************************************)
(* The kernel and its evidence tables together: calls go on interleaving   *)
(* and executions go on moving while their terminal evidence is written.   *)
(***************************************************************************)
EXTENDS DurableExecutionRace, TerminalEvidence

cvars == <<store, now, lease, pending, call, disciplined,
           scope, finalization, seal, certificate>>

CertifiedInit == RaceInit /\ EvidenceInit

CertifiedNext ==
    \/ RaceNext /\ UNCHANGED evidence
    \/ EvidenceNext /\ UNCHANGED <<lease, pending, call, disciplined>>

CertifiedSpec == CertifiedInit /\ [][CertifiedNext]_cvars

-----------------------------------------------------------------------------
(* What the evidence says of an execution with an external effect is what  *)
(* became of it: as long as callers keep to the discipline, the state that *)
(* was finalized is still the state of the row, although complete, cancel  *)
(* and fail_before_dispatch write over rows they did not read.  (A         *)
(* LOCAL_SAFE one may still be completed by the call that was in flight    *)
(* when acquire_lease found it past its deadline.)                         *)
FinalizationIsTrue ==
    disciplined => \A x \in Executions :
        (finalization[x] # None /\ Mode[x] = "EXTERNAL_EFFECT") =>
            /\ store[x].state = finalization[x].core
            /\ finalization[x].final = FinalStateOf(store[x].state)

(* Under the same discipline an effect that may have happened is never     *)
(* certified as a failure.                                                 *)
NoEffectCertifiedAway ==
    disciplined => \A x \in Executions :
        (certificate[x] # None /\ certificate[x].final = "FINALIZED_TERMINAL_FAILURE")
            => pending[x] = {}

(* A stored certificate always verifies for its own scope, whatever is     *)
(* written or replayed after it.                                           *)
CertificateVerifies ==
    \A x \in Executions : certificate[x] # None =>
        \A s \in Scopes : Verdict(x, s) = IF s = scope[x] THEN "VERIFIED" ELSE "MISMATCH"
=============================================================================
