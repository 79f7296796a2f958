--------------------------- MODULE EvidenceProofs ---------------------------
(***************************************************************************)
(* Proofs about CertifiedExecution: what is stored as evidence stays       *)
(* consistent whatever the callers do, and stays true while they keep the  *)
(* discipline.                                                             *)
(***************************************************************************)
EXTENDS CertifiedExecution, RaceProofs

(* Each record rests on the ones below it.                                 *)
EvidenceAgrees(x) ==
    /\ finalization[x] # None =>
           finalization[x].final = FinalStateOf(finalization[x].core)
    /\ seal[x] # None => finalization[x] # None /\ SealMatches(finalization[x], seal[x])
    /\ certificate[x] # None =>
           /\ scope[x] # None /\ finalization[x] # None /\ seal[x] # None
           /\ CertificateMatches(x, certificate[x])

EvidenceOK == \A x \in Executions : EvidenceAgrees(x)

(* Only an EXTERNAL_EFFECT execution is ever about to hand an effect over. *)
EffectsAreExternal ==
    /\ \A x \in Executions : pending[x] # {} => Mode[x] = "EXTERNAL_EFFECT"
    /\ \A p \in Callers : (call[p] # Idle /\ call[p].op = "record_dispatch_started") =>
           Mode[call[p].x] = "EXTERNAL_EFFECT"

FinalStateStands ==
    disciplined => \A x \in Executions :
        (finalization[x] # None /\ Mode[x] = "EXTERNAL_EFFECT") =>
            store[x].state = finalization[x].core

-----------------------------------------------------------------------------
LEMMA CertifiedSteps ==
    /\ [CertifiedNext]_cvars => [RaceNext]_rvars
    /\ [CertifiedNext]_cvars =>
           \/ UNCHANGED evidence
           \/ /\ \E x \in Executions : EvidenceStep(x)
              /\ UNCHANGED rvars
  BY DEF CertifiedNext, EvidenceNext, cvars, rvars, evidence

LEMMA EvidenceStart == CertifiedInit => EvidenceTypeOK /\ EvidenceOK
  BY DEF CertifiedInit, EvidenceInit, EvidenceTypeOK, EvidenceOK, EvidenceAgrees

LEMMA EvidenceKept ==
    EvidenceTypeOK /\ EvidenceOK /\ [CertifiedNext]_cvars => EvidenceTypeOK' /\ EvidenceOK'
  <1>. SUFFICES ASSUME EvidenceTypeOK, EvidenceOK, [CertifiedNext]_cvars
                PROVE  EvidenceTypeOK' /\ EvidenceOK'
    OBVIOUS
  <1>a. /\ scope \in [Executions -> Scopes \cup {None}]
        /\ finalization \in [Executions -> Finalization \cup {None}]
        /\ seal \in [Executions -> Seal \cup {None}]
        /\ certificate \in [Executions -> Certificate \cup {None}]
        /\ \A x \in Executions : EvidenceAgrees(x)
    BY DEF EvidenceTypeOK, EvidenceOK
  <1>n. None \notin Scopes /\ None \notin Finalization /\ None \notin Seal /\ None \notin Certificate
    BY EvidenceAssumption
  <1>1. CASE UNCHANGED evidence
    BY <1>1 DEF evidence, EvidenceTypeOK, EvidenceOK, EvidenceAgrees, CertificateMatches
  <1>2. ASSUME NEW x \in Executions, NEW s \in Scopes, BindExecutionScope(x, s)
        PROVE  EvidenceTypeOK' /\ EvidenceOK'
    <2>1. /\ scope' \in [Executions -> Scopes \cup {None}]
          /\ \A y \in Executions : scope[y] # None => scope'[y] = scope[y]
      BY <1>2, <1>a DEF BindExecutionScope, WriteOnce
    <2>. QED
      BY <1>2, <1>a, <2>1
         DEF BindExecutionScope, EvidenceTypeOK, EvidenceOK, EvidenceAgrees, CertificateMatches
  <1>3. ASSUME NEW x \in Executions, NEW f \in Finalization, PersistFinalization(x, f)
        PROVE  EvidenceTypeOK' /\ EvidenceOK'
    <2>1. /\ finalization' \in [Executions -> Finalization \cup {None}]
          /\ \A y \in Executions :
                 finalization[y] # None \/ y # x => finalization'[y] = finalization[y]
          /\ finalization[x] = None => finalization'[x] = f
      BY <1>3, <1>a DEF PersistFinalization, WriteOnce
    <2>2. f.final = FinalStateOf(f.core)
      BY <1>3 DEF PersistFinalization
    <2>. QED
      BY <1>3, <1>a, <2>1, <2>2
         DEF PersistFinalization, EvidenceTypeOK, EvidenceOK, EvidenceAgrees, CertificateMatches
  <1>4. ASSUME NEW x \in Executions, NEW s \in Seal, PersistAuditSeal(x, s)
        PROVE  EvidenceTypeOK' /\ EvidenceOK'
    <2>1. /\ seal' \in [Executions -> Seal \cup {None}]
          /\ \A y \in Executions : seal[y] # None \/ y # x => seal'[y] = seal[y]
          /\ seal[x] = None => seal'[x] = s
      BY <1>4, <1>a DEF PersistAuditSeal, WriteOnce
    <2>. QED
      BY <1>4, <1>a, <2>1
         DEF PersistAuditSeal, EvidenceTypeOK, EvidenceOK, EvidenceAgrees, CertificateMatches
  <1>5. ASSUME NEW x \in Executions, NEW c \in Certificate, PersistCertificate(x, c)
        PROVE  EvidenceTypeOK' /\ EvidenceOK'
    <2>1. /\ certificate' \in [Executions -> Certificate \cup {None}]
          /\ \A y \in Executions :
                 certificate[y] # None \/ y # x => certificate'[y] = certificate[y]
          /\ certificate[x] = None => certificate'[x] = c
      BY <1>5, <1>a DEF PersistCertificate, WriteOnce
    <2>. QED
      BY <1>5, <1>a, <2>1
         DEF PersistCertificate, EvidenceTypeOK, EvidenceOK, EvidenceAgrees, CertificateMatches
  <1>. QED
    BY <1>1, <1>2, <1>3, <1>4, <1>5, CertifiedSteps DEF EvidenceStep

(* Every reachable state has well-typed evidence.                          *)
THEOREM EvidenceTypeCorrect == CertifiedSpec => []EvidenceTypeOK
  <1>. QED
    BY EvidenceStart, EvidenceKept, PTL DEF CertifiedSpec

(* read_terminal_certificate_snapshot verifies every stored certificate    *)
(* for the scope of its execution, and for no other: the records that      *)
(* persist_terminal_certificate compared are never written again.          *)
THEOREM CertificatesVerify == CertifiedSpec => []CertificateVerifies
  <1>1. EvidenceTypeOK /\ EvidenceOK => CertificateVerifies
    <2>. SUFFICES ASSUME EvidenceOK, NEW x \in Executions, certificate[x] # None,
                         NEW s \in Scopes
                  PROVE  Verdict(x, s) = IF s = scope[x] THEN "VERIFIED" ELSE "MISMATCH"
      BY DEF CertificateVerifies
    <2>1. EvidenceAgrees(x)
      BY DEF EvidenceOK
    <2>. QED
      BY <2>1 DEF EvidenceAgrees, Verdict
  <1>. QED
    BY <1>1, EvidenceStart, EvidenceKept, PTL DEF CertifiedSpec

-----------------------------------------------------------------------------
LEMMA ExternalStart == RaceInit => EffectsAreExternal
  BY DEF RaceInit, Init, EffectsAreExternal

LEMMA ExternalKept ==
    RaceTypeOK /\ EffectsAreExternal /\ [RaceNext]_rvars => EffectsAreExternal'
  <1>. SUFFICES ASSUME RaceTypeOK, EffectsAreExternal, [RaceNext]_rvars
                PROVE  EffectsAreExternal'
    OBVIOUS
  <1>t. /\ call \in [Callers -> Call \cup {Idle}] /\ pending \in [Executions -> SUBSET Nat]
        /\ Workers \subseteq Callers /\ Operators \subseteq Callers
    BY DEF RaceTypeOK, TypeOK, Callers
  <1>1. ASSUME NEW p \in Callers, Returns(p),
               \A x \in Executions : pending'[x] # {} =>
                   pending[x] # {} \/ Mode[x] = "EXTERNAL_EFFECT"
        PROVE  EffectsAreExternal'
    BY <1>1, <1>t DEF EffectsAreExternal, Returns
  <1>2. ASSUME NEW p \in Callers, NEW op, NEW x, NEW tok, Begun(p, op, x, tok)
        PROVE  EffectsAreExternal'
    <2>1. op = "record_dispatch_started" => Mode[x] = "EXTERNAL_EFFECT"
      BY <1>2 DEF Begun, Checked, DispatchChecked
    <2>. QED
      BY <1>2, <1>t, <2>1 DEF Begun, EffectsAreExternal, vars
  <1>3. ASSUME NEW w \in Workers, FinishDispatch(w) PROVE EffectsAreExternal'
    <2>1. call[w] # Idle /\ Mode[call[w].x] = "EXTERNAL_EFFECT"
      BY <1>3, <1>t DEF FinishDispatch, Pending, EffectsAreExternal
    <2>2. \/ pending' = pending
          \/ pending' = [pending EXCEPT ![call[w].x] = @ \cup {call[w].tok}]
      BY <1>3 DEF FinishDispatch
    <2>3. \A x \in Executions : pending'[x] # {} =>
              pending[x] # {} \/ Mode[x] = "EXTERNAL_EFFECT"
      BY <1>t, <2>1, <2>2
    <2>. QED
      BY <1>1, <1>3, <1>t, <2>3 DEF FinishDispatch
  <1>4. ASSUME NEW p \in Operators, NEW outcome \in Outcomes, NEW e \in Results,
               FinishReconcile(p, outcome, e)
        PROVE  EffectsAreExternal'
    <2>1. \/ pending' = pending
          \/ pending' = [pending EXCEPT ![call[p].x] = @ \ call[p].seen]
      BY <1>4 DEF FinishReconcile
    <2>2. \A x \in Executions : pending'[x] # {} => pending[x] # {}
      BY <1>t, <2>1
    <2>. QED
      BY <1>1, <1>4, <1>t, <2>2 DEF FinishReconcile
  <1>5. CASE UNCHANGED <<pending, call>>
    BY <1>5 DEF EffectsAreExternal
  <1>. QED
    BY <1>1, <1>2, <1>3, <1>4, <1>5, <1>t
       DEF RaceNext, WorkerCall, OperatorCall, StoreTransaction, RecoverExpiredLeases,
           Prepare, AcquireTooLate, AcquirePastDeadline, Acquire, AcquireLease,
           BeginWorker, BeginOperator, FinishHeartbeat, FinishComplete, FinishFail,
           FinishUnknown, FinishCancel, CrashCaller, TickWhileCalled, Tick, rvars

DisciplinedInv ==
    /\ RaceTypeOK /\ DisciplineInv /\ EffectsAreExternal
    /\ EvidenceTypeOK /\ EvidenceOK /\ FinalStateStands

LEMMA StandsKept ==
    RaceTypeOK /\ DisciplineInv /\ EvidenceTypeOK /\ FinalStateStands /\ [CertifiedNext]_cvars
        => FinalStateStands'
  <1>. SUFFICES ASSUME RaceTypeOK, DisciplineInv, EvidenceTypeOK, FinalStateStands,
                       [CertifiedNext]_cvars, disciplined',
                       NEW x \in Executions, finalization'[x] # None,
                       Mode[x] = "EXTERNAL_EFFECT"
                PROVE  store'[x].state = finalization'[x].core
    BY DEF FinalStateStands
  <1>1. [RaceNext]_rvars /\ disciplined
    <2>1. [RaceNext]_rvars
      BY CertifiedSteps
    <2>. QED
      BY <2>1 DEF RaceNext, WorkerCall, OperatorCall, StoreTransaction, AcquireTooLate, Acquire,
           BeginWorker, BeginOperator, FinishHeartbeat, FinishDispatch, FinishComplete,
           FinishFail, FinishUnknown, FinishCancel, FinishReconcile, CrashCaller,
           TickWhileCalled, rvars
  <1>2. CASE UNCHANGED evidence
    <2>1. finalization'[x] = finalization[x]
      BY <1>2 DEF evidence
    <2>2. store[x].state = finalization[x].core /\ finalization[x] \in Finalization
      BY <1>1, <2>1 DEF FinalStateStands, EvidenceTypeOK
    <2>3. Simulated
      BY <1>1, DisciplineSimulates DEF DisciplineInv
    <2>4. store[x].state \in TERMINAL
      BY <2>2 DEF Finalization
    <2>. QED
      BY <2>1, <2>2, <2>3, <2>4, SimulatedKeepsFinal DEF RaceTypeOK
  <1>3. ASSUME NEW y \in Executions, EvidenceStep(y), UNCHANGED rvars
        PROVE  store'[x].state = finalization'[x].core
    <2>0. store' = store
      BY <1>3 DEF rvars
    <2>1. ASSUME NEW f \in Finalization, PersistFinalization(y, f)
          PROVE  store'[x].state = finalization'[x].core
      <3>1. finalization' = WriteOnce(finalization, y, f) /\ f.core = store[y].state
        BY <2>1 DEF PersistFinalization
      <3>2. finalization'[x] = finalization[x] \/ (x = y /\ finalization'[x] = f)
        BY <3>1 DEF WriteOnce, EvidenceTypeOK
      <3>. QED
        BY <1>1, <2>0, <3>1, <3>2 DEF FinalStateStands
    <2>2. CASE finalization' = finalization
      BY <1>1, <2>0, <2>2 DEF FinalStateStands
    <2>. QED
      BY <1>3, <2>1, <2>2
         DEF EvidenceStep, BindExecutionScope, PersistAuditSeal, PersistCertificate
  <1>. QED
    BY <1>2, <1>3, CertifiedSteps

LEMMA DisciplinedStart == CertifiedInit => DisciplinedInv
  <1>1. CertifiedInit => RaceInit
    BY DEF CertifiedInit
  <1>2. CertifiedInit => FinalStateStands
    BY DEF CertifiedInit, EvidenceInit, FinalStateStands
  <1>. QED
    BY <1>1, <1>2, RaceTypeInit, DisciplineInit, ExternalStart, EvidenceStart DEF DisciplinedInv

LEMMA DisciplinedKept == DisciplinedInv /\ [CertifiedNext]_cvars => DisciplinedInv'
  BY CertifiedSteps, RaceTypeStep, DisciplineStep, ExternalKept, EvidenceKept, StandsKept
     DEF DisciplinedInv

(* While callers keep the discipline the finalization of an execution with *)
(* an external effect goes on telling the truth about its row.             *)
THEOREM FinalizationsAreTrue == CertifiedSpec => []FinalizationIsTrue
  <1>1. DisciplinedInv => FinalizationIsTrue
    <2>. SUFFICES ASSUME DisciplinedInv, disciplined, NEW x \in Executions,
                         finalization[x] # None, Mode[x] = "EXTERNAL_EFFECT"
                  PROVE  /\ store[x].state = finalization[x].core
                         /\ finalization[x].final = FinalStateOf(store[x].state)
      BY DEF FinalizationIsTrue
    <2>. QED
      BY DEF DisciplinedInv, FinalStateStands, EvidenceOK, EvidenceAgrees
  <1>. QED
    BY <1>1, DisciplinedStart, DisciplinedKept, PTL DEF CertifiedSpec

(* Nor does a certificate of failure ever cover up an effect that may have *)
(* happened.                                                               *)
THEOREM NoEffectIsCertifiedAway == CertifiedSpec => []NoEffectCertifiedAway
  <1>1. DisciplinedInv => NoEffectCertifiedAway
    <2>. SUFFICES ASSUME DisciplinedInv, disciplined, NEW x \in Executions,
                         certificate[x] # None,
                         certificate[x].final = "FINALIZED_TERMINAL_FAILURE",
                         pending[x] # {}
                  PROVE  FALSE
      BY DEF NoEffectCertifiedAway
    <2>1. Mode[x] = "EXTERNAL_EFFECT"
      BY DEF DisciplinedInv, EffectsAreExternal
    <2>2. /\ finalization[x] # None
          /\ finalization[x].final = "FINALIZED_TERMINAL_FAILURE"
          /\ finalization[x].final = FinalStateOf(finalization[x].core)
          /\ finalization[x] \in Finalization
      BY DEF DisciplinedInv, EvidenceOK, EvidenceAgrees, CertificateMatches, EvidenceTypeOK
    <2>3. finalization[x].core \in TERMINAL /\ finalization[x].core # "COMPLETED"
      BY <2>2 DEF Finalization, FinalStateOf
    <2>4. store[x].state = finalization[x].core
      BY <2>1, <2>2 DEF DisciplinedInv, FinalStateStands
    <2>5. store[x].state \in {"DISPATCH_RECORDED", "OUTCOME_UNKNOWN", "COMPLETED"}
      BY DEF DisciplinedInv, DisciplineInv, Kernel, EffectInv, PendingEffectVisible
    <2>. QED
      BY <2>3, <2>4, <2>5 DEF TERMINAL
  <1>. QED
    BY <1>1, DisciplinedStart, DisciplinedKept, PTL DEF CertifiedSpec
=============================================================================
