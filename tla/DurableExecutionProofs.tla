----------------------- MODULE DurableExecutionProofs -----------------------
(***************************************************************************)
(* Proofs about DurableExecution, for any number of executions and workers *)
(* and any limits.                                                         *)
(***************************************************************************)
EXTENDS DurableExecution, TLAPS

(* The states in which an effect may have happened.                        *)
Handed == {"DISPATCH_RECORDED", "OUTCOME_UNKNOWN", "COMPLETED"}

(* What every row satisfies: the dispatch mark, the lease columns, the     *)
(* error count and the attempts agree with the state.                      *)
RowOK(r) ==
    /\ r.dispatched => r.state \in Handed
    /\ r.state \in {"ABSENT", "PREPARED", "RETRY_WAIT", "OUTCOME_UNKNOWN"} => r.token = 0
    /\ r.state # "DLQ" => r.sameErrors < PoisonThreshold
    /\ r.state = "RETRY_WAIT" => r.attempt < MaxAttempts

RowsOK == \A x \in Executions : RowOK(store[x])

OneToken == \A x \in Executions : \A s, t \in pending[x] : s = t

OneClaim ==
    \A x, y \in Executions :
        (Exists(x) /\ Exists(y) /\ EffectKey[x] = EffectKey[y]) => x = y

(* A grant is a token of the past; while it runs it is the lease that the  *)
(* row shows; and no token is granted twice.                               *)
GrantOK(w, x) ==
    /\ Token(w, x) <= store[x].attempt
    /\ ~Exists(x) => Token(w, x) = 0
    /\ lease[w][x].until > now =>
          /\ Token(w, x) # 0
          /\ store[x].token = Token(w, x)
          /\ store[x].expires = lease[w][x].until

DistinctTokens ==
    \A x \in Executions, v, w \in Workers :
        (v # w /\ Token(v, x) = Token(w, x)) => Token(w, x) = 0

GrantsOK == DistinctTokens /\ \A w \in Workers, x \in Executions : GrantOK(w, x)

-----------------------------------------------------------------------------
LEMMA BackoffType == ASSUME NEW n PROVE Backoff(n) \in Nat
  BY StoreAssumption DEF Backoff

LEMMA RowTypes ==
    ASSUME NEW r \in Row, now \in Nat
    PROVE  /\ PreparedRow \in Row
           /\ LeasedRow(r) \in Row
           /\ DeadLettered(r) \in Row
           /\ DeadlineWrite(r) \in Row
           /\ \A n \in Nat : /\ HeartbeatWrite(r, r, n, now) \in Row
                             /\ DispatchWrite(r, n, now) \in Row
           /\ \A digest \in Results : CompleteWrite(r, digest) \in Row
           /\ \A error \in Errors, retryable \in BOOLEAN :
                  FailWrite(r, r, error, retryable, now) \in Row
           /\ \A error \in Errors : UnknownWrite(r, error) \in Row
           /\ RecoveredRow(r) \in Row
           /\ CancelWrite(r) \in Row
           /\ \A outcome \in Outcomes, evidence \in Results :
                  ReconcileWrite(r, r, outcome, evidence, now) \in Row
  <1>0. now + LeaseSeconds \in Nat /\ r.attempt + 1 \in Nat
    BY StoreAssumption DEF Row
  <1>s. /\ "PREPARED" \in States /\ "LEASED" \in States /\ "DISPATCH_RECORDED" \in States
        /\ "RETRY_WAIT" \in States /\ "OUTCOME_UNKNOWN" \in States
        /\ "COMPLETED" \in States /\ "CANCELED" \in States /\ "DLQ" \in States
    BY DEF States
  <1>n. ASSUME NEW q \in Row PROVE NoLease(q) \in Row
    BY DEF Row, NoLease
  <1>2. PreparedRow \in Row
    BY <1>s DEF Row, AbsentRow, PreparedRow
  <1>3. LeasedRow(r) \in Row
    BY <1>0, <1>s DEF Row, LeasedRow
  <1>4. DeadLettered(r) \in Row
    BY <1>s DEF Row, DeadLettered
  <1>5. DeadlineWrite(r) \in Row
    BY <1>4, <1>n DEF DeadLettered, DeadlineWrite
  <1>6. ASSUME NEW n \in Nat PROVE HeartbeatWrite(r, r, n, now) \in Row
    <2>1. [r EXCEPT !.expires = now + LeaseSeconds] \in Row
      BY <1>0 DEF Row
    <2>. QED
      BY <2>1, <1>5 DEF HeartbeatWrite
  <1>7. ASSUME NEW n \in Nat PROVE DispatchWrite(r, n, now) \in Row
    <2>1. [r EXCEPT !.state = "DISPATCH_RECORDED", !.dispatched = TRUE] \in Row
      BY <1>s DEF Row
    <2>. QED
      BY <2>1, <1>5 DEF DispatchWrite
  <1>8. ASSUME NEW digest \in Results PROVE CompleteWrite(r, digest) \in Row
    <2>1. [r EXCEPT !.state = "COMPLETED", !.result = digest] \in Row
      BY <1>s DEF Row
    <2>. QED
      BY <2>1, <1>n DEF CompleteWrite
  <1>9. ASSUME NEW error \in Errors, NEW retryable \in BOOLEAN
        PROVE  FailWrite(r, r, error, retryable, now) \in Row
    <2>. DEFINE dlq == FailsForGood(r, error, retryable, now)
                s == IF dlq THEN "DLQ" ELSE "RETRY_WAIT"
                n1 == SameErrors(r, error)
                t1 == IF dlq THEN 0 ELSE now + Backoff(r.attempt)
    <2>1. n1 \in Nat
      BY DEF SameErrors, Row
    <2>2. t1 \in Nat
      BY BackoffType
    <2>3. s \in States
      BY <1>s
    <2>4. FailWrite(r, r, error, retryable, now) =
            NoLease([r EXCEPT !.state = s, !.sameErrors = n1, !.lastError = error,
                              !.nextAttempt = t1])
      BY DEF FailWrite
    <2>. HIDE DEF s, n1, t1
    <2>5. [r EXCEPT !.state = s, !.sameErrors = n1, !.lastError = error,
                    !.nextAttempt = t1] \in Row
      BY <2>1, <2>2, <2>3 DEF Row
    <2>. QED
      BY <2>4, <2>5, <1>n
  <1>10. ASSUME NEW error \in Errors PROVE UnknownWrite(r, error) \in Row
    <2>1. [r EXCEPT !.state = "OUTCOME_UNKNOWN", !.lastError = error] \in Row
      BY <1>s DEF Row
    <2>. QED
      BY <2>1, <1>n DEF UnknownWrite
  <1>11. RecoveredRow(r) \in Row
    <2>1. ASSUME NEW s \in States, NEW t1 \in Nat
          PROVE  NoLease([r EXCEPT !.state = s, !.nextAttempt = t1]) \in Row
      <3>1. [r EXCEPT !.state = s, !.nextAttempt = t1] \in Row
        BY DEF Row
      <3>. QED
        BY <3>1, <1>n
    <2>. QED
      BY <2>1, <1>s DEF RecoveredRow
  <1>12. CancelWrite(r) \in Row
    <2>1. [r EXCEPT !.state = "CANCELED", !.nextAttempt = 0] \in Row
      BY <1>s DEF Row
    <2>. QED
      BY <2>1, <1>n DEF CancelWrite
  <1>13. ASSUME NEW outcome \in Outcomes, NEW digest \in Results
         PROVE  ReconcileWrite(r, r, outcome, digest, now) \in Row
    <2>1. [r EXCEPT !.state = "COMPLETED", !.result = digest,
                    !.nextAttempt = 0, !.dispatched = r.dispatched] \in Row
      BY <1>s DEF Row
    <2>2. ASSUME NEW s \in States, NEW t1 \in Nat
          PROVE  [r EXCEPT !.state = s, !.nextAttempt = t1,
                           !.result = NoResult, !.dispatched = FALSE] \in Row
      BY DEF Row
    <2>. QED
      BY <2>1, <2>2, <1>s DEF ReconcileWrite
  <1>. QED
    BY <1>2, <1>3, <1>4, <1>5, <1>6, <1>7, <1>8, <1>9, <1>10, <1>11, <1>12, <1>13

(* Each write, made under the test of its method, keeps a row consistent.  *)
LEMMA RowsStayOK ==
    ASSUME NEW r \in Row, RowOK(r), NEW x, NEW n, NEW error, NEW digest
    PROVE  /\ RowOK(PreparedRow)
           /\ LeasableState(r) => RowOK(LeasedRow(r)) /\ RowOK(DeadLettered(r))
           /\ HeartbeatChecked(r, n) => RowOK(HeartbeatWrite(r, r, n, now))
           /\ DispatchChecked(x, r, n) => RowOK(DispatchWrite(r, n, now))
           /\ CompleteChecked(x, r, n) => RowOK(CompleteWrite(r, digest))
           /\ FailChecked(r, n) => \A retryable \in BOOLEAN :
                                       RowOK(FailWrite(r, r, error, retryable, now))
           /\ UnknownChecked(r, n) => RowOK(UnknownWrite(r, error))
           /\ Recoverable(r) => RowOK(RecoveredRow(r))
           /\ CancelChecked(r) => RowOK(CancelWrite(r))
           /\ ReconcileChecked(r) => \A outcome \in Outcomes :
                                         RowOK(ReconcileWrite(r, r, outcome, digest, now))
  <1>. USE DEF Row, RowOK, Handed, NoLease
  <1>1. RowOK(PreparedRow)
    BY StoreAssumption DEF PreparedRow, AbsentRow
  <1>2. LeasableState(r) => RowOK(LeasedRow(r)) /\ RowOK(DeadLettered(r))
    BY DEF LeasableState, LeasedRow, DeadLettered
  <1>3. HeartbeatChecked(r, n) => RowOK(HeartbeatWrite(r, r, n, now))
    BY DEF HeartbeatChecked, HeartbeatWrite, DeadlineWrite
  <1>4. DispatchChecked(x, r, n) => RowOK(DispatchWrite(r, n, now))
    BY DEF DispatchChecked, DispatchWrite, DeadlineWrite
  <1>5. CompleteChecked(x, r, n) => RowOK(CompleteWrite(r, digest))
    BY DEF CompleteChecked, CompleteWrite
  <1>6. ASSUME FailChecked(r, n), NEW retryable \in BOOLEAN
        PROVE  RowOK(FailWrite(r, r, error, retryable, now))
    <2>1. ~FailsForGood(r, error, retryable, now) =>
            r.attempt < MaxAttempts /\ SameErrors(r, error) < PoisonThreshold
      <3>1. SameErrors(r, error) \in Nat
        BY DEF SameErrors
      <3>2. MaxAttempts \in Nat /\ PoisonThreshold \in Nat
        BY StoreAssumption
      <3>. QED
        BY <3>1, <3>2 DEF FailsForGood
    <2>. QED
      BY <1>6, <2>1 DEF FailChecked, FailWrite
  <1>7. UnknownChecked(r, n) => RowOK(UnknownWrite(r, error))
    BY DEF UnknownChecked, UnknownWrite
  <1>8. Recoverable(r) => RowOK(RecoveredRow(r))
    <2>1. MaxAttempts \in Nat
      BY StoreAssumption
    <2>. QED
      BY <2>1 DEF Recoverable, RecoveredRow
  <1>9. CancelChecked(r) => RowOK(CancelWrite(r))
    BY DEF CancelChecked, CancelWrite
  <1>10. ReconcileChecked(r) => \A outcome \in Outcomes :
                                    RowOK(ReconcileWrite(r, r, outcome, digest, now))
    BY DEF ReconcileChecked, ReconcileWrite
  <1>. QED
    BY <1>1, <1>2, <1>3, <1>4, <1>5, <1>6, <1>7, <1>8, <1>9, <1>10

LEMMA WriteKeepsRows ==
    ASSUME TypeOK, RowsOK, NEW x \in Executions, NEW r \in Row, RowOK(r), Write(x, r)
    PROVE  store' \in [Executions -> Row] /\ RowsOK'
  BY DEF TypeOK, RowsOK, Write

LEMMA GrantType ==
    ASSUME TypeOK, NEW w \in Workers, NEW x \in Executions, NEW g \in Grant
    PROVE  /\ NoGrant \in Grant
           /\ Token(w, x) \in Nat
           /\ Granted(w, x, g) \in [Workers -> [Executions -> Grant]]
  <1>1. NoGrant \in Grant
    BY DEF NoGrant, Grant
  <1>2. lease[w][x] \in Grant
    BY DEF TypeOK
  <1>3. Token(w, x) \in Nat
    BY <1>2 DEF Token, Grant
  <1>4. Granted(w, x, g) \in [Workers -> [Executions -> Grant]]
    BY DEF TypeOK, Granted
  <1>. QED
    BY <1>1, <1>3, <1>4

LEMMA RowsInit == Init => TypeOK /\ RowsOK
  <1>. SUFFICES ASSUME Init PROVE TypeOK /\ RowsOK
    OBVIOUS
  <1>1. AbsentRow \in Row
    BY DEF AbsentRow, Row
  <1>2. RowOK(AbsentRow)
    BY StoreAssumption DEF AbsentRow, RowOK
  <1>. QED
    BY <1>1, <1>2 DEF Init, TypeOK, RowsOK, Grant, NoGrant

LEMMA RowsStep == TypeOK /\ RowsOK /\ [Next]_vars => TypeOK' /\ RowsOK'
  <1>. SUFFICES ASSUME TypeOK, RowsOK, [Next]_vars PROVE TypeOK' /\ RowsOK'
    OBVIOUS
  <1>t. /\ \A x \in Executions : store[x] \in Row /\ RowOK(store[x])
        /\ now \in Nat
        /\ lease \in [Workers -> [Executions -> Grant]]
        /\ pending \in [Executions -> SUBSET Nat]
    BY DEF TypeOK, RowsOK
  <1>g. now + LeaseSeconds \in Nat
    BY <1>t, StoreAssumption
  <1>1. ASSUME NEW x \in Executions, Prepare(x) PROVE TypeOK' /\ RowsOK'
    <2>1. PreparedRow \in Row /\ RowOK(PreparedRow)
      BY <1>t, RowTypes, RowsStayOK
    <2>. QED
      BY <1>t, <1>1, <2>1, WriteKeepsRows DEF Prepare, TypeOK
  <1>2. ASSUME NEW w \in Workers, NEW x \in Executions, AcquireLease(w, x)
        PROVE  TypeOK' /\ RowsOK'
    <2>1. LeasedRow(store[x]) \in Row /\ RowOK(LeasedRow(store[x]))
      BY <1>t, <1>2, RowTypes, RowsStayOK DEF AcquireLease, LeaseAllowed
    <2>. DEFINE g == [token |-> store[x].attempt + 1, until |-> now + LeaseSeconds]
    <2>2. g \in Grant
      <3>1. store[x].attempt + 1 \in Nat
        BY <1>t DEF Row
      <3>. QED
        BY <1>g, <3>1 DEF Grant
    <2>3. lease' \in [Workers -> [Executions -> Grant]]
      BY <1>2, <2>2, GrantType DEF AcquireLease
    <2>4. store' \in [Executions -> Row] /\ RowsOK'
      BY <1>2, <2>1, WriteKeepsRows DEF AcquireLease
    <2>. QED
      BY <1>t, <1>2, <2>3, <2>4 DEF AcquireLease, TypeOK
  <1>3. ASSUME NEW x \in Executions, AcquirePastDeadline(x) PROVE TypeOK' /\ RowsOK'
    <2>1. DeadLettered(store[x]) \in Row /\ RowOK(DeadLettered(store[x]))
      BY <1>t, <1>3, RowTypes, RowsStayOK DEF AcquirePastDeadline
    <2>. QED
      BY <1>t, <1>3, <2>1, WriteKeepsRows DEF AcquirePastDeadline, TypeOK
  <1>4. ASSUME NEW w \in Workers, NEW x \in Executions, Heartbeat(w, x)
        PROVE  TypeOK' /\ RowsOK'
    <2>. DEFINE r == HeartbeatWrite(store[x], store[x], Token(w, x), now)
                g == IF PastDeadline(now) THEN NoGrant
                     ELSE [token |-> Token(w, x), until |-> now + LeaseSeconds]
    <2>1. g \in Grant
      BY <1>g, GrantType, NoGrant \in Grant DEF Grant, NoGrant
    <2>2. r \in Row /\ RowOK(r)
      BY <1>t, <1>4, <2>1, GrantType, RowTypes, RowsStayOK DEF Heartbeat
    <2>. QED
      BY <1>t, <1>4, <2>1, <2>2, WriteKeepsRows, GrantType DEF Heartbeat, TypeOK
  <1>5. ASSUME NEW w \in Workers, NEW x \in Executions, RecordDispatchStarted(w, x)
        PROVE  TypeOK' /\ RowsOK'
    <2>. DEFINE r == DispatchWrite(store[x], Token(w, x), now)
    <2>1. NoGrant \in Grant /\ Token(w, x) \in Nat
      BY GrantType, NoGrant \in Grant DEF Grant, NoGrant
    <2>2. r \in Row /\ RowOK(r)
      BY <1>t, <1>5, <2>1, RowTypes, RowsStayOK DEF RecordDispatchStarted
    <2>3. store' \in [Executions -> Row] /\ RowsOK'
      BY <1>5, <2>2, WriteKeepsRows DEF RecordDispatchStarted
    <2>4. pending' \in [Executions -> SUBSET Nat]
      BY <1>t, <1>5, <2>1 DEF RecordDispatchStarted
    <2>5. lease' \in [Workers -> [Executions -> Grant]]
      BY <1>t, <1>5, <2>1, GrantType DEF RecordDispatchStarted
    <2>. QED
      BY <1>t, <1>5, <2>3, <2>4, <2>5 DEF RecordDispatchStarted, TypeOK
  <1>6. ASSUME NEW w \in Workers, NEW x \in Executions, NEW digest \in Results,
               Complete(w, x, digest)
        PROVE  TypeOK' /\ RowsOK'
    <2>1. CompleteWrite(store[x], digest) \in Row /\ RowOK(CompleteWrite(store[x], digest))
      BY <1>t, <1>6, RowTypes, RowsStayOK DEF Complete
    <2>. QED
      BY <1>t, <1>6, <2>1, WriteKeepsRows, GrantType DEF Complete, TypeOK
  <1>7. ASSUME NEW w \in Workers, NEW x \in Executions, NEW error \in Errors,
               NEW retryable \in BOOLEAN, FailBeforeDispatch(w, x, error, retryable)
        PROVE  TypeOK' /\ RowsOK'
    <2>. DEFINE r == FailWrite(store[x], store[x], error, retryable, now)
    <2>1. r \in Row /\ RowOK(r)
      BY <1>t, <1>7, RowTypes, RowsStayOK DEF FailBeforeDispatch
    <2>. QED
      BY <1>t, <1>7, <2>1, WriteKeepsRows, GrantType DEF FailBeforeDispatch, TypeOK
  <1>8. ASSUME NEW w \in Workers, NEW x \in Executions, NEW error \in Errors,
               MarkOutcomeUnknown(w, x, error)
        PROVE  TypeOK' /\ RowsOK'
    <2>1. UnknownWrite(store[x], error) \in Row /\ RowOK(UnknownWrite(store[x], error))
      BY <1>t, <1>8, RowTypes, RowsStayOK DEF MarkOutcomeUnknown
    <2>. QED
      BY <1>t, <1>8, <2>1, WriteKeepsRows, GrantType DEF MarkOutcomeUnknown, TypeOK
  <1>9. ASSUME RecoverExpiredLeases PROVE TypeOK' /\ RowsOK'
    <2>1. ASSUME NEW x \in Executions, Recoverable(store[x])
          PROVE  RecoveredRow(store[x]) \in Row /\ RowOK(RecoveredRow(store[x]))
      BY <1>t, <2>1, RowTypes, RowsStayOK
    <2>. QED
      BY <1>t, <1>9, <2>1 DEF RecoverExpiredLeases, TypeOK, RowsOK
  <1>10. ASSUME NEW x \in Executions, Cancel(x) PROVE TypeOK' /\ RowsOK'
    <2>1. CancelWrite(store[x]) \in Row /\ RowOK(CancelWrite(store[x]))
      BY <1>t, <1>10, RowTypes, RowsStayOK DEF Cancel
    <2>. QED
      BY <1>t, <1>10, <2>1, WriteKeepsRows DEF Cancel, TypeOK
  <1>11. ASSUME NEW x \in Executions, NEW outcome \in Outcomes, NEW evidence \in Results,
                ReconcileUnknown(x, outcome, evidence)
         PROVE  TypeOK' /\ RowsOK'
    <2>. DEFINE r == ReconcileWrite(store[x], store[x], outcome, evidence, now)
    <2>1. r \in Row /\ RowOK(r)
      BY <1>t, <1>11, RowTypes, RowsStayOK DEF ReconcileUnknown
    <2>2. pending' \in [Executions -> SUBSET Nat]
      BY <1>t, <1>11 DEF ReconcileUnknown
    <2>. QED
      BY <1>t, <1>11, <2>1, <2>2, WriteKeepsRows DEF ReconcileUnknown, TypeOK
  <1>12. ASSUME NEW w \in Workers, Crash(w) PROVE TypeOK' /\ RowsOK'
    BY <1>t, <1>12 DEF Crash, TypeOK, RowsOK, RowOK, NoGrant, Grant
  <1>13. ASSUME Tick PROVE TypeOK' /\ RowsOK'
    BY <1>13 DEF Tick, TypeOK, RowsOK, RowOK
  <1>14. ASSUME UNCHANGED vars PROVE TypeOK' /\ RowsOK'
    BY <1>14 DEF vars, TypeOK, RowsOK, RowOK
  <1>. QED
    BY <1>1, <1>2, <1>3, <1>4, <1>5, <1>6, <1>7, <1>8, <1>9, <1>10, <1>11, <1>12,
       <1>13, <1>14 DEF Next, WorkerStep, OperatorStep

(* Every reachable state of the kernel has well-typed rows, grants and     *)
(* pending effects.                                                        *)
THEOREM TypeCorrect == Spec => []TypeOK
  <1>. QED
    BY RowsInit, RowsStep, PTL DEF Spec

(* A row offered for retry (fail_before_dispatch, recover_expired_leases,  *)
(* reconcile_unknown) has attempts left, errors below the poison threshold *)
(* and no holder.                                                          *)
THEOREM RetriesAreLimited == Spec => []RetryIsWithinLimits
  <1>1. RowsOK => RetryIsWithinLimits
    BY DEF RowsOK, RowOK, RetryIsWithinLimits
  <1>. QED
    BY <1>1, RowsInit, RowsStep, PTL DEF Spec

-----------------------------------------------------------------------------
EffectInv == PendingEffectVisible /\ OneToken /\ OneClaim

(* A write that neither registers an execution nor hands an effect over.   *)
LEMMA WriteKeepsEffects ==
    ASSUME TypeOK, EffectInv, NEW x \in Executions, NEW r, Write(x, r),
           Exists(x), UNCHANGED pending, pending[x] # {} => r.state \in Handed
    PROVE  EffectInv'
  <1>1. store'[x] = r /\ \A y \in Executions : y # x => store'[y] = store[y]
    BY DEF TypeOK, Write
  <1>2. PendingEffectVisible'
    BY <1>1 DEF EffectInv, PendingEffectVisible, Handed
  <1>3. OneToken'
    BY DEF EffectInv, OneToken
  <1>4. OneClaim'
    BY <1>1 DEF EffectInv, OneClaim, Exists
  <1>. QED
    BY <1>2, <1>3, <1>4 DEF EffectInv

LEMMA EffectStep == TypeOK /\ EffectInv /\ [Next]_vars => EffectInv'
  <1>. SUFFICES ASSUME TypeOK, EffectInv, [Next]_vars PROVE EffectInv'
    OBVIOUS
  <1>t. /\ store \in [Executions -> Row]
        /\ pending \in [Executions -> SUBSET Nat]
        /\ \A x \in Executions : pending[x] # {} => store[x].state \in Handed
    BY DEF TypeOK, EffectInv, PendingEffectVisible, Handed
  <1>1. ASSUME NEW x \in Executions, Prepare(x) PROVE EffectInv'
    <2>1. \A y \in Executions : y # x => store'[y] = store[y]
      BY <1>1, <1>t DEF Prepare, Write
    <2>2. \A y \in Executions : Exists(y) => EffectKey[y] # EffectKey[x]
      BY <1>1 DEF Prepare, PrepareAllowed
    <2>3. pending[x] = {}
      BY <1>t, <2>2 DEF Exists, Handed
    <2>4. OneClaim'
      BY <2>1, <2>2 DEF EffectInv, OneClaim, Exists
    <2>5. PendingEffectVisible' /\ OneToken'
      BY <1>1, <2>1, <2>3 DEF Prepare, EffectInv, PendingEffectVisible, OneToken
    <2>. QED
      BY <2>4, <2>5 DEF EffectInv
  <1>2. ASSUME NEW w \in Workers, NEW x \in Executions, AcquireLease(w, x)
        PROVE  EffectInv'
    BY <1>2, <1>t, WriteKeepsEffects
       DEF AcquireLease, LeaseAllowed, LeasableState, Exists, Handed
  <1>3. ASSUME NEW x \in Executions, AcquirePastDeadline(x) PROVE EffectInv'
    BY <1>3, <1>t, WriteKeepsEffects
       DEF AcquirePastDeadline, LeasableState, Exists, Handed
  <1>4. ASSUME NEW w \in Workers, NEW x \in Executions, Heartbeat(w, x)
        PROVE  EffectInv'
    BY <1>4, <1>t, WriteKeepsEffects DEF Heartbeat, HeartbeatChecked, Exists, Handed
  <1>5. ASSUME NEW w \in Workers, NEW x \in Executions, RecordDispatchStarted(w, x)
        PROVE  EffectInv'
    <2>1. store[x].state = "LEASED" /\ pending[x] = {}
      BY <1>5, <1>t DEF RecordDispatchStarted, DispatchChecked, Handed
    <2>2. CASE PastDeadline(now)
      BY <1>5, <2>1, <2>2, WriteKeepsEffects
         DEF RecordDispatchStarted, DispatchRecorded, Exists
    <2>3. CASE ~PastDeadline(now)
      <3>1. store[x].token = Token(w, x)
        BY <1>5 DEF RecordDispatchStarted, DispatchChecked, HoldsLease
      <3>2. /\ store'[x].state = "DISPATCH_RECORDED"
            /\ \A y \in Executions : y # x => store'[y] = store[y]
        BY <1>5, <1>t, <2>3, <3>1 DEF RecordDispatchStarted, DispatchWrite, Write, Row
      <3>3. /\ pending'[x] = {Token(w, x)}
            /\ \A y \in Executions : y # x => pending'[y] = pending[y]
        BY <1>5, <1>t, <2>1, <2>3, <3>1 DEF RecordDispatchStarted, DispatchRecorded
      <3>4. PendingEffectVisible' /\ OneToken'
        BY <3>2, <3>3 DEF EffectInv, PendingEffectVisible, OneToken
      <3>5. OneClaim'
        BY <2>1, <3>2 DEF EffectInv, OneClaim, Exists
      <3>. QED
        BY <3>4, <3>5 DEF EffectInv
    <2>. QED
      BY <2>2, <2>3
  <1>6. ASSUME NEW w \in Workers, NEW x \in Executions, NEW digest \in Results,
               Complete(w, x, digest)
        PROVE  EffectInv'
    <2>1. store[x] \in Row /\ CompleteWrite(store[x], digest).state = "COMPLETED"
      BY <1>t DEF CompleteWrite, NoLease, Row
    <2>. QED
      BY <1>6, <1>t, <2>1, WriteKeepsEffects DEF Complete, CompleteChecked, Exists, Handed
  <1>7. ASSUME NEW w \in Workers, NEW x \in Executions, NEW error \in Errors,
               NEW retryable \in BOOLEAN, FailBeforeDispatch(w, x, error, retryable)
        PROVE  EffectInv'
    BY <1>7, <1>t, WriteKeepsEffects DEF FailBeforeDispatch, FailChecked, Exists, Handed
  <1>8. ASSUME NEW w \in Workers, NEW x \in Executions, NEW error \in Errors,
               MarkOutcomeUnknown(w, x, error)
        PROVE  EffectInv'
    <2>1. store[x] \in Row /\ UnknownWrite(store[x], error).state = "OUTCOME_UNKNOWN"
      BY <1>t DEF UnknownWrite, NoLease, Row
    <2>. QED
      BY <1>8, <1>t, <2>1, WriteKeepsEffects
         DEF MarkOutcomeUnknown, UnknownChecked, Exists, Handed
  <1>9. ASSUME RecoverExpiredLeases PROVE EffectInv'
    <2>1. ASSUME NEW x \in Executions
          PROVE  /\ pending[x] # {} => store'[x].state \in Handed
                 /\ Exists(x)' => Exists(x)
      <3>1. store[x] \in Row
        BY <1>t
      <3>2. Recoverable(store[x]) => Exists(x)
        BY DEF Recoverable, Exists
      <3>3. store[x].state = "DISPATCH_RECORDED" =>
              RecoveredRow(store[x]).state = "OUTCOME_UNKNOWN"
        BY <3>1 DEF RecoveredRow, NoLease, Row
      <3>4. store'[x] = IF Recoverable(store[x]) THEN RecoveredRow(store[x]) ELSE store[x]
        BY <1>9 DEF RecoverExpiredLeases
      <3>. QED
        BY <1>t, <3>2, <3>3, <3>4 DEF Recoverable, Exists, Handed
    <2>2. UNCHANGED pending
      BY <1>9 DEF RecoverExpiredLeases
    <2>. QED
      BY <2>1, <2>2 DEF EffectInv, PendingEffectVisible, OneToken, OneClaim, Handed
  <1>10. ASSUME NEW x \in Executions, Cancel(x) PROVE EffectInv'
    BY <1>10, <1>t, WriteKeepsEffects DEF Cancel, CancelChecked, Exists, Handed
  <1>11. ASSUME NEW x \in Executions, NEW outcome \in Outcomes, NEW evidence \in Results,
                ReconcileUnknown(x, outcome, evidence)
         PROVE  EffectInv'
    <2>1. store[x] \in Row /\ Exists(x)
      BY <1>11, <1>t DEF ReconcileUnknown, ReconcileChecked, Exists
    <2>2. CASE outcome = "CONFIRMED_EFFECT"
      <3>1. ReconcileWrite(store[x], store[x], outcome, evidence, now).state = "COMPLETED"
        BY <2>1, <2>2 DEF ReconcileWrite, Row
      <3>. QED
        BY <1>11, <2>1, <2>2, <3>1, WriteKeepsEffects DEF ReconcileUnknown, Handed
    <2>3. CASE outcome = "CONFIRMED_NO_EFFECT"
      <3>1. \A y \in Executions : pending'[y] = IF y = x THEN {} ELSE pending[y]
        BY <1>11, <1>t, <2>3 DEF ReconcileUnknown
      <3>2. \A y \in Executions : y # x => store'[y] = store[y]
        BY <1>11, <1>t DEF ReconcileUnknown, Write
      <3>. QED
        BY <2>1, <3>1, <3>2
           DEF EffectInv, PendingEffectVisible, OneToken, OneClaim, Exists
    <2>. QED
      BY <2>2, <2>3 DEF Outcomes
  <1>12. ASSUME NEW w \in Workers, Crash(w) PROVE EffectInv'
    BY <1>12 DEF Crash, EffectInv, PendingEffectVisible, OneToken, OneClaim, Exists
  <1>13. ASSUME Tick PROVE EffectInv'
    BY <1>13 DEF Tick, EffectInv, PendingEffectVisible, OneToken, OneClaim, Exists
  <1>14. ASSUME UNCHANGED vars PROVE EffectInv'
    BY <1>14 DEF vars, EffectInv, PendingEffectVisible, OneToken, OneClaim, Exists
  <1>. QED
    BY <1>1, <1>2, <1>3, <1>4, <1>5, <1>6, <1>7, <1>8, <1>9, <1>10, <1>11, <1>12,
       <1>13, <1>14 DEF Next, WorkerStep, OperatorStep

LEMMA EffectInit == Init => EffectInv
  BY DEF Init, EffectInv, PendingEffectVisible, OneToken, OneClaim, Exists, AbsentRow

(* An effect that may have happened stays visible: no crash, recovery,     *)
(* cancel or deadline lets its row be retried or written off.              *)
THEOREM PendingEffectsStayVisible == Spec => []PendingEffectVisible
  <1>1. EffectInv => PendingEffectVisible
    BY DEF EffectInv
  <1>. QED
    BY <1>1, RowsInit, RowsStep, EffectInit, EffectStep, PTL DEF Spec

LEMMA EffectsAreSingle == EffectInv => NoSecondHandOver
  <1>. SUFFICES ASSUME EffectInv, NEW x \in Executions, NEW y \in Executions,
                       EffectKey[x] = EffectKey[y],
                       NEW s \in pending[x], NEW t \in pending[y]
                PROVE  x = y /\ s = t
    BY DEF NoSecondHandOver
  <1>1. Exists(x) /\ Exists(y)
    BY DEF EffectInv, PendingEffectVisible, Exists
  <1>2. x = y
    BY <1>1 DEF EffectInv, OneClaim
  <1>. QED
    BY <1>2 DEF EffectInv, OneToken

(* The critical invariant of the kernel: an effect handed over is not      *)
(* handed over again, under any execution that claims it, before a         *)
(* reconciliation proved that it did not happen.                           *)
THEOREM HandedOverOnce == Spec => []NoSecondHandOver
  <1>. QED
    BY EffectsAreSingle, RowsInit, RowsStep, EffectInit, EffectStep, PTL DEF Spec

-----------------------------------------------------------------------------
(* The row a step writes is not a terminal one, and the others are left    *)
(* alone.                                                                  *)
LEMMA WriteSparesTerminal ==
    ASSUME TypeOK, NEW x \in Executions, NEW r, Write(x, r),
           store[x].state \notin TERMINAL
    PROVE  \A y \in Executions : store[y].state \in TERMINAL => store'[y] = store[y]
  BY DEF TypeOK, Write

LEMMA TerminalStep ==
    TypeOK /\ [Next]_vars =>
        \A x \in Executions : store[x].state \in TERMINAL => store'[x] = store[x]
  <1>. DEFINE Spares == \A x \in Executions :
                            store[x].state \in TERMINAL => store'[x] = store[x]
  <1>. SUFFICES ASSUME TypeOK, [Next]_vars PROVE Spares
    OBVIOUS
  <1>. HIDE DEF Spares
  <1>w. ASSUME NEW x \in Executions, NEW r, Write(x, r), store[x].state \notin TERMINAL
        PROVE  Spares
    BY <1>w, WriteSparesTerminal DEF Spares
  <1>. USE DEF TERMINAL
  <1>1. ASSUME NEW x \in Executions, Prepare(x) PROVE Spares
    <2>1. CASE Exists(x)
      BY <1>1, <2>1 DEF Prepare, PrepareAllowed
    <2>2. CASE ~Exists(x)
      BY <1>1, <2>2, <1>w DEF Prepare, Exists
    <2>. QED
      BY <2>1, <2>2
  <1>2. ASSUME NEW w \in Workers, NEW x \in Executions, AcquireLease(w, x) PROVE Spares
    BY <1>2, <1>w DEF AcquireLease, LeaseAllowed, LeasableState
  <1>3. ASSUME NEW x \in Executions, AcquirePastDeadline(x) PROVE Spares
    BY <1>3, <1>w DEF AcquirePastDeadline, LeasableState
  <1>4. ASSUME NEW w \in Workers, NEW x \in Executions, Heartbeat(w, x) PROVE Spares
    BY <1>4, <1>w DEF Heartbeat, HeartbeatChecked
  <1>5. ASSUME NEW w \in Workers, NEW x \in Executions, RecordDispatchStarted(w, x)
        PROVE  Spares
    BY <1>5, <1>w DEF RecordDispatchStarted, DispatchChecked
  <1>6. ASSUME NEW w \in Workers, NEW x \in Executions, NEW digest \in Results,
               Complete(w, x, digest)
        PROVE  Spares
    BY <1>6, <1>w DEF Complete, CompleteChecked
  <1>7. ASSUME NEW w \in Workers, NEW x \in Executions, NEW error \in Errors,
               NEW retryable \in BOOLEAN, FailBeforeDispatch(w, x, error, retryable)
        PROVE  Spares
    BY <1>7, <1>w DEF FailBeforeDispatch, FailChecked
  <1>8. ASSUME NEW w \in Workers, NEW x \in Executions, NEW error \in Errors,
               MarkOutcomeUnknown(w, x, error)
        PROVE  Spares
    BY <1>8, <1>w DEF MarkOutcomeUnknown, UnknownChecked
  <1>9. ASSUME RecoverExpiredLeases PROVE Spares
    BY <1>9 DEF RecoverExpiredLeases, Recoverable, Spares
  <1>10. ASSUME NEW x \in Executions, Cancel(x) PROVE Spares
    BY <1>10, <1>w DEF Cancel, CancelChecked
  <1>11. ASSUME NEW x \in Executions, NEW outcome \in Outcomes, NEW evidence \in Results,
                ReconcileUnknown(x, outcome, evidence)
         PROVE  Spares
    BY <1>11, <1>w DEF ReconcileUnknown, ReconcileChecked
  <1>12. ASSUME UNCHANGED store PROVE Spares
    BY <1>12 DEF Spares
  <1>. QED
    BY <1>1, <1>2, <1>3, <1>4, <1>5, <1>6, <1>7, <1>8, <1>9, <1>10, <1>11, <1>12
       DEF Next, WorkerStep, OperatorStep, Crash, Tick, vars

(* COMPLETED, CANCELED and DLQ rows are never written again, whatever is   *)
(* called later and by whom.                                               *)
THEOREM TerminalRowsAreFinal == Spec => TerminalIsFinal
  <1>. QED
    BY RowsInit, RowsStep, TerminalStep, PTL DEF Spec, TerminalIsFinal

-----------------------------------------------------------------------------
(* No grant of x runs: whoever was given a token may not use it any more.  *)
Unleased(x) == \A w \in Workers : lease[w][x].until <= now

(* What keeps a row free: an empty token, or a lease that has ended.       *)
LEMMA FreeRows ==
    ASSUME TypeOK, GrantsOK, NEW x \in Executions,
           store[x].token = 0 \/ store[x].expires <= now
    PROVE  Unleased(x)
  <1>. SUFFICES ASSUME NEW w \in Workers, ~(lease[w][x].until <= now) PROVE FALSE
    BY DEF Unleased
  <1>1. lease[w][x].until \in Nat /\ now \in Nat
    BY DEF TypeOK, Grant
  <1>2. GrantOK(w, x) /\ lease[w][x].until > now
    BY <1>1 DEF GrantsOK
  <1>. QED
    BY <1>1, <1>2 DEF GrantOK

(* A write by a caller that needs no token.                                *)
LEMMA WriteKeepsGrants ==
    ASSUME TypeOK, GrantsOK, NEW x \in Executions, NEW r, Write(x, r),
           now' = now, lease' = lease,
           r.state # "ABSENT",
           ~Exists(x) \/ r.attempt = store[x].attempt,
           r.attempt \in Nat,
           ~Unleased(x) => (r.token = store[x].token /\ r.expires = store[x].expires)
    PROVE  GrantsOK'
  <1>1. store'[x] = r /\ \A y \in Executions : y # x => store'[y] = store[y]
    BY DEF TypeOK, Write
  <1>2. DistinctTokens'
    BY DEF GrantsOK, DistinctTokens, Token
  <1>3. ASSUME NEW w \in Workers PROVE GrantOK(w, x)'
    <2>1. GrantOK(w, x) /\ lease[w][x].until \in Nat /\ now \in Nat
      BY DEF GrantsOK, TypeOK, Grant
    <2>2. Token(w, x)' = Token(w, x)
      BY DEF Token
    <2>3. Token(w, x)' <= store'[x].attempt
      BY <1>1, <2>1, <2>2 DEF GrantOK
    <2>4. lease[w][x].until > now => r.token = store[x].token /\ r.expires = store[x].expires
      BY <2>1 DEF Unleased
    <2>. QED
      BY <1>1, <2>1, <2>2, <2>3, <2>4 DEF GrantOK, Exists
  <1>4. ASSUME NEW w \in Workers, NEW y \in Executions, y # x PROVE GrantOK(w, y)'
    BY <1>1, <1>4 DEF GrantsOK, GrantOK, Exists, Token
  <1>. QED
    BY <1>2, <1>3, <1>4 DEF GrantsOK

(* A write by the holder of the row's token.                               *)
LEMMA HolderKeepsGrants ==
    ASSUME TypeOK, GrantsOK, NEW w \in Workers, NEW x \in Executions, NEW r, Write(x, r),
           HoldsLease(store[x], Token(w, x)),
           NEW g, lease' = Granted(w, x, g), UNCHANGED now,
           r.state # "ABSENT", r.attempt = store[x].attempt,
           \/ g = NoGrant
           \/ g.token = Token(w, x) /\ r.token = g.token /\ r.expires = g.until
    PROVE  GrantsOK'
  <1>1. store'[x] = r /\ \A y \in Executions : y # x => store'[y] = store[y]
    BY DEF TypeOK, Write
  <1>2. /\ lease'[w][x] = g
        /\ \A v \in Workers, y \in Executions : v # w \/ y # x => lease'[v][y] = lease[v][y]
    BY DEF TypeOK, Granted
  <1>3. Token(w, x) # 0 /\ store[x].token = Token(w, x)
    BY DEF HoldsLease
  <1>4. g.token = 0 \/ g.token = Token(w, x)
    BY DEF NoGrant
  <1>5. DistinctTokens'
    BY <1>2, <1>4 DEF GrantsOK, DistinctTokens, Token
  <1>6. GrantOK(w, x)'
    <2>1. GrantOK(w, x) /\ Token(w, x) \in Nat /\ store[x].attempt \in Nat /\ now \in Nat
      BY DEF GrantsOK, Token, TypeOK, Grant, Row
    <2>2. CASE g = NoGrant
      BY <1>1, <1>2, <2>1, <2>2 DEF GrantOK, Token, NoGrant, Exists
    <2>3. CASE g.token = Token(w, x) /\ r.token = g.token /\ r.expires = g.until
      BY <1>1, <1>2, <1>3, <2>1, <2>3 DEF GrantOK, Token, Exists
    <2>. QED
      BY <2>2, <2>3
  <1>7. ASSUME NEW v \in Workers, v # w PROVE GrantOK(v, x)'
    <2>1. GrantOK(v, x) /\ (Token(v, x) = Token(w, x) => Token(w, x) = 0)
      BY <1>7 DEF GrantsOK, DistinctTokens
    <2>2. ~(lease[v][x].until > now)
      BY <1>3, <2>1 DEF GrantOK
    <2>. QED
      BY <1>1, <1>2, <1>7, <2>1, <2>2 DEF GrantOK, Token, Exists
  <1>8. ASSUME NEW v \in Workers, NEW y \in Executions, y # x PROVE GrantOK(v, y)'
    BY <1>1, <1>2, <1>8 DEF GrantsOK, GrantOK, Token, Exists
  <1>. QED
    BY <1>5, <1>6, <1>7, <1>8 DEF GrantsOK

LEMMA GrantsInit == Init => GrantsOK
  <1>. SUFFICES ASSUME Init PROVE GrantsOK
    OBVIOUS
  <1>1. \A w \in Workers, x \in Executions :
            /\ lease[w][x] = NoGrant /\ Token(w, x) = 0
            /\ store[x] = AbsentRow
    BY DEF Init, Token, NoGrant
  <1>2. DistinctTokens
    BY <1>1 DEF DistinctTokens
  <1>3. \A w \in Workers, x \in Executions : GrantOK(w, x)
    BY <1>1 DEF Init, GrantOK, NoGrant, AbsentRow
  <1>. QED
    BY <1>2, <1>3 DEF GrantsOK

LEMMA GrantsStep == TypeOK /\ RowsOK /\ GrantsOK /\ [Next]_vars => GrantsOK'
  <1>. SUFFICES ASSUME TypeOK, RowsOK, GrantsOK, [Next]_vars PROVE GrantsOK'
    OBVIOUS
  <1>t. /\ \A x \in Executions : /\ store[x] \in Row /\ RowOK(store[x])
                                 /\ store[x].attempt \in Nat
        /\ now \in Nat
    BY DEF TypeOK, RowsOK, Row
  <1>u. ASSUME NEW x \in Executions,
               store[x].state \in {"ABSENT", "PREPARED", "RETRY_WAIT", "OUTCOME_UNKNOWN"}
        PROVE  store[x].token = 0 /\ Unleased(x)
    BY <1>t, <1>u, FreeRows DEF RowOK
  <1>l. ASSUME NEW x \in Executions, LeaseAllowed(store[x]) PROVE Unleased(x)
    <2>1. CASE store[x].state = "LEASED"
      <3>1. store[x].expires <= now
        BY <1>l, <1>t, <2>1 DEF LeaseAllowed, Row
      <3>. QED
        BY <3>1, FreeRows
    <2>2. CASE store[x].state # "LEASED"
      BY <1>l, <1>u, <2>2 DEF LeaseAllowed, LeasableState
    <2>. QED
      BY <2>1, <2>2
  <1>1. ASSUME NEW x \in Executions, Prepare(x) PROVE GrantsOK'
    <2>1. ~Exists(x)
      BY <1>1 DEF Prepare, PrepareAllowed
    <2>2. Unleased(x)
      BY <1>u, <2>1 DEF Exists
    <2>3. PreparedRow.state # "ABSENT" /\ PreparedRow.attempt \in Nat
      BY DEF PreparedRow, AbsentRow
    <2>. QED
      BY <1>1, <2>1, <2>2, <2>3, WriteKeepsGrants DEF Prepare
  <1>2. ASSUME NEW w \in Workers, NEW x \in Executions, AcquireLease(w, x)
        PROVE  GrantsOK'
    <2>. DEFINE r == LeasedRow(store[x])
                n == store[x].attempt + 1
    <2>1. /\ store'[x] = r /\ \A y \in Executions : y # x => store'[y] = store[y]
          /\ r.state = "LEASED" /\ r.attempt = n /\ r.token = n
          /\ r.expires = now + LeaseSeconds
          /\ n \in Nat /\ n # 0
      BY <1>2, <1>t DEF AcquireLease, TypeOK, Write, LeasedRow, Row
    <2>2. /\ lease'[w][x] = [token |-> n, until |-> now + LeaseSeconds]
          /\ \A v \in Workers, y \in Executions :
                 v # w \/ y # x => lease'[v][y] = lease[v][y]
          /\ now' = now
      BY <1>2 DEF AcquireLease, TypeOK, Granted
    <2>3. Unleased(x)
      BY <1>2, <1>l DEF AcquireLease
    <2>4. ASSUME NEW v \in Workers
          PROVE  Token(v, x) \in Nat /\ Token(v, x) <= store[x].attempt
      BY DEF GrantsOK, GrantOK, Token, TypeOK, Grant
    <2>5. DistinctTokens'
      <3>1. \A v \in Workers : v # w => Token(v, x)' # n
        BY <1>t, <2>2, <2>4 DEF Token, Row
      <3>2. \A u, v \in Workers : (u # v /\ Token(u, x)' = Token(v, x)') => Token(v, x)' = 0
        <4>. SUFFICES ASSUME NEW u \in Workers, NEW v \in Workers, u # v,
                             Token(u, x)' = Token(v, x)'
                      PROVE  Token(v, x)' = 0
          OBVIOUS
        <4>1. u # w /\ v # w
          BY <2>2, <3>1 DEF Token
        <4>. QED
          BY <2>2, <4>1 DEF GrantsOK, DistinctTokens, Token
      <3>3. \A y \in Executions, u, v \in Workers :
                (y # x /\ u # v /\ Token(u, y)' = Token(v, y)') => Token(v, y)' = 0
        BY <2>2 DEF GrantsOK, DistinctTokens, Token
      <3>. QED
        BY <3>2, <3>3 DEF DistinctTokens
    <2>6. GrantOK(w, x)'
      BY <2>1, <2>2 DEF GrantOK, Token, Exists
    <2>7. ASSUME NEW v \in Workers, v # w PROVE GrantOK(v, x)'
      <3>1. ~(lease[v][x].until > now)
        BY <1>t, <2>3 DEF Unleased, TypeOK, Grant
      <3>2. Token(v, x)' = Token(v, x) /\ Token(v, x) <= n
        BY <1>t, <2>2, <2>4, <2>7 DEF Token, Row
      <3>. QED
        BY <2>1, <2>2, <2>7, <3>1, <3>2 DEF GrantOK, Exists
    <2>8. ASSUME NEW v \in Workers, NEW y \in Executions, y # x PROVE GrantOK(v, y)'
      BY <2>1, <2>2, <2>8 DEF GrantsOK, GrantOK, Token, Exists
    <2>. QED
      BY <2>5, <2>6, <2>7, <2>8 DEF GrantsOK
  <1>3. ASSUME NEW x \in Executions, AcquirePastDeadline(x) PROVE GrantsOK'
    <2>1. /\ DeadLettered(store[x]).state = "DLQ"
          /\ DeadLettered(store[x]).attempt = store[x].attempt
          /\ DeadLettered(store[x]).token = store[x].token
          /\ DeadLettered(store[x]).expires = store[x].expires
      BY <1>t DEF DeadLettered, Row
    <2>. QED
      BY <1>t, <1>3, <2>1, WriteKeepsGrants DEF AcquirePastDeadline
  <1>4. ASSUME NEW w \in Workers, NEW x \in Executions, Heartbeat(w, x)
        PROVE  GrantsOK'
    <2>. DEFINE r == HeartbeatWrite(store[x], store[x], Token(w, x), now)
                g == IF PastDeadline(now) THEN NoGrant
                     ELSE [token |-> Token(w, x), until |-> now + LeaseSeconds]
    <2>1. store[x].state = "LEASED" /\ HoldsLease(store[x], Token(w, x))
      BY <1>4 DEF Heartbeat, HeartbeatChecked
    <2>2. /\ r.state # "ABSENT" /\ r.attempt = store[x].attempt
          /\ \/ g = NoGrant
             \/ g.token = Token(w, x) /\ r.token = g.token /\ r.expires = g.until
      BY <1>t, <2>1 DEF HeartbeatWrite, DeadlineWrite, NoLease, HoldsLease, Row
    <2>3. Write(x, r) /\ lease' = Granted(w, x, g) /\ now' = now
      BY <1>4 DEF Heartbeat
    <2>. HIDE DEF r, g
    <2>. QED
      BY <2>1, <2>2, <2>3, HolderKeepsGrants
  <1>5. ASSUME NEW w \in Workers, NEW x \in Executions, RecordDispatchStarted(w, x)
        PROVE  GrantsOK'
    <2>. DEFINE r == DispatchWrite(store[x], Token(w, x), now)
    <2>1. store[x].state = "LEASED" /\ HoldsLease(store[x], Token(w, x))
      BY <1>5 DEF RecordDispatchStarted, DispatchChecked
    <2>2. /\ r.state # "ABSENT" /\ r.attempt = store[x].attempt
          /\ ~PastDeadline(now) => r.token = store[x].token /\ r.expires = store[x].expires
      BY <1>t, <2>1 DEF DispatchWrite, DeadlineWrite, NoLease, HoldsLease, Row
    <2>3. Write(x, r) /\ now' = now
      BY <1>5 DEF RecordDispatchStarted
    <2>4. IF PastDeadline(now) THEN lease' = Granted(w, x, NoGrant) ELSE lease' = lease
      BY <1>5, <2>1 DEF RecordDispatchStarted, DispatchRecorded, HoldsLease
    <2>. HIDE DEF r
    <2>5. CASE PastDeadline(now)
      BY <2>1, <2>2, <2>3, <2>4, <2>5, HolderKeepsGrants
    <2>6. CASE ~PastDeadline(now)
      BY <1>t, <2>2, <2>3, <2>4, <2>6, WriteKeepsGrants
    <2>. QED
      BY <2>5, <2>6
  <1>6. ASSUME NEW w \in Workers, NEW x \in Executions, NEW digest \in Results,
               Complete(w, x, digest)
        PROVE  GrantsOK'
    <2>1. /\ CompleteWrite(store[x], digest).state # "ABSENT"
          /\ CompleteWrite(store[x], digest).attempt = store[x].attempt
      BY <1>t DEF CompleteWrite, NoLease, Row
    <2>. QED
      BY <1>6, <2>1, HolderKeepsGrants DEF Complete, CompleteChecked
  <1>7. ASSUME NEW w \in Workers, NEW x \in Executions, NEW error \in Errors,
               NEW retryable \in BOOLEAN, FailBeforeDispatch(w, x, error, retryable)
        PROVE  GrantsOK'
    <2>. DEFINE r == FailWrite(store[x], store[x], error, retryable, now)
    <2>1. r.state # "ABSENT" /\ r.attempt = store[x].attempt
      BY <1>t DEF FailWrite, NoLease, Row
    <2>. HIDE DEF r
    <2>2. Write(x, r)
      BY <1>7 DEF FailBeforeDispatch, r
    <2>. QED
      BY <1>7, <2>1, <2>2, HolderKeepsGrants DEF FailBeforeDispatch, FailChecked
  <1>8. ASSUME NEW w \in Workers, NEW x \in Executions, NEW error \in Errors,
               MarkOutcomeUnknown(w, x, error)
        PROVE  GrantsOK'
    <2>1. /\ UnknownWrite(store[x], error).state # "ABSENT"
          /\ UnknownWrite(store[x], error).attempt = store[x].attempt
      BY <1>t DEF UnknownWrite, NoLease, Row
    <2>. QED
      BY <1>8, <2>1, HolderKeepsGrants DEF MarkOutcomeUnknown, UnknownChecked
  <1>9. ASSUME RecoverExpiredLeases PROVE GrantsOK'
    <2>1. UNCHANGED <<now, lease>>
      BY <1>9 DEF RecoverExpiredLeases
    <2>2. ASSUME NEW x \in Executions, Recoverable(store[x])
          PROVE  /\ Exists(x) /\ store'[x].state # "ABSENT"
                 /\ store'[x].attempt = store[x].attempt
                 /\ Unleased(x)
      <3>1. Exists(x) /\ store[x].expires <= now
        BY <1>t, <2>2 DEF Recoverable, LeaseExpired, Exists, Row
      <3>2. store'[x] = RecoveredRow(store[x])
        BY <1>9, <2>2 DEF RecoverExpiredLeases
      <3>3. RecoveredRow(store[x]).state # "ABSENT" /\
            RecoveredRow(store[x]).attempt = store[x].attempt
        BY <1>t DEF RecoveredRow, NoLease, Row
      <3>. QED
        BY <3>1, <3>2, <3>3, FreeRows
    <2>3. ASSUME NEW x \in Executions, ~Recoverable(store[x])
          PROVE  store'[x] = store[x]
      BY <1>9, <2>3 DEF RecoverExpiredLeases
    <2>4. DistinctTokens'
      BY <2>1 DEF GrantsOK, DistinctTokens, Token
    <2>5. ASSUME NEW w \in Workers, NEW x \in Executions PROVE GrantOK(w, x)'
      <3>1. GrantOK(w, x) /\ lease[w][x].until \in Nat
        BY DEF GrantsOK, TypeOK, Grant
      <3>2. CASE Recoverable(store[x])
        <4>1. ~(lease[w][x].until > now)
          BY <1>t, <2>2, <3>1, <3>2 DEF Unleased
        <4>. QED
          BY <2>1, <2>2, <3>1, <3>2, <4>1 DEF GrantOK, Token, Exists
      <3>3. CASE ~Recoverable(store[x])
        BY <2>1, <2>3, <3>1, <3>3 DEF GrantOK, Token, Exists
      <3>. QED
        BY <3>2, <3>3
    <2>. QED
      BY <2>4, <2>5 DEF GrantsOK
  <1>10. ASSUME NEW x \in Executions, Cancel(x) PROVE GrantsOK'
    <2>1. /\ CancelWrite(store[x]).state # "ABSENT"
          /\ CancelWrite(store[x]).attempt = store[x].attempt
      BY <1>t DEF CancelWrite, NoLease, Row
    <2>2. Unleased(x)
      BY <1>10, <1>u DEF Cancel, CancelChecked
    <2>. QED
      BY <1>t, <1>10, <2>1, <2>2, WriteKeepsGrants DEF Cancel
  <1>11. ASSUME NEW x \in Executions, NEW outcome \in Outcomes, NEW evidence \in Results,
                ReconcileUnknown(x, outcome, evidence)
         PROVE  GrantsOK'
    <2>. DEFINE r == ReconcileWrite(store[x], store[x], outcome, evidence, now)
    <2>1. r.state # "ABSENT" /\ r.attempt = store[x].attempt
      BY <1>t DEF ReconcileWrite, Row
    <2>2. Unleased(x)
      BY <1>11, <1>u DEF ReconcileUnknown, ReconcileChecked
    <2>3. Write(x, r) /\ UNCHANGED <<now, lease>>
      BY <1>11 DEF ReconcileUnknown
    <2>. HIDE DEF r
    <2>. QED
      BY <1>t, <2>1, <2>2, <2>3, WriteKeepsGrants
  <1>12. ASSUME NEW w \in Workers, Crash(w) PROVE GrantsOK'
    <2>1. /\ \A x \in Executions : lease'[w][x] = NoGrant
          /\ \A v \in Workers : v # w => lease'[v] = lease[v]
          /\ UNCHANGED <<store, now>>
      BY <1>12 DEF Crash, TypeOK
    <2>2. DistinctTokens'
      BY <2>1 DEF GrantsOK, DistinctTokens, Token, NoGrant
    <2>3. ASSUME NEW x \in Executions PROVE GrantOK(w, x)'
      BY <1>t, <2>1 DEF GrantOK, Token, NoGrant, Exists, Row
    <2>4. ASSUME NEW v \in Workers, NEW x \in Executions, v # w PROVE GrantOK(v, x)'
      BY <2>1, <2>4 DEF GrantsOK, GrantOK, Token, Exists
    <2>. QED
      BY <2>2, <2>3, <2>4 DEF GrantsOK
  <1>13. ASSUME Tick PROVE GrantsOK'
    <2>1. ASSUME NEW w \in Workers, NEW x \in Executions
          PROVE  lease[w][x].until > now' => lease[w][x].until > now
      BY <1>13, <1>t DEF Tick, TypeOK, Grant
    <2>. QED
      BY <1>13, <2>1 DEF Tick, GrantsOK, GrantOK, DistinctTokens, Token, Exists
  <1>14. ASSUME UNCHANGED vars PROVE GrantsOK'
    BY <1>14 DEF vars, GrantsOK, GrantOK, DistinctTokens, Token, Exists
  <1>. QED
    BY <1>1, <1>2, <1>3, <1>4, <1>5, <1>6, <1>7, <1>8, <1>9, <1>10, <1>11, <1>12,
       <1>13, <1>14 DEF Next, WorkerStep, OperatorStep

LEMMA GrantsExclude == TypeOK /\ GrantsOK => ExclusiveLease
  <1>. SUFFICES ASSUME TypeOK, GrantsOK, NEW x \in Executions, NEW v \in Workers,
                       NEW w \in Workers, v # w, lease[v][x].until > now
                PROVE  lease[w][x].until <= now
    BY DEF ExclusiveLease
  <1>1. GrantOK(v, x) /\ GrantOK(w, x)
        /\ (Token(v, x) = Token(w, x) => Token(w, x) = 0)
    BY DEF GrantsOK, DistinctTokens
  <1>2. ~(lease[w][x].until > now)
    BY <1>1 DEF GrantOK
  <1>. QED
    BY <1>2 DEF TypeOK, Grant

(* A lease is exclusive: at no time do two workers hold unexpired leases   *)
(* of one execution, through any heartbeats, crashes, recoveries and       *)
(* re-leases.                                                              *)
THEOREM LeasesAreExclusive == Spec => []ExclusiveLease
  <1>. QED
    BY GrantsExclude, RowsInit, RowsStep, GrantsInit, GrantsStep, PTL DEF Spec
-----------------------------------------------------------------------------
(***************************************************************************)
(* DurableExecution implements EffectOnce: each action of the kernel moves *)
(* the execution it acts on as EffectOnce allows, and leaves the other     *)
(* executions where they are.                                              *)
(***************************************************************************)
LEMMA Phases ==
    /\ PhaseOf("ABSENT") = "new"
    /\ PhaseOf("PREPARED") = "open" /\ PhaseOf("LEASED") = "open"
    /\ PhaseOf("RETRY_WAIT") = "open"
    /\ PhaseOf("DISPATCH_RECORDED") = "handed"
    /\ PhaseOf("OUTCOME_UNKNOWN") = "unknown"
    /\ PhaseOf("COMPLETED") = "done"
    /\ PhaseOf("CANCELED") = "abandoned" /\ PhaseOf("DLQ") = "abandoned"
    /\ \A s \in States \cup {"ABSENT"} : PhaseOf(s) \in Effect!Phases
  BY DEF PhaseOf, States, Effect!Phases

(* The step moves x from one phase to another, and nothing else.           *)
LEMMA OneMoves ==
    ASSUME TypeOK, TypeOK', NEW x \in Executions, NEW r \in Row, Write(x, r),
           \A y \in Executions : y # x => pending'[y] = pending[y],
           NEW from, NEW to, PhaseOf(store[x].state) = from, PhaseOf(r.state) = to,
           \/ pending'[x] = pending[x] /\ from = to
           \/ pending'[x] = pending[x] /\ <<from, to>> \in
                {<<"new", "open">>, <<"handed", "done">>, <<"handed", "unknown">>,
                 <<"unknown", "done">>}
           \/ /\ pending[x] = {} /\ pending'[x] # {} /\ Mode[x] = "EXTERNAL_EFFECT"
              /\ from = "open" /\ to = "handed"
           \/ pending'[x] = {} /\ from = "unknown" /\ to \in {"open", "abandoned"}
           \/ /\ pending'[x] = pending[x] /\ Mode[x] # "EXTERNAL_EFFECT"
              /\ from = "open" /\ to = "done"
           \/ /\ pending[x] = {} /\ pending'[x] = {}
              /\ from = "open" /\ to = "abandoned"
    PROVE  Effect!Next
  <1>1. /\ store'[x] = r
        /\ \A y \in Executions : y # x => store'[y] = store[y]
    BY DEF TypeOK, Write
  <1>2. \A y \in Executions : y # x => Effect!Stays(y)
    BY <1>1 DEF Effect!Stays, Effect!Keeps
  <1>3. Effect!Step(x)
    BY <1>1 DEF Effect!Step, Effect!Register, Effect!HandOver, Effect!Answer,
       Effect!LoseAnswer, Effect!ProveEffect, Effect!ProveNoEffect,
       Effect!FinishLocally, Effect!GiveUp, Effect!Stays, Effect!Moves, Effect!Keeps
  <1>4. /\ [y \in Executions |-> PhaseOf(store'[y].state)] \in [Executions -> Effect!Phases]
        /\ [y \in Executions |-> pending'[y] # {}] \in [Executions -> BOOLEAN]
    <2>1. \A y \in Executions : store'[y].state \in States \cup {"ABSENT"}
      BY DEF TypeOK, Row
    <2>. QED
      BY <2>1, Phases
  <1>. QED
    BY <1>2, <1>3, <1>4 DEF Effect!Next, Effect!Step

LEMMA StepRefines ==
    TypeOK /\ TypeOK' /\ RowsOK /\ EffectInv /\ [Next]_vars => [Effect!Next]_(Effect!vars)
  <1>. SUFFICES ASSUME TypeOK, TypeOK', RowsOK, EffectInv, [Next]_vars
                PROVE  Effect!Next \/ UNCHANGED Effect!vars
    OBVIOUS
  <1>t. /\ \A x \in Executions : store[x] \in Row /\ RowOK(store[x])
        /\ \A x \in Executions : pending[x] # {} => store[x].state \in Handed
        /\ now \in Nat
        /\ \A w \in Workers, x \in Executions : Token(w, x) \in Nat
        /\ pending \in [Executions -> SUBSET Nat]
    BY DEF TypeOK, RowsOK, EffectInv, PendingEffectVisible, Handed, Token, Grant
  <1>s. \A x \in Executions : \A s : [store[x] EXCEPT !.state = s].state = s
    BY <1>t DEF Row
  <1>1. ASSUME NEW x \in Executions, Prepare(x) PROVE Effect!Next
    <2>1. store[x].state = "ABSENT"
      BY <1>1 DEF Prepare, PrepareAllowed, Exists
    <2>2. PreparedRow.state = "PREPARED" /\ PreparedRow \in Row
      BY <1>t, RowTypes DEF PreparedRow, AbsentRow
    <2>3. Write(x, PreparedRow) /\ UNCHANGED pending
      BY <1>1 DEF Prepare
    <2>. QED
      BY <2>1, <2>2, <2>3, OneMoves, Phases
  <1>2. ASSUME NEW w \in Workers, NEW x \in Executions, AcquireLease(w, x)
        PROVE  Effect!Next
    <2>1. store[x].state \in {"PREPARED", "RETRY_WAIT", "LEASED"}
      BY <1>2 DEF AcquireLease, LeaseAllowed, LeasableState
    <2>2. LeasedRow(store[x]) \in Row
      BY <1>t, RowTypes
    <2>4. LeasedRow(store[x]).state = "LEASED"
      BY <1>t DEF LeasedRow, Row
    <2>3. Write(x, LeasedRow(store[x])) /\ UNCHANGED pending
      BY <1>2 DEF AcquireLease
    <2>. QED
      BY <2>1, <2>2, <2>3, <2>4, OneMoves, Phases
  <1>a. ASSUME NEW x \in Executions, NEW r \in Row, Write(x, r), UNCHANGED pending,
               store[x].state \in {"PREPARED", "RETRY_WAIT", "LEASED"},
               r.state \in {"DLQ", "CANCELED"}
        PROVE  Effect!Next
    <2>1. pending[x] = {} /\ pending'[x] = {}
      BY <1>a, <1>t DEF Handed
    <2>. QED
      BY <1>a, <2>1, OneMoves, Phases
  <1>d. \A x \in Executions : /\ DeadlineWrite(store[x]).state = "DLQ"
                              /\ DeadlineWrite(store[x]) \in Row
    <2>. TAKE x \in Executions
    <2>1. DeadlineWrite(store[x]) \in Row
      BY <1>t, RowTypes
    <2>2. DeadlineWrite(store[x]).state = "DLQ"
      BY <1>t DEF DeadlineWrite, NoLease, Row
    <2>. QED
      BY <2>1, <2>2
  <1>3. ASSUME NEW x \in Executions, AcquirePastDeadline(x) PROVE Effect!Next
    <2>1. DeadLettered(store[x]).state = "DLQ" /\ DeadLettered(store[x]) \in Row
      BY <1>t, RowTypes DEF DeadLettered, Row
    <2>. QED
      BY <1>3, <2>1, <1>a DEF AcquirePastDeadline, LeasableState
  <1>4. ASSUME NEW w \in Workers, NEW x \in Executions, Heartbeat(w, x)
        PROVE  Effect!Next
    <2>. DEFINE r == HeartbeatWrite(store[x], store[x], Token(w, x), now)
    <2>1. store[x].state = "LEASED" /\ Write(x, r) /\ UNCHANGED pending /\ r \in Row
      BY <1>4, <1>t, RowTypes DEF Heartbeat, HeartbeatChecked
    <2>2. CASE PastDeadline(now)
      BY <2>1, <2>2, <1>d, <1>a DEF HeartbeatWrite
    <2>3. CASE ~PastDeadline(now)
      <3>1. r.state = "LEASED"
        BY <1>t, <2>1, <2>3 DEF HeartbeatWrite, Row
      <3>. QED
        BY <2>1, <3>1, OneMoves, Phases
    <2>. QED
      BY <2>2, <2>3
  <1>5. ASSUME NEW w \in Workers, NEW x \in Executions, RecordDispatchStarted(w, x)
        PROVE  Effect!Next
    <2>. DEFINE r == DispatchWrite(store[x], Token(w, x), now)
    <2>1. /\ store[x].state = "LEASED" /\ store[x].token = Token(w, x)
          /\ Mode[x] = "EXTERNAL_EFFECT" /\ Write(x, r) /\ r \in Row
      BY <1>5, <1>t, RowTypes DEF RecordDispatchStarted, DispatchChecked, HoldsLease
    <2>2. CASE PastDeadline(now)
      <3>1. UNCHANGED pending
        BY <1>5, <2>2 DEF RecordDispatchStarted, DispatchRecorded
      <3>. QED
        BY <2>1, <2>2, <3>1, <1>d, <1>a DEF DispatchWrite
    <2>3. CASE ~PastDeadline(now)
      <3>1. r.state = "DISPATCH_RECORDED"
        BY <1>t, <2>1, <2>3 DEF DispatchWrite, Row
      <3>2. pending' = [pending EXCEPT ![x] = @ \cup {Token(w, x)}]
        BY <1>5, <2>1, <2>3 DEF RecordDispatchStarted, DispatchRecorded
      <3>3. /\ pending[x] = {} /\ pending'[x] # {}
            /\ \A y \in Executions : y # x => pending'[y] = pending[y]
        BY <1>t, <2>1, <3>2 DEF Handed
      <3>. QED
        BY <2>1, <3>1, <3>3, OneMoves, Phases
    <2>. QED
      BY <2>2, <2>3
  <1>6. ASSUME NEW w \in Workers, NEW x \in Executions, NEW digest \in Results,
               Complete(w, x, digest)
        PROVE  Effect!Next
    <2>. DEFINE r == CompleteWrite(store[x], digest)
    <2>1. /\ store[x].state = IF Mode[x] = "LOCAL_SAFE" THEN "LEASED" ELSE "DISPATCH_RECORDED"
          /\ Write(x, r) /\ UNCHANGED pending /\ r \in Row
      BY <1>6, <1>t, RowTypes DEF Complete, CompleteChecked
    <2>2. r.state = "COMPLETED"
      BY <1>t DEF CompleteWrite, NoLease, Row
    <2>. QED
      BY <2>1, <2>2, OneMoves, Phases
  <1>7. ASSUME NEW w \in Workers, NEW x \in Executions, NEW error \in Errors,
               NEW retryable \in BOOLEAN, FailBeforeDispatch(w, x, error, retryable)
        PROVE  Effect!Next
    <2>. DEFINE r == FailWrite(store[x], store[x], error, retryable, now)
    <2>1. store[x].state = "LEASED" /\ Write(x, r) /\ UNCHANGED pending /\ r \in Row
      BY <1>7, <1>t, RowTypes DEF FailBeforeDispatch, FailChecked
    <2>2. r.state \in {"DLQ", "RETRY_WAIT"}
      BY <1>t DEF FailWrite, NoLease, Row
    <2>3. CASE r.state = "DLQ"
      BY <2>1, <2>3, <1>a
    <2>4. CASE r.state = "RETRY_WAIT"
      BY <2>1, <2>4, OneMoves, Phases
    <2>. QED
      BY <2>2, <2>3, <2>4
  <1>8. ASSUME NEW w \in Workers, NEW x \in Executions, NEW error \in Errors,
               MarkOutcomeUnknown(w, x, error)
        PROVE  Effect!Next
    <2>. DEFINE r == UnknownWrite(store[x], error)
    <2>1. store[x].state = "DISPATCH_RECORDED" /\ Write(x, r) /\ UNCHANGED pending /\ r \in Row
      BY <1>8, <1>t, RowTypes DEF MarkOutcomeUnknown, UnknownChecked
    <2>2. r.state = "OUTCOME_UNKNOWN"
      BY <1>t DEF UnknownWrite, NoLease, Row
    <2>. QED
      BY <2>1, <2>2, OneMoves, Phases
  <1>9. ASSUME RecoverExpiredLeases PROVE Effect!Next
    <2>1. UNCHANGED pending
      BY <1>9 DEF RecoverExpiredLeases
    <2>2. ASSUME NEW x \in Executions PROVE Effect!Step(x)
      <3>. DEFINE r == RecoveredRow(store[x])
      <3>1. store'[x] = IF Recoverable(store[x]) THEN r ELSE store[x]
        BY <1>9 DEF RecoverExpiredLeases
      <3>2. CASE ~Recoverable(store[x])
        BY <2>1, <3>1, <3>2 DEF Effect!Step, Effect!Stays, Effect!Keeps
      <3>3. CASE Recoverable(store[x]) /\ store[x].state = "DISPATCH_RECORDED"
        <4>1. r.state = "OUTCOME_UNKNOWN"
          BY <1>t, <3>3 DEF RecoveredRow, NoLease, Row
        <4>. QED
          BY <2>1, <3>1, <3>3, <4>1, Phases
             DEF Effect!Step, Effect!LoseAnswer, Effect!Moves, Effect!Keeps
      <3>4. CASE Recoverable(store[x]) /\ store[x].state = "LEASED"
        <4>1. ~store[x].dispatched /\ pending[x] = {}
          BY <1>t, <3>4 DEF RowOK, Handed
        <4>2. r.state \in {"DLQ", "RETRY_WAIT"}
          BY <1>t, <3>4, <4>1 DEF RecoveredRow, NoLease, Row
        <4>. QED
          BY <2>1, <3>1, <3>4, <4>1, <4>2, Phases
             DEF Effect!Step, Effect!GiveUp, Effect!Stays, Effect!Moves, Effect!Keeps
      <3>. QED
        BY <3>2, <3>3, <3>4 DEF Recoverable
    <2>3. \A x \in Executions : PhaseOf(store'[x].state) \in Effect!Phases
      <3>1. \A x \in Executions : store'[x].state \in States \cup {"ABSENT"}
        BY DEF TypeOK, Row
      <3>. QED
        BY <3>1, Phases
    <2>. QED
      BY <2>2, <2>3 DEF Effect!Next
  <1>10. ASSUME NEW x \in Executions, Cancel(x) PROVE Effect!Next
    <2>1. CancelWrite(store[x]) \in Row
      BY <1>t, RowTypes
    <2>2. CancelWrite(store[x]).state = "CANCELED"
      BY <1>t DEF CancelWrite, NoLease, Row
    <2>. QED
      BY <1>10, <2>1, <2>2, <1>a DEF Cancel, CancelChecked
  <1>11. ASSUME NEW x \in Executions, NEW outcome \in Outcomes, NEW evidence \in Results,
                ReconcileUnknown(x, outcome, evidence)
         PROVE  Effect!Next
    <2>. DEFINE r == ReconcileWrite(store[x], store[x], outcome, evidence, now)
    <2>1. store[x].state = "OUTCOME_UNKNOWN" /\ Write(x, r) /\ r \in Row
      BY <1>11, <1>t, RowTypes DEF ReconcileUnknown, ReconcileChecked
    <2>2. CASE outcome = "CONFIRMED_EFFECT"
      <3>1. r.state = "COMPLETED"
        BY <1>t, <2>2 DEF ReconcileWrite, Row
      <3>2. UNCHANGED pending
        BY <1>11, <2>2 DEF ReconcileUnknown
      <3>. QED
        BY <2>1, <3>1, <3>2, OneMoves, Phases
    <2>3. CASE outcome = "CONFIRMED_NO_EFFECT"
      <3>1. r.state \in {"RETRY_WAIT", "DLQ"}
        BY <1>t, <2>3 DEF ReconcileWrite, Row
      <3>2. \A y \in Executions : pending'[y] = IF y = x THEN {} ELSE pending[y]
        BY <1>11, <1>t, <2>3 DEF ReconcileUnknown
      <3>. QED
        BY <2>1, <3>1, <3>2, OneMoves, Phases
    <2>. QED
      BY <2>2, <2>3 DEF Outcomes
  <1>12. ASSUME UNCHANGED <<store, pending>> PROVE UNCHANGED Effect!vars
    BY <1>12 DEF Effect!vars
  <1>. QED
    BY <1>1, <1>2, <1>3, <1>4, <1>5, <1>6, <1>7, <1>8, <1>9, <1>10, <1>11, <1>12
       DEF Next, WorkerStep, OperatorStep, Crash, Tick, vars

LEMMA InitRefines == Init => Effect!Init
  <1>1. Init => \A x \in Executions : PhaseOf(store[x].state) = "new" /\ pending[x] = {}
    BY Phases DEF Init, AbsentRow
  <1>. QED
    BY <1>1, Zenon DEF Effect!Init

(* Every behaviour of the kernel is one of EffectOnce: effects are handed  *)
(* over while open, answered or unknown afterwards, and settled once.      *)
THEOREM KernelImplementsEffectOnce == Spec => ImplementsEffectOnce
  <1>. QED
    BY RowsInit, RowsStep, EffectInit, EffectStep, InitRefines, StepRefines, PTL
       DEF Spec, ImplementsEffectOnce, Effect!Spec
=============================================================================
