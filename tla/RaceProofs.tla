----------------------------- MODULE RaceProofs -----------------------------
(***************************************************************************)
(* Proofs about DurableExecutionRace: first what holds whatever its        *)
(* callers do, then what the interleaved kernel keeps while they keep to   *)
(* its discipline.                                                         *)
(***************************************************************************)
EXTENDS DurableExecutionRace, DurableExecutionProofs

(* The row keeps a token only of its newest attempt.                       *)
RowFenced(r) ==
    /\ r.token \in {0, r.attempt}
    /\ r.state = "ABSENT" => r.attempt = 0

RowsFenced == \A x \in Executions : RowFenced(store[x])

TokensArePast ==
    \A w \in Workers, x \in Executions : Token(w, x) <= store[x].attempt

(* A call in flight carries the token that its worker still holds.         *)
CallsCarryTokens ==
    \A w \in Workers : (call[w] # Idle /\ call[w].op \in TokenOps) =>
        call[w].tok # 0 /\ call[w].tok = Token(w, call[w].x)

RaceInv ==
    RowsFenced /\ TokensArePast /\ DistinctTokens /\ CallsCarryTokens /\ LeaseEndIsKnown

-----------------------------------------------------------------------------
(* What a late update may do to the row cur it finds: the lease it leaves  *)
(* is the one it found, or none.                                           *)
KeepsLease(cur, r) ==
    /\ r \in Row
    /\ r.attempt = cur.attempt
    /\ r.token = 0 \/ (r.token = cur.token /\ r.expires = cur.expires)
    /\ r.state = "ABSENT" => cur.state = "ABSENT"
    /\ (r.state = "LEASED" /\ r.token # 0) => cur.state = "LEASED"

LEMMA LateWrites ==
    ASSUME NEW cur \in Row, now \in Nat
    PROVE  /\ KeepsLease(cur, DeadLettered(cur))
           /\ KeepsLease(cur, DeadlineWrite(cur))
           /\ KeepsLease(cur, RecoveredRow(cur))
           /\ KeepsLease(cur, CancelWrite(cur))
           /\ \A digest \in Results : KeepsLease(cur, CompleteWrite(cur, digest))
           /\ \A error \in Errors : KeepsLease(cur, UnknownWrite(cur, error))
           /\ \A n, t \in Nat : KeepsLease(cur, DispatchWrite(cur, n, t))
           /\ \A error \in Errors, retryable \in BOOLEAN, read \in Row, t \in Nat :
                  KeepsLease(cur, FailWrite(cur, read, error, retryable, t))
           /\ \A outcome \in Outcomes, digest \in Results, read \in Row, t \in Nat :
                  KeepsLease(cur, ReconcileWrite(cur, read, outcome, digest, t))
  <1>s. /\ "PREPARED" \in States /\ "LEASED" \in States /\ "DISPATCH_RECORDED" \in States
        /\ "RETRY_WAIT" \in States /\ "OUTCOME_UNKNOWN" \in States
        /\ "COMPLETED" \in States /\ "CANCELED" \in States /\ "DLQ" \in States
    BY DEF States
  <1>f. ASSUME NEW q \in Row, q.state # "ABSENT", q.attempt = cur.attempt
        PROVE  KeepsLease(cur, NoLease(q))
    BY <1>f DEF KeepsLease, NoLease, Row
  <1>k. KeepsLease(cur, cur)
    BY DEF KeepsLease
  <1>1. KeepsLease(cur, DeadLettered(cur))
    BY <1>s DEF KeepsLease, DeadLettered, Row
  <1>2. KeepsLease(cur, DeadlineWrite(cur))
    <2>1. [cur EXCEPT !.state = "DLQ"] \in Row
      BY <1>s DEF Row
    <2>2. /\ [cur EXCEPT !.state = "DLQ"].state # "ABSENT"
          /\ [cur EXCEPT !.state = "DLQ"].attempt = cur.attempt
      BY DEF Row
    <2>. QED
      BY <2>1, <2>2, <1>f DEF DeadlineWrite
  <1>3. ASSUME NEW n \in Nat, NEW t \in Nat PROVE KeepsLease(cur, DispatchWrite(cur, n, t))
    <2>. DEFINE q == [cur EXCEPT !.state = "DISPATCH_RECORDED", !.dispatched = TRUE]
    <2>1. KeepsLease(cur, q)
      BY <1>s DEF KeepsLease, Row
    <2>. HIDE DEF q
    <2>2. DispatchWrite(cur, n, t) \in {DeadlineWrite(cur), q, cur}
      BY DEF DispatchWrite, q
    <2>. QED
      BY <2>1, <2>2, <1>2, <1>k
  <1>4. ASSUME NEW digest \in Results PROVE KeepsLease(cur, CompleteWrite(cur, digest))
    <2>1. [cur EXCEPT !.state = "COMPLETED", !.result = digest] \in Row
      BY <1>s DEF Row
    <2>2. /\ [cur EXCEPT !.state = "COMPLETED", !.result = digest].state # "ABSENT"
          /\ [cur EXCEPT !.state = "COMPLETED", !.result = digest].attempt = cur.attempt
      BY DEF Row
    <2>. QED
      BY <2>1, <2>2, <1>f DEF CompleteWrite
  <1>5. ASSUME NEW error \in Errors, NEW retryable \in BOOLEAN, NEW read \in Row, NEW t \in Nat
        PROVE  KeepsLease(cur, FailWrite(cur, read, error, retryable, t))
    <2>. DEFINE dlq == FailsForGood(read, error, retryable, t)
                s == IF dlq THEN "DLQ" ELSE "RETRY_WAIT"
                n1 == SameErrors(read, error)
                t1 == IF dlq THEN 0 ELSE t + Backoff(read.attempt)
                q == [cur EXCEPT !.state = s, !.sameErrors = n1, !.lastError = error,
                                 !.nextAttempt = t1]
    <2>1. n1 \in Nat
      BY DEF SameErrors, Row
    <2>2. t1 \in Nat
      BY BackoffType
    <2>3. s \in States /\ s # "ABSENT"
      BY <1>s
    <2>4. FailWrite(cur, read, error, retryable, t) = NoLease(q)
      BY DEF FailWrite
    <2>. HIDE DEF s, n1, t1
    <2>5. q \in Row /\ q.state # "ABSENT" /\ q.attempt = cur.attempt
      BY <2>1, <2>2, <2>3 DEF Row
    <2>. HIDE DEF q
    <2>. QED
      BY <2>4, <2>5, <1>f
  <1>6. ASSUME NEW error \in Errors PROVE KeepsLease(cur, UnknownWrite(cur, error))
    <2>. DEFINE q == [cur EXCEPT !.state = "OUTCOME_UNKNOWN", !.lastError = error]
    <2>1. q \in Row /\ q.state # "ABSENT" /\ q.attempt = cur.attempt
      BY <1>s DEF Row
    <2>. HIDE DEF q
    <2>. QED
      BY <2>1, <1>f DEF UnknownWrite, q
  <1>7. KeepsLease(cur, RecoveredRow(cur))
    <2>1. ASSUME NEW s \in States, NEW t1 \in Nat
          PROVE  KeepsLease(cur, NoLease([cur EXCEPT !.state = s, !.nextAttempt = t1]))
      <3>1. "ABSENT" \notin States
        BY DEF States
      <3>2. /\ [cur EXCEPT !.state = s, !.nextAttempt = t1] \in Row
            /\ [cur EXCEPT !.state = s, !.nextAttempt = t1].state # "ABSENT"
            /\ [cur EXCEPT !.state = s, !.nextAttempt = t1].attempt = cur.attempt
        BY <3>1 DEF Row
      <3>. QED
        BY <3>2, <1>f
    <2>. QED
      BY <2>1, <1>s DEF RecoveredRow
  <1>8. KeepsLease(cur, CancelWrite(cur))
    <2>. DEFINE q == [cur EXCEPT !.state = "CANCELED", !.nextAttempt = 0]
    <2>1. q \in Row /\ q.state # "ABSENT" /\ q.attempt = cur.attempt
      BY <1>s DEF Row
    <2>. HIDE DEF q
    <2>. QED
      BY <2>1, <1>f DEF CancelWrite, q
  <1>9. ASSUME NEW outcome \in Outcomes, NEW digest \in Results, NEW read \in Row, NEW t \in Nat
        PROVE  KeepsLease(cur, ReconcileWrite(cur, read, outcome, digest, t))
    <2>1. KeepsLease(cur, [cur EXCEPT !.state = "COMPLETED", !.result = digest,
                                      !.nextAttempt = 0, !.dispatched = read.dispatched])
      BY <1>s DEF KeepsLease, Row
    <2>2. ASSUME NEW s \in {"RETRY_WAIT", "DLQ"}, NEW t1 \in Nat
          PROVE  KeepsLease(cur, [cur EXCEPT !.state = s, !.nextAttempt = t1,
                                             !.result = NoResult, !.dispatched = FALSE])
      BY <1>s DEF KeepsLease, Row
    <2>. QED
      BY <2>1, <2>2 DEF ReconcileWrite
  <1>. QED
    BY <1>1, <1>2, <1>3, <1>4, <1>5, <1>6, <1>7, <1>8, <1>9

LEMMA CallTypes ==
    ASSUME RaceTypeOK, NEW p \in Callers, call[p] # Idle
    PROVE  /\ call[p] \in Call
           /\ call[p].x \in Executions /\ store[call[p].x] \in Row
           /\ call[p].read \in Row /\ call[p].at \in Nat /\ call[p].tok \in Nat
           /\ \A n \in Nat : [token |-> call[p].tok, until |-> n] \in Grant
  <1>1. call[p] \in Call
    BY DEF RaceTypeOK
  <1>. QED
    BY <1>1 DEF Call, RaceTypeOK, TypeOK, Grant

LEMMA RaceTypeInit == RaceInit => RaceTypeOK
  BY RowsInit DEF RaceInit, RaceTypeOK

(* A step that writes one well-typed row and one well-typed grant.         *)
LEMMA WriteKeepsTypes ==
    ASSUME TypeOK, NEW x \in Executions, NEW r \in Row, Write(x, r),
           now' = now, pending' \in [Executions -> SUBSET Nat],
           NEW w \in Workers, NEW g \in Grant, lease' = lease \/ lease' = Granted(w, x, g)
    PROVE  TypeOK'
  <1>1. store' \in [Executions -> Row]
    BY DEF TypeOK, Write
  <1>2. lease' \in [Workers -> [Executions -> Grant]]
    BY GrantType DEF TypeOK
  <1>. QED
    BY <1>1, <1>2 DEF TypeOK

LEMMA RaceTypeStep == RaceTypeOK /\ [RaceNext]_rvars => RaceTypeOK'
  <1>. SUFFICES ASSUME RaceTypeOK, [RaceNext]_rvars PROVE RaceTypeOK'
    OBVIOUS
  <1>t. /\ TypeOK /\ store \in [Executions -> Row] /\ now \in Nat
        /\ lease \in [Workers -> [Executions -> Grant]]
        /\ pending \in [Executions -> SUBSET Nat]
        /\ call \in [Callers -> Call \cup {Idle}] /\ disciplined \in BOOLEAN
        /\ NoGrant \in Grant
    BY DEF RaceTypeOK, TypeOK, NoGrant, Grant
  <1>w. Workers \subseteq Callers /\ Operators \subseteq Callers
    BY DEF Callers
  <1>k. ASSUME NEW cur, NEW r, KeepsLease(cur, r) PROVE r \in Row
    BY <1>k DEF KeepsLease
  <1>r. ASSUME NEW p \in Callers, Returns(p)
        PROVE  call' \in [Callers -> Call \cup {Idle}]
    BY <1>t, <1>r DEF Returns
  <1>b. ASSUME NEW p \in Callers, NEW op \in TokenOps \cup OperatorOps,
               NEW x \in Executions, NEW tok \in Nat, Begun(p, op, x, tok),
               disciplined' \in BOOLEAN
        PROVE  RaceTypeOK'
    <2>. DEFINE row == IF op \in UsesRow THEN store[x] ELSE AbsentRow
                at == IF op \in UsesClock THEN now ELSE 0
                seen == IF op = "reconcile_unknown" THEN pending[x] ELSE {}
                c == [op |-> op, x |-> x, tok |-> tok, read |-> row, at |-> at, seen |-> seen]
    <2>1. row \in Row
      BY <1>t DEF AbsentRow, Row
    <2>2. at \in Nat /\ seen \in SUBSET Nat
      BY <1>t
    <2>3. call' = [call EXCEPT ![p] = c]
      BY <1>b DEF Begun
    <2>. HIDE DEF row, at, seen
    <2>4. c \in Call
      BY <2>1, <2>2 DEF Call
    <2>5. UNCHANGED vars
      BY <1>b DEF Begun
    <2>. QED
      BY <1>b, <1>t, <2>3, <2>4, <2>5 DEF RaceTypeOK, TypeOK, vars
  <1>1. ASSUME StoreTransaction PROVE RaceTypeOK'
    <2>1. CASE RecoverExpiredLeases
      <3>1. \A x \in Executions : RecoveredRow(store[x]) \in Row
        BY <1>t, LateWrites, <1>k
      <3>. QED
        BY <1>1, <1>t, <2>1, <3>1 DEF StoreTransaction, RecoverExpiredLeases, RaceTypeOK, TypeOK
    <2>2. ASSUME NEW x \in Executions, Prepare(x) PROVE RaceTypeOK'
      <3>1. PreparedRow \in Row
        BY DEF PreparedRow, AbsentRow, Row, States
      <3>. QED
        BY <1>1, <1>t, <2>2, <3>1 DEF StoreTransaction, Prepare, Write, RaceTypeOK, TypeOK
    <2>. QED
      BY <1>1, <2>1, <2>2 DEF StoreTransaction
  <1>2. ASSUME NEW x \in Executions, AcquireTooLate(x) PROVE RaceTypeOK'
    <2>1. DeadLettered(store[x]) \in Row
      BY <1>t, LateWrites, <1>k
    <2>. QED
      BY <1>2, <1>t, <2>1
         DEF AcquireTooLate, AcquirePastDeadline, Unattended, Write, RaceTypeOK, TypeOK
  <1>3. ASSUME NEW w \in Workers, NEW x \in Executions, Acquire(w, x) PROVE RaceTypeOK'
    <2>1. now + LeaseSeconds \in Nat /\ store[x].attempt + 1 \in Nat
      BY <1>t, StoreAssumption DEF Row
    <2>2. LeasedRow(store[x]) \in Row
      BY <1>t, <2>1 DEF LeasedRow, Row, States
    <2>3. [token |-> store[x].attempt + 1, until |-> now + LeaseSeconds] \in Grant
      BY <2>1 DEF Grant
    <2>4. TypeOK'
      BY <1>3, <1>t, <2>2, <2>3, WriteKeepsTypes DEF Acquire, AcquireLease
    <2>. QED
      BY <1>3, <1>t, <2>4 DEF Acquire, Unattended, RaceTypeOK
  <1>4. ASSUME NEW w \in Workers, NEW op \in TokenOps, NEW x \in Executions,
               BeginWorker(w, op, x)
        PROVE  RaceTypeOK'
    <2>1. Token(w, x) \in Nat
      BY <1>t, GrantType
    <2>. QED
      BY <1>4, <1>b, <1>t, <1>w, <2>1 DEF BeginWorker
  <1>5. ASSUME NEW w \in Workers, FinishHeartbeat(w) PROVE RaceTypeOK'
    <2>. DEFINE c == call[w]
                kept == ~PastDeadline(c.at) /\ store[c.x].token = c.tok
                g == IF kept THEN [token |-> c.tok, until |-> c.at + LeaseSeconds] ELSE NoGrant
                r == HeartbeatWrite(store[c.x], c.read, c.tok, c.at)
    <2>0. c # Idle
      BY <1>5 DEF FinishHeartbeat, Pending
    <2>1. /\ c.x \in Executions /\ store[c.x] \in Row /\ c.at \in Nat /\ c.tok \in Nat
          /\ c.at + LeaseSeconds \in Nat
      <3>1. LeaseSeconds \in Nat
        BY StoreAssumption
      <3>. QED
        BY <1>w, <2>0, <3>1, CallTypes
    <2>2. g \in Grant
      BY <1>t, <2>1 DEF Grant
    <2>3. r \in Row
      <3>1. DeadlineWrite(store[c.x]) \in Row
        BY <1>t, <2>1, LateWrites, <1>k
      <3>2. [store[c.x] EXCEPT !.expires = c.at + LeaseSeconds] \in Row
        BY <2>1 DEF Row
      <3>. QED
        BY <2>1, <3>1, <3>2 DEF HeartbeatWrite
    <2>4. Write(c.x, r) /\ lease' = Granted(w, c.x, g)
      BY <1>5 DEF FinishHeartbeat
    <2>. HIDE DEF r, g, c
    <2>5. TypeOK'
      BY <1>5, <1>t, <2>1, <2>2, <2>3, <2>4, WriteKeepsTypes DEF FinishHeartbeat
    <2>. QED
      BY <1>5, <1>r, <1>t, <1>w, <2>5 DEF FinishHeartbeat, RaceTypeOK
  <1>6. ASSUME NEW w \in Workers, FinishDispatch(w) PROVE RaceTypeOK'
    <2>. DEFINE c == call[w]
                r == DispatchWrite(store[c.x], c.tok, c.at)
    <2>1. /\ c.x \in Executions /\ store[c.x] \in Row /\ c.at \in Nat /\ c.tok \in Nat
      BY <1>6, <1>w, CallTypes DEF FinishDispatch, Pending
    <2>2. r \in Row
      BY <1>t, <2>1, LateWrites, <1>k
    <2>3. /\ Write(c.x, r)
          /\ pending' = pending \/ pending' = [pending EXCEPT ![c.x] = @ \cup {c.tok}]
          /\ lease' = lease \/ lease' = Granted(w, c.x, NoGrant)
      BY <1>6 DEF FinishDispatch
    <2>. HIDE DEF c, r
    <2>4. pending' \in [Executions -> SUBSET Nat]
      BY <1>t, <2>1, <2>3
    <2>5. TypeOK'
      BY <1>6, <1>t, <2>1, <2>2, <2>3, <2>4, WriteKeepsTypes DEF FinishDispatch
    <2>. QED
      BY <1>6, <1>r, <1>t, <1>w, <2>5 DEF FinishDispatch, RaceTypeOK
  <1>7. ASSUME NEW w \in Workers, NEW r, call[w] # Idle, KeepsLease(store[call[w].x], r),
               Write(call[w].x, r), lease' = Granted(w, call[w].x, NoGrant),
               Returns(w), now' = now, pending' = pending, disciplined' = disciplined
        PROVE  RaceTypeOK'
    <2>1. call[w].x \in Executions /\ r \in Row
      BY <1>7, <1>w, CallTypes DEF KeepsLease
    <2>2. TypeOK'
      BY <1>7, <1>t, <2>1, WriteKeepsTypes
    <2>. QED
      BY <1>7, <1>r, <1>t, <1>w, <2>2 DEF RaceTypeOK
  <1>8. ASSUME NEW w \in Workers, NEW digest \in Results, FinishComplete(w, digest)
        PROVE  RaceTypeOK'
    <2>1. call[w] # Idle
      BY <1>8 DEF FinishComplete, Pending
    <2>2. KeepsLease(store[call[w].x], CompleteWrite(store[call[w].x], digest))
      BY <1>t, <1>w, <2>1, CallTypes, LateWrites
    <2>. QED
      BY <1>7, <1>8, <2>1, <2>2 DEF FinishComplete
  <1>9. ASSUME NEW w \in Workers, NEW error \in Errors, NEW retryable \in BOOLEAN,
               FinishFail(w, error, retryable)
        PROVE  RaceTypeOK'
    <2>1. call[w] # Idle
      BY <1>9 DEF FinishFail, Pending
    <2>2. KeepsLease(store[call[w].x], FailWrite(store[call[w].x], call[w].read, error,
                                                 retryable, call[w].at))
      BY <1>t, <1>w, <2>1, CallTypes, LateWrites
    <2>. QED
      BY <1>7, <1>9, <2>1, <2>2 DEF FinishFail
  <1>10. ASSUME NEW w \in Workers, NEW error \in Errors, FinishUnknown(w, error)
         PROVE  RaceTypeOK'
    <2>1. call[w] # Idle
      BY <1>10 DEF FinishUnknown, Pending
    <2>2. KeepsLease(store[call[w].x], UnknownWrite(store[call[w].x], error))
      BY <1>t, <1>w, <2>1, CallTypes, LateWrites
    <2>. QED
      BY <1>7, <1>10, <2>1, <2>2 DEF FinishUnknown
  <1>11. ASSUME NEW p \in Operators, NEW op \in OperatorOps, NEW x \in Executions,
                BeginOperator(p, op, x)
         PROVE  RaceTypeOK'
    BY <1>11, <1>b, <1>t, <1>w DEF BeginOperator, Unattended
  <1>12. ASSUME NEW p \in Operators, FinishCancel(p) PROVE RaceTypeOK'
    <2>1. call[p] # Idle
      BY <1>12 DEF FinishCancel, Pending
    <2>2. CancelWrite(store[call[p].x]) \in Row /\ call[p].x \in Executions
      BY <1>t, <1>w, <2>1, CallTypes, LateWrites, <1>k
    <2>3. TypeOK'
      BY <1>12, <1>t, <2>2 DEF FinishCancel, Write, TypeOK
    <2>. QED
      BY <1>12, <1>r, <1>t, <1>w, <2>3 DEF FinishCancel, RaceTypeOK
  <1>13. ASSUME NEW p \in Operators, NEW outcome \in Outcomes, NEW evidence \in Results,
                FinishReconcile(p, outcome, evidence)
         PROVE  RaceTypeOK'
    <2>. DEFINE c == call[p]
                r == ReconcileWrite(store[c.x], c.read, outcome, evidence, c.at)
    <2>1. call[p] # Idle
      BY <1>13 DEF FinishReconcile, Pending
    <2>2. r \in Row /\ c.x \in Executions
      BY <1>t, <1>w, <2>1, CallTypes, LateWrites, <1>k
    <2>3. /\ Write(c.x, r)
          /\ pending' = pending \/ pending' = [pending EXCEPT ![c.x] = @ \ c.seen]
      BY <1>13 DEF FinishReconcile
    <2>. HIDE DEF c, r
    <2>4. pending' \in [Executions -> SUBSET Nat]
      BY <1>t, <2>2, <2>3
    <2>5. TypeOK'
      BY <1>13, <1>t, <2>2, <2>3, <2>4 DEF FinishReconcile, Write, TypeOK
    <2>. QED
      BY <1>13, <1>r, <1>t, <1>w, <2>5 DEF FinishReconcile, RaceTypeOK
  <1>14. ASSUME NEW p \in Callers, CrashCaller(p) PROVE RaceTypeOK'
    <2>1. lease' \in [Workers -> [Executions -> Grant]]
      BY <1>14, <1>t DEF CrashCaller
    <2>. QED
      BY <1>14, <1>r, <1>t, <2>1 DEF CrashCaller, RaceTypeOK, TypeOK
  <1>15. ASSUME TickWhileCalled PROVE RaceTypeOK'
    BY <1>15, <1>t DEF TickWhileCalled, Tick, RaceTypeOK, TypeOK
  <1>16. ASSUME UNCHANGED rvars PROVE RaceTypeOK'
    BY <1>16, <1>t DEF rvars, RaceTypeOK, TypeOK
  <1>. QED
    BY <1>1, <1>2, <1>3, <1>4, <1>5, <1>6, <1>8, <1>9, <1>10, <1>11, <1>12, <1>13,
       <1>14, <1>15, <1>16 DEF RaceNext, WorkerCall, OperatorCall

(* Every reachable state of the interleaved kernel has well-typed rows,    *)
(* grants, pending effects and calls in flight.                            *)
THEOREM RaceTypeCorrect == RaceSpec => []RaceTypeOK
  <1>. QED
    BY RaceTypeInit, RaceTypeStep, PTL DEF RaceSpec

-----------------------------------------------------------------------------
(* No row gains a lease and no worker a token.                             *)
LeasesShrink ==
    /\ \A x \in Executions : KeepsLease(store[x], store'[x])
    /\ \A w \in Workers, x \in Executions :
           lease'[w][x] = lease[w][x] \/ lease'[w][x] = NoGrant

LEMMA ShrinkKeepsGrants ==
    ASSUME RaceTypeOK, RaceInv, LeasesShrink
    PROVE  RowsFenced' /\ TokensArePast' /\ DistinctTokens' /\ LeaseEndIsKnown'
  <1>t. \A x \in Executions : store[x] \in Row
    BY DEF RaceTypeOK, TypeOK
  <1>1. ASSUME NEW x \in Executions PROVE RowFenced(store'[x])
    BY <1>t DEF RaceInv, RowsFenced, RowFenced, LeasesShrink, KeepsLease, Row
  <1>2. ASSUME NEW w \in Workers, NEW x \in Executions
        PROVE  /\ Token(w, x)' <= store'[x].attempt
               /\ Token(w, x)' = 0 \/ lease'[w][x] = lease[w][x]
    <2>1. Token(w, x) <= store[x].attempt /\ store'[x].attempt = store[x].attempt
      BY DEF RaceInv, TokensArePast, LeasesShrink, KeepsLease
    <2>2. lease'[w][x] = lease[w][x] \/ lease'[w][x] = NoGrant
      BY DEF LeasesShrink
    <2>3. store[x].attempt \in Nat
      BY <1>t DEF Row
    <2>. QED
      BY <2>1, <2>2, <2>3 DEF Token, NoGrant
  <1>3. DistinctTokens'
    BY <1>2 DEF RaceInv, DistinctTokens, Token
  <1>4. ASSUME NEW w \in Workers, NEW x \in Executions,
               store'[x].state = "LEASED", HoldsLease(store'[x], Token(w, x)')
        PROVE  lease'[w][x].until = store'[x].expires
    <2>1. /\ store[x].state = "LEASED" /\ store[x].token = store'[x].token
          /\ store[x].expires = store'[x].expires
      BY <1>4 DEF LeasesShrink, KeepsLease, HoldsLease
    <2>2. lease'[w][x] = lease[w][x]
      BY <1>2, <1>4 DEF HoldsLease
    <2>. QED
      BY <1>4, <2>1, <2>2 DEF RaceInv, LeaseEndIsKnown, HoldsLease, Token
  <1>. QED
    BY <1>1, <1>2, <1>3, <1>4 DEF RowsFenced, TokensArePast, LeaseEndIsKnown

LEMMA ReturnKeepsCalls ==
    ASSUME RaceTypeOK, CallsCarryTokens, NEW p \in Callers, Returns(p),
           \A w \in Workers : w # p => lease'[w] = lease[w]
    PROVE  CallsCarryTokens'
  BY DEF RaceTypeOK, CallsCarryTokens, Returns, Token, Callers

(* A worker returns from a call after a late update of the row.            *)
LEMMA WorkerReturns ==
    ASSUME RaceTypeOK, RaceInv, NEW w \in Workers, NEW x \in Executions, NEW r,
           KeepsLease(store[x], r), Write(x, r), Returns(w),
           lease' = lease \/ lease' = Granted(w, x, NoGrant)
    PROVE  RaceInv'
  <1>1. LeasesShrink
    <2>1. ASSUME NEW y \in Executions PROVE KeepsLease(store[y], store'[y])
      BY DEF RaceTypeOK, TypeOK, Write, KeepsLease
    <2>2. ASSUME NEW v \in Workers, NEW y \in Executions
          PROVE  lease'[v][y] = lease[v][y] \/ lease'[v][y] = NoGrant
      BY DEF RaceTypeOK, TypeOK, Granted
    <2>. QED
      BY <2>1, <2>2 DEF LeasesShrink
  <1>2. CallsCarryTokens'
    <2>1. \A v \in Workers : v # w => lease'[v] = lease[v]
      BY DEF RaceTypeOK, TypeOK, Granted
    <2>. QED
      BY <2>1, ReturnKeepsCalls DEF RaceInv, Callers
  <1>. QED
    BY <1>1, <1>2, ShrinkKeepsGrants DEF RaceInv

(* A late update of the row by someone who holds no lease.                 *)
LEMMA OthersWrite ==
    ASSUME RaceTypeOK, RaceInv, NEW x \in Executions, NEW r,
           KeepsLease(store[x], r), Write(x, r), lease' = lease,
           call' = call \/ \E p \in Callers : Returns(p)
    PROVE  RaceInv'
  <1>1. LeasesShrink
    BY DEF RaceTypeOK, TypeOK, Write, KeepsLease, LeasesShrink
  <1>2. CallsCarryTokens'
    <2>1. CASE call' = call
      BY <2>1 DEF RaceInv, CallsCarryTokens, Token
    <2>2. ASSUME NEW p \in Callers, Returns(p) PROVE CallsCarryTokens'
      BY <2>2, ReturnKeepsCalls DEF RaceInv
    <2>. QED
      BY <2>1, <2>2
  <1>. QED
    BY <1>1, <1>2, ShrinkKeepsGrants DEF RaceInv

LEMMA RaceInvInit == RaceInit => RaceInv
  <1>. SUFFICES ASSUME RaceInit PROVE RaceInv
    OBVIOUS
  <1>1. /\ \A w \in Workers, x \in Executions : Token(w, x) = 0
        /\ \A x \in Executions : store[x] = AbsentRow
        /\ \A w \in Workers : call[w] = Idle
    BY DEF RaceInit, Init, Token, NoGrant, Callers
  <1>. QED
    BY <1>1 DEF RaceInv, RowsFenced, RowFenced, TokensArePast, DistinctTokens,
                CallsCarryTokens, LeaseEndIsKnown, AbsentRow, HoldsLease

LEMMA RaceInvStep == RaceTypeOK /\ RaceInv /\ [RaceNext]_rvars => RaceInv'
  <1>. SUFFICES ASSUME RaceTypeOK, RaceInv, [RaceNext]_rvars PROVE RaceInv'
    OBVIOUS
  <1>t. /\ TypeOK /\ now \in Nat
        /\ \A x \in Executions : store[x] \in Row /\ store[x].attempt \in Nat
    BY DEF RaceTypeOK, TypeOK, Row
  <1>w. Workers \subseteq Callers /\ Operators \subseteq Callers
    BY DEF Callers
  <1>c. ASSUME NEW p \in Callers, call[p] # Idle
        PROVE  /\ call[p].x \in Executions /\ store[call[p].x] \in Row
               /\ call[p].read \in Row /\ call[p].at \in Nat /\ call[p].tok \in Nat
    BY <1>c, CallTypes
  <1>e. ASSUME UNCHANGED <<store, lease>>, CallsCarryTokens' PROVE RaceInv'
    BY <1>e DEF RaceInv, RowsFenced, TokensArePast, DistinctTokens, LeaseEndIsKnown, Token
  <1>b. ASSUME NEW p \in Callers, NEW op, NEW x \in Executions, NEW tok,
               Begun(p, op, x, tok),
               op \in TokenOps => tok # 0 /\ tok = Token(p, x)
        PROVE  RaceInv'
    <2>1. UNCHANGED vars
      BY <1>b DEF Begun
    <2>2. CallsCarryTokens'
      BY <1>b, <2>1 DEF Begun, RaceTypeOK, RaceInv, CallsCarryTokens, Token, vars
    <2>. QED
      BY <1>e, <2>1, <2>2 DEF vars
  <1>1. ASSUME StoreTransaction PROVE RaceInv'
    <2>0. call' = call
      BY <1>1 DEF StoreTransaction
    <2>1. CASE RecoverExpiredLeases
      <3>1. lease' = lease
        BY <2>1 DEF RecoverExpiredLeases
      <3>2. ASSUME NEW x \in Executions PROVE KeepsLease(store[x], store'[x])
        <4>1. KeepsLease(store[x], RecoveredRow(store[x]))
          BY <1>t, LateWrites
        <4>2. KeepsLease(store[x], store[x])
          BY <1>t DEF KeepsLease
        <4>. QED
          BY <2>1, <4>1, <4>2 DEF RecoverExpiredLeases
      <3>3. LeasesShrink
        BY <3>1, <3>2 DEF LeasesShrink
      <3>4. CallsCarryTokens'
        BY <2>0, <3>1 DEF RaceInv, CallsCarryTokens, Token
      <3>. QED
        BY <3>3, <3>4, ShrinkKeepsGrants DEF RaceInv
    <2>2. ASSUME NEW x \in Executions, Prepare(x) PROVE RaceInv'
      <3>1. store[x].state = "ABSENT"
        BY <2>2 DEF Prepare, PrepareAllowed, Exists
      <3>2. store[x].attempt = 0
        BY <3>1 DEF RaceInv, RowsFenced, RowFenced
      <3>3. KeepsLease(store[x], PreparedRow)
        BY <3>2 DEF KeepsLease, PreparedRow, AbsentRow, Row, States
      <3>. QED
        BY <2>0, <2>2, <3>3, OthersWrite DEF Prepare
    <2>. QED
      BY <1>1, <2>1, <2>2 DEF StoreTransaction
  <1>2. ASSUME NEW x \in Executions, AcquireTooLate(x) PROVE RaceInv'
    <2>1. KeepsLease(store[x], DeadLettered(store[x]))
      BY <1>t, LateWrites
    <2>. QED
      BY <1>2, <2>1, OthersWrite DEF AcquireTooLate, AcquirePastDeadline
  <1>3. ASSUME NEW w \in Workers, NEW x \in Executions, Acquire(w, x) PROVE RaceInv'
    <2>. DEFINE n == store[x].attempt + 1
    <2>1. /\ store'[x] = LeasedRow(store[x])
          /\ \A y \in Executions : y # x => store'[y] = store[y]
      BY <1>3, <1>t DEF Acquire, AcquireLease, TypeOK, Write
    <2>2. /\ LeasedRow(store[x]).attempt = n /\ LeasedRow(store[x]).token = n
          /\ LeasedRow(store[x]).state = "LEASED"
          /\ LeasedRow(store[x]).expires = now + LeaseSeconds
          /\ n \in Nat /\ n # 0
      BY <1>t DEF LeasedRow, Row
    <2>3. /\ lease'[w][x] = [token |-> n, until |-> now + LeaseSeconds]
          /\ \A v \in Workers, y \in Executions :
                 v # w \/ y # x => lease'[v][y] = lease[v][y]
      BY <1>3, <1>t DEF Acquire, AcquireLease, TypeOK, Granted
    <2>4. call' = call /\ call[w] = Idle
      BY <1>3 DEF Acquire
    <2>. HIDE DEF n
    <2>5. \A v \in Workers : Token(v, x) \in Nat /\ Token(v, x) # n /\ Token(v, x) < n
      <3>1. \A v \in Workers : Token(v, x) \in Nat /\ Token(v, x) <= store[x].attempt
        BY <1>t DEF RaceInv, TokensArePast, Token, TypeOK, Grant
      <3>. QED
        BY <1>t, <3>1 DEF n
    <2>6. RowsFenced'
      BY <2>1, <2>2 DEF RaceInv, RowsFenced, RowFenced
    <2>7. TokensArePast'
      BY <2>1, <2>2, <2>3, <2>5 DEF RaceInv, TokensArePast, Token
    <2>8. DistinctTokens'
      BY <2>3, <2>5 DEF RaceInv, DistinctTokens, Token
    <2>9. CallsCarryTokens'
      BY <1>c, <1>w, <2>3, <2>4 DEF RaceInv, CallsCarryTokens, Token
    <2>10. LeaseEndIsKnown'
      BY <2>1, <2>2, <2>3, <2>5 DEF RaceInv, LeaseEndIsKnown, HoldsLease, Token
    <2>. QED
      BY <2>6, <2>7, <2>8, <2>9, <2>10 DEF RaceInv
  <1>4. ASSUME NEW w \in Workers, NEW op \in TokenOps, NEW x \in Executions,
               BeginWorker(w, op, x)
        PROVE  RaceInv'
    <2>1. Token(w, x) # 0
      BY <1>4 DEF BeginWorker, Begun, Checked, TokenOps, HeartbeatChecked, DispatchChecked,
                  CompleteChecked, FailChecked, UnknownChecked, HoldsLease
    <2>. QED
      BY <1>4, <1>b, <1>w, <2>1 DEF BeginWorker
  <1>5. ASSUME NEW w \in Workers, FinishHeartbeat(w) PROVE RaceInv'
    <2>. DEFINE c == call[w]
                x == c.x
    <2>1. c # Idle /\ c.op \in TokenOps
      BY <1>5 DEF FinishHeartbeat, Pending, TokenOps
    <2>2. /\ x \in Executions /\ store[x] \in Row /\ c.at \in Nat
          /\ c.tok # 0 /\ c.tok = Token(w, x)
      BY <1>c, <1>w, <2>1 DEF RaceInv, CallsCarryTokens
    <2>3. Returns(w)
      BY <1>5 DEF FinishHeartbeat
    <2>4. CASE PastDeadline(c.at)
      <3>1. Write(x, DeadlineWrite(store[x])) /\ lease' = Granted(w, x, NoGrant)
        BY <1>5, <2>4 DEF FinishHeartbeat, HeartbeatWrite
      <3>2. KeepsLease(store[x], DeadlineWrite(store[x]))
        BY <1>t, <2>2, LateWrites
      <3>. QED
        BY <2>2, <2>3, <3>1, <3>2, WorkerReturns
    <2>5. CASE ~PastDeadline(c.at) /\ store[x].token # c.tok
      <3>1. Write(x, store[x]) /\ lease' = Granted(w, x, NoGrant)
        BY <1>5, <2>5 DEF FinishHeartbeat, HeartbeatWrite
      <3>2. KeepsLease(store[x], store[x])
        BY <2>2 DEF KeepsLease
      <3>. QED
        BY <2>2, <2>3, <3>1, <3>2, WorkerReturns
    <2>6. CASE ~PastDeadline(c.at) /\ store[x].token = c.tok
      <3>. DEFINE e == c.at + LeaseSeconds
                  r == [store[x] EXCEPT !.expires = e]
      <3>1. Write(x, r) /\ lease' = Granted(w, x, [token |-> c.tok, until |-> e])
        BY <1>5, <2>6 DEF FinishHeartbeat, HeartbeatWrite
      <3>2. /\ r.token = c.tok /\ r.attempt = store[x].attempt /\ r.state = store[x].state
            /\ r.expires = e
        BY <2>2, <2>6 DEF Row
      <3>. HIDE DEF r, e, c, x
      <3>3. store'[x] = r /\ \A y \in Executions : y # x => store'[y] = store[y]
        BY <1>t, <2>2, <3>1 DEF TypeOK, Write
      <3>4. /\ lease'[w][x] = [token |-> c.tok, until |-> e]
            /\ \A v \in Workers, y \in Executions :
                   v # w \/ y # x => lease'[v][y] = lease[v][y]
        BY <1>t, <2>2, <3>1 DEF TypeOK, Granted
      <3>5. \A v \in Workers, y \in Executions : Token(v, y)' = Token(v, y)
        BY <2>2, <3>4 DEF Token
      <3>6. RowsFenced'
        BY <2>2, <2>6, <3>2, <3>3 DEF RaceInv, RowsFenced, RowFenced
      <3>7. TokensArePast' /\ DistinctTokens'
        BY <3>2, <3>3, <3>5 DEF RaceInv, TokensArePast, DistinctTokens
      <3>8. CallsCarryTokens'
        BY <1>c, <1>w, <2>3, <3>5 DEF RaceInv, CallsCarryTokens, Returns, RaceTypeOK
      <3>9. ASSUME NEW v \in Workers, NEW y \in Executions,
                   store'[y].state = "LEASED", HoldsLease(store'[y], Token(v, y)')
            PROVE  lease'[v][y].until = store'[y].expires
        <4>1. CASE v = w /\ y = x
          BY <3>2, <3>3, <3>4, <4>1
        <4>2. CASE y # x
          BY <3>3, <3>4, <3>5, <3>9, <4>2 DEF RaceInv, LeaseEndIsKnown
        <4>3. CASE v # w /\ y = x
          BY <2>2, <3>2, <3>3, <3>5, <3>9, <4>3 DEF RaceInv, DistinctTokens, HoldsLease
        <4>. QED
          BY <4>1, <4>2, <4>3
      <3>10. LeaseEndIsKnown'
        BY <3>9 DEF LeaseEndIsKnown
      <3>. QED
        BY <3>6, <3>7, <3>8, <3>10 DEF RaceInv
    <2>. QED
      BY <2>4, <2>5, <2>6
  <1>6. ASSUME NEW w \in Workers, FinishDispatch(w) PROVE RaceInv'
    <2>1. call[w] # Idle /\ Returns(w)
      BY <1>6 DEF FinishDispatch, Pending
    <2>2. KeepsLease(store[call[w].x], DispatchWrite(store[call[w].x], call[w].tok, call[w].at))
      BY <1>c, <1>t, <1>w, <2>1, LateWrites
    <2>. QED
      BY <1>6, <1>c, <1>w, <2>1, <2>2, WorkerReturns DEF FinishDispatch
  <1>7. ASSUME NEW w \in Workers, NEW digest \in Results, FinishComplete(w, digest)
        PROVE  RaceInv'
    <2>1. call[w] # Idle
      BY <1>7 DEF FinishComplete, Pending
    <2>2. KeepsLease(store[call[w].x], CompleteWrite(store[call[w].x], digest))
      BY <1>c, <1>t, <1>w, <2>1, LateWrites
    <2>. QED
      BY <1>7, <1>c, <1>w, <2>1, <2>2, WorkerReturns DEF FinishComplete
  <1>8. ASSUME NEW w \in Workers, NEW error \in Errors, NEW retryable \in BOOLEAN,
               FinishFail(w, error, retryable)
        PROVE  RaceInv'
    <2>1. call[w] # Idle
      BY <1>8 DEF FinishFail, Pending
    <2>2. KeepsLease(store[call[w].x], FailWrite(store[call[w].x], call[w].read, error,
                                                 retryable, call[w].at))
      BY <1>c, <1>t, <1>w, <2>1, LateWrites
    <2>. QED
      BY <1>8, <1>c, <1>w, <2>1, <2>2, WorkerReturns DEF FinishFail
  <1>9. ASSUME NEW w \in Workers, NEW error \in Errors, FinishUnknown(w, error)
        PROVE  RaceInv'
    <2>1. call[w] # Idle
      BY <1>9 DEF FinishUnknown, Pending
    <2>2. KeepsLease(store[call[w].x], UnknownWrite(store[call[w].x], error))
      BY <1>c, <1>t, <1>w, <2>1, LateWrites
    <2>. QED
      BY <1>9, <1>c, <1>w, <2>1, <2>2, WorkerReturns DEF FinishUnknown
  <1>10. ASSUME NEW p \in Operators, NEW op \in OperatorOps, NEW x \in Executions,
                BeginOperator(p, op, x)
         PROVE  RaceInv'
    BY <1>10, <1>b, <1>w DEF BeginOperator, OperatorOps, TokenOps
  <1>11. ASSUME NEW p \in Operators, FinishCancel(p) PROVE RaceInv'
    <2>1. call[p] # Idle
      BY <1>11 DEF FinishCancel, Pending
    <2>2. KeepsLease(store[call[p].x], CancelWrite(store[call[p].x]))
      BY <1>c, <1>t, <1>w, <2>1, LateWrites
    <2>. QED
      BY <1>11, <1>c, <1>w, <2>1, <2>2, OthersWrite DEF FinishCancel
  <1>12. ASSUME NEW p \in Operators, NEW outcome \in Outcomes, NEW evidence \in Results,
                FinishReconcile(p, outcome, evidence)
         PROVE  RaceInv'
    <2>1. call[p] # Idle
      BY <1>12 DEF FinishReconcile, Pending
    <2>2. KeepsLease(store[call[p].x], ReconcileWrite(store[call[p].x], call[p].read,
                                                      outcome, evidence, call[p].at))
      BY <1>c, <1>t, <1>w, <2>1, LateWrites
    <2>. QED
      BY <1>12, <1>c, <1>w, <2>1, <2>2, OthersWrite DEF FinishReconcile
  <1>13. ASSUME NEW p \in Callers, CrashCaller(p) PROVE RaceInv'
    <2>1. UNCHANGED store /\ Returns(p)
      BY <1>13 DEF CrashCaller
    <2>2. \A w \in Workers :
              IF w = p THEN \A x \in Executions : lease'[w][x] = NoGrant
              ELSE lease'[w] = lease[w]
      BY <1>13, <1>t DEF CrashCaller, TypeOK
    <2>3. LeasesShrink
      BY <1>t, <2>1, <2>2 DEF LeasesShrink, KeepsLease
    <2>4. CallsCarryTokens'
      BY <2>1, <2>2, ReturnKeepsCalls DEF RaceInv
    <2>. QED
      BY <2>3, <2>4, ShrinkKeepsGrants DEF RaceInv
  <1>14. ASSUME TickWhileCalled PROVE RaceInv'
    BY <1>14, <1>e DEF TickWhileCalled, Tick, RaceInv, CallsCarryTokens, Token
  <1>15. ASSUME UNCHANGED rvars PROVE RaceInv'
    BY <1>15, <1>e DEF rvars, RaceInv, CallsCarryTokens, Token
  <1>. QED
    BY <1>1, <1>2, <1>3, <1>4, <1>5, <1>6, <1>7, <1>8, <1>9, <1>10, <1>11, <1>12,
       <1>13, <1>14, <1>15 DEF RaceNext, WorkerCall, OperatorCall

(* A worker that believes it holds the token of a row knows when its lease *)
(* ends, whatever heartbeat, recovery or re-lease went between the read    *)
(* and the update of its calls.                                            *)
THEOREM LeaseEndsAreKnown == RaceSpec => []LeaseEndIsKnown
  <1>1. RaceInv => LeaseEndIsKnown
    BY DEF RaceInv
  <1>. QED
    BY <1>1, RaceTypeInit, RaceTypeStep, RaceInvInit, RaceInvStep, PTL DEF RaceSpec

(* Only the holder of the newest lease hands an effect over: the WHERE     *)
(* lease_token = ? of record_dispatch_started stops every worker that was  *)
(* overtaken between its read and its update.                              *)
THEOREM DispatchesAreFenced == RaceSpec => DispatchIsFenced
  <1>. DEFINE Fenced ==
           \A x \in Executions : pending'[x] \ pending[x] \subseteq {store[x].attempt}
  <1>1. RaceTypeOK /\ RaceInv /\ [RaceNext]_rvars => Fenced
    <2>. SUFFICES ASSUME RaceTypeOK, RaceInv, [RaceNext]_rvars PROVE Fenced
      OBVIOUS
    <2>1. ASSUME NEW w \in Workers, FinishDispatch(w) PROVE Fenced
      <3>. DEFINE c == call[w]
      <3>1. /\ c.x \in Executions /\ store[c.x] \in Row
            /\ c.tok # 0 /\ RowFenced(store[c.x])
        <4>1. c # Idle /\ c.op \in TokenOps
          BY <2>1 DEF FinishDispatch, Pending, TokenOps
        <4>. QED
          BY <4>1, CallTypes DEF RaceInv, CallsCarryTokens, RowsFenced, Callers
      <3>2. \/ pending' = pending
            \/ pending' = [pending EXCEPT ![c.x] = @ \cup {c.tok}] /\ store[c.x].token = c.tok
        BY <2>1 DEF FinishDispatch, DispatchRecorded
      <3>. HIDE DEF c
      <3>3. store[c.x].token = c.tok => c.tok = store[c.x].attempt
        BY <3>1 DEF RowFenced
      <3>4. \A x \in Executions : pending[x] \subseteq Nat /\ pending \in [Executions -> SUBSET Nat]
        BY DEF RaceTypeOK, TypeOK
      <3>. QED
        BY <3>1, <3>2, <3>3, <3>4
    <2>2. ASSUME \A x \in Executions : pending'[x] \subseteq pending[x] PROVE Fenced
      BY <2>2
    <2>3. ASSUME NEW p \in Operators, NEW outcome \in Outcomes, NEW evidence \in Results,
                 FinishReconcile(p, outcome, evidence)
          PROVE  Fenced
      <3>1. \/ pending' = pending
            \/ pending' = [pending EXCEPT ![call[p].x] = @ \ call[p].seen]
        BY <2>3 DEF FinishReconcile
      <3>2. \A x \in Executions : pending'[x] \subseteq pending[x]
        BY <3>1 DEF RaceTypeOK, TypeOK
      <3>. QED
        BY <2>2, <3>2
    <2>4. CASE UNCHANGED pending
      BY <2>2, <2>4
    <2>. HIDE DEF Fenced
    <2>. QED
      BY <2>1, <2>3, <2>4
         DEF RaceNext, WorkerCall, OperatorCall, StoreTransaction, RecoverExpiredLeases,
             Prepare, AcquireTooLate, AcquirePastDeadline, Acquire, AcquireLease,
             BeginWorker, BeginOperator, Begun, FinishHeartbeat, FinishComplete, FinishFail,
             FinishUnknown, FinishCancel, CrashCaller, TickWhileCalled, Tick, rvars, vars
  <1>. QED
    BY <1>1, RaceTypeInit, RaceTypeStep, RaceInvInit, RaceInvStep, PTL
       DEF RaceSpec, DispatchIsFenced

-----------------------------------------------------------------------------
(* With disciplined callers.  A call finds the row as it read it, so that  *)
(* its two transactions together are one step of DurableExecution, whose   *)
(* invariants are then inherited.  One kind of call is overtaken all the   *)
(* same: acquire_lease dead-letters a lease past the deadline while its    *)
(* holder is in the middle of a call.                                      *)
Kernel == RowsOK /\ EffectInv /\ GrantsOK

(* The lease of the call was dead-lettered under it.                       *)
TooLate(c) ==
    LET r == store[c.x]
    IN  /\ r.state = "DLQ" /\ HoldsLease(r, c.tok) /\ PastDeadline(now)
        /\ ~r.dispatched /\ r.sameErrors < PoisonThreshold
        /\ c.op # "mark_outcome_unknown"
        /\ c.op = "complete" => Mode[c.x] = "LOCAL_SAFE"

WorkerFresh(p) ==
    LET c == call[p]
    IN  /\ p \in Workers /\ c.op \in TokenOps
        /\ lease[p][c.x].until > now
        /\ Token(p, c.x) = c.tok
        /\ \/ /\ Checked(c.op, c.x, store[c.x], c.tok)
              /\ c.op \in UsesRow => c.read = store[c.x]
           \/ TooLate(c)

CancelFresh(p) ==
    LET r == store[call[p].x]
    IN  /\ p \in Operators /\ call[p].op = "cancel"
        /\ CancelChecked(r) \/ r = CancelWrite(r)

ReconcileFresh(p) ==
    LET c == call[p]
    IN  /\ p \in Operators /\ c.op = "reconcile_unknown"
        /\ ReconcileChecked(store[c.x])
        /\ c.read = store[c.x] /\ c.seen = pending[c.x]
        /\ \A q \in Callers : (q # p /\ call[q] # Idle /\ call[q].x = c.x) =>
               call[q].op # "reconcile_unknown"

CallFresh(p) ==
    /\ call[p].op \in UsesClock => call[p].at = now
    /\ WorkerFresh(p) \/ CancelFresh(p) \/ ReconcileFresh(p)

(* A late call: the row, dead-lettered meanwhile, is left final, and the   *)
(* worker gives its lease up.                                              *)
LateEnd(w, x, r) ==
    /\ store[x].state = "DLQ" /\ HoldsLease(store[x], Token(w, x))
    /\ RowOK(r) /\ r.attempt = store[x].attempt
    /\ r.state = "DLQ" \/ (r.state = "COMPLETED" /\ Mode[x] = "LOCAL_SAFE")
    /\ Write(x, r)
    /\ lease' = Granted(w, x, NoGrant)
    /\ now' = now /\ pending' = pending

(* A step of DurableExecution, or the end of a late call.                  *)
Simulated ==
    \/ [Next]_vars
    \/ \E w \in Workers, x \in Executions, r \in Row : LateEnd(w, x, r)

CallsFresh == \A p \in Callers : call[p] # Idle => CallFresh(p)

DisciplineInv == disciplined => Kernel /\ CallsFresh

-----------------------------------------------------------------------------
LEMMA KernelStep == TypeOK /\ Kernel /\ [Next]_vars => Kernel'
  BY RowsStep, EffectStep, GrantsStep DEF Kernel

(* An operator who cancels writes the same row twice at most.              *)
LEMMA CancelTwice ==
    ASSUME NEW r \in Row
    PROVE  /\ CancelWrite(CancelWrite(r)) = CancelWrite(r)
           /\ CancelWrite(r).state = "CANCELED"
  BY DEF CancelWrite, NoLease, Row

LEMMA FreshStates ==
    ASSUME RaceTypeOK, NEW p \in Callers, call[p] # Idle
    PROVE  /\ WorkerFresh(p) =>
                  store[call[p].x].state \in {"LEASED", "DISPATCH_RECORDED", "DLQ"}
           /\ CancelFresh(p) =>
                  store[call[p].x].state \in {"PREPARED", "RETRY_WAIT", "CANCELED"}
           /\ ReconcileFresh(p) => store[call[p].x].state = "OUTCOME_UNKNOWN"
  <1>1. store[call[p].x] \in Row
    BY CallTypes
  <1>2. WorkerFresh(p) =>
            store[call[p].x].state \in {"LEASED", "DISPATCH_RECORDED", "DLQ"}
    BY DEF WorkerFresh, TooLate, Checked, TokenOps, HeartbeatChecked, DispatchChecked,
           CompleteChecked, FailChecked, UnknownChecked
  <1>3. CancelFresh(p) =>
            store[call[p].x].state \in {"PREPARED", "RETRY_WAIT", "CANCELED"}
    BY <1>1, CancelTwice DEF CancelFresh, CancelChecked
  <1>4. ReconcileFresh(p) => store[call[p].x].state = "OUTCOME_UNKNOWN"
    BY DEF ReconcileFresh, ReconcileChecked
  <1>. QED
    BY <1>2, <1>3, <1>4

(* The row of a worker's fresh call is its own.                            *)
LEMMA FreshHolder ==
    ASSUME RaceTypeOK, Kernel, NEW w \in Workers, call[w] # Idle, WorkerFresh(w)
    PROVE  /\ call[w].x \in Executions /\ store[call[w].x] \in Row
           /\ HoldsLease(store[call[w].x], Token(w, call[w].x))
           /\ store[call[w].x].expires > now
  <1>1. call[w].x \in Executions /\ store[call[w].x] \in Row
    BY CallTypes DEF Callers
  <1>2. GrantOK(w, call[w].x) /\ lease[w][call[w].x].until > now
    BY <1>1 DEF Kernel, GrantsOK, WorkerFresh
  <1>. QED
    BY <1>1, <1>2 DEF GrantOK, HoldsLease

(* Nobody else is at work on the row of a worker's fresh call.             *)
LEMMA FreshAlone ==
    ASSUME RaceTypeOK, Kernel, CallsFresh, NEW w \in Workers, call[w] # Idle,
           WorkerFresh(w), NEW q \in Callers, q # w, call[q] # Idle
    PROVE  call[q].x # call[w].x
  <1>. SUFFICES ASSUME call[q].x = call[w].x PROVE FALSE
    OBVIOUS
  <1>1. CASE WorkerFresh(q)
    <2>1. q \in Workers /\ call[w].x \in Executions
      BY <1>1, FreshHolder DEF WorkerFresh
    <2>2. /\ HoldsLease(store[call[w].x], Token(w, call[w].x))
          /\ HoldsLease(store[call[w].x], Token(q, call[w].x))
      BY <1>1, <2>1, FreshHolder
    <2>. QED
      BY <2>1, <2>2 DEF Kernel, GrantsOK, DistinctTokens, HoldsLease
  <1>2. CASE ~WorkerFresh(q)
    <2>1. CancelFresh(q) \/ ReconcileFresh(q)
      BY <1>2 DEF CallsFresh, CallFresh
    <2>2. w \in Callers
      BY DEF Callers
    <2>. QED
      BY <2>1, <2>2, FreshStates
  <1>. QED
    BY <1>1, <1>2

(* The step leaves alone what the call q depends on.                       *)
Spares(q) ==
    /\ call'[q] = call[q] /\ now' = now
    /\ store'[call[q].x] = store[call[q].x]
    /\ pending'[call[q].x] = pending[call[q].x]
    /\ q \in Workers => lease'[q] = lease[q]
    /\ call[q].op = "reconcile_unknown" =>
           \A p \in Callers : \/ call'[p] = call[p] \/ call'[p] = Idle
                              \/ call'[p].x # call[q].x
                              \/ call'[p].op # "reconcile_unknown"

LEMMA SparedStaysFresh ==
    ASSUME NEW q \in Callers, call[q] # Idle, CallFresh(q), Spares(q)
    PROVE  CallFresh(q)'
  <1>1. call'[q].op \in UsesClock => call'[q].at = now'
    BY DEF CallFresh, Spares
  <1>2. WorkerFresh(q) => WorkerFresh(q)'
    BY DEF WorkerFresh, Spares, TooLate, Checked, Token, PastDeadline
  <1>3. CancelFresh(q) => CancelFresh(q)'
    BY DEF CancelFresh, Spares
  <1>4. ReconcileFresh(q) => ReconcileFresh(q)'
    BY DEF ReconcileFresh, Spares
  <1>. QED
    BY <1>1, <1>2, <1>3, <1>4 DEF CallFresh

(* The caller p returns from a call on x, on which nobody else is at work. *)
LEMMA ReturnKeepsFresh ==
    ASSUME RaceTypeOK, CallsFresh, NEW p \in Callers, NEW x \in Executions, NEW r,
           Write(x, r), now' = now, Returns(p),
           \A y \in Executions : y # x => pending'[y] = pending[y],
           \A w \in Workers : w # p => lease'[w] = lease[w],
           \A q \in Callers : (q # p /\ call[q] # Idle) => call[q].x # x
    PROVE  CallsFresh'
  <1>. SUFFICES ASSUME NEW q \in Callers, call'[q] # Idle PROVE CallFresh(q)'
    BY DEF CallsFresh
  <1>1. /\ q # p /\ call'[q] = call[q]
        /\ \A c \in Callers : call'[c] = call[c] \/ call'[c] = Idle
    BY DEF Returns, RaceTypeOK
  <1>2. call[q].x # x /\ call[q].x \in Executions
    BY <1>1, CallTypes
  <1>3. store'[call[q].x] = store[call[q].x]
    BY <1>2 DEF Write, RaceTypeOK, TypeOK
  <1>. QED
    BY <1>1, <1>2, <1>3, SparedStaysFresh DEF CallsFresh, Spares

LEMMA SimulatedKeepsKernel == TypeOK /\ Kernel /\ Simulated => Kernel'
  <1>1. ASSUME TypeOK, Kernel, NEW w \in Workers, NEW x \in Executions, NEW r \in Row,
               LateEnd(w, x, r)
        PROVE  Kernel'
    <2>1. Exists(x) /\ pending[x] = {}
      BY <1>1 DEF LateEnd, Exists, Kernel, EffectInv, PendingEffectVisible
    <2>2. r.state # "ABSENT"
      BY <1>1 DEF LateEnd
    <2>3. RowsOK'
      BY <1>1, WriteKeepsRows DEF LateEnd, Kernel
    <2>4. EffectInv'
      BY <1>1, <2>1, WriteKeepsEffects DEF LateEnd, Kernel
    <2>5. GrantsOK'
      BY <1>1, <2>2, HolderKeepsGrants DEF LateEnd, Kernel
    <2>. QED
      BY <2>3, <2>4, <2>5 DEF Kernel
  <1>. QED
    BY <1>1, KernelStep DEF Simulated

(* A terminal row keeps its state, except that a LOCAL_SAFE execution may  *)
(* still be completed by the call its deadline overtook.                   *)
LEMMA SimulatedKeepsFinal ==
    ASSUME TypeOK, Simulated, NEW x \in Executions, store[x].state \in TERMINAL,
           Mode[x] = "EXTERNAL_EFFECT"
    PROVE  store'[x].state = store[x].state
  <1>1. ASSUME NEW w \in Workers, NEW y \in Executions, NEW r \in Row, LateEnd(w, y, r)
        PROVE  store'[x].state = store[x].state
    BY <1>1 DEF LateEnd, Write, TypeOK
  <1>. QED
    BY <1>1, TerminalStep DEF Simulated

(* What a late call writes.                                                *)
LEMMA LateRows ==
    ASSUME NEW cur \in Row, NEW read \in Row, NEW t \in Nat, PastDeadline(t), now \in Nat,
           cur.state = "DLQ", ~cur.dispatched, cur.sameErrors < PoisonThreshold, NEW n \in Nat
    PROVE  /\ RowOK(DeadlineWrite(cur)) /\ DeadlineWrite(cur).state = "DLQ"
           /\ DispatchWrite(cur, n, t) = DeadlineWrite(cur)
           /\ HeartbeatWrite(cur, read, n, t) = DeadlineWrite(cur)
           /\ \A digest \in Results : /\ RowOK(CompleteWrite(cur, digest))
                                      /\ CompleteWrite(cur, digest).state = "COMPLETED"
           /\ \A error \in Errors, retryable \in BOOLEAN :
                  /\ RowOK(FailWrite(cur, read, error, retryable, t))
                  /\ FailWrite(cur, read, error, retryable, t).state = "DLQ"
  <1>1. RowOK(DeadlineWrite(cur)) /\ DeadlineWrite(cur).state = "DLQ"
    BY DEF RowOK, DeadlineWrite, NoLease, Row
  <1>2. DispatchWrite(cur, n, t) = DeadlineWrite(cur)
    BY DEF DispatchWrite
  <1>3. HeartbeatWrite(cur, read, n, t) = DeadlineWrite(cur)
    BY DEF HeartbeatWrite
  <1>4. ASSUME NEW digest \in Results
        PROVE  RowOK(CompleteWrite(cur, digest)) /\ CompleteWrite(cur, digest).state = "COMPLETED"
    BY DEF RowOK, CompleteWrite, NoLease, Handed, Row
  <1>5. ASSUME NEW error \in Errors, NEW retryable \in BOOLEAN
        PROVE  /\ RowOK(FailWrite(cur, read, error, retryable, t))
               /\ FailWrite(cur, read, error, retryable, t).state = "DLQ"
    <2>1. FailsForGood(read, error, retryable, t)
      BY DEF FailsForGood
    <2>. QED
      BY <2>1 DEF RowOK, FailWrite, NoLease, Row
  <1>. QED
    BY <1>1, <1>2, <1>3, <1>4, <1>5

LEMMA FinishIsSimulated ==
    ASSUME RaceTypeOK, Kernel, NEW w \in Workers, call[w] # Idle, CallFresh(w)
    PROVE  /\ FinishHeartbeat(w) => Simulated
           /\ FinishDispatch(w) => Simulated
           /\ \A digest \in Results : FinishComplete(w, digest) => Simulated
           /\ \A error \in Errors, retryable \in BOOLEAN :
                  FinishFail(w, error, retryable) => Simulated
           /\ \A error \in Errors : FinishUnknown(w, error) => Simulated
  <1>. DEFINE c == call[w]
              x == c.x
  <1>w. w \in Callers
    BY DEF Callers
  <1>t. /\ TypeOK /\ now \in Nat /\ x \in Executions /\ store[x] \in Row
        /\ c.read \in Row /\ c.at \in Nat /\ c.tok \in Nat
    BY <1>w, CallTypes DEF RaceTypeOK, TypeOK
  <1>h. ASSUME NEW r, KeepsLease(store[x], r), TooLate(c), WorkerFresh(w), RowOK(r),
               r.state = "DLQ" \/ (r.state = "COMPLETED" /\ c.op = "complete"), Write(x, r), lease' = Granted(w, x, NoGrant), now' = now, pending' = pending
        PROVE  Simulated
    <2>1. r \in Row /\ r.attempt = store[x].attempt
      BY <1>h DEF KeepsLease
    <2>2. LateEnd(w, x, r)
      BY <1>h, <2>1 DEF LateEnd, TooLate, WorkerFresh
    <2>. QED
      BY <1>t, <2>1, <2>2 DEF Simulated
  <1>f. ASSUME c.op \in TokenOps
        PROVE  /\ WorkerFresh(w)
               /\ c.tok = Token(w, x)
               /\ \/ /\ Checked(c.op, x, store[x], c.tok)
                     /\ c.op \in UsesRow => c.read = store[x]
                  \/ TooLate(c)
    BY <1>f DEF CallFresh, CancelFresh, ReconcileFresh, WorkerFresh, TokenOps
  <1>l. ASSUME TooLate(c), PastDeadline(c.at)
        PROVE  /\ RowOK(DeadlineWrite(store[x])) /\ DeadlineWrite(store[x]).state = "DLQ"
               /\ DispatchWrite(store[x], c.tok, c.at) = DeadlineWrite(store[x])
               /\ HeartbeatWrite(store[x], c.read, c.tok, c.at) = DeadlineWrite(store[x])
               /\ \A error \in Errors, retryable \in BOOLEAN :
                      /\ RowOK(FailWrite(store[x], c.read, error, retryable, c.at))
                      /\ FailWrite(store[x], c.read, error, retryable, c.at).state = "DLQ"
    BY <1>l, <1>t, LateRows DEF TooLate
  <1>k. /\ KeepsLease(store[x], DeadlineWrite(store[x]))
        /\ \A digest \in Results : KeepsLease(store[x], CompleteWrite(store[x], digest))
        /\ \A error \in Errors, retryable \in BOOLEAN :
               KeepsLease(store[x], FailWrite(store[x], c.read, error, retryable, c.at))
    BY <1>t, LateWrites
  <1>n. ASSUME NEW y \in Executions, WorkerStep(w, y) PROVE Simulated
    BY <1>n DEF Next, Simulated
  <1>1. ASSUME FinishHeartbeat(w) PROVE Simulated
    <2>1. c.op = "heartbeat" /\ c.at = now
      BY <1>1 DEF FinishHeartbeat, Pending, CallFresh, UsesClock
    <2>2. CASE TooLate(c)
      <3>1. /\ Write(x, DeadlineWrite(store[x])) /\ lease' = Granted(w, x, NoGrant)
            /\ now' = now /\ pending' = pending
        BY <1>1, <1>l, <2>1, <2>2 DEF FinishHeartbeat, TooLate
      <3>. QED
        BY <1>f, <1>h, <1>k, <1>l, <2>1, <2>2, <3>1 DEF TooLate, TokenOps
    <2>3. CASE ~TooLate(c)
      <3>1. /\ HeartbeatChecked(store[x], c.tok) /\ c.tok = Token(w, x)
            /\ PastDeadline(now) \/ now < store[x].expires
        BY <1>f, <2>1, <2>3 DEF Checked, TokenOps
      <3>2. store[x].token = c.tok
        BY <3>1 DEF HeartbeatChecked, HoldsLease
      <3>3. /\ Write(x, HeartbeatWrite(store[x], store[x], c.tok, now))
            /\ lease' = Granted(w, x, IF PastDeadline(now) THEN NoGrant
                                      ELSE [token |-> c.tok, until |-> now + LeaseSeconds])
        BY <1>1, <2>1, <3>2 DEF FinishHeartbeat, HeartbeatWrite
      <3>4. Heartbeat(w, x)
        BY <1>1, <3>1, <3>3 DEF Heartbeat, FinishHeartbeat
      <3>. QED
        BY <1>n, <1>t, <3>4 DEF WorkerStep
    <2>. QED
      BY <2>2, <2>3
  <1>2. ASSUME FinishDispatch(w) PROVE Simulated
    <2>1. c.op = "record_dispatch_started" /\ c.at = now
      BY <1>2 DEF FinishDispatch, Pending, CallFresh, UsesClock
    <2>2. CASE TooLate(c)
      <3>1. PastDeadline(c.at)
        BY <2>1, <2>2 DEF TooLate
      <3>2. /\ Write(x, DeadlineWrite(store[x])) /\ lease' = Granted(w, x, NoGrant)
            /\ now' = now /\ pending' = pending
        BY <1>2, <1>l, <2>2, <3>1 DEF FinishDispatch, DispatchRecorded
      <3>. QED
        BY <1>f, <1>h, <1>k, <1>l, <2>1, <2>2, <3>1, <3>2 DEF TokenOps
    <2>3. CASE ~TooLate(c)
      <3>1. DispatchChecked(x, store[x], c.tok) /\ c.tok = Token(w, x)
        BY <1>f, <2>1, <2>3 DEF Checked, TokenOps
      <3>2. RecordDispatchStarted(w, x)
        BY <1>2, <2>1, <3>1 DEF RecordDispatchStarted, FinishDispatch
      <3>. QED
        BY <1>n, <1>t, <3>2 DEF WorkerStep
    <2>. QED
      BY <2>2, <2>3
  <1>3. ASSUME NEW digest \in Results, FinishComplete(w, digest) PROVE Simulated
    <2>1. c.op = "complete"
      BY <1>3 DEF FinishComplete, Pending
    <2>2. CASE TooLate(c)
      <3>1. /\ RowOK(CompleteWrite(store[x], digest))
            /\ CompleteWrite(store[x], digest).state = "COMPLETED"
        BY <1>t, <2>2, LateRows DEF TooLate
      <3>. QED
        BY <1>3, <1>f, <1>h, <1>k, <2>1, <2>2, <3>1 DEF FinishComplete, TokenOps
    <2>3. CASE ~TooLate(c)
      <3>1. CompleteChecked(x, store[x], c.tok) /\ c.tok = Token(w, x)
        BY <1>f, <2>1, <2>3 DEF Checked, TokenOps
      <3>2. Complete(w, x, digest)
        BY <1>3, <3>1 DEF Complete, FinishComplete
      <3>. QED
        BY <1>n, <1>t, <3>2 DEF WorkerStep
    <2>. QED
      BY <2>2, <2>3
  <1>4. ASSUME NEW error \in Errors, NEW retryable \in BOOLEAN,
               FinishFail(w, error, retryable)
        PROVE  Simulated
    <2>1. c.op = "fail_before_dispatch" /\ c.at = now
      BY <1>4 DEF FinishFail, Pending, CallFresh, UsesClock
    <2>2. CASE TooLate(c)
      <3>1. PastDeadline(c.at)
        BY <2>1, <2>2 DEF TooLate
      <3>. QED
        BY <1>4, <1>f, <1>h, <1>k, <1>l, <2>1, <2>2, <3>1 DEF FinishFail, TokenOps
    <2>3. CASE ~TooLate(c)
      <3>1. FailChecked(store[x], c.tok) /\ c.tok = Token(w, x) /\ c.read = store[x]
        BY <1>f, <2>1, <2>3 DEF Checked, TokenOps, UsesRow
      <3>2. FailBeforeDispatch(w, x, error, retryable)
        BY <1>4, <2>1, <3>1 DEF FailBeforeDispatch, FinishFail
      <3>. QED
        BY <1>n, <1>t, <3>2 DEF WorkerStep
    <2>. QED
      BY <2>2, <2>3
  <1>5. ASSUME NEW error \in Errors, FinishUnknown(w, error) PROVE Simulated
    <2>1. c.op = "mark_outcome_unknown"
      BY <1>5 DEF FinishUnknown, Pending
    <2>2. UnknownChecked(store[x], c.tok) /\ c.tok = Token(w, x)
      BY <1>f, <2>1 DEF Checked, TokenOps, TooLate
    <2>3. MarkOutcomeUnknown(w, x, error)
      BY <1>5, <2>2 DEF MarkOutcomeUnknown, FinishUnknown
    <2>. QED
      BY <1>n, <1>t, <2>3 DEF WorkerStep
  <1>. QED
    BY <1>1, <1>2, <1>3, <1>4, <1>5

-----------------------------------------------------------------------------
(* A disciplined step of the interleaved kernel is a step of               *)
(* DurableExecution, or the end of a late call.                            *)
LEMMA DisciplineSimulates ==
    ASSUME RaceTypeOK, Kernel, CallsFresh, [RaceNext]_rvars
    PROVE  Simulated
  <1>t. TypeOK /\ Workers \subseteq Callers /\ Operators \subseteq Callers
    BY DEF RaceTypeOK, Callers
  <1>n. ASSUME [Next]_vars PROVE Simulated
    BY <1>n DEF Simulated
  <1>v. ASSUME UNCHANGED vars PROVE Simulated
    BY <1>n, <1>v
  <1>1. ASSUME StoreTransaction PROVE Simulated
    BY <1>1, <1>n DEF StoreTransaction, Next, OperatorStep
  <1>2. ASSUME NEW x \in Executions, AcquireTooLate(x) PROVE Simulated
    BY <1>2, <1>n DEF AcquireTooLate, Next, OperatorStep
  <1>3. ASSUME NEW w \in Workers, NEW x \in Executions, Acquire(w, x) PROVE Simulated
    BY <1>3, <1>n DEF Acquire, Next, WorkerStep
  <1>4. ASSUME NEW w \in Workers, call[w] # Idle
        PROVE  /\ FinishHeartbeat(w) => Simulated
               /\ FinishDispatch(w) => Simulated
               /\ \A digest \in Results : FinishComplete(w, digest) => Simulated
               /\ \A error \in Errors, retryable \in BOOLEAN :
                      FinishFail(w, error, retryable) => Simulated
               /\ \A error \in Errors : FinishUnknown(w, error) => Simulated
    <2>1. CallFresh(w)
      BY <1>4, <1>t DEF CallsFresh
    <2>. QED
      BY <1>4, <2>1, FinishIsSimulated
  <1>5. ASSUME NEW p \in Callers, NEW op, NEW x, NEW tok, Begun(p, op, x, tok)
        PROVE  Simulated
    BY <1>5, <1>v DEF Begun
  <1>6. ASSUME NEW p \in Operators, FinishCancel(p) PROVE Simulated
    <2>. DEFINE x == call[p].x
    <2>1. /\ call[p] # Idle /\ call[p].op = "cancel"
          /\ x \in Executions
      BY <1>6, <1>t, CallTypes DEF FinishCancel, Pending
    <2>2. CancelChecked(store[x]) \/ store[x] = CancelWrite(store[x])
      BY <1>t, <2>1 DEF CallsFresh, CallFresh, WorkerFresh, CancelFresh, ReconcileFresh, TokenOps
    <2>3. CASE CancelChecked(store[x])
      <3>1. Cancel(x)
        BY <1>6, <2>3 DEF FinishCancel, Cancel
      <3>. QED
        BY <1>n, <2>1, <3>1 DEF Next, OperatorStep
    <2>4. CASE store[x] = CancelWrite(store[x])
      <3>1. store' = store
        BY <1>6, <1>t, <2>1, <2>4 DEF FinishCancel, Write, TypeOK
      <3>. QED
        BY <1>6, <1>v, <3>1 DEF FinishCancel, vars
    <2>. QED
      BY <2>2, <2>3, <2>4
  <1>7. ASSUME NEW p \in Operators, NEW outcome \in Outcomes, NEW evidence \in Results,
               FinishReconcile(p, outcome, evidence)
        PROVE  Simulated
    <2>. DEFINE x == call[p].x
    <2>1. /\ call[p] # Idle /\ call[p].op = "reconcile_unknown"
          /\ x \in Executions
      BY <1>7, <1>t, CallTypes DEF FinishReconcile, Pending
    <2>2. /\ ReconcileChecked(store[x])
          /\ call[p].read = store[x] /\ call[p].seen = pending[x] /\ call[p].at = now
      BY <1>t, <2>1 DEF CallsFresh, CallFresh, WorkerFresh, CancelFresh, ReconcileFresh,
                        TokenOps, UsesClock
    <2>3. outcome = "CONFIRMED_NO_EFFECT" => pending' = [pending EXCEPT ![x] = {}]
      BY <1>7, <1>t, <2>1, <2>2 DEF FinishReconcile, TypeOK
    <2>4. ReconcileUnknown(x, outcome, evidence)
      BY <1>7, <2>2, <2>3 DEF FinishReconcile, ReconcileUnknown
    <2>. QED
      BY <1>n, <2>1, <2>4 DEF Next, OperatorStep
  <1>8. ASSUME NEW p \in Callers, CrashCaller(p) PROVE Simulated
    <2>1. CASE p \in Workers /\ \E x \in Executions : lease[p][x] # NoGrant
      BY <1>8, <1>n, <2>1 DEF CrashCaller, Crash, Next
    <2>2. CASE p \in Workers /\ \A x \in Executions : lease[p][x] = NoGrant
      <3>1. lease' = lease
        BY <1>8, <1>t, <2>2 DEF CrashCaller, TypeOK
      <3>. QED
        BY <1>8, <1>v, <3>1 DEF CrashCaller, vars
    <2>3. CASE p \notin Workers
      BY <1>8, <1>v, <2>3 DEF CrashCaller, vars
    <2>. QED
      BY <2>1, <2>2, <2>3
  <1>9. ASSUME TickWhileCalled PROVE Simulated
    BY <1>9, <1>n DEF TickWhileCalled, Next
  <1>10. ASSUME UNCHANGED rvars PROVE Simulated
    BY <1>10, <1>v DEF rvars, vars
  <1>. QED
    BY <1>t, <1>1, <1>2, <1>3, <1>4, <1>5, <1>6, <1>7, <1>8, <1>9, <1>10
       DEF RaceNext, WorkerCall, OperatorCall, BeginWorker, BeginOperator,
           FinishHeartbeat, FinishDispatch, FinishComplete, FinishFail, FinishUnknown, Pending

(* A call that a disciplined caller has begun stays fresh: nobody changes  *)
(* the row between its read and its update.                                *)
LEMMA DisciplineFresh ==
    ASSUME RaceTypeOK, Kernel, CallsFresh, [RaceNext]_rvars, disciplined'
    PROVE  CallsFresh'
  <1>t. /\ TypeOK /\ now \in Nat
        /\ store \in [Executions -> Row]
        /\ lease \in [Workers -> [Executions -> Grant]]
        /\ pending \in [Executions -> SUBSET Nat]
        /\ call \in [Callers -> Call \cup {Idle}]
        /\ Workers \subseteq Callers /\ Operators \subseteq Callers
    BY DEF RaceTypeOK, TypeOK, Callers
  <1>c. ASSUME NEW q \in Callers, call[q] # Idle
        PROVE  call[q].x \in Executions /\ store[call[q].x] \in Row /\ CallFresh(q)
    BY <1>c, CallTypes DEF CallsFresh
  <1>s. ASSUME NEW q \in Callers, call[q] # Idle, call' = call, now' = now, pending' = pending,
               q \in Workers => lease'[q] = lease[q], store'[call[q].x] = store[call[q].x]
        PROVE  CallFresh(q)'
    BY <1>c, <1>s, SparedStaysFresh DEF Spares
  <1>u. ASSUME call' = call, now' = now, pending' = pending, lease' = lease, store' = store
        PROVE  CallsFresh'
    BY <1>s, <1>u DEF CallsFresh
  (* A worker returns from its fresh call.                                 *)
  <1>w. ASSUME NEW w \in Workers, call[w] # Idle, call[w].op \in TokenOps,
               NEW r, Write(call[w].x, r),
               NEW g, lease' = lease \/ lease' = Granted(w, call[w].x, g),
               NEW s, pending' = pending \/ pending' = [pending EXCEPT ![call[w].x] = s],
               Returns(w), now' = now
        PROVE  CallsFresh'
    <2>1. call[w].x \in Executions /\ WorkerFresh(w)
      BY <1>c, <1>t, <1>w DEF CallFresh, CancelFresh, ReconcileFresh, TokenOps
    <2>2. \A q \in Callers : (q # w /\ call[q] # Idle) => call[q].x # call[w].x
      BY <1>w, <2>1, FreshAlone
    <2>3. \A v \in Workers : v # w => lease'[v] = lease[v]
      BY <1>t, <1>w DEF Granted
    <2>4. \A y \in Executions : y # call[w].x => pending'[y] = pending[y]
      BY <1>t, <1>w
    <2>. QED
      BY <1>t, <1>w, <2>1, <2>2, <2>3, <2>4, ReturnKeepsFresh
  (* A caller begins a call with the row that is there.                    *)
  <1>b. ASSUME NEW p \in Callers, NEW op \in TokenOps \cup OperatorOps, NEW x \in Executions,
               NEW tok, Begun(p, op, x, tok),
               op \in TokenOps => p \in Workers /\ lease[p][x].until > now /\ tok = Token(p, x),
               op \in OperatorOps => p \in Operators,
               op = "reconcile_unknown" => Unattended(x)
        PROVE  CallsFresh'
    <2>1. /\ UNCHANGED vars /\ call[p] = Idle
          /\ \A q \in Callers : q # p => call'[q] = call[q]
      BY <1>b, <1>t DEF Begun
    <2>2. /\ call'[p].op = op /\ call'[p].x = x /\ call'[p].tok = tok
          /\ op \in UsesRow => call'[p].read = store[x]
          /\ op \in UsesClock => call'[p].at = now
          /\ op = "reconcile_unknown" => call'[p].seen = pending[x]
          /\ Checked(op, x, store[x], tok)
      BY <1>b, <1>t DEF Begun
    <2>3. op = "reconcile_unknown" =>
              \A q \in Callers : (q # p /\ call[q] # Idle /\ call[q].x = x) =>
                  call[q].op # "reconcile_unknown"
      BY <1>b, <1>c
         DEF Unattended, CallFresh, WorkerFresh, CancelFresh, ReconcileFresh, TokenOps
    <2>4. ASSUME NEW q \in Callers, q # p, call'[q] # Idle PROVE CallFresh(q)'
      <3>1. call'[q] = call[q] /\ call[q] # Idle
        BY <2>1, <2>4
      <3>2. call[q].op = "reconcile_unknown" => q \in Operators
        BY <1>c, <3>1 DEF CallFresh, WorkerFresh, CancelFresh, ReconcileFresh, TokenOps
      <3>3. \A c \in Callers : c # p => call'[c] = call[c]
        BY <2>1
      <3>4. call[q].op = "reconcile_unknown" =>
                call'[p].x # call[q].x \/ call'[p].op # "reconcile_unknown"
        BY <1>b, <2>2, <3>1, <3>2 DEF Unattended
      <3>5. Spares(q)
        BY <2>1, <3>1, <3>3, <3>4 DEF Spares, vars
      <3>. QED
        BY <1>c, <3>1, <3>5, SparedStaysFresh
    <2>5. CallFresh(p)'
      <3>1. op \in UsesClock => call'[p].at = now'
        BY <2>1, <2>2 DEF vars
      <3>2. CASE op \in TokenOps
        <4>1. Checked(op, x, store[x], tok)' = Checked(op, x, store[x], tok)
          BY <2>1 DEF Checked, vars, PastDeadline
        <4>2. WorkerFresh(p)'
          BY <1>b, <2>1, <2>2, <3>2, <4>1 DEF WorkerFresh, Token, vars
        <4>. QED
          BY <2>2, <3>1, <4>2 DEF CallFresh
      <3>3. CASE op = "cancel"
        <4>1. CancelFresh(p)'
          BY <1>b, <2>1, <2>2, <3>3 DEF CancelFresh, Checked, OperatorOps, vars
        <4>. QED
          BY <2>2, <3>1, <4>1 DEF CallFresh
      <3>4. CASE op = "reconcile_unknown"
        <4>1. ReconcileChecked(store[x]) /\ p \in Operators
          BY <1>b, <2>2, <3>4 DEF Checked, OperatorOps
        <4>2. ReconcileFresh(p)'
          BY <2>1, <2>2, <2>3, <3>4, <4>1 DEF ReconcileFresh, UsesRow, vars
        <4>. QED
          BY <2>2, <3>1, <4>2 DEF CallFresh
      <3>. QED
        BY <3>2, <3>3, <3>4 DEF OperatorOps
    <2>. QED
      BY <2>4, <2>5 DEF CallsFresh
  <1>1. ASSUME StoreTransaction PROVE CallsFresh'
    <2>1. CASE RecoverExpiredLeases
      <3>1. ASSUME NEW q \in Callers, call[q] # Idle
            PROVE  ~Recoverable(store[call[q].x])
        <4>1. CASE WorkerFresh(q)
          <5>1. store[call[q].x] \in Row /\ store[call[q].x].expires > now
            BY <3>1, <4>1, FreshHolder DEF WorkerFresh
          <5>. QED
            BY <1>t, <5>1 DEF Recoverable, LeaseExpired, Row
        <4>2. CASE ~WorkerFresh(q)
          BY <1>c, <3>1, <4>2, FreshStates DEF CallFresh, Recoverable
        <4>. QED
          BY <4>1, <4>2
      <3>2. ASSUME NEW q \in Callers, call[q] # Idle
            PROVE  store'[call[q].x] = store[call[q].x]
        BY <1>c, <2>1, <3>1, <3>2 DEF RecoverExpiredLeases
      <3>. QED
        BY <1>1, <1>s, <2>1, <3>2 DEF StoreTransaction, RecoverExpiredLeases, CallsFresh
    <2>2. ASSUME NEW x \in Executions, Prepare(x) PROVE CallsFresh'
      <3>1. store[x].state = "ABSENT" /\ \A y \in Executions : y # x => store'[y] = store[y]
        BY <1>t, <2>2 DEF Prepare, PrepareAllowed, Exists, Write
      <3>2. ASSUME NEW q \in Callers, call[q] # Idle PROVE call[q].x # x
        BY <1>c, <3>1, <3>2, FreshStates DEF CallFresh
      <3>. QED
        BY <1>1, <1>c, <1>s, <2>2, <3>1, <3>2 DEF StoreTransaction, Prepare, CallsFresh
    <2>. QED
      BY <1>1, <2>1, <2>2 DEF StoreTransaction
  <1>2. ASSUME NEW x \in Executions, AcquireTooLate(x) PROVE CallsFresh'
    <2>1. /\ Unattended(x) /\ call' = call /\ LeasableState(store[x]) /\ PastDeadline(now)
          /\ now' = now /\ pending' = pending /\ lease' = lease
          /\ store'[x] = DeadLettered(store[x])
          /\ \A y \in Executions : y # x => store'[y] = store[y]
      BY <1>2, <1>t DEF AcquireTooLate, AcquirePastDeadline, Write
    <2>2. ASSUME NEW q \in Callers, call[q] # Idle, call[q].x = x PROVE CallFresh(q)'
      <3>1. WorkerFresh(q)
        BY <1>c, <2>1, <2>2 DEF Unattended, CallFresh, CancelFresh, ReconcileFresh
      <3>2. HoldsLease(store[x], call[q].tok) /\ store[x] \in Row /\ RowOK(store[x])
        BY <1>c, <2>2, <3>1, FreshHolder DEF WorkerFresh, Kernel, RowsOK
      <3>3. store[x].state = "LEASED"
        BY <2>1, <2>2, <3>1, FreshStates DEF LeasableState
      <3>4. /\ call[q].op # "mark_outcome_unknown"
            /\ call[q].op = "complete" => Mode[x] = "LOCAL_SAFE"
        BY <2>2, <3>1, <3>3
           DEF WorkerFresh, TooLate, Checked, UnknownChecked, CompleteChecked
      <3>5. /\ store'[x].state = "DLQ" /\ store'[x].token = store[x].token
            /\ ~store'[x].dispatched /\ store'[x].sameErrors < PoisonThreshold
        BY <2>1, <3>2, <3>3 DEF DeadLettered, RowOK, Handed, Row
      <3>6. TooLate(call[q])'
        BY <2>1, <2>2, <3>2, <3>4, <3>5 DEF TooLate, HoldsLease, PastDeadline
      <3>7. WorkerFresh(q)'
        BY <2>1, <3>1, <3>6 DEF WorkerFresh, Token
      <3>. QED
        BY <1>c, <2>1, <2>2, <3>7 DEF CallFresh
    <2>3. ASSUME NEW q \in Callers, call[q] # Idle, call[q].x # x PROVE CallFresh(q)'
      BY <1>c, <1>s, <2>1, <2>3
    <2>. QED
      BY <2>1, <2>2, <2>3 DEF CallsFresh
  <1>3. ASSUME NEW w \in Workers, NEW x \in Executions, Acquire(w, x) PROVE CallsFresh'
    <2>1. /\ Unattended(x) /\ call' = call /\ call[w] = Idle /\ LeaseAllowed(store[x])
          /\ now' = now /\ pending' = pending
          /\ \A y \in Executions : y # x => store'[y] = store[y]
          /\ \A v \in Workers : v # w => lease'[v] = lease[v]
      BY <1>3, <1>t DEF Acquire, AcquireLease, Granted, Write
    <2>2. ASSUME NEW q \in Callers, call[q] # Idle PROVE call[q].x # x
      <3>. SUFFICES ASSUME call[q].x = x PROVE FALSE
        OBVIOUS
      <3>1. WorkerFresh(q)
        BY <1>c, <2>1, <2>2 DEF Unattended, CallFresh, CancelFresh, ReconcileFresh
      <3>2. store[x].expires > now /\ store[x] \in Row
        BY <2>2, <3>1, FreshHolder DEF WorkerFresh
      <3>3. store[x].state = "LEASED"
        BY <2>1, <2>2, <3>1, FreshStates DEF LeaseAllowed, LeasableState
      <3>. QED
        BY <1>t, <2>1, <3>2, <3>3 DEF LeaseAllowed, Row
    <2>3. ASSUME NEW q \in Callers, call[q] # Idle PROVE CallFresh(q)'
      BY <1>c, <1>s, <2>1, <2>2, <2>3
    <2>. QED
      BY <2>1, <2>3 DEF CallsFresh
  <1>4. ASSUME NEW w \in Workers, NEW op \in TokenOps, NEW x \in Executions,
               BeginWorker(w, op, x)
        PROVE  CallsFresh'
    <2>1. lease[w][x].until > now
      BY <1>4, <1>t DEF BeginWorker, Grant
    <2>. QED
      BY <1>4, <1>b, <1>t, <2>1 DEF BeginWorker, TokenOps, OperatorOps
  <1>5. ASSUME NEW w \in Workers, FinishHeartbeat(w) PROVE CallsFresh'
    BY <1>5, <1>w DEF FinishHeartbeat, Pending, TokenOps
  <1>6. ASSUME NEW w \in Workers, FinishDispatch(w) PROVE CallsFresh'
    <2>1. \/ pending' = pending
          \/ pending' = [pending EXCEPT ![call[w].x] = pending[call[w].x] \cup {call[w].tok}]
      BY <1>6 DEF FinishDispatch
    <2>2. lease' = lease \/ lease' = Granted(w, call[w].x, NoGrant)
      BY <1>6 DEF FinishDispatch
    <2>. QED
      BY <1>6, <1>w, <2>1, <2>2 DEF FinishDispatch, Pending, TokenOps
  <1>7. ASSUME NEW w \in Workers, NEW digest \in Results, FinishComplete(w, digest)
        PROVE  CallsFresh'
    BY <1>7, <1>w DEF FinishComplete, Pending, TokenOps
  <1>8. ASSUME NEW w \in Workers, NEW error \in Errors, NEW retryable \in BOOLEAN,
               FinishFail(w, error, retryable)
        PROVE  CallsFresh'
    BY <1>8, <1>w DEF FinishFail, Pending, TokenOps
  <1>9. ASSUME NEW w \in Workers, NEW error \in Errors, FinishUnknown(w, error)
        PROVE  CallsFresh'
    BY <1>9, <1>w DEF FinishUnknown, Pending, TokenOps
  <1>10. ASSUME NEW p \in Operators, NEW op \in OperatorOps, NEW x \in Executions,
                BeginOperator(p, op, x)
         PROVE  CallsFresh'
    BY <1>10, <1>b, <1>t DEF BeginOperator, TokenOps, OperatorOps
  <1>11. ASSUME NEW p \in Operators, FinishCancel(p) PROVE CallsFresh'
    <2>. DEFINE x == call[p].x
    <2>1. call[p] # Idle /\ call[p].op = "cancel" /\ x \in Executions /\ p \in Callers
      BY <1>11, <1>c, <1>t DEF FinishCancel, Pending
    <2>2. /\ store'[x] = CancelWrite(store[x])
          /\ \A y \in Executions : y # x => store'[y] = store[y]
          /\ now' = now /\ lease' = lease /\ pending' = pending
          /\ \A q \in Callers : call'[q] = IF q = p THEN Idle ELSE call[q]
      BY <1>11, <1>t, <2>1 DEF FinishCancel, Write, Returns
    <2>3. ASSUME NEW q \in Callers, call'[q] # Idle, call[q].x = x PROVE CallFresh(q)'
      <3>1. CancelFresh(p) /\ CancelFresh(q)
        <4>1. CancelFresh(p)
          BY <1>c, <2>1 DEF CallFresh, WorkerFresh, ReconcileFresh, TokenOps
        <4>2. call[q] # Idle
          BY <2>2, <2>3
        <4>. QED
          BY <1>c, <2>1, <2>3, <4>1, <4>2, FreshStates DEF CallFresh
      <3>2. CancelFresh(q)'
        BY <1>c, <2>1, <2>2, <2>3, <3>1, CancelTwice DEF CancelFresh
      <3>. QED
        BY <2>2, <2>3, <3>1, <3>2 DEF CallFresh, CancelFresh, UsesClock
    <2>4. ASSUME NEW q \in Callers, call'[q] # Idle, call[q].x # x PROVE CallFresh(q)'
      <3>1. call[q] # Idle /\ call'[q] = call[q]
        BY <2>2, <2>4
      <3>2. Spares(q)
        BY <1>c, <2>2, <2>4, <3>1 DEF Spares
      <3>. QED
        BY <1>c, <3>1, <3>2, SparedStaysFresh
    <2>. QED
      BY <2>3, <2>4 DEF CallsFresh
  <1>12. ASSUME NEW p \in Operators, NEW outcome \in Outcomes, NEW evidence \in Results,
                FinishReconcile(p, outcome, evidence)
         PROVE  CallsFresh'
    <2>. DEFINE x == call[p].x
    <2>1. /\ call[p] # Idle /\ call[p].op = "reconcile_unknown"
          /\ x \in Executions /\ p \in Callers
      BY <1>12, <1>c, <1>t DEF FinishReconcile, Pending
    <2>2. ReconcileFresh(p)
      BY <1>c, <2>1 DEF CallFresh, WorkerFresh, CancelFresh, TokenOps
    <2>3. ASSUME NEW q \in Callers, q # p, call[q] # Idle PROVE call[q].x # x
      <3>. SUFFICES ASSUME call[q].x = x PROVE FALSE
        OBVIOUS
      <3>1. ReconcileFresh(q)
        BY <1>c, <2>1, <2>2, <2>3, FreshStates DEF CallFresh
      <3>. QED
        BY <2>2, <2>3, <3>1 DEF ReconcileFresh
    <2>4. \A y \in Executions : y # x => pending'[y] = pending[y]
      BY <1>12, <1>t DEF FinishReconcile
    <2>. QED
      BY <1>12, <2>1, <2>3, <2>4, ReturnKeepsFresh DEF FinishReconcile
  <1>13. ASSUME NEW p \in Callers, CrashCaller(p) PROVE CallsFresh'
    <2>1. /\ store' = store /\ now' = now /\ pending' = pending
          /\ \A w \in Workers : w # p => lease'[w] = lease[w]
          /\ \A q \in Callers : call'[q] = IF q = p THEN Idle ELSE call[q]
      BY <1>13, <1>t DEF CrashCaller, Returns
    <2>2. ASSUME NEW q \in Callers, call'[q] # Idle PROVE CallFresh(q)'
      <3>1. q # p /\ call[q] # Idle
        BY <2>1, <2>2
      <3>2. Spares(q)
        BY <2>1, <3>1 DEF Spares
      <3>. QED
        BY <1>c, <3>1, <3>2, SparedStaysFresh
    <2>. QED
      BY <2>2 DEF CallsFresh
  <1>14. ASSUME TickWhileCalled PROVE CallsFresh'
    <2>1. call' = call /\ \A q \in Callers : call[q] = Idle
      BY <1>14 DEF TickWhileCalled
    <2>. QED
      BY <2>1 DEF CallsFresh
  <1>15. ASSUME UNCHANGED rvars PROVE CallsFresh'
    BY <1>15, <1>u DEF rvars
  <1>. QED
    BY <1>1, <1>2, <1>3, <1>4, <1>5, <1>6, <1>7, <1>8, <1>9, <1>10, <1>11, <1>12,
       <1>13, <1>14, <1>15 DEF RaceNext, WorkerCall, OperatorCall

LEMMA DisciplineInit == RaceInit => DisciplineInv
  <1>1. RaceInit => Kernel
    BY RowsInit, EffectInit, GrantsInit DEF RaceInit, Kernel
  <1>2. RaceInit => CallsFresh
    BY DEF RaceInit, CallsFresh
  <1>. QED
    BY <1>1, <1>2 DEF DisciplineInv

LEMMA DisciplineStep == RaceTypeOK /\ DisciplineInv /\ [RaceNext]_rvars => DisciplineInv'
  <1>. SUFFICES ASSUME RaceTypeOK, DisciplineInv, [RaceNext]_rvars, disciplined'
                PROVE  Kernel' /\ CallsFresh'
    BY DEF DisciplineInv
  <1>1. disciplined
    BY DEF RaceNext, WorkerCall, OperatorCall, StoreTransaction, AcquireTooLate, Acquire,
           BeginWorker, BeginOperator, FinishHeartbeat, FinishDispatch, FinishComplete,
           FinishFail, FinishUnknown, FinishCancel, FinishReconcile, CrashCaller,
           TickWhileCalled, rvars
  <1>. QED
    BY <1>1, DisciplineSimulates, SimulatedKeepsKernel, DisciplineFresh
       DEF DisciplineInv, RaceTypeOK

(* As long as callers keep the discipline the invariants of the serial     *)
(* kernel hold, and every call in flight would still pass its test.        *)
LEMMA DisciplineIsKept == RaceSpec => []DisciplineInv
  <1>. QED
    BY RaceTypeInit, RaceTypeStep, DisciplineInit, DisciplineStep, PTL DEF RaceSpec

(* While callers keep the discipline no effect is handed over twice,       *)
(* although every method of the store is two transactions.                 *)
THEOREM DisciplinedHandOverOnce == RaceSpec => []DisciplineHandsOverOnce
  <1>1. DisciplineInv => DisciplineHandsOverOnce
    BY EffectsAreSingle DEF DisciplineInv, Kernel, DisciplineHandsOverOnce
  <1>. QED
    BY <1>1, DisciplineIsKept, PTL

(* Nor does a stale cancel, failure or reconciliation hide an effect that  *)
(* may have happened behind a row that can be retried or was written off.  *)
THEOREM DisciplinedEffectsShow == RaceSpec => []DisciplineShowsEffects
  <1>1. DisciplineInv => DisciplineShowsEffects
    BY DEF DisciplineInv, Kernel, EffectInv, DisciplineShowsEffects
  <1>. QED
    BY <1>1, DisciplineIsKept, PTL

(* Nor do two workers hold unexpired leases of one execution.              *)
THEOREM DisciplinedLeasesExclude == RaceSpec => []DisciplineKeepsLeases
  <1>1. RaceTypeOK /\ DisciplineInv => DisciplineKeepsLeases
    BY GrantsExclude DEF RaceTypeOK, DisciplineInv, Kernel, DisciplineKeepsLeases
  <1>. QED
    BY <1>1, RaceTypeInit, RaceTypeStep, DisciplineIsKept, PTL DEF RaceSpec

-----------------------------------------------------------------------------
(* The life of an external effect under the discipline.  A local execution *)
(* may be completed after its dead letter (LateEnd), an external one never.*)
DisciplineKeepsPromise ==
    /\ Effect!Init
    /\ [][disciplined => \A x \in Executions :
              Mode[x] = "EXTERNAL_EFFECT" => Effect!Step(x)]_rvars

(* A late call of another execution leaves an external one where it is, and *)
(* one of its own leaves it dead-lettered.                                 *)
LEMMA LateEndStays ==
    ASSUME TypeOK, NEW w \in Workers, NEW y \in Executions, NEW r \in Row, LateEnd(w, y, r),
           NEW x \in Executions, Mode[x] = "EXTERNAL_EFFECT"
    PROVE  Effect!Stays(x)
  <1>1. pending' = pending /\ store'[x].state = store[x].state
    BY DEF LateEnd, Write, TypeOK
  <1>. QED
    BY <1>1 DEF Effect!Stays, Effect!Keeps

(* While callers keep the discipline every step of the interleaved kernel  *)
(* is, for each external effect, a step of EffectOnce: it is handed over   *)
(* once, answered or lost, and settled once, although each call is cut in  *)
(* two and others run between its halves.                                  *)
THEOREM DisciplineImplementsEffectOnce == RaceSpec => DisciplineKeepsPromise
  <1>1. RaceInit => Effect!Init
    BY InitRefines DEF RaceInit
  <1>2. ASSUME RaceTypeOK, RaceTypeOK', DisciplineInv, [RaceNext]_rvars, disciplined,
               NEW x \in Executions, Mode[x] = "EXTERNAL_EFFECT"
        PROVE  Effect!Step(x)
    <2>t. TypeOK /\ TypeOK' /\ Kernel
      BY <1>2 DEF RaceTypeOK, DisciplineInv
    <2>1. Simulated
      BY <1>2, DisciplineSimulates DEF DisciplineInv
    <2>2. CASE [Next]_vars
      <3>1. Effect!Next \/ UNCHANGED Effect!vars
        BY <2>t, <2>2, StepRefines DEF Kernel
      <3>2. CASE Effect!Next
        BY <1>2, <3>2 DEF Effect!Next
      <3>3. CASE UNCHANGED Effect!vars
        <4>1. Effect!Stays(x)
          BY <1>2, <3>3 DEF Effect!vars, Effect!Stays, Effect!Keeps
        <4>. QED
          BY <4>1 DEF Effect!Step
      <3>. QED
        BY <3>1, <3>2, <3>3
    <2>3. ASSUME NEW w \in Workers, NEW y \in Executions, NEW r \in Row, LateEnd(w, y, r)
          PROVE  Effect!Step(x)
      BY <1>2, <2>t, <2>3, LateEndStays DEF Effect!Step
    <2>. QED
      BY <2>1, <2>2, <2>3 DEF Simulated
  <1>3. RaceTypeOK /\ RaceTypeOK' /\ DisciplineInv /\ [RaceNext]_rvars =>
            (disciplined => \A x \in Executions :
                 Mode[x] = "EXTERNAL_EFFECT" => Effect!Step(x))
    BY <1>2
  <1>. QED
    BY <1>1, <1>3, RaceTypeInit, RaceTypeStep, DisciplineIsKept, PTL
       DEF RaceSpec, DisciplineKeepsPromise
=============================================================================
