------------------------ MODULE DurableExecutionRace ------------------------
(***************************************************************************)
(* The durable execution kernel as concurrent callers see it.  prepare,    *)
(* acquire_lease and recover_expired_leases are single transactions; every *)
(* other method reads the row with get(), decides, and updates it later on *)
(* another connection, with other callers and the clock in between.  A     *)
(* call is cut in two here: Begin reads and tests, Finish writes.          *)
(***************************************************************************)
EXTENDS DurableExecution

CONSTANTS
    Operators,      \* callers of cancel and reconcile_unknown
    Idle            \* a caller between two calls

VARIABLES
    call,           \* call[p]: the call p has begun, with the row it read
    disciplined     \* history: no caller has left the discipline described
                    \* at BeginWorker, BeginOperator, TickWhileCalled and Unattended

rvars == <<store, now, lease, pending, call, disciplined>>

TokenOps == {"heartbeat", "record_dispatch_started", "complete",
             "fail_before_dispatch", "mark_outcome_unknown"}

OperatorOps == {"cancel", "reconcile_unknown"}

Callers == Workers \cup Operators

Call == [op: TokenOps \cup OperatorOps, x: Executions, read: Row, at: Nat,
         tok: Nat, seen: SUBSET Nat]

RaceTypeOK ==
    /\ TypeOK
    /\ call \in [Callers -> Call \cup {Idle}]
    /\ disciplined \in BOOLEAN

RaceInit ==
    /\ Init
    /\ call = [p \in Callers |-> Idle]
    /\ disciplined = TRUE

-----------------------------------------------------------------------------
(* The tests each method makes on the row it read.                         *)
Checked(op, x, r, tok) ==
    \/ /\ op = "heartbeat"
       /\ HeartbeatChecked(r, tok)
       /\ PastDeadline(now) \/ now < r.expires
    \/ op = "record_dispatch_started" /\ DispatchChecked(x, r, tok)
    \/ op = "complete" /\ CompleteChecked(x, r, tok)
    \/ op = "fail_before_dispatch" /\ FailChecked(r, tok)
    \/ op = "mark_outcome_unknown" /\ UnknownChecked(r, tok)
    \/ op = "cancel" /\ CancelChecked(r)
    \/ op = "reconcile_unknown" /\ ReconcileChecked(r)

(* What a method still uses of what it read once its tests are over.       *)
UsesRow == {"fail_before_dispatch", "reconcile_unknown"}

UsesClock == {"heartbeat", "record_dispatch_started",
              "fail_before_dispatch", "reconcile_unknown"}

Begun(p, op, x, tok) ==
    /\ call[p] = Idle
    /\ Checked(op, x, store[x], tok)
    /\ call' = [call EXCEPT ![p] =
           [op |-> op, x |-> x, tok |-> tok,
            read |-> IF op \in UsesRow THEN store[x] ELSE AbsentRow,
            at |-> IF op \in UsesClock THEN now ELSE 0,
            seen |-> IF op = "reconcile_unknown" THEN pending[x] ELSE {}]]
    /\ UNCHANGED vars

(* A disciplined worker uses a lease only while it is unexpired and leases *)
(* nothing an operator is working on, and a disciplined operator           *)
(* reconciles alone.  The store enforces none of this: leaving the         *)
(* discipline is recorded, never prevented.                                *)
Unattended(x) == \A p \in Operators : call[p] # Idle => call[p].x # x

BeginWorker(w, op, x) ==
    /\ Begun(w, op, x, Token(w, x))
    /\ disciplined' = (disciplined /\ now < lease[w][x].until)

BeginOperator(p, op, x) ==
    /\ Begun(p, op, x, 0)
    /\ disciplined' = (disciplined /\ (op = "reconcile_unknown" => Unattended(x)))

-----------------------------------------------------------------------------
Returns(p) == call' = [call EXCEPT ![p] = Idle]

Pending(p, op) == call[p] # Idle /\ call[p].op = op

(* heartbeat and record_dispatch_started update WHERE lease_token = ?, do  *)
(* not look at the row count, and return the row: the caller sees there    *)
(* whether the token is still its own.                                     *)
FinishHeartbeat(w) ==
    /\ Pending(w, "heartbeat")
    /\ LET c == call[w]
           kept == ~PastDeadline(c.at) /\ store[c.x].token = c.tok
       IN  /\ Write(c.x, HeartbeatWrite(store[c.x], c.read, c.tok, c.at))
           /\ lease' = Granted(w, c.x, IF kept THEN [token |-> c.tok, until |-> c.at + LeaseSeconds]
                                       ELSE NoGrant)
    /\ Returns(w)
    /\ UNCHANGED <<now, pending, disciplined>>

FinishDispatch(w) ==
    /\ Pending(w, "record_dispatch_started")
    /\ LET c == call[w]
           recorded == DispatchRecorded(store[c.x], c.tok, c.at)
       IN  /\ Write(c.x, DispatchWrite(store[c.x], c.tok, c.at))
           /\ pending' = IF recorded THEN [pending EXCEPT ![c.x] = @ \cup {c.tok}] ELSE pending
           /\ lease' = IF recorded THEN lease ELSE Granted(w, c.x, NoGrant)
    /\ Returns(w)
    /\ UNCHANGED <<now, disciplined>>

(* The other updates name the execution only.                              *)
FinishComplete(w, digest) ==
    /\ Pending(w, "complete")
    /\ LET c == call[w]
       IN  /\ Write(c.x, CompleteWrite(store[c.x], digest))
           /\ lease' = Granted(w, c.x, NoGrant)
    /\ Returns(w)
    /\ UNCHANGED <<now, pending, disciplined>>

FinishFail(w, error, retryable) ==
    /\ Pending(w, "fail_before_dispatch")
    /\ LET c == call[w]
       IN  /\ Write(c.x, FailWrite(store[c.x], c.read, error, retryable, c.at))
           /\ lease' = Granted(w, c.x, NoGrant)
    /\ Returns(w)
    /\ UNCHANGED <<now, pending, disciplined>>

FinishUnknown(w, error) ==
    /\ Pending(w, "mark_outcome_unknown")
    /\ LET c == call[w]
       IN  /\ Write(c.x, UnknownWrite(store[c.x], error))
           /\ lease' = Granted(w, c.x, NoGrant)
    /\ Returns(w)
    /\ UNCHANGED <<now, pending, disciplined>>

FinishCancel(p) ==
    /\ Pending(p, "cancel")
    /\ Write(call[p].x, CancelWrite(store[call[p].x]))
    /\ Returns(p)
    /\ UNCHANGED <<now, lease, pending, disciplined>>

(* The evidence speaks of the effects handed over when the row was read.   *)
FinishReconcile(p, outcome, evidence) ==
    /\ Pending(p, "reconcile_unknown")
    /\ LET c == call[p]
       IN  /\ Write(c.x, ReconcileWrite(store[c.x], c.read, outcome, evidence, c.at))
           /\ pending' = IF outcome = "CONFIRMED_NO_EFFECT"
                         THEN [pending EXCEPT ![c.x] = @ \ c.seen]
                         ELSE pending
    /\ Returns(p)
    /\ UNCHANGED <<now, lease, disciplined>>

(* The whole process dies, between two calls or in the middle of one.      *)
CrashCaller(p) ==
    /\ call[p] # Idle \/ (p \in Workers /\ \E x \in Executions : lease[p][x] # NoGrant)
    /\ Returns(p)
    /\ lease' = IF p \in Workers THEN [lease EXCEPT ![p] = [x \in Executions |-> NoGrant]]
                ELSE lease
    /\ UNCHANGED <<store, now, pending, disciplined>>

(* A disciplined call is over before the clock of the leases moves on.     *)
TickWhileCalled ==
    /\ Tick
    /\ disciplined' = (disciplined /\ \A p \in Callers : call[p] = Idle)
    /\ UNCHANGED call

Acquire(w, x) ==
    /\ call[w] = Idle
    /\ AcquireLease(w, x)
    /\ disciplined' = (disciplined /\ Unattended(x))
    /\ UNCHANGED call

AcquireTooLate(x) ==
    /\ AcquirePastDeadline(x)
    /\ disciplined' = (disciplined /\ Unattended(x))
    /\ UNCHANGED call

StoreTransaction ==
    /\ RecoverExpiredLeases \/ \E x \in Executions : Prepare(x)
    /\ UNCHANGED <<call, disciplined>>

WorkerCall(w) ==
    \/ \E x \in Executions : Acquire(w, x)
    \/ \E op \in TokenOps, x \in Executions : BeginWorker(w, op, x)
    \/ FinishHeartbeat(w)
    \/ FinishDispatch(w)
    \/ \E digest \in Results : FinishComplete(w, digest)
    \/ \E error \in Errors, retryable \in BOOLEAN : FinishFail(w, error, retryable)
    \/ \E error \in Errors : FinishUnknown(w, error)

OperatorCall(p) ==
    \/ \E op \in OperatorOps, x \in Executions : BeginOperator(p, op, x)
    \/ FinishCancel(p)
    \/ \E outcome \in Outcomes, evidence \in Results : FinishReconcile(p, outcome, evidence)

RaceNext ==
    \/ StoreTransaction
    \/ \E x \in Executions : AcquireTooLate(x)
    \/ \E w \in Workers : WorkerCall(w)
    \/ \E p \in Operators : OperatorCall(p)
    \/ \E p \in Callers : CrashCaller(p)
    \/ TickWhileCalled

RaceSpec == RaceInit /\ [][RaceNext]_rvars

-----------------------------------------------------------------------------
(* Whatever calls interleave, only the holder of the newest lease can      *)
(* record a dispatch and hand an effect over: a worker that was overtaken  *)
(* while its call was in flight is fenced off by its token.                *)
DispatchIsFenced ==
    [][\A x \in Executions : pending'[x] \ pending[x] \subseteq {store[x].attempt}]_rvars

(* A worker that believes it holds the token of the row also knows when    *)
(* that lease ends: an overtaken heartbeat never lengthens a lease that    *)
(* its caller does not know of.                                            *)
LeaseEndIsKnown ==
    \A w \in Workers, x \in Executions :
        (store[x].state = "LEASED" /\ HoldsLease(store[x], Token(w, x))) =>
            lease[w][x].until = store[x].expires

(* While callers use a lease only before it ends, finish a call before the *)
(* clock of the leases moves on, reconcile one at a time and lease nothing *)
(* an operator is working on, no effect is handed over twice, although     *)
(* every call is two transactions.                                         *)
DisciplineHandsOverOnce == disciplined => NoSecondHandOver

(* Nor does an effect that may have happened ever hide behind a row that   *)
(* was canceled or offered for retry by a call which had read it before.   *)
DisciplineShowsEffects == disciplined => PendingEffectVisible

(* Under the same discipline no two workers hold unexpired leases of one   *)
(* execution: a call that writes over a row it did not read never frees a  *)
(* lease that somebody else holds.                                         *)
DisciplineKeepsLeases == disciplined => ExclusiveLease
=============================================================================
