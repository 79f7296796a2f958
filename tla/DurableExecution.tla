-------------------------- MODULE DurableExecution --------------------------
(***************************************************************************)
(* The durable execution kernel with its calls served one at a time: every *)
(* method of DurableExecutionStore reads the row, decides and writes in a  *)
(* single step.  Workers are processes that lease an execution, do local   *)
(* work or hand an external effect over, and may crash at any point.       *)
(***************************************************************************)
EXTENDS ExecutionStore

CONSTANT Workers

VARIABLES
    lease,      \* lease[w][x]: the token w was given and until when w may use it
    pending     \* pending[x]: tokens whose effect was handed over and that no
                \* reconciliation has since proved to be without effect

vars == <<store, now, lease, pending>>

NoGrant == [token |-> 0, until |-> 0]

Grant == [token: Nat, until: Nat]

TypeOK ==
    /\ store \in [Executions -> Row]
    /\ now \in Nat
    /\ lease \in [Workers -> [Executions -> Grant]]
    /\ pending \in [Executions -> SUBSET Nat]

Init ==
    /\ store = [x \in Executions |-> AbsentRow]
    /\ now = 1
    /\ lease = [w \in Workers |-> [x \in Executions |-> NoGrant]]
    /\ pending = [x \in Executions |-> {}]

Token(w, x) == lease[w][x].token

Granted(w, x, g) == [lease EXCEPT ![w][x] = g]

Write(x, r) == store' = [store EXCEPT ![x] = r]

-----------------------------------------------------------------------------
Prepare(x) ==
    /\ PrepareAllowed(x)
    /\ Write(x, PreparedRow)
    /\ UNCHANGED <<now, lease, pending>>

AcquireLease(w, x) ==
    /\ LeaseAllowed(store[x])
    /\ Write(x, LeasedRow(store[x]))
    /\ lease' = Granted(w, x, [token |-> store[x].attempt + 1,
                               until |-> now + LeaseSeconds])
    /\ UNCHANGED <<now, pending>>

AcquirePastDeadline(x) ==
    /\ LeasableState(store[x])
    /\ PastDeadline(now)
    /\ Write(x, DeadLettered(store[x]))
    /\ UNCHANGED <<now, lease, pending>>

Heartbeat(w, x) ==
    /\ HeartbeatChecked(store[x], Token(w, x))
    /\ PastDeadline(now) \/ now < store[x].expires
    /\ Write(x, HeartbeatWrite(store[x], store[x], Token(w, x), now))
    /\ lease' = Granted(w, x, IF PastDeadline(now) THEN NoGrant
                              ELSE [token |-> Token(w, x), until |-> now + LeaseSeconds])
    /\ UNCHANGED <<now, pending>>

RecordDispatchStarted(w, x) ==
    /\ DispatchChecked(x, store[x], Token(w, x))
    /\ Write(x, DispatchWrite(store[x], Token(w, x), now))
    /\ IF DispatchRecorded(store[x], Token(w, x), now)
       THEN /\ pending' = [pending EXCEPT ![x] = @ \cup {Token(w, x)}]
            /\ UNCHANGED lease
       ELSE /\ lease' = Granted(w, x, NoGrant)
            /\ UNCHANGED pending
    /\ UNCHANGED now

Complete(w, x, digest) ==
    /\ CompleteChecked(x, store[x], Token(w, x))
    /\ Write(x, CompleteWrite(store[x], digest))
    /\ lease' = Granted(w, x, NoGrant)
    /\ UNCHANGED <<now, pending>>

FailBeforeDispatch(w, x, error, retryable) ==
    /\ FailChecked(store[x], Token(w, x))
    /\ Write(x, FailWrite(store[x], store[x], error, retryable, now))
    /\ lease' = Granted(w, x, NoGrant)
    /\ UNCHANGED <<now, pending>>

MarkOutcomeUnknown(w, x, error) ==
    /\ UnknownChecked(store[x], Token(w, x))
    /\ Write(x, UnknownWrite(store[x], error))
    /\ lease' = Granted(w, x, NoGrant)
    /\ UNCHANGED <<now, pending>>

RecoverExpiredLeases ==
    /\ \E x \in Executions : Recoverable(store[x])
    /\ store' = [x \in Executions |->
                    IF Recoverable(store[x]) THEN RecoveredRow(store[x]) ELSE store[x]]
    /\ UNCHANGED <<now, lease, pending>>

Cancel(x) ==
    /\ CancelChecked(store[x])
    /\ Write(x, CancelWrite(store[x]))
    /\ UNCHANGED <<now, lease, pending>>

(* The authorised operator's evidence covers the effects handed over so    *)
(* far: CONFIRMED_NO_EFFECT says that none of them happened.               *)
ReconcileUnknown(x, outcome, evidence) ==
    /\ ReconcileChecked(store[x])
    /\ Write(x, ReconcileWrite(store[x], store[x], outcome, evidence, now))
    /\ pending' = IF outcome = "CONFIRMED_NO_EFFECT"
                  THEN [pending EXCEPT ![x] = {}]
                  ELSE pending
    /\ UNCHANGED <<now, lease>>

(* A worker process dies: the tokens it held are lost with its memory.     *)
Crash(w) ==
    /\ \E x \in Executions : lease[w][x] # NoGrant
    /\ lease' = [lease EXCEPT ![w] = [x \in Executions |-> NoGrant]]
    /\ UNCHANGED <<store, now, pending>>

Tick ==
    /\ now < MaxTime
    /\ now' = now + 1
    /\ UNCHANGED <<store, lease, pending>>

WorkerStep(w, x) ==
    \/ AcquireLease(w, x)
    \/ Heartbeat(w, x)
    \/ RecordDispatchStarted(w, x)
    \/ \E digest \in Results : Complete(w, x, digest)
    \/ \E error \in Errors, retryable \in BOOLEAN : FailBeforeDispatch(w, x, error, retryable)
    \/ \E error \in Errors : MarkOutcomeUnknown(w, x, error)

OperatorStep(x) ==
    \/ Prepare(x)
    \/ AcquirePastDeadline(x)
    \/ Cancel(x)
    \/ \E outcome \in Outcomes, evidence \in Results : ReconcileUnknown(x, outcome, evidence)

Next ==
    \/ \E w \in Workers, x \in Executions : WorkerStep(w, x)
    \/ \E x \in Executions : OperatorStep(x)
    \/ \E w \in Workers : Crash(w)
    \/ RecoverExpiredLeases
    \/ Tick

Spec == Init /\ [][Next]_vars

(* The kernel has no scheduler of its own: its caller keeps polling.  The  *)
(* fairness is that of a caller that goes on scanning for expired leases   *)
(* and offering due executions, and an operator who settles each unknown   *)
(* outcome.  Nothing is assumed of the workers, which may all crash.       *)
Fairness ==
    /\ WF_vars(Tick)
    /\ WF_vars(RecoverExpiredLeases)
    /\ \A x \in Executions : WF_vars(AcquirePastDeadline(x))
    /\ \A x \in Executions :
           WF_vars(\E o \in Outcomes, e \in Results : ReconcileUnknown(x, o, e))

FairSpec == Spec /\ Fairness

-----------------------------------------------------------------------------
(* Critical invariant of the kernel: once an effect has been handed over   *)
(* nobody may hand it over again, under this execution or another one that *)
(* claims the same effect, until a reconciliation proved that it did not   *)
(* happen.                                                                 *)
NoSecondHandOver ==
    \A x, y \in Executions : EffectKey[x] = EffectKey[y] =>
        \A s \in pending[x], t \in pending[y] : x = y /\ s = t

(* An effect that may have happened is never behind a row that can be      *)
(* retried, and never written off as canceled or dead-lettered.            *)
PendingEffectVisible ==
    \A x \in Executions : pending[x] # {} =>
        store[x].state \in {"DISPATCH_RECORDED", "OUTCOME_UNKNOWN", "COMPLETED"}

(* Two workers never hold unexpired leases of one execution: heartbeats,   *)
(* crashes, recoveries and re-leases included.                             *)
ExclusiveLease ==
    \A x \in Executions, v, w \in Workers :
        (v # w /\ lease[v][x].until > now) => lease[w][x].until <= now

(* A row offered for retry has attempts left, its errors are below the     *)
(* poison threshold and nobody holds it.                                   *)
RetryIsWithinLimits ==
    \A x \in Executions : store[x].state = "RETRY_WAIT" =>
        /\ store[x].attempt < MaxAttempts
        /\ store[x].sameErrors < PoisonThreshold
        /\ store[x].token = 0

(* The attempts made never exceed max_attempts (the retry limit the kernel *)
(* documents).                                                             *)
AttemptsWithinLimit ==
    \A x \in Executions : store[x].attempt <= MaxAttempts

(* COMPLETED, CANCELED and DLQ rows never change again.                    *)
TerminalIsFinal ==
    [][\A x \in Executions :
          store[x].state \in TERMINAL => store'[x] = store[x]]_vars

(* The kernel implements the life of an effect that EffectOnce describes.  *)
PhaseOf(state) ==
    CASE state = "ABSENT" -> "new"
      [] state \in {"PREPARED", "LEASED", "RETRY_WAIT"} -> "open"
      [] state = "DISPATCH_RECORDED" -> "handed"
      [] state = "OUTCOME_UNKNOWN" -> "unknown"
      [] state = "COMPLETED" -> "done"
      [] state \in {"CANCELED", "DLQ"} -> "abandoned"

Effect == INSTANCE EffectOnce WITH
    External <- {x \in Executions : Mode[x] = "EXTERNAL_EFFECT"},
    phase <- [x \in Executions |-> PhaseOf(store[x].state)],
    mayHaveHappened <- [x \in Executions |-> pending[x] # {}]

(* Every step of the kernel is a step of EffectOnce: an effect is handed   *)
(* over once, and an ambiguous one waits for its settlement.               *)
ImplementsEffectOnce == Effect!Spec

(* No execution is left hanging: each one settles, although workers crash  *)
(* and leases are lost, because leases expire and the deadline passes.     *)
EveryExecutionSettles ==
    \A x \in Executions : Exists(x) ~> store[x].state \in TERMINAL

=============================================================================
