--------------------------- MODULE ExecutionStore ---------------------------
(***************************************************************************)
(* The executions table of DurableExecutionStore and what every method of  *)
(* the store tests on a row and writes to it.                              *)
(*                                                                         *)
(* Most methods read the row on one connection and update it on another:   *)
(* they decide from the row they read (r) and write over the row that is   *)
(* there by then (cur).  Each write below therefore takes both; a module   *)
(* that runs the methods one at a time passes the same row twice, a module *)
(* that interleaves them passes the stale one.                             *)
(***************************************************************************)
EXTENDS Naturals, FiniteSets

CONSTANTS
    Executions,         \* execution ids, one per (task, step, key, payload)
    Mode,               \* Executions -> Modes
    EffectKey,          \* Executions -> effect_key
    IdempotencyKey,     \* Executions -> idempotency_key
    Errors, NoError,    \* error fingerprints and the empty one
    Results, NoResult,  \* result and evidence digests and the empty one
    MaxAttempts, PoisonThreshold,
    Deadline,           \* deadline_at of every execution
    LeaseSeconds,       \* lease_seconds of every lease and heartbeat
    BaseBackoff, MaxBackoff,
    MaxTime             \* bound on the clock

VARIABLES
    store,              \* store[x]: the row of execution x
    now                 \* the clock the callers read now_ts from

States == {"PREPARED", "LEASED", "DISPATCH_RECORDED", "RETRY_WAIT",
           "OUTCOME_UNKNOWN", "COMPLETED", "CANCELED", "DLQ"}
TERMINAL == {"COMPLETED", "CANCELED", "DLQ"}
MODES == {"LOCAL_SAFE", "EXTERNAL_EFFECT"}

ASSUME StoreAssumption ==
    /\ Mode \in [Executions -> MODES]
    /\ NoError \notin Errors
    /\ NoResult \notin Results
    /\ MaxAttempts \in 1..100
    /\ PoisonThreshold \in 1..MaxAttempts
    /\ Deadline \in Nat
    /\ LeaseSeconds \in 1..1800
    /\ BaseBackoff \in Nat \ {0}
    /\ MaxBackoff \in Nat
    /\ MaxBackoff >= BaseBackoff
    /\ MaxTime \in Nat \ {0}

(* The empty token and the empty timestamp are 0: the clock starts at 1.   *)
(* Every lease is granted by an update that also increments attempt, and   *)
(* its token is fresh, so a token is named by the attempt it was granted   *)
(* for.                                                                    *)
Row == [state: States \cup {"ABSENT"},
        attempt: Nat,
        sameErrors: Nat,
        lastError: Errors \cup {NoError},
        nextAttempt: Nat,
        token: Nat,
        expires: Nat,
        dispatched: BOOLEAN,    \* dispatch_recorded_at is not empty
        result: Results \cup {NoResult}]

AbsentRow == [state |-> "ABSENT", attempt |-> 0, sameErrors |-> 0,
              lastError |-> NoError, nextAttempt |-> 0, token |-> 0,
              expires |-> 0, dispatched |-> FALSE, result |-> NoResult]

Exists(x) == store[x].state # "ABSENT"

NoLease(r) == [r EXCEPT !.token = 0, !.expires = 0]

LeaseExpired(r) == r.expires # 0 /\ now >= r.expires

PastDeadline(t) == t >= Deadline

(* deterministic_backoff_seconds.                                          *)
Backoff(attempt) ==
    LET d == BaseBackoff * 2^(attempt - 1)
    IN  IF d \in 1..MaxBackoff THEN d ELSE MaxBackoff

-----------------------------------------------------------------------------
(* Faulty variant: the effect key is not looked up.                        *)
PrepareIgnoringEffect(x) ==
    /\ ~PastDeadline(now)
    /\ \A y \in Executions : Exists(y) => IdempotencyKey[y] # IdempotencyKey[x]

(* prepare: the idempotency key replays or conflicts, the effect key may   *)
(* belong to one execution only.                                           *)
PrepareAllowed(x) ==
    /\ ~PastDeadline(now)
    /\ \A y \in Executions : Exists(y) =>
           /\ IdempotencyKey[y] # IdempotencyKey[x]
           /\ EffectKey[y] # EffectKey[x]

PreparedRow == [AbsentRow EXCEPT !.state = "PREPARED"]

(* acquire_lease runs in one immediate transaction.                        *)
LeasableState(r) ==
    /\ r.state \in {"PREPARED", "RETRY_WAIT", "LEASED"}
    /\ r.state = "RETRY_WAIT" => now >= r.nextAttempt

(* Faulty variant: an unexpired lease does not stand in the way.           *)
LeaseAnytime(r) == LeasableState(r) /\ ~PastDeadline(now)

LeaseAllowed(r) ==
    /\ LeasableState(r)
    /\ ~PastDeadline(now)
    /\ r.state = "LEASED" => ~(r.expires # 0 /\ now < r.expires)

(* A new token, named by its attempt.  acquire_lease also takes a token    *)
(* from its caller and does not look whether it was used before: callers   *)
(* are assumed not to repeat one.                                          *)
LeasedRow(r) ==
    [r EXCEPT !.state = "LEASED", !.attempt = @ + 1, !.token = r.attempt + 1,
              !.expires = now + LeaseSeconds, !.nextAttempt = 0]

(* The deadline test of acquire_lease comes before its lease test, and     *)
(* keeps the lease columns.                                                *)
DeadLettered(r) == [r EXCEPT !.state = "DLQ"]

(* The update of _deadline_check.                                          *)
DeadlineWrite(cur) == NoLease([cur EXCEPT !.state = "DLQ"])

(* What heartbeat, record_dispatch_started, complete, fail_before_dispatch *)
(* and mark_outcome_unknown share.                                         *)
HoldsLease(r, tok) == tok # 0 /\ r.token = tok

HeartbeatChecked(r, tok) == r.state = "LEASED" /\ HoldsLease(r, tok)

(* Faulty variant: the update names the execution only.                    *)
HeartbeatUnfenced(cur, r, tok, t) ==
    IF PastDeadline(t) THEN DeadlineWrite(cur)
    ELSE [cur EXCEPT !.expires = t + LeaseSeconds]

HeartbeatWrite(cur, r, tok, t) ==
    IF PastDeadline(t) THEN DeadlineWrite(cur)
    ELSE IF cur.token = tok THEN [cur EXCEPT !.expires = t + LeaseSeconds]
    ELSE cur

DispatchChecked(x, r, tok) ==
    /\ Mode[x] = "EXTERNAL_EFFECT"
    /\ r.state = "LEASED"
    /\ HoldsLease(r, tok)

DispatchWrite(cur, tok, t) ==
    IF PastDeadline(t) THEN DeadlineWrite(cur)
    ELSE IF cur.token = tok
         THEN [cur EXCEPT !.state = "DISPATCH_RECORDED", !.dispatched = TRUE]
    ELSE cur

(* Faulty variant: the caller does not look at the row it gets back.       *)
DispatchAssumed(cur, tok, t) == ~PastDeadline(t)

(* The update matched the row, so the caller may hand the effect over.     *)
DispatchRecorded(cur, tok, t) == ~PastDeadline(t) /\ cur.token = tok

CompleteChecked(x, r, tok) ==
    /\ r.state = IF Mode[x] = "LOCAL_SAFE" THEN "LEASED" ELSE "DISPATCH_RECORDED"
    /\ HoldsLease(r, tok)

CompleteWrite(cur, digest) ==
    NoLease([cur EXCEPT !.state = "COMPLETED", !.result = digest])

FailChecked(r, tok) ==
    r.state = "LEASED" /\ ~r.dispatched /\ HoldsLease(r, tok)

SameErrors(r, error) == IF r.lastError = error THEN r.sameErrors + 1 ELSE 1

(* Faulty variant: repeated errors are not counted.                        *)
FailsWithoutPoison(r, error, retryable, t) ==
    \/ ~retryable
    \/ r.attempt >= MaxAttempts
    \/ PastDeadline(t)

FailsForGood(r, error, retryable, t) ==
    \/ ~retryable
    \/ r.attempt >= MaxAttempts
    \/ SameErrors(r, error) >= PoisonThreshold
    \/ PastDeadline(t)

FailWrite(cur, r, error, retryable, t) ==
    LET dlq == FailsForGood(r, error, retryable, t)
    IN  NoLease([cur EXCEPT
            !.state = IF dlq THEN "DLQ" ELSE "RETRY_WAIT",
            !.sameErrors = SameErrors(r, error),
            !.lastError = error,
            !.nextAttempt = IF dlq THEN 0 ELSE t + Backoff(r.attempt)])

UnknownChecked(r, tok) == r.state = "DISPATCH_RECORDED" /\ HoldsLease(r, tok)

UnknownWrite(cur, error) ==
    NoLease([cur EXCEPT !.state = "OUTCOME_UNKNOWN", !.lastError = error])

(* Faulty variant: recovery forgets the recorded dispatches.               *)
RecoverableLeased(r) == r.state = "LEASED" /\ LeaseExpired(r)

(* Faulty variant: an expired dispatch is retried like any other lease.    *)
RecoveredForRetry(r) ==
    LET s == IF r.attempt >= MaxAttempts THEN "DLQ" ELSE "RETRY_WAIT"
    IN  NoLease([r EXCEPT !.state = s,
                          !.nextAttempt = IF s = "RETRY_WAIT" THEN now ELSE 0])

(* recover_expired_leases scans and updates in one immediate transaction.  *)
Recoverable(r) ==
    r.state \in {"LEASED", "DISPATCH_RECORDED"} /\ LeaseExpired(r)

RecoveredRow(r) ==
    LET s == IF r.state = "DISPATCH_RECORDED" \/ r.dispatched THEN "OUTCOME_UNKNOWN"
             ELSE IF r.attempt >= MaxAttempts THEN "DLQ"
             ELSE "RETRY_WAIT"
    IN  NoLease([r EXCEPT !.state = s,
                          !.nextAttempt = IF s = "RETRY_WAIT" THEN now ELSE 0])

(* Faulty variant: terminal executions can be canceled.                    *)
CancelUnlessBusy(r) ==
    r.state \notin {"ABSENT", "LEASED", "DISPATCH_RECORDED", "OUTCOME_UNKNOWN"}

CancelChecked(r) == r.state \in {"PREPARED", "RETRY_WAIT"}

(* Faulty variant: a state outside STATES is written.                      *)
CancelMisspelt(cur) ==
    NoLease([cur EXCEPT !.state = "CANCELLED", !.nextAttempt = 0])

CancelWrite(cur) ==
    NoLease([cur EXCEPT !.state = "CANCELED", !.nextAttempt = 0])

Outcomes == {"CONFIRMED_EFFECT", "CONFIRMED_NO_EFFECT"}

ReconcileChecked(r) == r.state = "OUTCOME_UNKNOWN"

ReconcileWrite(cur, r, outcome, evidence, t) ==
    IF outcome = "CONFIRMED_EFFECT"
    THEN [cur EXCEPT !.state = "COMPLETED", !.result = evidence,
                     !.nextAttempt = 0, !.dispatched = r.dispatched]
    ELSE LET retry == r.attempt < MaxAttempts
         IN  [cur EXCEPT !.state = IF retry THEN "RETRY_WAIT" ELSE "DLQ",
                         !.nextAttempt = IF retry THEN t ELSE 0,
                         !.result = NoResult, !.dispatched = FALSE]

=============================================================================
