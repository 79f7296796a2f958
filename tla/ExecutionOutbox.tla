--------------------------- MODULE ExecutionOutbox ---------------------------
(***************************************************************************)
(* The execution outbox of one trusted scope: intents queued per           *)
(* aggregate, workers in several processes that claim and dispatch them    *)
(* through an adapter, operators that reconcile the ambiguous ones, and    *)
(* the outside world in which effects really happen.                       *)
(*                                                                         *)
(* enqueue, release_expired_claims, claim_next and _confirm are            *)
(* transactions.  dispatch_claimed reads the intent, calls the             *)
(* authorization callback, records the dispatch, calls adapter.send and    *)
(* records the answer: other processes run and the clock moves between     *)
(* any two of these, and the process may die.                              *)
(***************************************************************************)
EXTENDS Naturals, FiniteSets

CONSTANTS
    Intents,            \* idempotency keys
    Aggregate,          \* Intents -> aggregate_key
    ValidUntil,         \* Intents -> valid_until of the authority
    Workers, Operators,
    Idle,               \* a caller between two calls
    LeaseSeconds,
    MaxTime,            \* bound on the clock; no claim outlives it
    MaxClaims,          \* bound on attempts, which the code leaves unlimited
    Manners,            \* the manners of the callers that are explored
    FreeIntents         \* bound: what callers without discipline enqueue

ASSUME OutboxAssumption ==
    /\ IsFiniteSet(Intents)
    /\ ValidUntil \in [Intents -> Nat]
    /\ LeaseSeconds \in 1..300
    /\ MaxTime \in Nat /\ MaxClaims \in Nat
    /\ Manners \subseteq [prompt: BOOLEAN, patient: BOOLEAN]
    /\ FreeIntents \subseteq Intents
    /\ Idle \notin Workers

VARIABLES
    row,        \* row[k]: the action_outbox row of intent k
    queued,     \* queued[k]: created_at and aggregate_seq of its decision
    ledger,     \* ledger[k]: the effect reference in action_effects, 0 if none
    run,        \* run[w]: the dispatch_claimed call of worker w
    inquiry,    \* inquiry[p]: the reconcile call of operator p
    effects,    \* effects[k]: how many times the effect of k has happened
    now,
    manners     \* what the callers keep to, which the code does not enforce:
                \* prompt: claims do not expire while authorization is checked
                \* patient: nobody reconciles an intent whose send is running

ovars == <<row, queued, ledger, run, inquiry, effects, now, manners>>

Disciplined == manners.prompt /\ manners.patient

STATES == {"PENDING", "RETRY", "CLAIMED", "UNCERTAIN", "SENT",
           "CONFIRMED", "REVOKED", "BLOCKED_REAPPROVAL", "FAILED"}
TERMINAL_STATES == {"CONFIRMED", "REVOKED", "BLOCKED_REAPPROVAL", "FAILED"}
Blocked == {"REVOKED", "BLOCKED_REAPPROVAL"}

OutboxRow == [state: STATES \cup {"ABSENT"}, owner: Workers \cup {Idle},
              until: Nat, attempts: Nat]

Answers == {"UNKNOWN", "REJECTED", "REJECTED_RETRYABLE", "ACCEPTED", "CONFIRMED"}

Run == [key: Intents, at: Nat, pc: {"authorize", "record", "send"}]
       \cup [key: Intents, pc: {"answer"}, answer: Answers, ref: Nat]

Inquiry == [key: Intents, at: Nat, found: BOOLEAN, ref: Nat]

ASSUME IdleAssumption == Idle \notin Run \cup Inquiry

OutboxTypeOK ==
    /\ row \in [Intents -> OutboxRow]
    /\ queued \in [Intents -> [at: Nat, seq: Nat]]
    /\ ledger \in [Intents -> Nat]
    /\ run \in [Workers -> Run \cup {Idle}]
    /\ inquiry \in [Operators -> Inquiry \cup {Idle}]
    /\ effects \in [Intents -> Nat]
    /\ now \in Nat
    /\ manners \in Manners

OutboxInit ==
    /\ row = [k \in Intents |-> [state |-> "ABSENT", owner |-> Idle, until |-> 0, attempts |-> 0]]
    /\ queued = [k \in Intents |-> [at |-> 0, seq |-> 0]]
    /\ ledger = [k \in Intents |-> 0]
    /\ run = [w \in Workers |-> Idle]
    /\ inquiry = [p \in Operators |-> Idle]
    /\ effects = [k \in Intents |-> 0]
    /\ now = 1
    /\ manners \in Manners

-----------------------------------------------------------------------------
Earlier(k, j) == Aggregate[j] = Aggregate[k] /\ queued[j].seq < queued[k].seq

Enqueued == {k \in Intents : row[k].state # "ABSENT"}

Unclaimed(r, s) == [state |-> s, owner |-> Idle, until |-> 0, attempts |-> r.attempts]

SetState(k, s) == [row EXCEPT ![k] = Unclaimed(@, s)]

Enqueue(k) ==
    /\ row[k].state = "ABSENT"
    /\ now < ValidUntil[k]
    /\ Disciplined \/ k \in FreeIntents
    /\ row' = SetState(k, "PENDING")
    /\ queued' = [queued EXCEPT ![k] =
          [at |-> now,
           seq |-> Cardinality({j \in Enqueued : Aggregate[j] = Aggregate[k]}) + 1]]
    /\ UNCHANGED <<manners, ledger, run, inquiry, effects, now>>

(* Faulty variant: uncertain intents are released like claims.             *)
UncertainExpired(r) == r.state \in {"CLAIMED", "UNCERTAIN"} /\ r.until < now

(* Faulty variant: the comparison is the wrong way round.                  *)
ClaimUnexpired(r) == r.state = "CLAIMED" /\ r.until > now

ClaimExpired(r) == r.state = "CLAIMED" /\ r.until < now

Released ==
    [k \in Intents |-> IF ClaimExpired(row[k]) THEN Unclaimed(row[k], "RETRY") ELSE row[k]]

ReleaseExpiredClaims ==
    /\ \E k \in Intents : ClaimExpired(row[k])
    /\ row' = Released
    /\ UNCHANGED <<manners, queued, ledger, run, inquiry, effects, now>>

(* Faulty variant: the predecessors are not looked at.                     *)
ClaimableOutOfOrder(r, k) == r[k].state \in {"PENDING", "RETRY"}

(* claim_next releases the expired claims first, then takes the oldest     *)
(* intent none of whose predecessors in the aggregate is still open.  The  *)
(* two are transactions of one call, with one value of now: what another   *)
(* process does in between is what it may do before a ClaimNext, because   *)
(* the release is an action of its own as well.                            *)
Claimable(r, k) ==
    /\ r[k].state \in {"PENDING", "RETRY"}
    /\ \A j \in Enqueued : Earlier(k, j) => r[j].state \in TERMINAL_STATES

ClaimNext(w) ==
    /\ run[w] = Idle
    /\ \E k \in Intents :
          /\ Claimable(Released, k)
          /\ \A j \in Intents : Claimable(Released, j) => queued[k].at <= queued[j].at
          /\ row[k].attempts < MaxClaims /\ now + LeaseSeconds < MaxTime
          /\ row' = [Released EXCEPT ![k] =
                [state |-> "CLAIMED", owner |-> w, until |-> now + LeaseSeconds,
                 attempts |-> @.attempts + 1]]
    /\ UNCHANGED <<manners, queued, ledger, run, inquiry, effects, now>>

-----------------------------------------------------------------------------
(* dispatch_claimed, step by step.                                         *)
At(w, pc) == run[w] # Idle /\ run[w].pc = pc

BeginDispatch(w, k) ==
    /\ run[w] = Idle
    /\ row[k].state = "CLAIMED" /\ row[k].owner = w /\ now < row[k].until
    /\ run' = [run EXCEPT ![w] = [key |-> k, at |-> now, pc |-> "authorize"]]
    /\ UNCHANGED <<manners, row, queued, ledger, inquiry, effects, now>>

(* The authority gate: an expired authority needs approval again, and the  *)
(* callback, a changed policy or the budget guard may refuse.              *)
Refusals(k, t) == IF t >= ValidUntil[k] THEN {"BLOCKED_REAPPROVAL"} ELSE Blocked

AuthorizeDispatch(w) ==
    /\ At(w, "authorize")
    /\ run[w].at < ValidUntil[run[w].key]
    /\ run' = [run EXCEPT ![w] = [@ EXCEPT !.pc = "record"]]
    /\ UNCHANGED <<manners, row, queued, ledger, inquiry, effects, now>>

RefuseDispatch(w) ==
    /\ At(w, "authorize")
    /\ \E s \in Refusals(run[w].key, run[w].at) : row' = SetState(run[w].key, s)
    /\ run' = [run EXCEPT ![w] = Idle]
    /\ UNCHANGED <<manners, queued, ledger, inquiry, effects, now>>

(* Faulty variant: the send is not announced in the row.                   *)
SendUnrecorded(w) ==
    /\ At(w, "record")
    /\ run' = [run EXCEPT ![w] = [@ EXCEPT !.pc = "send"]]
    /\ UNCHANGED <<manners, row, queued, ledger, inquiry, effects, now>>

(* The update is WHERE state = 'CLAIMED' AND lease_owner = worker.  Its    *)
(* row count is not looked at: the send follows whether it matched or not. *)
RecordDispatch(w) ==
    /\ At(w, "record")
    /\ LET k == run[w].key
       IN  row' = IF row[k].state = "CLAIMED" /\ row[k].owner = w
                  THEN [row EXCEPT ![k] = [@ EXCEPT !.state = "UNCERTAIN"]]
                  ELSE row
    /\ run' = [run EXCEPT ![w] = [@ EXCEPT !.pc = "send"]]
    /\ UNCHANGED <<manners, queued, ledger, inquiry, effects, now>>

(* adapter.send: the effect happens or not, and the answer is truthful; an *)
(* exception says nothing.                                                 *)
Send(w) ==
    /\ At(w, "send")
    /\ LET k == run[w].key
       IN  \/ \E a \in {"UNKNOWN", "ACCEPTED", "CONFIRMED"} :
                 /\ effects' = [effects EXCEPT ![k] = @ + 1]
                 /\ run' = [run EXCEPT ![w] = [key |-> k, pc |-> "answer", answer |-> a,
                                               ref |-> effects[k] + 1]]
           \/ \E a \in {"UNKNOWN", "REJECTED", "REJECTED_RETRYABLE"} :
                 /\ run' = [run EXCEPT ![w] = [key |-> k, pc |-> "answer", answer |-> a,
                                               ref |-> 0]]
                 /\ UNCHANGED effects
    /\ UNCHANGED <<manners, row, queued, ledger, inquiry, now>>

(* Faulty variant: the ledger takes the newest reference.                  *)
ConfirmLatest(k, ref) ==
    ledger' = [ledger EXCEPT ![k] = ref] /\ row' = SetState(k, "CONFIRMED")

(* Faulty variant: the row is confirmed without the ledger.                *)
ConfirmRowOnly(k, ref) ==
    row' = SetState(k, "CONFIRMED") /\ UNCHANGED ledger

(* _confirm: the ledger keeps the first reference of an effect; another    *)
(* one is a collision, and the transaction is rolled back.                 *)
Confirm(k, ref) ==
    IF ledger[k] \in {0, ref}
    THEN ledger' = [ledger EXCEPT ![k] = ref] /\ row' = SetState(k, "CONFIRMED")
    ELSE UNCHANGED <<ledger, row>>

(* Faulty variant: the adapter's word is stored as it is.                  *)
StoreAnswer(answer) ==
    IF answer = "REJECTED_RETRYABLE" THEN "RETRY" ELSE answer

StateAfter(answer) ==
    CASE answer = "UNKNOWN" -> "UNCERTAIN"
      [] answer = "REJECTED" -> "FAILED"
      [] answer = "REJECTED_RETRYABLE" -> "RETRY"
      [] answer = "ACCEPTED" -> "SENT"

RecordAnswer(w) ==
    /\ At(w, "answer")
    /\ LET c == run[w]
       IN  IF c.answer = "CONFIRMED"
           THEN Confirm(c.key, c.ref)
           ELSE row' = SetState(c.key, StateAfter(c.answer)) /\ UNCHANGED ledger
    /\ run' = [run EXCEPT ![w] = Idle]
    /\ UNCHANGED <<manners, queued, inquiry, effects, now>>

-----------------------------------------------------------------------------
(* reconcile: the adapter is asked, truthfully answers for that moment,    *)
(* and the row is written later.  An inconclusive answer changes nothing.  *)
BeginReconcile(p, k) ==
    /\ inquiry[p] = Idle
    /\ row[k].state \in {"UNCERTAIN", "SENT"}
    /\ manners.patient => /\ \A w \in Workers : run[w] # Idle => run[w].key # k
                          /\ \A q \in Operators : inquiry[q] # Idle => inquiry[q].key # k
    /\ inquiry' = [inquiry EXCEPT ![p] = [key |-> k, at |-> now, found |-> effects[k] > 0,
                                          ref |-> effects[k]]]
    /\ UNCHANGED <<manners, row, queued, ledger, run, effects, now>>

FinishReconcile(p) ==
    /\ inquiry[p] # Idle
    /\ LET c == inquiry[p]
       IN  IF c.found
           THEN Confirm(c.key, c.ref)
           ELSE /\ \E s \in Refusals(c.key, c.at) \cup
                           (IF c.at < ValidUntil[c.key] THEN {"RETRY"} ELSE {}) :
                      row' = SetState(c.key, s)
                /\ UNCHANGED ledger
    /\ inquiry' = [inquiry EXCEPT ![p] = Idle]
    /\ UNCHANGED <<manners, queued, run, effects, now>>

-----------------------------------------------------------------------------
CrashWorker(w) ==
    /\ run[w] # Idle
    /\ run' = [run EXCEPT ![w] = Idle]
    /\ UNCHANGED <<manners, row, queued, ledger, inquiry, effects, now>>

CrashOperator(p) ==
    /\ inquiry[p] # Idle
    /\ inquiry' = [inquiry EXCEPT ![p] = Idle]
    /\ UNCHANGED <<manners, row, queued, ledger, run, effects, now>>

Tick ==
    /\ now < MaxTime
    /\ manners.prompt => \A w \in Workers : ~At(w, "authorize") /\ ~At(w, "record")
    /\ now' = now + 1
    /\ UNCHANGED <<manners, row, queued, ledger, run, inquiry, effects>>

WorkerStep(w) ==
    \/ ClaimNext(w)
    \/ \E k \in Intents : BeginDispatch(w, k)
    \/ AuthorizeDispatch(w)
    \/ RefuseDispatch(w)
    \/ RecordDispatch(w)
    \/ Send(w)
    \/ RecordAnswer(w)
    \/ CrashWorker(w)

OperatorStep(p) ==
    \/ \E k \in Intents : BeginReconcile(p, k)
    \/ FinishReconcile(p)
    \/ CrashOperator(p)

OutboxNext ==
    \/ \E k \in Intents : Enqueue(k)
    \/ ReleaseExpiredClaims
    \/ \E w \in Workers : WorkerStep(w)
    \/ \E p \in Operators : OperatorStep(p)
    \/ Tick

OutboxSpec == OutboxInit /\ [][OutboxNext]_ovars

(* Some process keeps calling claim_next, which releases expired claims;   *)
(* nothing is assumed of the workers that hold the claims.                 *)
OutboxFairness == WF_ovars(Tick) /\ WF_ovars(ReleaseExpiredClaims)

FairOutboxSpec == OutboxSpec /\ OutboxFairness

-----------------------------------------------------------------------------
(* No effect happens twice: an intent whose send may have had an effect is *)
(* not sent again, although workers crash and leases expire.               *)
AtMostOneEffect == \A k \in Intents : effects[k] <= 1

(* With disciplined callers, an effect that happened is never forgotten:   *)
(* its intent is being answered for, ambiguous, sent or confirmed.         *)
EffectIsAccountedFor ==
    Disciplined => \A k \in Intents : effects[k] > 0 =>
        row[k].state \in {"UNCERTAIN", "SENT", "CONFIRMED"}

(* With disciplined callers, effects of one aggregate happen in the order  *)
(* in which they were queued: nothing is sent while an earlier intent may  *)
(* still have its effect.                                                  *)
AggregateOrder ==
    [][\A j, k \in Intents :
          (Disciplined /\ effects'[k] > effects[k] /\ Earlier(k, j) /\ row[j].state # "ABSENT") =>
              row[j].state \in TERMINAL_STATES]_ovars

(* The ledger says only what happened, holds one reference per intent for  *)
(* ever, and whatever is CONFIRMED is in it.                               *)
LedgerIsTruthful ==
    \A k \in Intents :
        /\ ledger[k] <= effects[k]
        /\ row[k].state = "CONFIRMED" => ledger[k] > 0

LedgerIsPermanent ==
    [][\A k \in Intents : ledger[k] > 0 => ledger'[k] = ledger[k]]_ovars

(* The outbox as its clients see it.                                       *)
PhaseOf(state) ==
    CASE state = "ABSENT" -> "absent"
      [] state \in {"PENDING", "CLAIMED"} -> "queued"
      [] state = "RETRY" -> "retry"
      [] state \in {"UNCERTAIN", "SENT"} -> "ambiguous"
      [] state = "CONFIRMED" -> "confirmed"
      [] state \in {"REVOKED", "BLOCKED_REAPPROVAL", "FAILED"} -> "refused"

(* Nothing is promised of callers without discipline.                      *)
Lifecycle == INSTANCE IntentLifecycle WITH
    phase <- [k \in Intents |-> IF Disciplined THEN PhaseOf(row[k].state) ELSE "absent"],
    happened <- [k \in Intents |-> IF Disciplined THEN effects[k] ELSE 0]

(* Disciplined callers see every intent live as IntentLifecycle says: the  *)
(* effect happens at most once and the terminal states are true.           *)
ImplementsLifecycle == Lifecycle!LifecycleSpec

(* A claim is not kept by a worker that died with it.  (The discipline is  *)
(* a clock that waits for the workers, so it is stated without.)           *)
ClaimsEnd ==
    \A k \in Intents :
        (~Disciplined /\ row[k].state = "CLAIMED") ~> row[k].state # "CLAIMED"
=============================================================================
