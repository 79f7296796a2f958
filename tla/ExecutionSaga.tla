---------------------------- MODULE ExecutionSaga ----------------------------
(***************************************************************************)
(* Multi-step sagas over the execution outbox and the cumulative authority *)
(* budget that guards each dispatch.  A coordinator queues one step at a   *)
(* time, learns its outcome from the outbox, and after a failure queues    *)
(* approved compensations in reverse order.                                *)
(*                                                                         *)
(* Each call of a coordinator reads the saga, writes the outbox or the     *)
(* spend ledger in one transaction and the saga in another: other          *)
(* coordinators run between any two of these, and the process may die.     *)
(* The outbox is IntentLifecycle, the life ExecutionOutbox gives an intent *)
(* when its callers are disciplined.                                       *)
(***************************************************************************)
EXTENDS Naturals, FiniteSets, Functions

CONSTANTS
    Sagas,
    Length,             \* Sagas -> number of steps
    Reversible,         \* Sagas -> the set of steps that have a compensation
    Risk,               \* Sagas -> risk_points of each step
    CompensationRisk,   \* Sagas -> compensation_risk_points of each of these
    Capability,         \* Sagas -> capability_class of each step
    MaxWindowEffects, MaxWindowRisk, MaxWindowCapabilities,
    MaxTransactionEffects, MaxTransactionRisk,
    ReplaySync,         \* a coordinator may sync a step that is settled already
    Coordinators,
    Idle,               \* a coordinator between two calls
    MaxSagas,           \* bound on the sagas that are created
    MaxAged             \* bound on the effects that leave the window

MAX_STEPS == 12

ASSUME SagaAssumption ==
    /\ Length \in [Sagas -> 1..MAX_STEPS]
    /\ \A s \in Sagas :
          /\ Reversible[s] \subseteq 1..Length[s]
          /\ Risk[s] \in [1..Length[s] -> 1..100]
          /\ CompensationRisk[s] \in [Reversible[s] -> 1..100]
    /\ {MaxWindowEffects, MaxWindowRisk, MaxWindowCapabilities,
        MaxTransactionEffects, MaxTransactionRisk} \subseteq Nat \ {0}
    /\ ReplaySync \in BOOLEAN /\ {MaxSagas, MaxAged} \subseteq Nat

Steps(s) == 1..Length[s]

Item(s, i, dir) == [saga |-> s, step |-> i, dir |-> dir]
Forward(s) == {Item(s, i, "forward") : i \in Steps(s)}
Undo(s) == {Item(s, i, "compensation") : i \in Reversible[s]}
Items == UNION {Forward(s) \cup Undo(s) : s \in Sagas}

VARIABLES
    saga,       \* saga[s]: state of the saga row
    step,       \* step[s][i]: state of its step rows
    bound,      \* the items whose outbox key a step row holds
    spend,      \* the items recorded in aion_authority_spend
    aged,       \* those of them that have left the rolling window
    phase,      \* phase[k], happened[k]: the intent of item k in the outbox
    happened,
    call,       \* call[c]: the call coordinator c has begun
    alone       \* history: no saga was ever in two calls at once

svars == <<saga, step, bound, spend, aged, phase, happened, call, alone>>
tables == <<saga, step, bound>>
budget == <<spend, aged>>
outbox == <<phase, happened>>

Outbox == INSTANCE IntentLifecycle WITH Intents <- Items

(* REFUSED stands for the step states FAILED, REVOKED and                  *)
(* BLOCKED_REAPPROVAL, which the coordinator treats alike.                 *)
SAGA_STATES == {"PLANNED", "RUNNING", "RECONCILIATION_REQUIRED", "FAILED",
                "COMPENSATION_REQUIRED", "COMPENSATING", "COMPLETED",
                "COMPENSATED", "MANUAL_INTERVENTION_REQUIRED"}
STEP_STATES == {"PENDING", "ENQUEUED", "CONFIRMED", "RETRY", "UNCERTAIN", "REFUSED",
                "COMPENSATION_PENDING", "COMPENSATION_ENQUEUED", "COMPENSATED",
                "COMPENSATION_FAILED", "MANUAL_REQUIRED"}

(* What a call still uses of what it read: enqueue its item; sync which    *)
(* steps were confirmed or pending, then what it will write; prepare the   *)
(* steps that were confirmed.                                              *)
StepSet == SUBSET (1..MAX_STEPS)

Call == [pc: {"enqueue", "bind"}, item: Items]
        \cup [pc: {"sync"}, item: Items, prior: StepSet, open: BOOLEAN]
        \cup [pc: {"settle"}, item: Items, is: STEP_STATES, saga: SAGA_STATES]
        \cup [pc: {"prepare"}, of: Sagas, steps: StepSet]

ASSUME IdleCoordinator == Idle \notin Call

SagaTypeOK ==
    /\ saga \in [Sagas -> SAGA_STATES \cup {"ABSENT"}]
    /\ DOMAIN step = Sagas /\ \A s \in Sagas : step[s] \in [Steps(s) -> STEP_STATES]
    /\ bound \subseteq Items
    /\ spend \subseteq Items /\ aged \subseteq spend
    /\ call \in [Coordinators -> Call \cup {Idle}] /\ alone \in BOOLEAN
    /\ Outbox!LifecycleTypeOK

SagaInit ==
    /\ saga = [s \in Sagas |-> "ABSENT"]
    /\ step = [s \in Sagas |-> [i \in Steps(s) |-> "PENDING"]]
    /\ bound = {} /\ spend = {} /\ aged = {}
    /\ call = [c \in Coordinators |-> Idle] /\ alone = TRUE
    /\ Outbox!LifecycleInit

In(s, states) == {i \in Steps(s) : step[s][i] \in states}

SetStep(s, i, state) == step' = [step EXCEPT ![s][i] = state]
SetSaga(s, state) == saga' = [saga EXCEPT ![s] = state]

At(c, pc) == call[c] # Idle /\ call[c].pc = pc

SagaOf(v) == IF v.pc = "prepare" THEN v.of ELSE v.item.saga

Goes(c, v) == call' = [call EXCEPT ![c] = v]

(* A call reads the saga and tests what it read.  Two calls on one saga    *)
(* are not prevented, only noted.                                          *)
Begins(c, v) ==
    /\ call[c] = Idle
    /\ Goes(c, v)
    /\ alone' = (alone /\ \A d \in Coordinators :
                               call[d] # Idle => SagaOf(call[d]) # SagaOf(v))
    /\ UNCHANGED <<tables, budget, outbox>>

-----------------------------------------------------------------------------
(* The worst case of a saga: every step is done and every compensation     *)
(* runs as well.                                                           *)
WorstCase(s) == Length[s] + Cardinality(Reversible[s])

(* Faulty variant: a compensation is reserved at the risk of its step.     *)
RiskTwice(s) == SumFunctionOnSet(Risk[s], Steps(s)) + SumFunctionOnSet(Risk[s], Reversible[s])

(* The risk of it: what the steps and, declared apart, what their          *)
(* compensations put at risk.                                              *)
WorstCaseRisk(s) ==
    SumFunctionOnSet(Risk[s], Steps(s)) + SumFunctionOnSet(CompensationRisk[s], Reversible[s])

(* The worst case must fit in the transaction budget; that the steps alone *)
(* must fit, which the code asks as well, follows.                         *)
Create(s) ==
    /\ saga[s] = "ABSENT"
    /\ Cardinality({r \in Sagas : saga[r] # "ABSENT"}) < MaxSagas
    /\ WorstCase(s) <= MaxTransactionEffects
    /\ WorstCaseRisk(s) <= MaxTransactionRisk
    /\ SetSaga(s, "PLANNED")
    /\ UNCHANGED <<step, bound, budget, outbox, call, alone>>

(* outbox.enqueue returns the intent if it is queued already.              *)
Queue(k) ==
    /\ phase' = [phase EXCEPT ![k] = IF @ = "absent" THEN "queued" ELSE @]
    /\ UNCHANGED happened

(* enqueue_next and enqueue_next_compensation choose step i.               *)
NextForward(s, i) ==
    /\ saga[s] \in {"PLANNED", "RUNNING"}
    /\ In(s, {"ENQUEUED", "RETRY", "UNCERTAIN", "REFUSED"}) = {}
    /\ i \in In(s, {"PENDING"})
    /\ \A j \in Steps(s) : j < i => step[s][j] = "CONFIRMED"

(* Faulty variant: compensations run in the order of the steps.            *)
CompensateForwards(s, i) ==
    /\ saga[s] = "COMPENSATING"
    /\ In(s, {"COMPENSATION_ENQUEUED", "UNCERTAIN", "COMPENSATION_FAILED"}) = {}
    /\ i \in In(s, {"COMPENSATION_PENDING"})
    /\ \A j \in In(s, {"COMPENSATION_PENDING"}) : j >= i

NextCompensation(s, i) ==
    /\ saga[s] = "COMPENSATING"
    /\ In(s, {"COMPENSATION_ENQUEUED", "UNCERTAIN", "COMPENSATION_FAILED"}) = {}
    /\ i \in In(s, {"COMPENSATION_PENDING"})
    /\ \A j \in In(s, {"COMPENSATION_PENDING"}) : j <= i

Chosen(k) == IF k.dir = "forward" THEN NextForward(k.saga, k.step)
             ELSE NextCompensation(k.saga, k.step)

BeginEnqueue(c, k) ==
    /\ Chosen(k)
    /\ Begins(c, [pc |-> "enqueue", item |-> k])

QueueItem(c) ==
    /\ At(c, "enqueue")
    /\ Queue(call[c].item)
    /\ Goes(c, [call[c] EXCEPT !.pc = "bind"])
    /\ UNCHANGED <<tables, budget, alone>>

BindItem(c) ==
    /\ At(c, "bind")
    /\ LET k == call[c].item
       IN  /\ bound' = bound \cup {k}
           /\ IF k.dir = "forward"
              THEN SetStep(k.saga, k.step, "ENQUEUED") /\ SetSaga(k.saga, "RUNNING")
              ELSE SetStep(k.saga, k.step, "COMPENSATION_ENQUEUED") /\ UNCHANGED saga
    /\ Goes(c, Idle)
    /\ UNCHANGED <<budget, outbox, alone>>

-----------------------------------------------------------------------------
(* Which settled or unsettled step a coordinator asks about.               *)
Syncs(k) ==
    /\ k \in bound
    /\ ReplaySync \/ LET st == step[k.saga][k.step]
                     IN  IF k.dir = "forward"
                         THEN /\ st \in {"ENQUEUED", "RETRY", "UNCERTAIN"}
                              /\ Item(k.saga, k.step, "compensation") \notin bound
                         ELSE st \in {"COMPENSATION_ENQUEUED", "UNCERTAIN"}

RecordConfirmed(k) ==
    spend' = IF phase[k] = "confirmed" THEN spend \cup {k} ELSE spend

(* Faulty variant: a refusal fails the saga whatever was done before it.   *)
FailsAtOnce(s, read, p) ==
    CASE p = "confirmed" -> IF read.open THEN "RUNNING" ELSE "COMPLETED"
      [] p = "ambiguous" -> "RECONCILIATION_REQUIRED"
      [] p = "refused" -> "FAILED"
      [] OTHER -> "RUNNING"

(* The saga after a step turned out as p, when the steps in read.prior     *)
(* were confirmed before it and steps after it were pending if read.open.  *)
AfterForward(s, read, p) ==
    CASE p = "confirmed" -> IF read.open THEN "RUNNING" ELSE "COMPLETED"
      [] p = "ambiguous" -> "RECONCILIATION_REQUIRED"
      [] p = "refused" ->
             IF ~(read.prior \subseteq Reversible[s]) THEN "MANUAL_INTERVENTION_REQUIRED"
             ELSE IF read.prior # {} THEN "COMPENSATION_REQUIRED"
             ELSE "FAILED"
      [] OTHER -> "RUNNING"

ForwardStep(p) ==
    CASE p = "queued" -> "ENQUEUED"
      [] p = "retry" -> "RETRY"
      [] p = "ambiguous" -> "UNCERTAIN"
      [] p = "confirmed" -> "CONFIRMED"
      [] p = "refused" -> "REFUSED"

BeginSync(c, k) ==
    /\ Syncs(k)
    /\ LET s == k.saga
           fwd == k.dir = "forward"
       IN  Begins(c, [pc |-> "sync", item |-> k,
                      prior |-> IF fwd THEN {j \in In(s, {"CONFIRMED"}) : j < k.step} ELSE {},
                      open |-> IF fwd THEN \E j \in In(s, {"PENDING"}) : j > k.step
                               ELSE In(s, {"COMPENSATION_PENDING"}) \ {k.step} # {}])

(* The outbox is asked and a confirmed effect is recorded as spent, which  *)
(* is one step because "confirmed" does not change.                        *)
Asks(c) ==
    /\ At(c, "sync")
    /\ RecordConfirmed(call[c].item)
    /\ UNCHANGED <<tables, aged, outbox, alone>>

AskForward(c) ==
    /\ Asks(c)
    /\ LET k == call[c].item
       IN  /\ k.dir = "forward"
           /\ Goes(c, [pc |-> "settle", item |-> k, is |-> ForwardStep(phase[k]),
                       saga |-> AfterForward(k.saga, call[c], phase[k])])

SettleForward(c) ==
    /\ At(c, "settle")
    /\ LET v == call[c]
           s == v.item.saga
           i == v.item.step
       IN  /\ v.item.dir = "forward"
           /\ SetSaga(s, v.saga)
           /\ step' = [step EXCEPT ![s] = [j \in Steps(s) |->
                  CASE j = i -> v.is
                    [] /\ v.saga = "MANUAL_INTERVENTION_REQUIRED"
                       /\ j < i /\ @[j] = "CONFIRMED" /\ j \notin Reversible[s]
                           -> "MANUAL_REQUIRED"
                    [] OTHER -> @[j]]]
    /\ Goes(c, Idle)
    /\ UNCHANGED <<bound, budget, outbox, alone>>

(* Human approval and reauthentication are the inputs of this call.        *)
BeginPrepare(c, s) ==
    /\ saga[s] = "COMPENSATION_REQUIRED"
    /\ In(s, {"CONFIRMED"}) # {}
    /\ In(s, {"CONFIRMED"}) \subseteq Reversible[s]
    /\ Begins(c, [pc |-> "prepare", of |-> s, steps |-> In(s, {"CONFIRMED"})])

PrepareCompensation(c) ==
    /\ At(c, "prepare")
    /\ LET v == call[c]
       IN  /\ step' = [step EXCEPT ![v.of] = [j \in Steps(v.of) |->
                  IF j \in v.steps THEN "COMPENSATION_PENDING" ELSE @[j]]]
           /\ SetSaga(v.of, "COMPENSATING")
    /\ Goes(c, Idle)
    /\ UNCHANGED <<bound, budget, outbox, alone>>

(* Faulty variant: an ambiguous compensation goes on.                      *)
CompensatesOn(read, p) ==
    IF p = "refused" THEN "MANUAL_INTERVENTION_REQUIRED"
    ELSE IF read.open THEN "COMPENSATING" ELSE "COMPENSATED"

(* read.open: other compensations were pending.                            *)
AfterCompensation(read, p) ==
    CASE p = "ambiguous" -> "RECONCILIATION_REQUIRED"
      [] p = "confirmed" -> IF read.open THEN "COMPENSATING" ELSE "COMPENSATED"
      [] p = "refused" -> "MANUAL_INTERVENTION_REQUIRED"

(* Faulty variant: the saga's state is written to the step.                *)
CompensationStepOfSaga(p) ==
    CASE p = "ambiguous" -> "RECONCILIATION_REQUIRED"
      [] p = "confirmed" -> "COMPENSATED"
      [] p = "refused" -> "COMPENSATION_FAILED"

CompensationStep(p) ==
    CASE p = "ambiguous" -> "UNCERTAIN"
      [] p = "confirmed" -> "COMPENSATED"
      [] p = "refused" -> "COMPENSATION_FAILED"

(* While the outbox has not tried, the call ends without a write.          *)
AskCompensation(c) ==
    /\ Asks(c)
    /\ LET k == call[c].item
       IN  /\ k.dir = "compensation"
           /\ IF phase[k] \in {"queued", "retry"} THEN Goes(c, Idle)
              ELSE Goes(c, [pc |-> "settle", item |-> k, is |-> CompensationStep(phase[k]),
                            saga |-> AfterCompensation(call[c], phase[k])])

SettleCompensation(c) ==
    /\ At(c, "settle")
    /\ LET v == call[c]
       IN  /\ v.item.dir = "compensation"
           /\ SetStep(v.item.saga, v.item.step, v.is)
           /\ SetSaga(v.item.saga, v.saga)
    /\ Goes(c, Idle)
    /\ UNCHANGED <<bound, budget, outbox, alone>>

(* The process dies, or the call fails, between two of its steps.          *)
Dies(c) ==
    /\ call[c] # Idle
    /\ Goes(c, Idle)
    /\ UNCHANGED <<tables, budget, outbox, alone>>

-----------------------------------------------------------------------------
(* CumulativeAuthorityBudget.guard counts what has been recorded as        *)
(* confirmed: of a transaction for ever, of all of them while it lies in   *)
(* the rolling window.                                                     *)
Spent(s) == {k \in spend : k.saga = s}

(* Faulty variant: a compensation is charged the risk of its step.         *)
ForwardPoints == [k \in Items |-> Risk[k.saga][k.step]]

(* The risk_points the decision about an item carries, and its spend row.  *)
RiskPoints ==
    [k \in Items |-> IF k.dir = "forward" THEN Risk[k.saga][k.step]
                     ELSE CompensationRisk[k.saga][k.step]]

RiskOf(K) == SumFunctionOnSet(RiskPoints, K)

(* A compensation is of the class of its step.                             *)
CapabilitiesOf(K) == {Capability[k.saga][k.step] : k \in K}

WithinTransaction(k) ==
    /\ Cardinality(Spent(k.saga)) + 1 <= MaxTransactionEffects
    /\ RiskOf(Spent(k.saga)) + RiskPoints[k] <= MaxTransactionRisk

WithinWindow(K) ==
    /\ Cardinality(K) <= MaxWindowEffects
    /\ RiskOf(K) <= MaxWindowRisk
    /\ Cardinality(CapabilitiesOf(K)) <= MaxWindowCapabilities

InWindow == spend \ aged

Guard(k) ==
    /\ WithinTransaction(k)
    /\ Cardinality(InWindow) + 1 <= MaxWindowEffects
    /\ RiskOf(InWindow) + RiskPoints[k] <= MaxWindowRisk
    /\ Cardinality(CapabilitiesOf(InWindow \cup {k})) <= MaxWindowCapabilities

(* Time passes until a recorded effect has left the window.                *)
WindowMoves(k) ==
    /\ k \in InWindow
    /\ Cardinality(aged) < MaxAged
    /\ aged' = aged \cup {k}
    /\ UNCHANGED <<tables, spend, outbox, call, alone>>

(* One intent moves in the outbox.  The guard is asked before the dispatch *)
(* is recorded; a refusal blocks the intent.                               *)
OutboxMove(k) ==
    /\ phase[k] # "absent"
    /\ \E q \in Outbox!Phases, h \in {0, 1} :
          /\ <<q, h>> # <<phase[k], happened[k]>>
          /\ Outbox!Moves(phase[k], happened[k], q, h)
          /\ (phase[k] = "queued" /\ q = "ambiguous") => Guard(k)
          /\ phase' = [phase EXCEPT ![k] = q]
          /\ happened' = [happened EXCEPT ![k] = h]
    /\ UNCHANGED <<tables, budget, call, alone>>

CoordinatorStep(c) ==
    \/ \E k \in Items : BeginEnqueue(c, k) \/ BeginSync(c, k)
    \/ \E s \in Sagas : BeginPrepare(c, s)
    \/ QueueItem(c) \/ BindItem(c)
    \/ AskForward(c) \/ SettleForward(c)
    \/ PrepareCompensation(c)
    \/ AskCompensation(c) \/ SettleCompensation(c)
    \/ Dies(c)

SagaNext ==
    \/ \E s \in Sagas : Create(s)
    \/ \E c \in Coordinators : CoordinatorStep(c)
    \/ \E k \in Items : OutboxMove(k) \/ WindowMoves(k)

SagaSpec == SagaInit /\ [][SagaNext]_svars

-----------------------------------------------------------------------------
Done(s) == {i \in Steps(s) : happened[Item(s, i, "forward")] = 1}
Undone(s) == {i \in Reversible[s] : happened[Item(s, i, "compensation")] = 1}

(* As long as no saga is in two calls at once, its final states tell the   *)
(* truth about the world: COMPLETED did every step and undid none,         *)
(* COMPENSATED undid whatever was done, FAILED did nothing.                *)
FinalStatesAreTrue ==
    alone => \A s \in Sagas :
        /\ saga[s] = "COMPLETED" => Done(s) = Steps(s) /\ Undone(s) = {}
        /\ saga[s] = "COMPENSATED" => Done(s) = Undone(s)
        /\ saga[s] = "FAILED" => Done(s) = {}

(* Under the same condition, while the outcome of a step or of a           *)
(* compensation is known to be ambiguous, the saga says that it must be    *)
(* reconciled.                                                             *)
AmbiguityIsShown ==
    alone => \A s \in Sagas :
        In(s, {"UNCERTAIN"}) # {} => saga[s] = "RECONCILIATION_REQUIRED"

(* Whatever coordinators do and wherever they die, a step takes effect     *)
(* only after all its predecessors, beside no other effect of its saga and *)
(* before any compensation, and only what was done is undone.  As long as  *)
(* no saga is in two calls at once, it is undone one step at a time, the   *)
(* last one first.                                                         *)
InAmbiguity(s) == {k \in Forward(s) \cup Undo(s) : phase[k] = "ambiguous"}

OrderlyEffects ==
    [][\A k \in Items : happened'[k] > happened[k] =>
          LET s == k.saga
          IN  IF k.dir = "forward"
              THEN /\ \A i \in Steps(s) : i < k.step => i \in Done(s)
                   /\ InAmbiguity(s) = {k} /\ Undone(s) = {}
              ELSE /\ k.step \in Done(s)
                   /\ alone => /\ \A i \in Done(s) : i > k.step => i \in Undone(s)
                               /\ InAmbiguity(s) = {k}]_svars

(* The reserve taken at creation is enough: the limits of a transaction    *)
(* never stop an effect of its saga, compensations included.               *)
ReserveSuffices ==
    \A k \in Items : phase[k] = "queued" => WithinTransaction(k)

(* Effects of all sagas together stay within the window limits, as the     *)
(* budget documents.                                                       *)
WindowBudget == WithinWindow({k \in Items : happened[k] = 1} \ aged)
=============================================================================
