----------------------------- MODULE SagaProofs -----------------------------
(***************************************************************************)
(* Proofs about the sagas: what holds whatever the coordinators do, and    *)
(* what holds as long as no saga is in two calls at once and no settled    *)
(* step is synced again.                                                   *)
(***************************************************************************)
EXTENDS ExecutionSaga, NaturalLemmas, FiniteSetTheorems, TLAPS

Fwd(s, i) == Item(s, i, "forward")
Cmp(s, i) == Item(s, i, "compensation")

(* Effects are told apart by their items.                                  *)
LEMMA ItemFacts ==
    ASSUME NEW k \in Items
    PROVE  /\ k.saga \in Sagas /\ k.step \in Steps(k.saga)
           /\ \/ k.dir = "forward" /\ k = Fwd(k.saga, k.step)
              \/ k.dir = "compensation" /\ k = Cmp(k.saga, k.step) /\ k.step \in Reversible[k.saga]
           /\ k.dir \in {"forward", "compensation"}
  BY SagaAssumption DEF Items, Forward, Undo, Item, Fwd, Cmp, Steps

LEMMA FwdFacts ==
    ASSUME NEW s \in Sagas, NEW i \in Steps(s)
    PROVE  /\ Fwd(s, i) \in Items
           /\ Fwd(s, i).saga = s /\ Fwd(s, i).step = i /\ Fwd(s, i).dir = "forward"
  BY DEF Items, Forward, Item, Fwd

LEMMA CmpFacts ==
    ASSUME NEW s \in Sagas, NEW i \in Reversible[s]
    PROVE  /\ Cmp(s, i) \in Items /\ i \in Steps(s)
           /\ Cmp(s, i).saga = s /\ Cmp(s, i).step = i /\ Cmp(s, i).dir = "compensation"
  BY SagaAssumption DEF Items, Undo, Item, Cmp, Steps

LEMMA ItemsOfSaga ==
    ASSUME NEW s \in Sagas
    PROVE  Forward(s) \cup Undo(s) = {k \in Items : k.saga = s}
  BY SagaAssumption DEF Items, Forward, Undo, Item, Steps

LEMMA StepsAreNumbers ==
    ASSUME NEW s \in Sagas
    PROVE  /\ Length[s] \in 1..MAX_STEPS /\ Steps(s) \subseteq 1..MAX_STEPS
           /\ Steps(s) \subseteq Nat /\ Reversible[s] \subseteq Steps(s)
  <1>1. Length[s] \in 1..MAX_STEPS /\ Reversible[s] \subseteq 1..Length[s]
    BY SagaAssumption
  <1>. QED
    BY <1>1 DEF Steps, MAX_STEPS

-----------------------------------------------------------------------------
(* The calls in progress.                                                  *)
LEMMA CallFields ==
    ASSUME NEW v \in Call
    PROVE  /\ v # Idle
           /\ v.pc \in {"enqueue", "bind", "sync", "settle", "prepare"}
           /\ v.pc # "prepare" => v.item \in Items
           /\ v.pc = "sync" => v.prior \in StepSet /\ v.open \in BOOLEAN
           /\ v.pc = "settle" => v.is \in STEP_STATES /\ v.saga \in SAGA_STATES
           /\ v.pc = "prepare" => v.of \in Sagas /\ v.steps \in StepSet
           /\ SagaOf(v) \in Sagas
  <1>1. /\ v # Idle
        /\ v.pc \in {"enqueue", "bind", "sync", "settle", "prepare"}
        /\ v.pc # "prepare" => v.item \in Items
        /\ v.pc = "sync" => v.prior \in StepSet /\ v.open \in BOOLEAN
        /\ v.pc = "settle" => v.is \in STEP_STATES /\ v.saga \in SAGA_STATES
        /\ v.pc = "prepare" => v.of \in Sagas /\ v.steps \in StepSet
    BY IdleCoordinator DEF Call
  <1>. QED
    BY <1>1, ItemFacts DEF SagaOf

LEMMA EnqueueMade ==
    ASSUME NEW k \in Items, NEW pc \in {"enqueue", "bind"}
    PROVE  LET v == [pc |-> pc, item |-> k] IN v \in Call /\ v # Idle /\ v.pc = pc /\ v.item = k
  BY IdleCoordinator DEF Call

LEMMA EnqueueMoved ==
    ASSUME NEW v \in Call, v.pc = "enqueue"
    PROVE  LET u == [v EXCEPT !.pc = "bind"]
           IN  u \in Call /\ u # Idle /\ u.pc = "bind" /\ u.item = v.item
  <1>1. v \in [pc: {"enqueue", "bind"}, item: Items]
    BY DEF Call
  <1>2. [v EXCEPT !.pc = "bind"] = [pc |-> "bind", item |-> v.item] /\ v.item \in Items
    BY <1>1
  <1>. DEFINE u == [v EXCEPT !.pc = "bind"]
  <1>3. u = [pc |-> "bind", item |-> v.item]
    BY <1>2
  <1>. HIDE DEF u
  <1>4. u \in Call /\ u # Idle /\ u.pc = "bind" /\ u.item = v.item
    BY <1>2, <1>3, EnqueueMade
  <1>. QED
    BY <1>4 DEF u

LEMMA SyncMade ==
    ASSUME NEW k \in Items, NEW prior \in StepSet, NEW open \in BOOLEAN
    PROVE  LET v == [pc |-> "sync", item |-> k, prior |-> prior, open |-> open]
           IN  /\ v \in Call /\ v # Idle /\ v.pc = "sync" /\ v.item = k
               /\ v.prior = prior /\ v.open = open
  BY IdleCoordinator DEF Call

LEMMA SettleMade ==
    ASSUME NEW k \in Items, NEW is \in STEP_STATES, NEW state \in SAGA_STATES
    PROVE  LET v == [pc |-> "settle", item |-> k, is |-> is, saga |-> state]
           IN  v \in Call /\ v # Idle /\ v.pc = "settle" /\ v.item = k /\ v.is = is /\ v.saga = state
  BY IdleCoordinator DEF Call

LEMMA PrepareMade ==
    ASSUME NEW s \in Sagas, NEW steps \in StepSet
    PROVE  LET v == [pc |-> "prepare", of |-> s, steps |-> steps]
           IN  v \in Call /\ v # Idle /\ v.pc = "prepare" /\ v.of = s /\ v.steps = steps
  BY IdleCoordinator DEF Call

LEMMA TypeFacts ==
    ASSUME SagaTypeOK
    PROVE  /\ saga \in [Sagas -> SAGA_STATES \cup {"ABSENT"}]
           /\ DOMAIN step = Sagas /\ \A s \in Sagas : step[s] \in [Steps(s) -> STEP_STATES]
           /\ bound \subseteq Items /\ spend \subseteq Items /\ aged \subseteq spend
           /\ call \in [Coordinators -> Call \cup {Idle}] /\ alone \in BOOLEAN
           /\ phase \in [Items -> Outbox!Phases] /\ happened \in [Items -> {0, 1}]
  BY DEF SagaTypeOK, Outbox!LifecycleTypeOK

LEMMA CallAt ==
    ASSUME SagaTypeOK, NEW c \in Coordinators, call[c] # Idle
    PROVE  call[c] \in Call
  BY TypeFacts

LEMMA ReadFits ==
    ASSUME SagaTypeOK, NEW s \in Sagas, NEW states
    PROVE  In(s, states) \in StepSet /\ \A P \in SUBSET In(s, states) : P \in StepSet
  BY StepsAreNumbers DEF In, StepSet

-----------------------------------------------------------------------------
(* Whatever the coordinators do.  A forward item is queued only when its   *)
(* predecessors are confirmed, a compensation only when its step is        *)
(* confirmed and another one was refused; both are for ever.               *)
Sure == {"CONFIRMED", "MANUAL_REQUIRED", "COMPENSATION_PENDING", "COMPENSATION_ENQUEUED",
         "COMPENSATED", "COMPENSATION_FAILED"}

UndoSagas == {"COMPENSATION_REQUIRED", "COMPENSATING"}

EffectsInAmbiguity ==
    \A k \in Items : /\ happened[k] = 1 => phase[k] \in {"ambiguous", "confirmed"}
                     /\ phase[k] = "confirmed" => happened[k] = 1

Failed(s) == \E n \in Steps(s) : phase[Fwd(s, n)] = "refused"

May(k) ==
    IF k.dir = "forward"
    THEN \A j \in Steps(k.saga) : j < k.step => phase[Fwd(k.saga, j)] = "confirmed"
    ELSE phase[Fwd(k.saga, k.step)] = "confirmed" /\ Failed(k.saga)

QueuedRightly == \A k \in Items : phase[k] # "absent" => May(k)

BoundRightly == \A k \in bound : phase[k] # "absent"

RowsSure ==
    \A s \in Sagas : \A i \in Steps(s) :
        step[s][i] \in Sure => phase[Fwd(s, i)] = "confirmed"

SagasFailed == \A s \in Sagas : saga[s] \in UndoSagas => Failed(s)

CallSure(v) ==
    /\ v.pc \in {"enqueue", "bind"} => May(v.item)
    /\ v.pc \in {"bind", "sync", "settle"} => phase[v.item] # "absent"
    /\ v.pc = "settle" =>
          /\ v.is \in Sure => phase[Fwd(v.item.saga, v.item.step)] = "confirmed"
          /\ v.saga \in UndoSagas => Failed(v.item.saga)
    /\ v.pc = "prepare" =>
          /\ Failed(v.of)
          /\ \A i \in v.steps : i \in Steps(v.of) /\ phase[Fwd(v.of, i)] = "confirmed"

CallsSure == \A c \in Coordinators : call[c] # Idle => CallSure(call[c])

ForwardInv ==
    /\ SagaTypeOK /\ EffectsInAmbiguity
    /\ QueuedRightly /\ BoundRightly /\ RowsSure /\ SagasFailed /\ CallsSure

(* What the outbox has said it does not take back.                         *)
OutboxGrows ==
    \A k \in Items :
        /\ phase[k] \in {"confirmed", "refused"} => phase'[k] = phase[k]
        /\ phase[k] # "absent" => phase'[k] # "absent"

(* One intent makes one move.                                              *)
LEMMA MoveFacts ==
    ASSUME SagaTypeOK, NEW k \in Items, OutboxMove(k)
    PROVE  \E q \in Outbox!Phases, h \in {0, 1} :
               /\ Outbox!Moves(phase[k], happened[k], q, h)
               /\ phase' = [phase EXCEPT ![k] = q] /\ happened' = [happened EXCEPT ![k] = h]
               /\ phase[k] # "absent"
               /\ UNCHANGED <<saga, step, bound, spend, aged, call, alone>>
  BY DEF OutboxMove, tables, budget

LEMMA OutboxStep ==
    ASSUME SagaTypeOK, [SagaNext]_svars
    PROVE  /\ OutboxGrows
           /\ Outbox!LifecycleTypeOK'
  <1>. USE TypeFacts
  <1>1. CASE UNCHANGED outbox
    BY <1>1 DEF OutboxGrows, outbox, Outbox!LifecycleTypeOK
  <1>2. CASE \E k \in Items : OutboxMove(k)
    <2>1. PICK k \in Items, q \in Outbox!Phases, h \in {0, 1} :
              /\ Outbox!Moves(phase[k], happened[k], q, h)
              /\ phase' = [phase EXCEPT ![k] = q] /\ happened' = [happened EXCEPT ![k] = h]
              /\ phase[k] # "absent"
      BY <1>2, MoveFacts
    <2>. QED
      BY <2>1 DEF OutboxGrows, Outbox!Moves, Outbox!LifecycleTypeOK
  <1>3. CASE \E c \in Coordinators : QueueItem(c)
    <2>1. PICK c \in Coordinators : QueueItem(c)
      BY <1>3
    <2>2. call[c].item \in Items
      BY <2>1, CallAt, CallFields DEF QueueItem, At
    <2>. QED
      BY <2>1, <2>2 DEF QueueItem, Queue, OutboxGrows, Outbox!LifecycleTypeOK, Outbox!Phases
  <1>. QED
    BY <1>1, <1>2, <1>3
       DEF SagaNext, CoordinatorStep, Create, BeginEnqueue, BeginSync, BeginPrepare, Begins,
           BindItem, AskForward, AskCompensation, Asks, SettleForward, SettleCompensation,
           PrepareCompensation, Dies, WindowMoves, outbox, svars

(* What is true of an item, a saga or a call stays true.                   *)
LEMMA GrowthKeeps ==
    ASSUME SagaTypeOK, OutboxGrows
    PROVE  /\ \A s \in Sagas : Failed(s) => Failed(s)'
           /\ \A k \in Items : May(k) => May(k)'
           /\ \A v \in Call : CallSure(v) => CallSure(v)'
  <1>1. \A s \in Sagas, i \in 1..MAX_STEPS : i \in Steps(s) =>
            /\ phase[Fwd(s, i)] = "confirmed" => phase'[Fwd(s, i)] = "confirmed"
            /\ phase[Fwd(s, i)] = "refused" => phase'[Fwd(s, i)] = "refused"
    BY FwdFacts DEF OutboxGrows
  <1>2. \A s \in Sagas : Failed(s) => Failed(s)'
    BY <1>1, StepsAreNumbers DEF Failed
  <1>3. \A k \in Items : May(k) => May(k)'
    BY <1>1, <1>2, ItemFacts, StepsAreNumbers DEF May
  <1>4. ASSUME NEW v \in Call, CallSure(v) PROVE CallSure(v)'
    <2>1. v.pc \in {"enqueue", "bind"} => May(v.item)'
      BY <1>3, <1>4, CallFields DEF CallSure
    <2>2. v.pc \in {"bind", "sync", "settle"} => phase'[v.item] # "absent"
      BY <1>4, CallFields DEF CallSure, OutboxGrows
    <2>3. v.pc = "settle" =>
              /\ v.is \in Sure => phase'[Fwd(v.item.saga, v.item.step)] = "confirmed"
              /\ v.saga \in UndoSagas => Failed(v.item.saga)'
      BY <1>1, <1>2, <1>4, CallFields, ItemFacts, StepsAreNumbers DEF CallSure
    <2>4. v.pc = "prepare" =>
              /\ Failed(v.of)'
              /\ \A i \in v.steps : i \in Steps(v.of) /\ phase'[Fwd(v.of, i)] = "confirmed"
      BY <1>1, <1>2, <1>4, CallFields, StepsAreNumbers DEF CallSure
    <2>. QED
      BY <2>1, <2>2, <2>3, <2>4 DEF CallSure
  <1>. QED
    BY <1>2, <1>3, <1>4

LEMMA QueuedStep ==
    ASSUME ForwardInv, [SagaNext]_svars
    PROVE  QueuedRightly' /\ EffectsInAmbiguity'
  <1>. USE TypeFacts DEF ForwardInv
  <1>0. OutboxGrows /\ \A k \in Items : May(k) => May(k)'
    BY OutboxStep, GrowthKeeps
  <1>1. CASE UNCHANGED outbox
    BY <1>0, <1>1 DEF QueuedRightly, EffectsInAmbiguity, outbox
  <1>2. CASE \E k \in Items : OutboxMove(k)
    <2>1. PICK k \in Items, q \in Outbox!Phases, h \in {0, 1} :
              /\ Outbox!Moves(phase[k], happened[k], q, h)
              /\ phase' = [phase EXCEPT ![k] = q] /\ happened' = [happened EXCEPT ![k] = h]
              /\ phase[k] # "absent"
      BY <1>2, MoveFacts
    <2>2. \A j \in Items : phase'[j] # "absent" => phase[j] # "absent"
      BY <2>1
    <2>3. QueuedRightly'
      BY <1>0, <2>2 DEF QueuedRightly
    <2>4. EffectsInAmbiguity'
      BY <2>1 DEF EffectsInAmbiguity, Outbox!Moves
    <2>. QED
      BY <2>3, <2>4
  <1>3. CASE \E c \in Coordinators : QueueItem(c)
    <2>1. PICK c \in Coordinators : QueueItem(c)
      BY <1>3
    <2>2. call[c] # Idle /\ call[c].pc = "enqueue" /\ call[c].item \in Items
      BY <2>1, CallAt, CallFields DEF QueueItem, At
    <2>3. May(call[c].item)
      BY <2>2 DEF CallsSure, CallSure
    <2>4. /\ phase' = [phase EXCEPT ![call[c].item] = IF @ = "absent" THEN "queued" ELSE @]
          /\ happened' = happened
      BY <2>1 DEF QueueItem, Queue
    <2>5. QueuedRightly'
      BY <1>0, <2>2, <2>3, <2>4 DEF QueuedRightly
    <2>6. EffectsInAmbiguity'
      BY <2>2, <2>4 DEF EffectsInAmbiguity
    <2>. QED
      BY <2>5, <2>6
  <1>. QED
    BY <1>1, <1>2, <1>3
       DEF SagaNext, CoordinatorStep, Create, BeginEnqueue, BeginSync, BeginPrepare, Begins,
           BindItem, AskForward, AskCompensation, Asks, SettleForward, SettleCompensation,
           PrepareCompensation, Dies, WindowMoves, outbox, svars

-----------------------------------------------------------------------------
(* The rows that a transaction of the saga leaves.                         *)
TablesSure ==
    /\ saga \in [Sagas -> SAGA_STATES \cup {"ABSENT"}]
    /\ DOMAIN step = Sagas /\ \A s \in Sagas : step[s] \in [Steps(s) -> STEP_STATES]
    /\ bound \subseteq Items
    /\ BoundRightly /\ RowsSure /\ SagasFailed

LEMMA TablesKept ==
    ASSUME ForwardInv, OutboxGrows, UNCHANGED tables
    PROVE  TablesSure'
  <1>. USE TypeFacts DEF ForwardInv, tables
  <1>1. BoundRightly'
    BY DEF BoundRightly, OutboxGrows
  <1>2. RowsSure'
    BY FwdFacts DEF RowsSure, OutboxGrows
  <1>3. SagasFailed'
    BY GrowthKeeps DEF SagasFailed
  <1>. QED
    BY <1>1, <1>2, <1>3 DEF TablesSure

(* One row of a saga, and its steps, are rewritten.                        *)
LEMMA TablesRewritten ==
    ASSUME ForwardInv, UNCHANGED phase,
           NEW s \in Sagas, NEW state \in SAGA_STATES \cup {"ABSENT"},
           NEW rows \in [Steps(s) -> STEP_STATES],
           saga' = [saga EXCEPT ![s] = state], step' = [step EXCEPT ![s] = rows],
           bound' \subseteq Items, \A k \in bound' : phase[k] # "absent",
           \A i \in Steps(s) : rows[i] \in Sure => phase[Fwd(s, i)] = "confirmed",
           state \in UndoSagas => Failed(s)
    PROVE  TablesSure'
  <1>. USE TypeFacts DEF ForwardInv
  <1>1. BoundRightly'
    BY DEF BoundRightly
  <1>2. step'[s] = rows /\ DOMAIN step' = Sagas /\ \A t \in Sagas : t # s => step'[t] = step[t]
    OBVIOUS
  <1>3. \A t \in Sagas : step'[t] \in [Steps(t) -> STEP_STATES]
    BY <1>2
  <1>4. RowsSure'
    BY <1>2 DEF RowsSure
  <1>5. SagasFailed'
    BY DEF SagasFailed, Failed
  <1>6. saga' \in [Sagas -> SAGA_STATES \cup {"ABSENT"}]
    OBVIOUS
  <1>. QED
    BY <1>1, <1>2, <1>3, <1>4, <1>5, <1>6 DEF TablesSure

LEMMA TablesStep ==
    ASSUME ForwardInv, [SagaNext]_svars
    PROVE  TablesSure'
  <1>. USE TypeFacts DEF ForwardInv
  <1>0. OutboxGrows
    BY OutboxStep
  <1>1. CASE UNCHANGED tables
    BY <1>0, <1>1, TablesKept
  <1>2. ASSUME NEW s \in Sagas, Create(s) PROVE TablesSure'
    <2>1. /\ saga' = [saga EXCEPT ![s] = "PLANNED"]
          /\ step' = step /\ bound' = bound /\ phase' = phase
      BY <1>2 DEF Create, SetSaga, outbox
    <2>2. "PLANNED" \in SAGA_STATES \cup {"ABSENT"} /\ "PLANNED" \notin UndoSagas
      BY DEF SAGA_STATES, UndoSagas
    <2>3. SagasFailed'
      BY <2>1, <2>2 DEF SagasFailed, Failed
    <2>. QED
      BY <2>1, <2>2, <2>3 DEF TablesSure, BoundRightly, RowsSure
  <1>3. ASSUME NEW c \in Coordinators, BindItem(c) PROVE TablesSure'
    <2>. DEFINE k == call[c].item
                s == k.saga
                i == k.step
    <2>1. call[c] # Idle /\ call[c].pc = "bind" /\ k \in Items /\ s \in Sagas /\ i \in Steps(s)
      BY <1>3, CallAt, CallFields, ItemFacts DEF BindItem, At
    <2>2. May(k) /\ phase[k] # "absent"
      BY <2>1 DEF CallsSure, CallSure
    <2>3. bound' = bound \cup {k} /\ phase' = phase
      BY <1>3 DEF BindItem, outbox
    <2>4. bound' \subseteq Items /\ \A b \in bound' : phase[b] # "absent"
      BY <2>1, <2>2, <2>3 DEF BoundRightly
    <2>. HIDE DEF k
    <2>5. CASE k.dir = "forward"
      <3>1. saga' = [saga EXCEPT ![s] = "RUNNING"] /\ step' = [step EXCEPT ![s][i] = "ENQUEUED"]
        BY <1>3, <2>5 DEF BindItem, SetStep, SetSaga, k
      <3>2. "RUNNING" \in SAGA_STATES \cup {"ABSENT"} /\ "RUNNING" \notin UndoSagas
        BY DEF SAGA_STATES, UndoSagas
      <3>. DEFINE rows == [step[s] EXCEPT ![i] = "ENQUEUED"]
      <3>3. rows \in [Steps(s) -> STEP_STATES] /\ step' = [step EXCEPT ![s] = rows]
        BY <2>1, <3>1 DEF STEP_STATES
      <3>4. \A j \in Steps(s) : rows[j] \in Sure => phase[Fwd(s, j)] = "confirmed"
        BY <2>1 DEF RowsSure, Sure
      <3>. HIDE DEF rows
      <3>. QED
        BY <2>1, <2>3, <2>4, <3>1, <3>2, <3>3, <3>4, TablesRewritten
    <2>6. CASE k.dir # "forward"
      <3>1. saga' = saga /\ step' = [step EXCEPT ![s][i] = "COMPENSATION_ENQUEUED"]
        BY <1>3, <2>6 DEF BindItem, SetStep, k
      <3>2. saga' = [saga EXCEPT ![s] = saga[s]] /\ saga[s] \in SAGA_STATES \cup {"ABSENT"}
        BY <2>1, <3>1
      <3>3. phase[Fwd(s, i)] = "confirmed"
        BY <2>2, <2>6 DEF May
      <3>. DEFINE rows == [step[s] EXCEPT ![i] = "COMPENSATION_ENQUEUED"]
      <3>4. rows \in [Steps(s) -> STEP_STATES] /\ step' = [step EXCEPT ![s] = rows]
        BY <2>1, <3>1 DEF STEP_STATES
      <3>5. \A j \in Steps(s) : rows[j] \in Sure => phase[Fwd(s, j)] = "confirmed"
        BY <2>1, <3>3 DEF RowsSure
      <3>6. saga[s] \in UndoSagas => Failed(s)
        BY <2>1 DEF SagasFailed
      <3>. HIDE DEF rows
      <3>. QED
        BY <2>1, <2>3, <2>4, <3>2, <3>4, <3>5, <3>6, TablesRewritten
    <2>. QED
      BY <2>5, <2>6
  <1>4. ASSUME NEW c \in Coordinators, SettleForward(c) PROVE TablesSure'
    <2>. DEFINE v == call[c]
                s == v.item.saga
                i == v.item.step
                rows == [j \in Steps(s) |->
                  CASE j = i -> v.is
                    [] /\ v.saga = "MANUAL_INTERVENTION_REQUIRED"
                       /\ j < i /\ step[s][j] = "CONFIRMED" /\ j \notin Reversible[s]
                           -> "MANUAL_REQUIRED"
                    [] OTHER -> step[s][j]]
    <2>1. /\ v # Idle /\ v.pc = "settle" /\ s \in Sagas /\ i \in Steps(s)
          /\ v.is \in STEP_STATES /\ v.saga \in SAGA_STATES
      BY <1>4, CallAt, CallFields, ItemFacts DEF SettleForward, At
    <2>2. /\ v.is \in Sure => phase[Fwd(s, i)] = "confirmed"
          /\ v.saga \in UndoSagas => Failed(s)
      BY <2>1 DEF CallsSure, CallSure
    <2>3. saga' = [saga EXCEPT ![s] = v.saga] /\ bound' = bound /\ phase' = phase
      BY <1>4 DEF SettleForward, SetSaga, outbox
    <2>4. step' = [step EXCEPT ![s] = rows]
      BY <1>4, <2>1 DEF SettleForward
    <2>5. rows \in [Steps(s) -> STEP_STATES]
      BY <2>1 DEF STEP_STATES
    <2>6. \A j \in Steps(s) : rows[j] \in Sure => phase[Fwd(s, j)] = "confirmed"
      BY <2>1, <2>2 DEF RowsSure, Sure
    <2>7. \A b \in bound' : phase[b] # "absent"
      BY <2>3 DEF BoundRightly
    <2>. HIDE DEF rows, v
    <2>. QED
      BY <2>1, <2>2, <2>3, <2>4, <2>5, <2>6, <2>7, TablesRewritten
  <1>5. ASSUME NEW c \in Coordinators, PrepareCompensation(c) PROVE TablesSure'
    <2>. DEFINE v == call[c]
                s == v.of
                rows == [j \in Steps(s) |->
                             IF j \in v.steps THEN "COMPENSATION_PENDING" ELSE step[s][j]]
    <2>1. v # Idle /\ v.pc = "prepare" /\ s \in Sagas
      BY <1>5, CallAt, CallFields DEF PrepareCompensation, At
    <2>2. Failed(s) /\ \A j \in v.steps : phase[Fwd(s, j)] = "confirmed"
      BY <2>1 DEF CallsSure, CallSure
    <2>3. saga' = [saga EXCEPT ![s] = "COMPENSATING"] /\ bound' = bound /\ phase' = phase
      BY <1>5 DEF PrepareCompensation, SetSaga, outbox
    <2>4. step' = [step EXCEPT ![s] = rows]
      BY <1>5, <2>1 DEF PrepareCompensation
    <2>5. rows \in [Steps(s) -> STEP_STATES] /\ "COMPENSATING" \in SAGA_STATES \cup {"ABSENT"}
      BY <2>1 DEF STEP_STATES, SAGA_STATES
    <2>6. \A j \in Steps(s) : rows[j] \in Sure => phase[Fwd(s, j)] = "confirmed"
      BY <2>1, <2>2 DEF RowsSure
    <2>7. \A b \in bound' : phase[b] # "absent"
      BY <2>3 DEF BoundRightly
    <2>. HIDE DEF rows, v
    <2>. QED
      BY <2>1, <2>2, <2>3, <2>4, <2>5, <2>6, <2>7, TablesRewritten
  <1>6. ASSUME NEW c \in Coordinators, SettleCompensation(c) PROVE TablesSure'
    <2>. DEFINE v == call[c]
                s == v.item.saga
                i == v.item.step
                rows == [step[s] EXCEPT ![i] = v.is]
    <2>1. /\ v # Idle /\ v.pc = "settle" /\ s \in Sagas /\ i \in Steps(s)
          /\ v.is \in STEP_STATES /\ v.saga \in SAGA_STATES
      BY <1>6, CallAt, CallFields, ItemFacts DEF SettleCompensation, At
    <2>2. /\ v.is \in Sure => phase[Fwd(s, i)] = "confirmed"
          /\ v.saga \in UndoSagas => Failed(s)
      BY <2>1 DEF CallsSure, CallSure
    <2>3. /\ saga' = [saga EXCEPT ![s] = v.saga] /\ step' = [step EXCEPT ![s][i] = v.is]
          /\ bound' = bound /\ phase' = phase
      BY <1>6 DEF SettleCompensation, SetSaga, SetStep, outbox
    <2>4. rows \in [Steps(s) -> STEP_STATES] /\ step' = [step EXCEPT ![s] = rows]
      BY <2>1, <2>3
    <2>5. \A j \in Steps(s) : rows[j] \in Sure => phase[Fwd(s, j)] = "confirmed"
      BY <2>1, <2>2 DEF RowsSure
    <2>6. \A b \in bound' : phase[b] # "absent"
      BY <2>3 DEF BoundRightly
    <2>. HIDE DEF rows, v
    <2>. QED
      BY <2>1, <2>2, <2>3, <2>4, <2>5, <2>6, TablesRewritten
  <1>. QED
    BY <1>1, <1>2, <1>3, <1>4, <1>5, <1>6
       DEF SagaNext, CoordinatorStep, BeginEnqueue, BeginSync, BeginPrepare, Begins, QueueItem,
           AskForward, AskCompensation, Asks, Dies, WindowMoves, OutboxMove, tables, svars

-----------------------------------------------------------------------------
(* The call that each step of a coordinator makes or leaves.               *)
LEMMA EnqueueBegins ==
    ASSUME SagaTypeOK, NEW c \in Coordinators, NEW k \in Items, BeginEnqueue(c, k)
    PROVE  \E v \in Call : /\ v # Idle /\ v.pc = "enqueue" /\ v.item = k
                          /\ Begins(c, v)
  BY EnqueueMade DEF BeginEnqueue

LEMMA SyncBegins ==
    ASSUME SagaTypeOK, NEW c \in Coordinators, NEW k \in Items, BeginSync(c, k)
    PROVE  \E v \in Call :
               /\ v # Idle /\ v.pc = "sync" /\ v.item = k
               /\ k.dir = "forward" =>
                     /\ v.prior = {j \in In(k.saga, {"CONFIRMED"}) : j < k.step}
                     /\ v.open = \E j \in In(k.saga, {"PENDING"}) : j > k.step
               /\ k.dir # "forward" =>
                     v.open = (In(k.saga, {"COMPENSATION_PENDING"}) \ {k.step} # {})
               /\ Begins(c, v)
  <1>. DEFINE fwd == k.dir = "forward"
              prior == IF fwd THEN {j \in In(k.saga, {"CONFIRMED"}) : j < k.step} ELSE {}
              open == IF fwd THEN \E j \in In(k.saga, {"PENDING"}) : j > k.step
                      ELSE In(k.saga, {"COMPENSATION_PENDING"}) \ {k.step} # {}
              v == [pc |-> "sync", item |-> k, prior |-> prior, open |-> open]
  <1>1. k.saga \in Sagas
    BY ItemFacts
  <1>2. prior \in StepSet
    BY <1>1, ReadFits DEF StepSet
  <1>3. open \in BOOLEAN
    OBVIOUS
  <1>4. Begins(c, v)
    BY DEF BeginSync
  <1>5. /\ k.dir = "forward" => prior = {j \in In(k.saga, {"CONFIRMED"}) : j < k.step}
        /\ k.dir = "forward" => open = \E j \in In(k.saga, {"PENDING"}) : j > k.step
        /\ k.dir # "forward" => open = (In(k.saga, {"COMPENSATION_PENDING"}) \ {k.step} # {})
    OBVIOUS
  <1>. HIDE DEF prior, open
  <1>6. /\ v \in Call /\ v # Idle /\ v.pc = "sync" /\ v.item = k
        /\ v.prior = prior /\ v.open = open
    BY <1>2, <1>3, SyncMade
  <1>. QED
    BY <1>4, <1>5, <1>6

LEMMA PrepareBegins ==
    ASSUME SagaTypeOK, NEW c \in Coordinators, NEW s \in Sagas, BeginPrepare(c, s)
    PROVE  \E v \in Call : /\ v # Idle /\ v.pc = "prepare" /\ v.of = s
                          /\ v.steps = In(s, {"CONFIRMED"})
                          /\ Begins(c, v)
  BY PrepareMade, ReadFits DEF BeginPrepare

LEMMA QueueGoes ==
    ASSUME SagaTypeOK, NEW c \in Coordinators, QueueItem(c)
    PROVE  /\ call[c] \in Call /\ call[c] # Idle /\ call[c].pc = "enqueue"
           /\ \E v \in Call : /\ v # Idle /\ v.pc = "bind" /\ v.item = call[c].item
                             /\ Goes(c, v)
  BY CallAt, EnqueueMoved DEF QueueItem, At

LEMMA AskForwardGoes ==
    ASSUME ForwardInv, NEW c \in Coordinators, AskForward(c)
    PROVE  LET u == call[c]
               k == u.item
           IN  /\ u \in Call /\ u # Idle /\ u.pc = "sync" /\ k.dir = "forward"
               /\ phase[k] # "absent"
               /\ \E v \in Call : /\ v # Idle /\ v.pc = "settle" /\ v.item = k
                                 /\ v.is = ForwardStep(phase[k])
                                 /\ v.saga = AfterForward(k.saga, u, phase[k])
                                 /\ Goes(c, v)
  <1>. DEFINE u == call[c]
              k == u.item
  <1>1. u \in Call /\ u # Idle /\ u.pc = "sync" /\ k \in Items /\ k.dir = "forward"
    BY CallAt, CallFields DEF AskForward, Asks, At, ForwardInv
  <1>2. phase[k] # "absent" /\ phase[k] \in Outbox!Phases
    BY <1>1, TypeFacts DEF ForwardInv, CallsSure, CallSure
  <1>3. /\ ForwardStep(phase[k]) \in STEP_STATES
        /\ AfterForward(k.saga, u, phase[k]) \in SAGA_STATES
    BY <1>2 DEF ForwardStep, AfterForward, STEP_STATES, SAGA_STATES, Outbox!Phases
  <1>4. Goes(c, [pc |-> "settle", item |-> k, is |-> ForwardStep(phase[k]),
                 saga |-> AfterForward(k.saga, u, phase[k])])
    BY DEF AskForward
  <1>. HIDE DEF u, k
  <1>5. \E v \in Call : /\ v # Idle /\ v.pc = "settle" /\ v.item = k
                       /\ v.is = ForwardStep(phase[k])
                       /\ v.saga = AfterForward(k.saga, u, phase[k])
                       /\ Goes(c, v)
    BY <1>1, <1>3, <1>4, SettleMade
  <1>. QED
    BY <1>1, <1>2, <1>5 DEF u, k

LEMMA AskCompensationGoes ==
    ASSUME ForwardInv, NEW c \in Coordinators, AskCompensation(c)
    PROVE  LET u == call[c]
               k == u.item
           IN  /\ u \in Call /\ u # Idle /\ u.pc = "sync" /\ k \in Items /\ k.dir = "compensation"
               /\ \/ Goes(c, Idle)
                  \/ /\ phase[k] \in {"ambiguous", "confirmed", "refused"}
                     /\ \E v \in Call : /\ v # Idle /\ v.pc = "settle" /\ v.item = k
                                       /\ v.is = CompensationStep(phase[k])
                                       /\ v.saga = AfterCompensation(u, phase[k])
                                       /\ Goes(c, v)
  <1>. DEFINE u == call[c]
              k == u.item
  <1>1. u \in Call /\ u # Idle /\ u.pc = "sync" /\ k \in Items /\ k.dir = "compensation"
    BY CallAt, CallFields DEF AskCompensation, Asks, At, ForwardInv
  <1>2. phase[k] # "absent" /\ phase[k] \in Outbox!Phases
    BY <1>1, TypeFacts DEF ForwardInv, CallsSure, CallSure
  <1>3. CASE phase[k] \in {"queued", "retry"}
    BY <1>1, <1>3 DEF AskCompensation
  <1>4. CASE phase[k] \notin {"queued", "retry"}
    <2>1. phase[k] \in {"ambiguous", "confirmed", "refused"}
      BY <1>2, <1>4 DEF Outbox!Phases
    <2>2. /\ CompensationStep(phase[k]) \in STEP_STATES
          /\ AfterCompensation(u, phase[k]) \in SAGA_STATES
      BY <2>1 DEF CompensationStep, AfterCompensation, STEP_STATES, SAGA_STATES
    <2>3. Goes(c, [pc |-> "settle", item |-> k, is |-> CompensationStep(phase[k]),
                   saga |-> AfterCompensation(u, phase[k])])
      BY <1>4 DEF AskCompensation
    <2>. HIDE DEF u, k
    <2>4. \E v \in Call : /\ v # Idle /\ v.pc = "settle" /\ v.item = k
                         /\ v.is = CompensationStep(phase[k])
                         /\ v.saga = AfterCompensation(u, phase[k])
                         /\ Goes(c, v)
      BY <1>1, <2>2, <2>3, SettleMade
    <2>. QED
      BY <1>1, <2>1, <2>4 DEF u, k
  <1>. QED
    BY <1>3, <1>4

CallsOK == call \in [Coordinators -> Call \cup {Idle}] /\ CallsSure

LEMMA CallsKept ==
    ASSUME ForwardInv, OutboxGrows, call' = call
    PROVE  CallsOK'
  BY TypeFacts, CallAt, GrowthKeeps DEF ForwardInv, CallsOK, CallsSure

LEMMA OneCallMoves ==
    ASSUME ForwardInv, OutboxGrows, NEW c \in Coordinators, NEW v \in Call \cup {Idle},
           Goes(c, v), v # Idle => CallSure(v)'
    PROVE  CallsOK'
  <1>1. call' = [call EXCEPT ![c] = v] /\ call \in [Coordinators -> Call \cup {Idle}]
    BY TypeFacts DEF Goes, ForwardInv
  <1>2. ASSUME NEW d \in Coordinators PROVE (call[d] # Idle => CallSure(call[d]))'
    <2>1. CASE d = c
      BY <1>1, <2>1
    <2>2. CASE d # c
      <3>1. call'[d] = call[d]
        BY <1>1, <2>2
      <3>. QED
        BY <3>1, CallAt, GrowthKeeps DEF ForwardInv, CallsSure
    <2>. QED
      BY <2>1, <2>2
  <1>. QED
    BY <1>1, <1>2 DEF CallsOK, CallsSure

LEMMA CallsStep ==
    ASSUME ForwardInv, [SagaNext]_svars
    PROVE  CallsOK'
  <1>. USE DEF ForwardInv
  <1>0. OutboxGrows /\ \A v \in Call : CallSure(v) => CallSure(v)'
    BY OutboxStep, GrowthKeeps
  <1>1. CASE UNCHANGED call
    BY <1>0, <1>1, CallsKept
  <1>2. CASE \E c \in Coordinators : Goes(c, Idle)
    BY <1>0, <1>2, OneCallMoves
  <1>3. ASSUME NEW c \in Coordinators, NEW k \in Items, BeginEnqueue(c, k) PROVE CallsOK'
    <2>1. PICK v \in Call : v # Idle /\ v.pc = "enqueue" /\ v.item = k /\ Begins(c, v)
      BY <1>3, EnqueueBegins
    <2>2. k.saga \in Sagas /\ k.step \in Steps(k.saga) /\ Chosen(k)
      BY <1>3, ItemFacts DEF BeginEnqueue
    <2>3. CASE k.dir = "forward"
      <3>1. \A j \in Steps(k.saga) : j < k.step => step[k.saga][j] \in Sure
        BY <2>2, <2>3 DEF Chosen, NextForward, Sure
      <3>2. May(k)
        BY <2>2, <2>3, <3>1 DEF May, RowsSure
      <3>. QED
        BY <1>0, <2>1, <3>2, OneCallMoves DEF CallSure, Begins
    <2>4. CASE k.dir # "forward"
      <3>1. step[k.saga][k.step] \in Sure /\ saga[k.saga] \in UndoSagas
        BY <2>2, <2>4 DEF Chosen, NextCompensation, In, Sure, UndoSagas
      <3>2. May(k)
        BY <2>2, <2>4, <3>1 DEF May, RowsSure, SagasFailed
      <3>. QED
        BY <1>0, <2>1, <3>2, OneCallMoves DEF CallSure, Begins
    <2>. QED
      BY <2>3, <2>4
  <1>4. ASSUME NEW c \in Coordinators, NEW k \in Items, BeginSync(c, k) PROVE CallsOK'
    <2>1. PICK v \in Call : v # Idle /\ v.pc = "sync" /\ v.item = k /\ Begins(c, v)
      BY <1>4, SyncBegins
    <2>2. phase[k] # "absent"
      BY <1>4 DEF BeginSync, Syncs, BoundRightly
    <2>3. CallSure(v)
      BY <2>1, <2>2 DEF CallSure
    <2>. QED
      BY <1>0, <2>1, <2>3, OneCallMoves DEF Begins
  <1>5. ASSUME NEW c \in Coordinators, NEW s \in Sagas, BeginPrepare(c, s) PROVE CallsOK'
    <2>1. PICK v \in Call : /\ v # Idle /\ v.pc = "prepare" /\ v.of = s
                           /\ v.steps = In(s, {"CONFIRMED"}) /\ Begins(c, v)
      BY <1>5, PrepareBegins
    <2>2. Failed(s)
      BY <1>5 DEF BeginPrepare, SagasFailed, UndoSagas
    <2>3. \A i \in In(s, {"CONFIRMED"}) : i \in Steps(s) /\ phase[Fwd(s, i)] = "confirmed"
      BY DEF RowsSure, Sure, In
    <2>4. CallSure(v)
      BY <2>1, <2>2, <2>3 DEF CallSure
    <2>. QED
      BY <1>0, <2>1, <2>4, OneCallMoves DEF Begins
  <1>6. ASSUME NEW c \in Coordinators, QueueItem(c) PROVE CallsOK'
    <2>1. call[c] \in Call /\ call[c] # Idle /\ call[c].pc = "enqueue"
      BY <1>6, QueueGoes
    <2>2. PICK v \in Call : /\ v # Idle /\ v.pc = "bind" /\ v.item = call[c].item /\ Goes(c, v)
      BY <1>6, QueueGoes
    <2>3. May(v.item)' /\ v.item \in Items
      BY <1>0, <2>1, <2>2, CallFields, GrowthKeeps DEF CallsSure, CallSure
    <2>4. phase'[v.item] # "absent"
      BY <1>6, <2>2, <2>3, TypeFacts DEF QueueItem, Queue
    <2>5. CallSure(v)'
      BY <2>2, <2>3, <2>4 DEF CallSure
    <2>. QED
      BY <1>0, <2>2, <2>5, OneCallMoves
  <1>7. ASSUME NEW c \in Coordinators, AskForward(c) PROVE CallsOK'
    <2>. DEFINE u == call[c]
                k == u.item
    <2>1. u \in Call /\ u # Idle /\ u.pc = "sync" /\ k.dir = "forward" /\ phase[k] # "absent"
      BY <1>7, AskForwardGoes
    <2>2. PICK v \in Call : /\ v # Idle /\ v.pc = "settle" /\ v.item = k
                           /\ v.is = ForwardStep(phase[k])
                           /\ v.saga = AfterForward(k.saga, u, phase[k])
                           /\ Goes(c, v)
      BY <1>7, AskForwardGoes
    <2>3. k \in Items /\ phase[k] \in Outbox!Phases
      BY <2>1, CallFields, TypeFacts
    <2>4. v.is \in Sure => phase[k] = "confirmed"
      BY <2>1, <2>2, <2>3 DEF ForwardStep, Sure, Outbox!Phases
    <2>5. v.saga \in UndoSagas => phase[k] = "refused"
      BY <2>1, <2>2, <2>3 DEF AfterForward, UndoSagas, Outbox!Phases
    <2>. HIDE DEF k, u
    <2>6. k = Fwd(k.saga, k.step) /\ k.saga \in Sagas /\ k.step \in Steps(k.saga)
      BY <2>1, <2>3, ItemFacts
    <2>7. v.saga \in UndoSagas => Failed(k.saga)
      BY <2>5, <2>6 DEF Failed
    <2>8. CallSure(v)
      BY <2>1, <2>2, <2>4, <2>6, <2>7 DEF CallSure
    <2>. QED
      BY <1>0, <2>2, <2>8, OneCallMoves
  <1>8. ASSUME NEW c \in Coordinators, AskCompensation(c) PROVE CallsOK'
    <2>. DEFINE u == call[c]
                k == u.item
    <2>1. u \in Call /\ u # Idle /\ u.pc = "sync" /\ k \in Items /\ k.dir = "compensation"
      BY <1>8, AskCompensationGoes
    <2>2. phase[k] # "absent" /\ May(k)
      BY <2>1 DEF CallsSure, CallSure, QueuedRightly
    <2>3. phase[Fwd(k.saga, k.step)] = "confirmed" /\ Failed(k.saga)
      BY <2>1, <2>2 DEF May
    <2>4. CASE Goes(c, Idle)
      BY <1>0, <2>4, OneCallMoves
    <2>5. CASE ~Goes(c, Idle)
      <3>1. PICK v \in Call : v # Idle /\ v.pc = "settle" /\ v.item = k /\ Goes(c, v)
        BY <1>8, <2>5, AskCompensationGoes
      <3>2. CallSure(v)
        BY <2>2, <2>3, <3>1 DEF CallSure
      <3>. QED
        BY <1>0, <3>1, <3>2, OneCallMoves
    <2>. QED
      BY <2>4, <2>5
  <1>. QED
    BY <1>1, <1>2, <1>3, <1>4, <1>5, <1>6, <1>7, <1>8
       DEF SagaNext, CoordinatorStep, Create, BindItem, SettleForward, SettleCompensation,
           PrepareCompensation, Dies, WindowMoves, OutboxMove, svars

LEMMA SpendStep ==
    ASSUME ForwardInv, [SagaNext]_svars
    PROVE  spend' \subseteq Items /\ aged' \subseteq spend' /\ alone' \in BOOLEAN
  <1>. USE TypeFacts DEF ForwardInv
  <1>1. CASE UNCHANGED budget
    BY <1>1
       DEF SagaNext, CoordinatorStep, Create, BeginEnqueue, BeginSync, BeginPrepare, Begins,
           QueueItem, BindItem, AskForward, AskCompensation, Asks, SettleForward,
           SettleCompensation, PrepareCompensation, Dies, WindowMoves, OutboxMove, budget, svars
  <1>2. CASE \E k \in Items : WindowMoves(k)
    BY <1>2 DEF WindowMoves, InWindow
  <1>3. CASE \E c \in Coordinators : Asks(c)
    <2>1. PICK c \in Coordinators : Asks(c)
      BY <1>3
    <2>2. call[c].item \in Items
      BY <2>1, CallAt, CallFields DEF Asks, At
    <2>. QED
      BY <2>1, <2>2 DEF Asks, RecordConfirmed
  <1>. QED
    BY <1>1, <1>2, <1>3
       DEF SagaNext, CoordinatorStep, Create, BeginEnqueue, BeginSync, BeginPrepare, Begins,
           QueueItem, BindItem, AskForward, AskCompensation, SettleForward,
           SettleCompensation, PrepareCompensation, Dies, OutboxMove, svars

LEMMA ForwardInit == SagaInit => ForwardInv
  <1>. SUFFICES ASSUME SagaInit PROVE ForwardInv
    OBVIOUS
  <1>1. SagaTypeOK
    BY DEF SagaInit, SagaTypeOK, Outbox!LifecycleInit, Outbox!LifecycleTypeOK, Outbox!Phases, STEP_STATES
  <1>. QED
    BY <1>1
       DEF ForwardInv, SagaInit, Outbox!LifecycleInit, EffectsInAmbiguity, QueuedRightly,
           BoundRightly, RowsSure, SagasFailed, CallsSure, Sure, UndoSagas

LEMMA ForwardKept == ForwardInv /\ [SagaNext]_svars => ForwardInv'
  <1>. SUFFICES ASSUME ForwardInv, [SagaNext]_svars PROVE ForwardInv'
    OBVIOUS
  <1>1. Outbox!LifecycleTypeOK' /\ QueuedRightly' /\ EffectsInAmbiguity'
    BY OutboxStep, QueuedStep DEF ForwardInv
  <1>2. TablesSure' /\ CallsOK'
    BY TablesStep, CallsStep
  <1>3. spend' \subseteq Items /\ aged' \subseteq spend' /\ alone' \in BOOLEAN
    BY SpendStep
  <1>4. SagaTypeOK'
    BY <1>1, <1>2, <1>3 DEF SagaTypeOK, TablesSure, CallsOK
  <1>. QED
    BY <1>1, <1>2, <1>4 DEF ForwardInv, TablesSure, CallsOK

LEMMA ForwardHolds == SagaSpec => []ForwardInv
  BY ForwardInit, ForwardKept, PTL DEF SagaSpec

(* Tables, calls and the outbox keep their types, for any sagas, any       *)
(* number of coordinators and any budget.                                  *)
THEOREM SagaTypeCorrect == SagaSpec => []SagaTypeOK
  <1>1. ForwardInv => SagaTypeOK
    BY DEF ForwardInv
  <1>. QED
    BY <1>1, ForwardHolds, PTL

-----------------------------------------------------------------------------
(* As long as no saga is in two calls at once.  A row is open for its      *)
(* forward item, or for its compensation; it is over when its forward item *)
(* was confirmed.                                                          *)
Undoes(s, i) == Cmp(s, i) \in bound

ForwardOpen(s, i) ==
    \/ step[s][i] \in {"ENQUEUED", "RETRY"}
    \/ step[s][i] = "UNCERTAIN" /\ ~Undoes(s, i)

UndoOpen(s, i) ==
    \/ step[s][i] = "COMPENSATION_ENQUEUED"
    \/ step[s][i] = "UNCERTAIN" /\ Undoes(s, i)

UndoRow(s, i) ==
    \/ UndoOpen(s, i)
    \/ step[s][i] \in {"COMPENSATION_PENDING", "COMPENSATED", "COMPENSATION_FAILED"}

OverRow(s, i) == UndoRow(s, i) \/ step[s][i] \in {"CONFIRMED", "MANUAL_REQUIRED"}

Refused(s) == \E n \in Steps(s) : step[s][n] = "REFUSED"

(* Steps are over up to a first one that is not; at most one row is open;  *)
(* compensations were queued from the last one down.                       *)
RowsInOrder(s) ==
    \A i \in Steps(s) :
        /\ step[s][i] # "PENDING" => \A j \in Steps(s) : j < i => OverRow(s, j)
        /\ step[s][i] = "REFUSED" => phase[Fwd(s, i)] = "refused"
        /\ step[s][i] \in {"COMPENSATION_ENQUEUED", "COMPENSATED", "COMPENSATION_FAILED"} =>
               i \in Reversible[s] /\ Undoes(s, i)
        /\ step[s][i] = "COMPENSATED" => phase[Cmp(s, i)] = "confirmed"
        /\ UndoRow(s, i) =>
               Refused(s) /\ \A j \in Steps(s) : step[s][j] \notin {"CONFIRMED", "MANUAL_REQUIRED"}

UndoneInOrder(s) ==
    \A i \in Reversible[s] : phase[Cmp(s, i)] # "absent" =>
        /\ UndoRow(s, i)
        /\ \A j \in Steps(s) : j > i /\ OverRow(s, j) => step[s][j] = "COMPENSATED"

(* What the state of the saga says of its rows.                            *)
SagaTells(s) ==
    /\ \A i \in Steps(s) :
           /\ step[s][i] = "MANUAL_REQUIRED" => Refused(s) /\ saga[s] = "MANUAL_INTERVENTION_REQUIRED"
           /\ step[s][i] = "UNCERTAIN" => saga[s] = "RECONCILIATION_REQUIRED"
    /\ saga[s] = "COMPLETED" => \A i \in Steps(s) : step[s][i] = "CONFIRMED"
    /\ saga[s] = "COMPENSATED" =>
           Refused(s) /\ \A i \in Steps(s) : OverRow(s, i) => step[s][i] = "COMPENSATED"
    /\ saga[s] = "FAILED" => step[s][1] = "REFUSED"
    /\ saga[s] = "COMPENSATION_REQUIRED" => Refused(s) /\ \A i \in Steps(s) : ~UndoRow(s, i)
    /\ saga[s] = "COMPENSATING" => \E i \in Steps(s) : UndoRow(s, i)

RowInv(s) == RowsInOrder(s) /\ UndoneInOrder(s) /\ SagaTells(s)

(* A call that is not overtaken still finds what it read.                  *)
ForwardSettle(s, i, v) ==
    /\ ForwardOpen(s, i)
    /\ \/ v.is \in {"ENQUEUED", "RETRY"} /\ v.saga = "RUNNING"
       \/ v.is = "UNCERTAIN" /\ v.saga = "RECONCILIATION_REQUIRED"
       \/ v.is = "CONFIRMED" /\ v.saga = "RUNNING"
       \/ /\ v.is = "CONFIRMED" /\ v.saga = "COMPLETED"
          /\ \A j \in Steps(s) : j > i => step[s][j] # "PENDING"
       \/ /\ v.is = "REFUSED" /\ phase[Fwd(s, i)] = "refused"
          /\ v.saga \in {"MANUAL_INTERVENTION_REQUIRED", "COMPENSATION_REQUIRED", "FAILED"}
          /\ v.saga = "FAILED" => \A j \in Steps(s) : j < i => step[s][j] # "CONFIRMED"

UndoSettle(s, i, v) ==
    /\ UndoOpen(s, i) /\ Undoes(s, i)
    /\ \/ v.is = "UNCERTAIN" /\ v.saga = "RECONCILIATION_REQUIRED"
       \/ v.is = "COMPENSATION_FAILED" /\ v.saga = "MANUAL_INTERVENTION_REQUIRED"
       \/ v.is = "COMPENSATED" /\ v.saga = "COMPENSATING" /\ phase[Cmp(s, i)] = "confirmed"
       \/ /\ v.is = "COMPENSATED" /\ v.saga = "COMPENSATED" /\ phase[Cmp(s, i)] = "confirmed"
          /\ \A j \in Steps(s) : j # i => step[s][j] # "COMPENSATION_PENDING"

SyncReads(s, i, v) ==
    /\ v.item.dir = "forward" =>
          /\ ForwardOpen(s, i)
          /\ v.prior = {j \in In(s, {"CONFIRMED"}) : j < i}
          /\ v.open = \E j \in In(s, {"PENDING"}) : j > i
    /\ v.item.dir # "forward" =>
          /\ UndoOpen(s, i) /\ Undoes(s, i)
          /\ v.open = (In(s, {"COMPENSATION_PENDING"}) \ {i} # {})

SettleReads(s, i, v) ==
    /\ v.item.dir = "forward" => ForwardSettle(s, i, v)
    /\ v.item.dir # "forward" => UndoSettle(s, i, v)

CallInv(v) ==
    /\ v.pc \in {"enqueue", "bind"} => Chosen(v.item)
    /\ v.pc = "sync" => SyncReads(v.item.saga, v.item.step, v)
    /\ v.pc = "settle" => SettleReads(v.item.saga, v.item.step, v)
    /\ v.pc = "prepare" =>
          /\ saga[v.of] = "COMPENSATION_REQUIRED"
          /\ v.steps = In(v.of, {"CONFIRMED"}) /\ v.steps # {} /\ v.steps \subseteq Reversible[v.of]

RowsAlone == \A s \in Sagas : RowInv(s)

CallsAlone == \A c \in Coordinators : call[c] # Idle => CallInv(call[c])

OneCallEach ==
    \A c, d \in Coordinators : c # d /\ call[c] # Idle /\ call[d] # Idle =>
        SagaOf(call[c]) # SagaOf(call[d])

AloneInv == RowsAlone /\ CallsAlone /\ OneCallEach

(* The step that is open for its forward item stands between confirmed and *)
(* pending ones; the one that is open for its compensation, between        *)
(* pending and settled ones.                                               *)
LEMMA ForwardOpenRows ==
    ASSUME ForwardInv, NEW s \in Sagas, NEW i \in Steps(s), RowInv(s),
           ForwardOpen(s, i) \/ (step[s][i] = "PENDING" /\ ~Refused(s))
    PROVE  /\ \A j \in Steps(s) : j > i => step[s][j] = "PENDING"
           /\ ~Refused(s) /\ \A j \in Steps(s) : ~UndoRow(s, j)
           /\ \A j \in Steps(s) : step[s][j] # "MANUAL_REQUIRED"
           /\ \A j \in Reversible[s] : phase[Cmp(s, j)] = "absent" /\ ~Undoes(s, j)
           /\ ForwardOpen(s, i) => \A j \in Steps(s) : j < i => step[s][j] = "CONFIRMED"
           /\ ForwardOpen(s, i) => \A j \in Steps(s) : step[s][j] = "UNCERTAIN" => j = i
  <1>. USE StepsAreNumbers
  <1>1. ~OverRow(s, i)
    BY DEF ForwardOpen, OverRow, UndoRow, UndoOpen
  <1>2. \A j \in Steps(s) : j > i => step[s][j] = "PENDING"
    BY <1>1 DEF RowInv, RowsInOrder
  <1>3. ~Refused(s)
    <2>. SUFFICES ASSUME ForwardOpen(s, i) PROVE ~Refused(s)
      OBVIOUS
    <2>1. \A n \in Steps(s) : n < i => OverRow(s, n)
      BY DEF RowInv, RowsInOrder, ForwardOpen
    <2>2. \A n \in Steps(s) : step[s][n] = "REFUSED" => ~OverRow(s, n)
      BY DEF OverRow, UndoRow, UndoOpen
    <2>3. step[s][i] # "REFUSED"
      BY DEF ForwardOpen
    <2>4. \A n \in Steps(s) : n < i \/ n = i \/ n > i
      OBVIOUS
    <2>. QED
      BY <1>2, <2>1, <2>2, <2>3, <2>4 DEF Refused
  <1>4. \A j \in Steps(s) : ~UndoRow(s, j)
    BY <1>3 DEF RowInv, RowsInOrder
  <1>5. \A j \in Steps(s) : step[s][j] # "MANUAL_REQUIRED"
    BY <1>3 DEF RowInv, SagaTells
  <1>6. \A j \in Reversible[s] : phase[Cmp(s, j)] = "absent" /\ ~Undoes(s, j)
    BY <1>4 DEF RowInv, UndoneInOrder, ForwardInv, BoundRightly, Undoes
  <1>7. ForwardOpen(s, i) => \A j \in Steps(s) : j < i => step[s][j] = "CONFIRMED"
    <2>1. ForwardOpen(s, i) => \A j \in Steps(s) : j < i => OverRow(s, j)
      BY DEF RowInv, RowsInOrder, ForwardOpen
    <2>. QED
      BY <1>4, <1>5, <2>1 DEF OverRow
  <1>8. ForwardOpen(s, i) => \A j \in Steps(s) : step[s][j] = "UNCERTAIN" => j = i
    BY <1>2, <1>7
  <1>. QED
    BY <1>2, <1>3, <1>4, <1>5, <1>6, <1>7, <1>8

LEMMA UndoOpenRows ==
    ASSUME ForwardInv, NEW s \in Sagas, NEW i \in Reversible[s], RowInv(s),
           UndoOpen(s, i), Undoes(s, i)
    PROVE  /\ Refused(s)
           /\ \A j \in Steps(s) : step[s][j] \notin {"CONFIRMED", "MANUAL_REQUIRED"}
           /\ \A j \in Steps(s) : j > i /\ OverRow(s, j) => step[s][j] = "COMPENSATED"
           /\ \A j \in Steps(s) : j < i => step[s][j] = "COMPENSATION_PENDING"
           /\ \A j \in Reversible[s] : j < i => phase[Cmp(s, j)] = "absent"
           /\ \A j \in Steps(s) : step[s][j] = "UNCERTAIN" => j = i
  <1>. USE StepsAreNumbers
  <1>1. i \in Steps(s) /\ UndoRow(s, i) /\ OverRow(s, i)
    BY DEF UndoRow, OverRow
  <1>2. /\ Refused(s)
        /\ \A j \in Steps(s) : step[s][j] \notin {"CONFIRMED", "MANUAL_REQUIRED"}
    BY <1>1 DEF RowInv, RowsInOrder
  <1>3. phase[Cmp(s, i)] # "absent"
    BY DEF Undoes, ForwardInv, BoundRightly
  <1>4. \A j \in Steps(s) : j > i /\ OverRow(s, j) => step[s][j] = "COMPENSATED"
    BY <1>3 DEF RowInv, UndoneInOrder
  <1>5. step[s][i] # "COMPENSATED"
    BY DEF UndoOpen
  <1>6. \A j \in Reversible[s] : j < i => phase[Cmp(s, j)] = "absent"
    BY <1>1, <1>5 DEF RowInv, UndoneInOrder
  <1>7. ASSUME NEW j \in Steps(s), j < i PROVE step[s][j] = "COMPENSATION_PENDING"
    <2>1. UndoRow(s, j)
      <3>1. OverRow(s, j)
        BY <1>1, <1>7 DEF RowInv, RowsInOrder, UndoOpen
      <3>. QED
        BY <1>2, <3>1 DEF OverRow
    <2>2. ~Undoes(s, j)
      <3>. SUFFICES ASSUME Undoes(s, j) PROVE FALSE
        OBVIOUS
      <3>1. Cmp(s, j) \in Items
        BY TypeFacts DEF Undoes, ForwardInv
      <3>2. j \in Reversible[s]
        BY <3>1, ItemFacts DEF Cmp, Item
      <3>. QED
        BY <1>6, <1>7, <3>2 DEF Undoes, ForwardInv, BoundRightly
    <2>. QED
      BY <2>1, <2>2 DEF UndoRow, UndoOpen, RowInv, RowsInOrder
  <1>8. \A j \in Steps(s) : step[s][j] = "UNCERTAIN" => j = i
    <2>. SUFFICES ASSUME NEW j \in Steps(s), step[s][j] = "UNCERTAIN", j > i PROVE FALSE
      BY <1>1, <1>7
    <2>1. CASE Undoes(s, j)
      BY <1>4, <2>1 DEF OverRow, UndoRow, UndoOpen
    <2>2. CASE ~Undoes(s, j)
      BY <1>2, <2>2, ForwardOpenRows DEF ForwardOpen
    <2>. QED
      BY <2>1, <2>2
  <1>. QED
    BY <1>2, <1>4, <1>6, <1>7, <1>8

-----------------------------------------------------------------------------
(* A step that has nothing to do with a saga keeps what is known of it.    *)
SagaStays(s) ==
    /\ step'[s] = step[s] /\ saga'[s] = saga[s]
    /\ \A i \in Steps(s) : Undoes(s, i)' = Undoes(s, i)

NoneQueued(s) ==
    \A i \in Reversible[s] : phase'[Cmp(s, i)] # "absent" => phase[Cmp(s, i)] # "absent"

LEMMA RowFrame ==
    ASSUME ForwardInv, OutboxGrows, NEW s \in Sagas, RowInv(s), SagaStays(s), NoneQueued(s)
    PROVE  RowInv(s)'
  <1>. USE StepsAreNumbers
  <1>1. \A i \in Steps(s) : /\ UndoOpen(s, i)' = UndoOpen(s, i)
                            /\ UndoRow(s, i)' = UndoRow(s, i)
                            /\ OverRow(s, i)' = OverRow(s, i)
    BY DEF SagaStays, UndoOpen, UndoRow, OverRow
  <1>2. Refused(s)' = Refused(s)
    BY DEF SagaStays, Refused
  <1>3. RowsInOrder(s)'
    <2>1. \A i \in Steps(s) : step[s][i] = "REFUSED" => phase'[Fwd(s, i)] = "refused"
      BY FwdFacts DEF OutboxGrows, RowInv, RowsInOrder
    <2>2. \A i \in Steps(s) : step[s][i] = "COMPENSATED" => phase'[Cmp(s, i)] = "confirmed"
      BY CmpFacts DEF OutboxGrows, RowInv, RowsInOrder
    <2>. QED
      BY <1>1, <1>2, <2>1, <2>2 DEF RowInv, RowsInOrder, SagaStays
  <1>4. UndoneInOrder(s)'
    BY <1>1 DEF RowInv, UndoneInOrder, SagaStays, NoneQueued
  <1>5. SagaTells(s)'
    BY <1>1, <1>2 DEF RowInv, SagaTells, SagaStays
  <1>. QED
    BY <1>3, <1>4, <1>5 DEF RowInv

LEMMA CallFrame ==
    ASSUME ForwardInv, OutboxGrows, NEW v \in Call, CallInv(v), SagaStays(SagaOf(v))
    PROVE  CallInv(v)'
  <1>. USE StepsAreNumbers
  <1>. DEFINE s == v.item.saga
              i == v.item.step
  <1>1. CASE v.pc = "prepare"
    <2>1. SagaOf(v) = v.of /\ step'[v.of] = step[v.of] /\ saga'[v.of] = saga[v.of]
      BY <1>1 DEF SagaOf, SagaStays
    <2>2. In(v.of, {"CONFIRMED"})' = In(v.of, {"CONFIRMED"})
      BY <2>1 DEF In
    <2>. QED
      BY <1>1, <2>1, <2>2 DEF CallInv
  <1>2. CASE v.pc # "prepare"
    <2>1. /\ v.item \in Items /\ s \in Sagas /\ i \in Steps(s)
          /\ v.item.dir # "forward" => v.item = Cmp(s, i) /\ i \in Reversible[s]
      BY <1>2, CallFields, ItemFacts
    <2>2. SagaStays(s)
      BY <1>2 DEF SagaOf
    <2>. HIDE DEF s, i
    <2>3. /\ Undoes(s, i)' = Undoes(s, i) /\ step'[s] = step[s] /\ saga'[s] = saga[s]
          /\ ForwardOpen(s, i)' = ForwardOpen(s, i) /\ UndoOpen(s, i)' = UndoOpen(s, i)
      BY <2>1, <2>2 DEF SagaStays, ForwardOpen, UndoOpen
    <2>4. In(s, {"CONFIRMED"})' = In(s, {"CONFIRMED"}) /\ In(s, {"PENDING"})' = In(s, {"PENDING"})
          /\ In(s, {"COMPENSATION_PENDING"})' = In(s, {"COMPENSATION_PENDING"})
      BY <2>3 DEF In
    <2>5. CASE v.pc \in {"enqueue", "bind"}
      <3>1. Chosen(v.item)
        BY <2>5 DEF CallInv
      <3>2. Chosen(v.item)'
        BY <2>3, <3>1 DEF Chosen, NextForward, NextCompensation, In, s, i
      <3>. QED
        BY <2>5, <3>2 DEF CallInv
    <2>6. CASE v.pc = "sync"
      <3>1. SyncReads(s, i, v)
        BY <2>6 DEF CallInv, s, i
      <3>2. SyncReads(s, i, v)'
        BY <2>3, <2>4, <3>1 DEF SyncReads
      <3>. QED
        BY <2>6, <3>2 DEF CallInv, s, i
    <2>7. CASE v.pc = "settle"
      <3>1. SettleReads(s, i, v)
        BY <2>7 DEF CallInv, s, i
      <3>2. phase[Fwd(s, i)] = "refused" => phase'[Fwd(s, i)] = "refused"
        BY <2>1, FwdFacts DEF OutboxGrows
      <3>3. v.item.dir # "forward" /\ phase[Cmp(s, i)] = "confirmed" => phase'[Cmp(s, i)] = "confirmed"
        BY <2>1 DEF OutboxGrows
      <3>4. v.item.dir = "forward" => ForwardSettle(s, i, v)'
        BY <2>3, <3>1, <3>2 DEF SettleReads, ForwardSettle
      <3>5. v.item.dir # "forward" => UndoSettle(s, i, v)'
        BY <2>3, <3>1, <3>3 DEF SettleReads, UndoSettle
      <3>6. SettleReads(s, i, v)'
        BY <3>4, <3>5 DEF SettleReads
      <3>. QED
        BY <2>7, <3>6 DEF CallInv, s, i
    <2>. QED
      BY <1>2, <2>5, <2>6, <2>7, CallFields DEF CallInv
  <1>. QED
    BY <1>1, <1>2

(* A call goes on, or ends, on its own saga.                               *)
LEMMA OthersStay ==
    ASSUME ForwardInv, OutboxGrows, AloneInv,
           NEW c \in Coordinators, call[c] # Idle, NEW v \in Call \cup {Idle}, Goes(c, v),
           NEW s \in Sagas, SagaOf(call[c]) = s, v # Idle => SagaOf(v) = s,
           \A t \in Sagas : t # s => SagaStays(t) /\ NoneQueued(t),
           RowInv(s)', v # Idle => CallInv(v)'
    PROVE  AloneInv'
  <1>1. call' = [call EXCEPT ![c] = v] /\ call \in [Coordinators -> Call \cup {Idle}]
    BY TypeFacts DEF Goes, ForwardInv
  <1>2. RowsAlone'
    BY RowFrame DEF AloneInv, RowsAlone
  <1>3. ASSUME NEW d \in Coordinators PROVE (call[d] # Idle => CallInv(call[d]))'
    <2>1. CASE d = c
      BY <1>1, <2>1
    <2>2. CASE d # c /\ call[d] # Idle
      <3>1. call'[d] = call[d] /\ call[d] \in Call
        BY <1>1, <2>2
      <3>2. SagaOf(call[d]) \in Sagas \ {s}
        BY <2>2, <3>1, CallFields DEF AloneInv, OneCallEach
      <3>3. CallInv(call[d])
        BY <2>2 DEF AloneInv, CallsAlone
      <3>. QED
        BY <3>1, <3>2, <3>3, CallFrame
    <2>3. CASE d # c /\ call[d] = Idle
      BY <1>1, <2>3
    <2>. QED
      BY <2>1, <2>2, <2>3
  <1>4. OneCallEach'
    <2>1. \A d \in Coordinators : call'[d] # Idle => call[d] # Idle /\ SagaOf(call'[d]) = SagaOf(call[d])
      BY <1>1
    <2>. QED
      BY <2>1 DEF AloneInv, OneCallEach, SagaOf
  <1>. QED
    BY <1>2, <1>3, <1>4 DEF AloneInv, CallsAlone

(* A call begins.                                                          *)
LEMMA CallBegins ==
    ASSUME ForwardInv, OutboxGrows, AloneInv, alone',
           NEW c \in Coordinators, NEW v \in Call, v # Idle, Begins(c, v), CallInv(v)
    PROVE  AloneInv'
  <1>1. call' = [call EXCEPT ![c] = v] /\ call \in [Coordinators -> Call \cup {Idle}]
    BY TypeFacts DEF Begins, Goes, ForwardInv
  <1>2. /\ UNCHANGED <<saga, step, bound, phase>>
        /\ \A d \in Coordinators : call[d] # Idle => SagaOf(call[d]) # SagaOf(v)
    BY DEF Begins, tables, outbox
  <1>3. \A t \in Sagas : SagaStays(t) /\ NoneQueued(t)
    BY <1>2 DEF SagaStays, NoneQueued, Undoes
  <1>4. RowsAlone'
    BY <1>3, RowFrame DEF AloneInv, RowsAlone
  <1>5. ASSUME NEW d \in Coordinators PROVE (call[d] # Idle => CallInv(call[d]))'
    <2>1. CASE d = c
      BY <1>1, <1>3, <2>1, CallFrame, CallFields
    <2>2. CASE d # c /\ call[d] # Idle
      <3>1. call'[d] = call[d] /\ call[d] \in Call
        BY <1>1, <2>2
      <3>2. CallInv(call[d]) /\ SagaOf(call[d]) \in Sagas
        BY <2>2, <3>1, CallFields DEF AloneInv, CallsAlone
      <3>. QED
        BY <1>3, <3>1, <3>2, CallFrame
    <2>3. CASE d # c /\ call[d] = Idle
      BY <1>1, <2>3
    <2>. QED
      BY <2>1, <2>2, <2>3
  <1>6. OneCallEach'
    BY <1>1, <1>2 DEF AloneInv, OneCallEach, SagaOf
  <1>. QED
    BY <1>4, <1>5, <1>6 DEF AloneInv, CallsAlone

-----------------------------------------------------------------------------
(* The calls, one by one.                                                  *)
LEMMA BeginAlone ==
    ASSUME ForwardInv, OutboxGrows, AloneInv, alone', ~ReplaySync, NEW c \in Coordinators,
           \/ \E k \in Items : BeginEnqueue(c, k) \/ BeginSync(c, k)
           \/ \E s \in Sagas : BeginPrepare(c, s)
    PROVE  AloneInv'
  <1>. USE DEF ForwardInv
  <1>1. ASSUME NEW k \in Items, BeginEnqueue(c, k) PROVE AloneInv'
    <2>1. PICK v \in Call : v # Idle /\ v.pc = "enqueue" /\ v.item = k /\ Begins(c, v)
      BY <1>1, EnqueueBegins
    <2>2. CallInv(v)
      BY <1>1, <2>1 DEF BeginEnqueue, CallInv
    <2>. QED
      BY <2>1, <2>2, CallBegins
  <1>2. ASSUME NEW k \in Items, BeginSync(c, k) PROVE AloneInv'
    <2>1. PICK v \in Call :
              /\ v # Idle /\ v.pc = "sync" /\ v.item = k
              /\ k.dir = "forward" =>
                    /\ v.prior = {j \in In(k.saga, {"CONFIRMED"}) : j < k.step}
                    /\ v.open = \E j \in In(k.saga, {"PENDING"}) : j > k.step
              /\ k.dir # "forward" =>
                    v.open = (In(k.saga, {"COMPENSATION_PENDING"}) \ {k.step} # {})
              /\ Begins(c, v)
      BY <1>2, SyncBegins
    <2>2. /\ k.dir = "forward" => ForwardOpen(k.saga, k.step)
          /\ k.dir # "forward" => UndoOpen(k.saga, k.step) /\ Undoes(k.saga, k.step)
      BY <1>2, ItemFacts DEF BeginSync, Syncs, ForwardOpen, UndoOpen, Undoes, Cmp
    <2>3. SyncReads(k.saga, k.step, v)
      BY <2>1, <2>2 DEF SyncReads
    <2>4. CallInv(v)
      BY <2>1, <2>3 DEF CallInv
    <2>. QED
      BY <2>1, <2>4, CallBegins
  <1>3. ASSUME NEW s \in Sagas, BeginPrepare(c, s) PROVE AloneInv'
    <2>1. PICK v \in Call : /\ v # Idle /\ v.pc = "prepare" /\ v.of = s
                           /\ v.steps = In(s, {"CONFIRMED"}) /\ Begins(c, v)
      BY <1>3, PrepareBegins
    <2>2. CallInv(v)
      BY <1>3, <2>1 DEF BeginPrepare, CallInv
    <2>. QED
      BY <2>1, <2>2, CallBegins
  <1>. QED
    BY <1>1, <1>2, <1>3

LEMMA QueueAlone ==
    ASSUME ForwardInv, OutboxGrows, AloneInv, NEW c \in Coordinators, QueueItem(c)
    PROVE  AloneInv'
  <1>. USE StepsAreNumbers
  <1>0. PICK u \in Call : u = call[c]
    BY QueueGoes DEF ForwardInv
  <1>. DEFINE k == u.item
              s == k.saga
              i == k.step
  <1>1. u \in Call /\ u # Idle /\ u.pc = "enqueue"
    BY <1>0, QueueGoes DEF ForwardInv
  <1>2. PICK v \in Call : v # Idle /\ v.pc = "bind" /\ v.item = k /\ Goes(c, v)
    BY <1>0, QueueGoes DEF ForwardInv
  <1>3. /\ k \in Items /\ s \in Sagas /\ i \in Steps(s)
        /\ \/ k.dir = "forward" /\ k = Fwd(s, i)
           \/ k.dir = "compensation" /\ k = Cmp(s, i) /\ i \in Reversible[s]
    BY <1>1, CallFields, ItemFacts
  <1>4. Chosen(k) /\ RowInv(s)
    BY <1>0, <1>1, <1>3 DEF AloneInv, CallsAlone, RowsAlone, CallInv
  <1>5. /\ phase' = [phase EXCEPT ![k] = IF @ = "absent" THEN "queued" ELSE @]
        /\ UNCHANGED <<saga, step, bound>>
    BY <1>0 DEF QueueItem, Queue, tables
  <1>6. SagaOf(u) = s /\ SagaOf(v) = s
    BY <1>1, <1>2 DEF SagaOf
  <1>7. \A t \in Sagas : SagaStays(t)
    BY <1>5 DEF SagaStays, Undoes
  <1>8. phase \in [Items -> Outbox!Phases]
    BY TypeFacts DEF ForwardInv
  <1>9. \A t \in Sagas : t # s => NoneQueued(t)
    <2>1. \A t \in Sagas : \A j \in Reversible[t] : t # s => Cmp(t, j) \in Items /\ Cmp(t, j) # k
      BY CmpFacts
    <2>. QED
      BY <1>5, <1>8, <2>1 DEF NoneQueued
  <1>10. RowInv(s)'
    <2>1. CASE k.dir = "forward"
      <3>1. \A j \in Reversible[s] : Cmp(s, j) \in Items /\ Cmp(s, j) # k
        BY <1>3, <2>1, CmpFacts
      <3>2. NoneQueued(s)
        BY <1>5, <1>8, <3>1 DEF NoneQueued
      <3>. QED
        BY <1>3, <1>4, <1>7, <3>2, RowFrame
    <2>2. CASE k.dir # "forward"
      <3>1. NextCompensation(s, i) /\ k = Cmp(s, i) /\ i \in Reversible[s]
        BY <1>3, <1>4, <2>2 DEF Chosen
      <3>2. UndoRow(s, i)
        BY <3>1 DEF NextCompensation, In, UndoRow
      <3>3. \A j \in Steps(s) : j > i /\ OverRow(s, j) => step[s][j] = "COMPENSATED"
        BY <1>3, <1>4, <3>1, <3>2
           DEF RowInv, RowsInOrder, OverRow, UndoRow, UndoOpen, NextCompensation, In
      <3>4. \A j \in Steps(s) : /\ UndoOpen(s, j)' = UndoOpen(s, j)
                                /\ UndoRow(s, j)' = UndoRow(s, j)
                                /\ OverRow(s, j)' = OverRow(s, j)
        BY <1>5 DEF UndoOpen, UndoRow, OverRow, Undoes
      <3>5. RowsInOrder(s)'
        <4>1. \A j \in Steps(s) : /\ step[s][j] = "REFUSED" => phase'[Fwd(s, j)] = "refused"
                                  /\ step[s][j] = "COMPENSATED" => phase'[Cmp(s, j)] = "confirmed"
          BY <1>3, <1>4, FwdFacts, CmpFacts DEF OutboxGrows, RowInv, RowsInOrder
        <4>. QED
          BY <1>4, <1>5, <3>4, <4>1 DEF RowInv, RowsInOrder, Refused, Undoes
      <3>6. UndoneInOrder(s)'
        <4>1. \A j \in Reversible[s] : j # i => Cmp(s, j) \in Items /\ Cmp(s, j) # k
          BY <1>3, CmpFacts
        <4>2. \A j \in Reversible[s] : j # i => phase'[Cmp(s, j)] = phase[Cmp(s, j)]
          BY <1>5, <1>8, <4>1
        <4>3. \A a \in Reversible[s] : phase'[Cmp(s, a)] # "absent" =>
                  UndoRow(s, a) /\ \A j \in Steps(s) : j > a /\ OverRow(s, j) => step[s][j] = "COMPENSATED"
          BY <1>4, <3>2, <3>3, <4>2 DEF RowInv, UndoneInOrder
        <4>4. step' = step
          BY <1>5
        <4>. QED
          BY <1>3, <3>4, <4>3, <4>4 DEF UndoneInOrder
      <3>7. SagaTells(s)'
        BY <1>4, <1>5, <3>4 DEF RowInv, SagaTells, Refused
      <3>. QED
        BY <3>5, <3>6, <3>7 DEF RowInv
    <2>. QED
      BY <2>1, <2>2
  <1>11. CallInv(v)'
    <2>1. Chosen(k)'
      BY <1>4, <1>5 DEF Chosen, NextForward, NextCompensation, In
    <2>. QED
      BY <1>2, <2>1 DEF CallInv
  <1>. QED
    BY <1>0, <1>1, <1>2, <1>3, <1>6, <1>7, <1>9, <1>10, <1>11, OthersStay

LEMMA AskForwardAlone ==
    ASSUME ForwardInv, OutboxGrows, AloneInv, NEW c \in Coordinators, AskForward(c)
    PROVE  AloneInv'
  <1>. USE StepsAreNumbers
  <1>0. PICK u \in Call : u = call[c]
    BY AskForwardGoes DEF ForwardInv
  <1>. DEFINE k == u.item
              s == k.saga
              i == k.step
  <1>1. /\ u \in Call /\ u # Idle /\ u.pc = "sync" /\ k.dir = "forward" /\ phase[k] # "absent"
    BY <1>0, AskForwardGoes
  <1>2. PICK v \in Call : /\ v # Idle /\ v.pc = "settle" /\ v.item = k
                         /\ v.is = ForwardStep(phase[k])
                         /\ v.saga = AfterForward(s, u, phase[k])
                         /\ Goes(c, v)
    BY <1>0, AskForwardGoes
  <1>3. k \in Items /\ s \in Sagas /\ i \in Steps(s) /\ k = Fwd(s, i)
    BY <1>1, CallFields, ItemFacts
  <1>4. SyncReads(s, i, u) /\ RowInv(s)
    BY <1>0, <1>1, <1>3 DEF AloneInv, CallsAlone, RowsAlone, CallInv
  <1>5. UNCHANGED <<saga, step, bound, phase>>
    BY DEF AskForward, Asks, tables, outbox
  <1>6. SagaOf(u) = s /\ SagaOf(v) = s
    BY <1>1, <1>2 DEF SagaOf
  <1>7. \A t \in Sagas : SagaStays(t) /\ NoneQueued(t)
    BY <1>5 DEF SagaStays, Undoes, NoneQueued
  <1>8. RowInv(s)'
    BY <1>3, <1>4, <1>7, RowFrame
  <1>9. phase[k] \in {"queued", "retry", "ambiguous", "confirmed", "refused"}
    BY <1>1, <1>3, TypeFacts DEF ForwardInv, Outbox!Phases
  <1>10. ForwardSettle(s, i, v)
    <2>1. /\ ForwardOpen(s, i)
          /\ u.prior = {j \in In(s, {"CONFIRMED"}) : j < i}
          /\ u.open = \E j \in In(s, {"PENDING"}) : j > i
      BY <1>1, <1>4 DEF SyncReads
    <2>2. CASE phase[k] \in {"queued", "retry", "ambiguous"}
      BY <1>2, <2>1, <2>2 DEF ForwardSettle, ForwardStep, AfterForward
    <2>3. CASE phase[k] = "confirmed"
      <3>1. v.is = "CONFIRMED" /\ v.saga = IF u.open THEN "RUNNING" ELSE "COMPLETED"
        BY <1>2, <2>3 DEF ForwardStep, AfterForward
      <3>2. ~u.open => \A j \in Steps(s) : j > i => step[s][j] # "PENDING"
        BY <2>1 DEF In
      <3>. QED
        BY <2>1, <3>1, <3>2 DEF ForwardSettle
    <2>4. CASE phase[k] = "refused"
      <3>1. v.is = "REFUSED" /\ v.saga = IF ~(u.prior \subseteq Reversible[s]) THEN "MANUAL_INTERVENTION_REQUIRED"
                                         ELSE IF u.prior # {} THEN "COMPENSATION_REQUIRED" ELSE "FAILED"
        BY <1>2, <2>4 DEF ForwardStep, AfterForward
      <3>2. u.prior = {} => \A j \in Steps(s) : j < i => step[s][j] # "CONFIRMED"
        BY <2>1 DEF In
      <3>3. /\ v.saga \in {"MANUAL_INTERVENTION_REQUIRED", "COMPENSATION_REQUIRED", "FAILED"}
            /\ v.saga = "FAILED" => u.prior = {}
        BY <3>1
      <3>. QED
        BY <1>3, <2>1, <2>4, <3>1, <3>2, <3>3 DEF ForwardSettle
    <2>. QED
      BY <1>9, <2>2, <2>3, <2>4
  <1>11. CallInv(v)'
    <2>1. CallInv(v)
      BY <1>1, <1>2, <1>10 DEF CallInv, SettleReads
    <2>. QED
      BY <1>3, <1>6, <1>7, <2>1, CallFrame
  <1>. QED
    BY <1>0, <1>1, <1>2, <1>3, <1>6, <1>7, <1>8, <1>11, OthersStay

LEMMA AskCompensationAlone ==
    ASSUME ForwardInv, OutboxGrows, AloneInv, NEW c \in Coordinators, AskCompensation(c)
    PROVE  AloneInv'
  <1>. USE StepsAreNumbers
  <1>0. PICK u \in Call : u = call[c]
    BY AskCompensationGoes DEF ForwardInv
  <1>. DEFINE k == u.item
              s == k.saga
              i == k.step
  <1>1. u \in Call /\ u # Idle /\ u.pc = "sync" /\ k \in Items /\ k.dir = "compensation"
    BY <1>0, AskCompensationGoes
  <1>2. s \in Sagas /\ i \in Steps(s) /\ k = Cmp(s, i) /\ SagaOf(u) = s
    BY <1>1, ItemFacts DEF SagaOf
  <1>3. SyncReads(s, i, u) /\ RowInv(s)
    BY <1>0, <1>1, <1>2 DEF AloneInv, CallsAlone, RowsAlone, CallInv
  <1>4. UNCHANGED <<saga, step, bound, phase>>
    BY DEF AskCompensation, Asks, tables, outbox
  <1>5. \A t \in Sagas : SagaStays(t) /\ NoneQueued(t)
    BY <1>4 DEF SagaStays, Undoes, NoneQueued
  <1>6. RowInv(s)'
    BY <1>2, <1>3, <1>5, RowFrame
  <1>7. CASE Goes(c, Idle)
    BY <1>0, <1>1, <1>2, <1>5, <1>6, <1>7, OthersStay
  <1>8. CASE ~Goes(c, Idle)
    <2>1. PICK v \in Call : /\ v # Idle /\ v.pc = "settle" /\ v.item = k
                           /\ v.is = CompensationStep(phase[k])
                           /\ v.saga = AfterCompensation(u, phase[k])
                           /\ Goes(c, v)
      BY <1>0, <1>8, AskCompensationGoes
    <2>2. phase[k] \in {"ambiguous", "confirmed", "refused"}
      BY <1>0, <1>8, AskCompensationGoes
    <2>3. /\ UndoOpen(s, i) /\ Undoes(s, i)
          /\ u.open = (In(s, {"COMPENSATION_PENDING"}) \ {i} # {})
      BY <1>1, <1>3 DEF SyncReads
    <2>4. ~u.open => \A j \in Steps(s) : j # i => step[s][j] # "COMPENSATION_PENDING"
      BY <2>3 DEF In
    <2>5. UndoSettle(s, i, v)
      BY <1>2, <2>1, <2>2, <2>3, <2>4 DEF UndoSettle, CompensationStep, AfterCompensation
    <2>6. CallInv(v) /\ SagaOf(v) = s
      BY <1>1, <2>1, <2>5 DEF CallInv, SettleReads, SagaOf
    <2>7. CallInv(v)'
      BY <1>2, <1>5, <2>6, CallFrame
    <2>. QED
      BY <1>0, <1>1, <1>2, <1>5, <1>6, <2>1, <2>6, <2>7, OthersStay
  <1>. QED
    BY <1>7, <1>8

(* What the invariant says of a saga after a transaction on it.            *)
LEMMA BindForwardRows ==
    ASSUME ForwardInv, OutboxGrows, NEW s \in Sagas, NEW i \in Steps(s), RowInv(s),
           NextForward(s, i),
           step'[s] = [step[s] EXCEPT ![i] = "ENQUEUED"], saga'[s] = "RUNNING",
           bound' = bound \cup {Fwd(s, i)}, phase' = phase
    PROVE  RowInv(s)'
  <1>. USE StepsAreNumbers, TypeFacts DEF ForwardInv
  <1>1. step[s][i] = "PENDING" /\ ~Refused(s) /\ saga[s] \in {"PLANNED", "RUNNING"}
    BY DEF NextForward, In, Refused
  <1>2. /\ \A j \in Steps(s) : j > i => step[s][j] = "PENDING"
        /\ \A j \in Steps(s) : ~UndoRow(s, j)
        /\ \A j \in Steps(s) : step[s][j] # "MANUAL_REQUIRED"
        /\ \A j \in Reversible[s] : phase[Cmp(s, j)] = "absent" /\ ~Undoes(s, j)
    BY <1>1, ForwardOpenRows
  <1>3. \A j \in Steps(s) : j < i => step[s][j] = "CONFIRMED"
    BY DEF NextForward
  <1>4. \A j \in Steps(s) : Undoes(s, j)' = Undoes(s, j)
    BY DEF Undoes, Fwd, Cmp, Item
  <1>5. \A j \in Steps(s) : step'[s][j] = IF j = i THEN "ENQUEUED" ELSE step[s][j]
    OBVIOUS
  <1>6. \A j \in Steps(s) : ~UndoRow(s, j)'
    BY <1>2, <1>4, <1>5 DEF UndoRow, UndoOpen
  <1>7. \A j \in Steps(s) : step'[s][j] = "CONFIRMED" => OverRow(s, j)'
    BY DEF OverRow
  <1>8. \A j \in Steps(s) : step[s][j] # "UNCERTAIN" /\ step[s][j] # "REFUSED"
    BY <1>1 DEF RowInv, SagaTells, Refused
  <1>9. RowsInOrder(s)'
    <2>1. \A a \in Steps(s) : step'[s][a] # "PENDING" => \A j \in Steps(s) : j < a => OverRow(s, j)'
      BY <1>2, <1>3, <1>5, <1>7
    <2>2. \A a \in Steps(s) :
              step'[s][a] \notin {"REFUSED", "COMPENSATION_ENQUEUED", "COMPENSATED", "COMPENSATION_FAILED"}
      BY <1>2, <1>5, <1>8 DEF UndoRow, UndoOpen
    <2>. QED
      BY <1>6, <2>1, <2>2 DEF RowsInOrder
  <1>10. UndoneInOrder(s)'
    BY <1>2 DEF UndoneInOrder
  <1>11. SagaTells(s)'
    BY <1>2, <1>5, <1>8 DEF SagaTells
  <1>. QED
    BY <1>9, <1>10, <1>11 DEF RowInv

LEMMA BindCompensationRows ==
    ASSUME ForwardInv, OutboxGrows, NEW s \in Sagas, NEW i \in Reversible[s], RowInv(s),
           NextCompensation(s, i),
           step'[s] = [step[s] EXCEPT ![i] = "COMPENSATION_ENQUEUED"], saga'[s] = saga[s],
           bound' = bound \cup {Cmp(s, i)}, phase' = phase
    PROVE  RowInv(s)'
  <1>. USE StepsAreNumbers, TypeFacts DEF ForwardInv
  <1>1. step[s][i] = "COMPENSATION_PENDING" /\ saga[s] = "COMPENSATING"
    BY DEF NextCompensation, In
  <1>2. \A j \in Steps(s) : step'[s][j] = IF j = i THEN "COMPENSATION_ENQUEUED" ELSE step[s][j]
    OBVIOUS
  <1>3. /\ \A j \in Steps(s) : j # i => Undoes(s, j)' = Undoes(s, j)
        /\ Undoes(s, i)'
    BY DEF Undoes, Cmp, Item
  <1>4. \A j \in Steps(s) : UndoRow(s, j)' = UndoRow(s, j) /\ OverRow(s, j)' = OverRow(s, j)
    BY <1>1, <1>2, <1>3 DEF UndoRow, UndoOpen, OverRow
  <1>5. Refused(s)' = Refused(s)
    BY <1>1, <1>2 DEF Refused
  <1>6. RowsInOrder(s)'
    <2>1. \A a \in Steps(s) : step'[s][a] # "PENDING" => \A j \in Steps(s) : j < a => OverRow(s, j)'
      BY <1>1, <1>2, <1>4 DEF RowInv, RowsInOrder
    <2>2. \A a \in Steps(s) : step'[s][a] = "REFUSED" => phase'[Fwd(s, a)] = "refused"
      BY <1>2 DEF RowInv, RowsInOrder
    <2>3. \A a \in Steps(s) :
              step'[s][a] \in {"COMPENSATION_ENQUEUED", "COMPENSATED", "COMPENSATION_FAILED"} =>
                  a \in Reversible[s] /\ Undoes(s, a)'
      BY <1>2, <1>3 DEF RowInv, RowsInOrder
    <2>4. \A a \in Steps(s) : step'[s][a] = "COMPENSATED" => phase'[Cmp(s, a)] = "confirmed"
      BY <1>2 DEF RowInv, RowsInOrder
    <2>5. \A a \in Steps(s) : UndoRow(s, a)' =>
              Refused(s)' /\ \A j \in Steps(s) : step'[s][j] \notin {"CONFIRMED", "MANUAL_REQUIRED"}
      BY <1>2, <1>4, <1>5 DEF RowInv, RowsInOrder
    <2>. QED
      BY <2>1, <2>2, <2>3, <2>4, <2>5 DEF RowsInOrder
  <1>7. UndoneInOrder(s)'
    BY <1>1, <1>2, <1>4 DEF RowInv, UndoneInOrder
  <1>8. SagaTells(s)'
    BY <1>1, <1>2, <1>4, <1>5 DEF RowInv, SagaTells
  <1>. QED
    BY <1>6, <1>7, <1>8 DEF RowInv

LEMMA SettleForwardRows ==
    ASSUME ForwardInv, OutboxGrows, NEW s \in Sagas, NEW i \in Steps(s), RowInv(s),
           NEW v \in Call, ForwardSettle(s, i, v),
           step'[s] = [j \in Steps(s) |->
               CASE j = i -> v.is
                 [] /\ v.saga = "MANUAL_INTERVENTION_REQUIRED"
                    /\ j < i /\ step[s][j] = "CONFIRMED" /\ j \notin Reversible[s]
                        -> "MANUAL_REQUIRED"
                 [] OTHER -> step[s][j]],
           saga'[s] = v.saga, bound' = bound, phase' = phase
    PROVE  RowInv(s)'
  <1>. USE StepsAreNumbers
  <1>0. ForwardOpen(s, i)
    BY DEF ForwardSettle
  <1>1. /\ \A j \in Steps(s) : j > i => step[s][j] = "PENDING"
        /\ \A j \in Steps(s) : j < i => step[s][j] = "CONFIRMED"
        /\ \A j \in Reversible[s] : phase[Cmp(s, j)] = "absent" /\ ~Undoes(s, j)
    BY <1>0, ForwardOpenRows
  <1>2. /\ step'[s][i] = v.is
        /\ \A j \in Steps(s) : j > i => step'[s][j] = "PENDING"
        /\ \A j \in Steps(s) : j < i =>
               step'[s][j] = IF v.saga = "MANUAL_INTERVENTION_REQUIRED" /\ j \notin Reversible[s]
                             THEN "MANUAL_REQUIRED" ELSE "CONFIRMED"
    BY <1>1
  <1>3. ~Undoes(s, i)'
    <2>1. CASE i \in Reversible[s]
      BY <1>1, <2>1 DEF Undoes
    <2>2. CASE i \notin Reversible[s]
      BY <2>2, TypeFacts, ItemFacts DEF Undoes, Cmp, Item, ForwardInv
    <2>. QED
      BY <2>1, <2>2
  <1>4. v.is \in {"ENQUEUED", "RETRY", "UNCERTAIN", "CONFIRMED", "REFUSED"}
    BY DEF ForwardSettle
  <1>5. \A j \in Steps(s) : j < i \/ j = i \/ j > i
    OBVIOUS
  <1>6. \A j \in Steps(s) : ~UndoRow(s, j)'
    BY <1>2, <1>3, <1>4, <1>5 DEF UndoRow, UndoOpen
  <1>7. \A j \in Steps(s) : j < i => OverRow(s, j)'
    BY <1>2 DEF OverRow
  <1>8. RowsInOrder(s)'
    <2>1. \A a \in Steps(s) : step'[s][a] # "PENDING" => \A j \in Steps(s) : j < a => OverRow(s, j)'
      BY <1>2, <1>7
    <2>2. \A a \in Steps(s) : step'[s][a] = "REFUSED" => a = i /\ v.is = "REFUSED"
      BY <1>2, <1>5
    <2>3. v.is = "REFUSED" => phase'[Fwd(s, i)] = "refused"
      BY DEF ForwardSettle
    <2>4. \A a \in Steps(s) :
              step'[s][a] \notin {"COMPENSATION_ENQUEUED", "COMPENSATED", "COMPENSATION_FAILED"}
      BY <1>6 DEF UndoRow, UndoOpen
    <2>. QED
      BY <1>6, <2>1, <2>2, <2>3, <2>4 DEF RowsInOrder
  <1>9. UndoneInOrder(s)'
    BY <1>1 DEF UndoneInOrder
  <1>10. SagaTells(s)'
    <2>1. v.is = "REFUSED" => Refused(s)'
      BY <1>2 DEF Refused
    <2>2. \A a \in Steps(s) : step'[s][a] = "MANUAL_REQUIRED" =>
              Refused(s)' /\ saga'[s] = "MANUAL_INTERVENTION_REQUIRED"
      BY <1>2, <1>4, <1>5, <2>1 DEF ForwardSettle
    <2>3. \A a \in Steps(s) : step'[s][a] = "UNCERTAIN" => saga'[s] = "RECONCILIATION_REQUIRED"
      BY <1>2, <1>5 DEF ForwardSettle
    <2>4. saga'[s] = "COMPLETED" => \A a \in Steps(s) : step'[s][a] = "CONFIRMED"
      BY <1>1, <1>2, <1>5 DEF ForwardSettle
    <2>5. saga'[s] = "FAILED" => step'[s][1] = "REFUSED"
      <3>1. v.saga = "FAILED" => v.is = "REFUSED" /\ \A j \in Steps(s) : ~(j < i)
        BY <1>1 DEF ForwardSettle
      <3>2. 1 \in Steps(s) /\ (1 < i \/ 1 = i)
        BY DEF Steps
      <3>. QED
        BY <1>2, <3>1, <3>2
    <2>6. saga'[s] = "COMPENSATION_REQUIRED" => v.is = "REFUSED"
      BY DEF ForwardSettle
    <2>7. saga'[s] \notin {"COMPENSATED", "COMPENSATING"}
      BY DEF ForwardSettle
    <2>. QED
      BY <1>6, <2>1, <2>2, <2>3, <2>4, <2>5, <2>6, <2>7 DEF SagaTells
  <1>. QED
    BY <1>8, <1>9, <1>10 DEF RowInv

LEMMA SettleCompensationRows ==
    ASSUME ForwardInv, OutboxGrows, NEW s \in Sagas, NEW i \in Reversible[s], RowInv(s),
           NEW v \in Call, UndoSettle(s, i, v),
           step'[s] = [step[s] EXCEPT ![i] = v.is],
           saga'[s] = v.saga, bound' = bound, phase' = phase
    PROVE  RowInv(s)'
  <1>. USE StepsAreNumbers
  <1>0. UndoOpen(s, i) /\ Undoes(s, i) /\ i \in Steps(s)
    BY DEF UndoSettle
  <1>1. /\ Refused(s)
        /\ \A j \in Steps(s) : step[s][j] \notin {"CONFIRMED", "MANUAL_REQUIRED"}
        /\ \A j \in Steps(s) : j > i /\ OverRow(s, j) => step[s][j] = "COMPENSATED"
        /\ \A j \in Steps(s) : j < i => step[s][j] = "COMPENSATION_PENDING"
        /\ \A j \in Reversible[s] : j < i => phase[Cmp(s, j)] = "absent"
        /\ \A j \in Steps(s) : step[s][j] = "UNCERTAIN" => j = i
    BY <1>0, UndoOpenRows
  <1>2. \A j \in Steps(s) : step'[s][j] = IF j = i THEN v.is ELSE step[s][j]
    BY <1>0, TypeFacts DEF ForwardInv
  <1>3. \A j \in Steps(s) : Undoes(s, j)' = Undoes(s, j)
    BY DEF Undoes
  <1>4. v.is \in {"UNCERTAIN", "COMPENSATION_FAILED", "COMPENSATED"}
    BY DEF UndoSettle
  <1>5. UndoRow(s, i) /\ UndoRow(s, i)' /\ OverRow(s, i) /\ OverRow(s, i)'
    BY <1>0, <1>2, <1>3, <1>4 DEF UndoRow, UndoOpen, OverRow
  <1>6. \A j \in Steps(s) : UndoRow(s, j)' = UndoRow(s, j) /\ OverRow(s, j)' = OverRow(s, j)
    BY <1>2, <1>3, <1>5 DEF UndoRow, UndoOpen, OverRow
  <1>7. Refused(s)'
    <2>1. step[s][i] # "REFUSED"
      BY <1>0 DEF UndoOpen
    <2>. QED
      BY <1>1, <1>2, <2>1 DEF Refused
  <1>8. v.is = "COMPENSATED" => phase[Cmp(s, i)] = "confirmed"
    BY DEF UndoSettle
  <1>9. RowsInOrder(s)'
    <2>1. \A a \in Steps(s) : step'[s][a] # "PENDING" => \A j \in Steps(s) : j < a => OverRow(s, j)'
      BY <1>0, <1>2, <1>6 DEF RowInv, RowsInOrder, UndoOpen
    <2>2. \A a \in Steps(s) : step'[s][a] = "REFUSED" => phase'[Fwd(s, a)] = "refused"
      BY <1>2, <1>4 DEF RowInv, RowsInOrder
    <2>3. \A a \in Steps(s) :
              step'[s][a] \in {"COMPENSATION_ENQUEUED", "COMPENSATED", "COMPENSATION_FAILED"} =>
                  a \in Reversible[s] /\ Undoes(s, a)'
      BY <1>0, <1>2, <1>3 DEF RowInv, RowsInOrder
    <2>4. \A a \in Steps(s) : step'[s][a] = "COMPENSATED" => phase'[Cmp(s, a)] = "confirmed"
      BY <1>2, <1>8 DEF RowInv, RowsInOrder
    <2>5. \A j \in Steps(s) : step'[s][j] \notin {"CONFIRMED", "MANUAL_REQUIRED"}
      BY <1>1, <1>2, <1>4
    <2>. QED
      BY <1>7, <2>1, <2>2, <2>3, <2>4, <2>5 DEF RowsInOrder
  <1>10. UndoneInOrder(s)'
    <2>1. ASSUME NEW a \in Reversible[s], phase[Cmp(s, a)] # "absent"
          PROVE  UndoRow(s, a)' /\ \A j \in Steps(s) : j > a /\ OverRow(s, j)' => step'[s][j] = "COMPENSATED"
      <3>1. ~(a < i)
        BY <1>1, <2>1
      <3>2. UndoRow(s, a) /\ \A j \in Steps(s) : j > a /\ OverRow(s, j) => step[s][j] = "COMPENSATED"
        BY <2>1 DEF RowInv, UndoneInOrder
      <3>. QED
        BY <1>0, <1>2, <1>6, <3>1, <3>2
    <2>. QED
      BY <2>1 DEF UndoneInOrder
  <1>11. SagaTells(s)'
    <2>1. \A a \in Steps(s) : step'[s][a] # "MANUAL_REQUIRED"
      BY <1>1, <1>2, <1>4
    <2>2. \A a \in Steps(s) : step'[s][a] = "UNCERTAIN" => saga'[s] = "RECONCILIATION_REQUIRED"
      BY <1>1, <1>2 DEF UndoSettle
    <2>3. saga'[s] \notin {"COMPLETED", "FAILED", "COMPENSATION_REQUIRED"}
      BY DEF UndoSettle
    <2>4. saga'[s] = "COMPENSATED" => \A a \in Steps(s) : OverRow(s, a)' => step'[s][a] = "COMPENSATED"
      <3>. SUFFICES ASSUME v.saga = "COMPENSATED", NEW a \in Steps(s), OverRow(s, a)'
                    PROVE  step'[s][a] = "COMPENSATED"
        OBVIOUS
      <3>1. v.is = "COMPENSATED" /\ \A j \in Steps(s) : j # i => step[s][j] # "COMPENSATION_PENDING"
        BY DEF UndoSettle
      <3>2. a < i \/ a = i \/ a > i
        BY <1>0
      <3>. QED
        BY <1>0, <1>1, <1>2, <1>6, <3>1, <3>2
    <2>. QED
      BY <1>0, <1>5, <1>7, <2>1, <2>2, <2>3, <2>4 DEF SagaTells
  <1>. QED
    BY <1>9, <1>10, <1>11 DEF RowInv

LEMMA PrepareRows ==
    ASSUME ForwardInv, OutboxGrows, NEW s \in Sagas, RowInv(s),
           saga[s] = "COMPENSATION_REQUIRED", In(s, {"CONFIRMED"}) # {},
           step'[s] = [j \in Steps(s) |->
               IF j \in In(s, {"CONFIRMED"}) THEN "COMPENSATION_PENDING" ELSE step[s][j]],
           saga'[s] = "COMPENSATING", bound' = bound, phase' = phase
    PROVE  RowInv(s)'
  <1>. USE StepsAreNumbers
  <1>1. /\ Refused(s)
        /\ \A j \in Steps(s) : /\ ~UndoRow(s, j)
                               /\ step[s][j] \notin {"MANUAL_REQUIRED", "UNCERTAIN"}
    BY DEF RowInv, SagaTells
  <1>2. \A j \in Steps(s) :
            step'[s][j] = IF step[s][j] = "CONFIRMED" THEN "COMPENSATION_PENDING" ELSE step[s][j]
    BY DEF In
  <1>3. \A j \in Steps(s) : OverRow(s, j) => UndoRow(s, j)' /\ OverRow(s, j)'
    BY <1>1, <1>2 DEF OverRow, UndoRow
  <1>4. \A j \in Steps(s) : step'[s][j] \notin {"CONFIRMED", "MANUAL_REQUIRED", "UNCERTAIN",
            "COMPENSATION_ENQUEUED", "COMPENSATED", "COMPENSATION_FAILED"}
    BY <1>1, <1>2 DEF UndoRow, UndoOpen
  <1>5. Refused(s)'
    BY <1>1, <1>2 DEF Refused
  <1>6. RowsInOrder(s)'
    <2>1. \A a \in Steps(s) : step'[s][a] # "PENDING" => \A j \in Steps(s) : j < a => OverRow(s, j)'
      BY <1>2, <1>3 DEF RowInv, RowsInOrder
    <2>2. \A a \in Steps(s) : step'[s][a] = "REFUSED" => phase'[Fwd(s, a)] = "refused"
      BY <1>2 DEF RowInv, RowsInOrder
    <2>. QED
      BY <1>4, <1>5, <2>1, <2>2 DEF RowsInOrder
  <1>7. UndoneInOrder(s)'
    BY <1>1 DEF RowInv, UndoneInOrder
  <1>8. \E j \in Steps(s) : UndoRow(s, j)'
    <2>1. PICK j \in Steps(s) : step[s][j] = "CONFIRMED"
      BY DEF In
    <2>. QED
      BY <1>3, <2>1 DEF OverRow
  <1>9. SagaTells(s)'
    BY <1>4, <1>8 DEF SagaTells
  <1>. QED
    BY <1>6, <1>7, <1>9 DEF RowInv

-----------------------------------------------------------------------------
(* A transaction on one saga ends the call that makes it.                  *)
LEMMA OtherSagasStay ==
    ASSUME ForwardInv, NEW s \in Sagas, NEW rows, NEW state,
           \/ step' = step \/ step' = [step EXCEPT ![s] = rows],
           \/ saga' = saga \/ saga' = [saga EXCEPT ![s] = state],
           bound' = bound \/ \E k \in Items : k.saga = s /\ bound' = bound \cup {k},
           phase' = phase
    PROVE  \A t \in Sagas : t # s => SagaStays(t) /\ NoneQueued(t)
  <1>. USE TypeFacts DEF ForwardInv
  <1>1. \A t \in Sagas : t # s => step'[t] = step[t] /\ saga'[t] = saga[t]
    OBVIOUS
  <1>2. \A t \in Sagas, i \in 1..MAX_STEPS : t # s => Undoes(t, i)' = Undoes(t, i)
    BY DEF Undoes, Cmp, Item
  <1>. QED
    BY <1>1, <1>2, StepsAreNumbers DEF SagaStays, NoneQueued

LEMMA BindAlone ==
    ASSUME ForwardInv, OutboxGrows, AloneInv, NEW c \in Coordinators, BindItem(c)
    PROVE  AloneInv'
  <1>. USE TypeFacts DEF ForwardInv
  <1>0. PICK u \in Call : u = call[c]
    BY CallAt DEF BindItem, At
  <1>. DEFINE k == u.item
              s == k.saga
              i == k.step
  <1>1. u # Idle /\ u.pc = "bind" /\ SagaOf(u) = s
    BY <1>0 DEF BindItem, At, SagaOf
  <1>2. /\ k \in Items /\ s \in Sagas /\ i \in Steps(s)
        /\ \/ k.dir = "forward" /\ k = Fwd(s, i)
           \/ k.dir = "compensation" /\ k = Cmp(s, i) /\ i \in Reversible[s]
    BY <1>1, CallFields, ItemFacts
  <1>3. Chosen(k) /\ RowInv(s)
    BY <1>0, <1>1, <1>2 DEF AloneInv, CallsAlone, RowsAlone, CallInv
  <1>4. bound' = bound \cup {k} /\ phase' = phase /\ Goes(c, Idle)
    BY <1>0 DEF BindItem, outbox
  <1>5. CASE k.dir = "forward"
    <2>1. saga' = [saga EXCEPT ![s] = "RUNNING"] /\ step' = [step EXCEPT ![s][i] = "ENQUEUED"]
      BY <1>0, <1>5 DEF BindItem, SetStep, SetSaga
    <2>2. step' = [step EXCEPT ![s] = [step[s] EXCEPT ![i] = "ENQUEUED"]]
      BY <2>1
    <2>3. step'[s] = [step[s] EXCEPT ![i] = "ENQUEUED"] /\ saga'[s] = "RUNNING"
      BY <1>2, <2>1
    <2>4. \A t \in Sagas : t # s => SagaStays(t) /\ NoneQueued(t)
      BY <1>2, <1>4, <2>1, <2>2, OtherSagasStay
    <2>5. RowInv(s)'
      BY <1>2, <1>3, <1>4, <1>5, <2>3, BindForwardRows DEF Chosen
    <2>. QED
      BY <1>0, <1>1, <1>2, <1>4, <2>4, <2>5, OthersStay
  <1>6. CASE k.dir # "forward"
    <2>1. saga' = saga /\ step' = [step EXCEPT ![s][i] = "COMPENSATION_ENQUEUED"]
      BY <1>0, <1>6 DEF BindItem, SetStep
    <2>2. step' = [step EXCEPT ![s] = [step[s] EXCEPT ![i] = "COMPENSATION_ENQUEUED"]]
      BY <2>1
    <2>3. step'[s] = [step[s] EXCEPT ![i] = "COMPENSATION_ENQUEUED"] /\ saga'[s] = saga[s]
      BY <1>2, <2>1
    <2>4. \A t \in Sagas : t # s => SagaStays(t) /\ NoneQueued(t)
      BY <1>2, <1>4, <2>1, <2>2, OtherSagasStay
    <2>5. RowInv(s)'
      BY <1>2, <1>3, <1>4, <1>6, <2>3, BindCompensationRows DEF Chosen
    <2>. QED
      BY <1>0, <1>1, <1>2, <1>4, <2>4, <2>5, OthersStay
  <1>. QED
    BY <1>5, <1>6

LEMMA SettleForwardAlone ==
    ASSUME ForwardInv, OutboxGrows, AloneInv, NEW c \in Coordinators, SettleForward(c)
    PROVE  AloneInv'
  <1>. USE TypeFacts DEF ForwardInv
  <1>0. PICK v \in Call : v = call[c]
    BY CallAt DEF SettleForward, At
  <1>. DEFINE s == v.item.saga
              i == v.item.step
              rows == [j \in Steps(s) |->
                  CASE j = i -> v.is
                    [] /\ v.saga = "MANUAL_INTERVENTION_REQUIRED"
                       /\ j < i /\ step[s][j] = "CONFIRMED" /\ j \notin Reversible[s]
                           -> "MANUAL_REQUIRED"
                    [] OTHER -> step[s][j]]
  <1>1. v # Idle /\ v.pc = "settle" /\ SagaOf(v) = s /\ v.item.dir = "forward"
    BY <1>0 DEF SettleForward, At, SagaOf
  <1>2. s \in Sagas /\ i \in Steps(s)
    BY <1>1, CallFields, ItemFacts
  <1>3. ForwardSettle(s, i, v) /\ RowInv(s)
    BY <1>0, <1>1, <1>2 DEF AloneInv, CallsAlone, RowsAlone, CallInv, SettleReads
  <1>4. saga' = [saga EXCEPT ![s] = v.saga] /\ bound' = bound /\ phase' = phase /\ Goes(c, Idle)
    BY <1>0 DEF SettleForward, SetSaga, outbox
  <1>5. step' = [step EXCEPT ![s] = rows]
    BY <1>0, <1>2 DEF SettleForward
  <1>6. step'[s] = rows /\ saga'[s] = v.saga
    BY <1>2, <1>4, <1>5
  <1>7. \A t \in Sagas : t # s => SagaStays(t) /\ NoneQueued(t)
    <2>. HIDE DEF rows
    <2>. QED
      BY <1>2, <1>4, <1>5, OtherSagasStay
  <1>8. RowInv(s)'
    BY <1>2, <1>3, <1>4, <1>6, SettleForwardRows
  <1>. QED
    BY <1>0, <1>1, <1>2, <1>4, <1>7, <1>8, OthersStay

LEMMA SettleCompensationAlone ==
    ASSUME ForwardInv, OutboxGrows, AloneInv, NEW c \in Coordinators, SettleCompensation(c)
    PROVE  AloneInv'
  <1>. USE TypeFacts DEF ForwardInv
  <1>0. PICK v \in Call : v = call[c]
    BY CallAt DEF SettleCompensation, At
  <1>. DEFINE s == v.item.saga
              i == v.item.step
  <1>1. v # Idle /\ v.pc = "settle" /\ SagaOf(v) = s /\ v.item.dir = "compensation"
    BY <1>0 DEF SettleCompensation, At, SagaOf
  <1>2. s \in Sagas /\ i \in Steps(s) /\ i \in Reversible[s]
    BY <1>1, CallFields, ItemFacts
  <1>3. UndoSettle(s, i, v) /\ RowInv(s)
    BY <1>0, <1>1, <1>2 DEF AloneInv, CallsAlone, RowsAlone, CallInv, SettleReads
  <1>4. /\ saga' = [saga EXCEPT ![s] = v.saga] /\ step' = [step EXCEPT ![s][i] = v.is]
        /\ bound' = bound /\ phase' = phase /\ Goes(c, Idle)
    BY <1>0 DEF SettleCompensation, SetSaga, SetStep, outbox
  <1>5. step' = [step EXCEPT ![s] = [step[s] EXCEPT ![i] = v.is]]
    BY <1>4
  <1>6. step'[s] = [step[s] EXCEPT ![i] = v.is] /\ saga'[s] = v.saga
    BY <1>2, <1>4
  <1>7. \A t \in Sagas : t # s => SagaStays(t) /\ NoneQueued(t)
    BY <1>2, <1>4, <1>5, OtherSagasStay
  <1>8. RowInv(s)'
    BY <1>2, <1>3, <1>4, <1>6, SettleCompensationRows
  <1>. QED
    BY <1>0, <1>1, <1>2, <1>4, <1>7, <1>8, OthersStay

LEMMA PrepareAlone ==
    ASSUME ForwardInv, OutboxGrows, AloneInv, NEW c \in Coordinators, PrepareCompensation(c)
    PROVE  AloneInv'
  <1>. USE TypeFacts DEF ForwardInv
  <1>0. PICK v \in Call : v = call[c]
    BY CallAt DEF PrepareCompensation, At
  <1>. DEFINE s == v.of
              rows == [j \in Steps(s) |->
                           IF j \in v.steps THEN "COMPENSATION_PENDING" ELSE step[s][j]]
  <1>1. v # Idle /\ v.pc = "prepare" /\ SagaOf(v) = s /\ s \in Sagas
    BY <1>0, CallFields DEF PrepareCompensation, At, SagaOf
  <1>2. /\ saga[s] = "COMPENSATION_REQUIRED" /\ v.steps = In(s, {"CONFIRMED"}) /\ v.steps # {}
        /\ RowInv(s)
    BY <1>0, <1>1 DEF AloneInv, CallsAlone, RowsAlone, CallInv
  <1>3. /\ saga' = [saga EXCEPT ![s] = "COMPENSATING"] /\ step' = [step EXCEPT ![s] = rows]
        /\ bound' = bound /\ phase' = phase /\ Goes(c, Idle)
    BY <1>0, <1>1 DEF PrepareCompensation, SetSaga, outbox
  <1>4. step'[s] = rows /\ saga'[s] = "COMPENSATING"
    BY <1>1, <1>3
  <1>5. \A t \in Sagas : t # s => SagaStays(t) /\ NoneQueued(t)
    <2>. HIDE DEF rows
    <2>. QED
      BY <1>1, <1>3, OtherSagasStay
  <1>6. RowInv(s)'
    BY <1>1, <1>2, <1>3, <1>4, PrepareRows
  <1>. QED
    BY <1>0, <1>1, <1>3, <1>5, <1>6, OthersStay

LEMMA DiesAlone ==
    ASSUME ForwardInv, OutboxGrows, AloneInv, NEW c \in Coordinators, Dies(c)
    PROVE  AloneInv'
  <1>1. call[c] \in Call /\ call[c] # Idle /\ SagaOf(call[c]) \in Sagas
    BY CallAt, CallFields DEF Dies, ForwardInv
  <1>2. PICK s \in Sagas : s = SagaOf(call[c])
    BY <1>1
  <1>3. UNCHANGED <<saga, step, bound, phase>> /\ Goes(c, Idle)
    BY DEF Dies, tables, outbox
  <1>4. \A t \in Sagas : SagaStays(t) /\ NoneQueued(t)
    BY <1>3 DEF SagaStays, NoneQueued, Undoes
  <1>5. RowInv(s)'
    BY <1>4, RowFrame DEF AloneInv, RowsAlone
  <1>. QED
    BY <1>1, <1>2, <1>3, <1>4, <1>5, OthersStay

(* A saga that is created was in no call.                                  *)
LEMMA CreateAlone ==
    ASSUME ForwardInv, OutboxGrows, AloneInv, NEW s \in Sagas, Create(s)
    PROVE  AloneInv'
  <1>. USE TypeFacts DEF ForwardInv
  <1>1. /\ saga[s] = "ABSENT" /\ saga' = [saga EXCEPT ![s] = "PLANNED"]
        /\ UNCHANGED <<step, bound, phase, call>>
    BY DEF Create, SetSaga, outbox
  <1>2. \A t \in Sagas : t # s => SagaStays(t)
    BY <1>1 DEF SagaStays, Undoes
  <1>3. \A t \in Sagas : NoneQueued(t)
    BY <1>1 DEF NoneQueued
  <1>4. RowInv(s)'
    <2>1. RowInv(s)
      BY DEF AloneInv, RowsAlone
    <2>2. \A i \in Steps(s) : step[s][i] \notin {"MANUAL_REQUIRED", "UNCERTAIN"}
      BY <1>1, <2>1 DEF RowInv, SagaTells
    <2>3. saga'[s] = "PLANNED"
      BY <1>1
    <2>4. SagaTells(s)'
      BY <1>1, <2>2, <2>3 DEF SagaTells
    <2>5. RowsInOrder(s)' /\ UndoneInOrder(s)'
      BY <1>1, <2>1
         DEF RowInv, RowsInOrder, UndoneInOrder, OverRow, UndoRow, UndoOpen, Undoes, Refused
    <2>. QED
      BY <2>4, <2>5 DEF RowInv
  <1>5. RowsAlone'
    BY <1>2, <1>3, <1>4, RowFrame DEF AloneInv, RowsAlone
  <1>6. ASSUME NEW v \in Call, CallInv(v) PROVE CallInv(v)'
    <2>1. CASE SagaOf(v) # s
      BY <1>2, <1>6, <2>1, CallFrame, CallFields
    <2>2. CASE SagaOf(v) = s
      <3>1. v.pc \notin {"enqueue", "bind", "prepare"}
        BY <1>1, <1>6, <2>2 DEF CallInv, SagaOf, Chosen, NextForward, NextCompensation
      <3>2. SyncReads(v.item.saga, v.item.step, v)' = SyncReads(v.item.saga, v.item.step, v)
        BY <1>1 DEF SyncReads, In, ForwardOpen, UndoOpen, Undoes
      <3>3. SettleReads(v.item.saga, v.item.step, v)' = SettleReads(v.item.saga, v.item.step, v)
        BY <1>1 DEF SettleReads, ForwardSettle, UndoSettle, ForwardOpen, UndoOpen, Undoes
      <3>. QED
        BY <1>6, <3>1, <3>2, <3>3 DEF CallInv
    <2>. QED
      BY <2>1, <2>2
  <1>7. CallsAlone'
    BY <1>1, <1>6, CallAt DEF AloneInv, CallsAlone
  <1>8. OneCallEach'
    BY <1>1 DEF AloneInv, OneCallEach, SagaOf
  <1>. QED
    BY <1>5, <1>7, <1>8 DEF AloneInv

(* Neither the outbox nor the clock touches a saga.                        *)
LEMMA OutsideAlone ==
    ASSUME ForwardInv, OutboxGrows, AloneInv,
           UNCHANGED <<saga, step, bound, call>>,
           \A k \in Items : phase'[k] # "absent" => phase[k] # "absent"
    PROVE  AloneInv'
  <1>1. \A t \in Sagas : SagaStays(t) /\ NoneQueued(t)
    BY CmpFacts DEF SagaStays, NoneQueued, Undoes
  <1>2. RowsAlone'
    BY <1>1, RowFrame DEF AloneInv, RowsAlone
  <1>3. CallsAlone'
    BY <1>1, CallFrame, CallAt, CallFields DEF AloneInv, CallsAlone, ForwardInv
  <1>4. OneCallEach'
    BY DEF AloneInv, OneCallEach, SagaOf
  <1>. QED
    BY <1>2, <1>3, <1>4 DEF AloneInv

LEMMA AloneInit == SagaInit => AloneInv
  <1>. SUFFICES ASSUME SagaInit PROVE AloneInv
    OBVIOUS
  <1>1. ASSUME NEW s \in Sagas PROVE RowInv(s)
    <2>1. /\ saga[s] = "ABSENT" /\ \A i \in Steps(s) : step[s][i] = "PENDING"
          /\ \A i \in Reversible[s] : phase[Cmp(s, i)] = "absent"
      BY CmpFacts DEF SagaInit, Outbox!LifecycleInit
    <2>2. \A i \in Steps(s) : ~UndoRow(s, i)
      BY <2>1 DEF UndoRow, UndoOpen
    <2>3. RowsInOrder(s)
      BY <2>1, <2>2 DEF RowsInOrder
    <2>4. UndoneInOrder(s)
      BY <2>1 DEF UndoneInOrder
    <2>5. SagaTells(s)
      BY <2>1 DEF SagaTells
    <2>. QED
      BY <2>3, <2>4, <2>5 DEF RowInv
  <1>. QED
    BY <1>1 DEF AloneInv, RowsAlone, CallsAlone, OneCallEach, SagaInit

LEMMA AloneKept ==
    ASSUME ~ReplaySync, ForwardInv, alone => AloneInv, [SagaNext]_svars
    PROVE  (alone => AloneInv)'
  <1>. SUFFICES ASSUME alone' PROVE AloneInv'
    OBVIOUS
  <1>1. OutboxGrows
    BY OutboxStep DEF ForwardInv
  <1>2. alone
    BY DEF SagaNext, CoordinatorStep, Create, BeginEnqueue, BeginSync, BeginPrepare, Begins,
           QueueItem, BindItem, AskForward, AskCompensation, Asks, SettleForward,
           SettleCompensation, PrepareCompensation, Dies, WindowMoves, OutboxMove, svars
  <1>3. AloneInv
    BY <1>2
  <1>4. ASSUME NEW c \in Coordinators, CoordinatorStep(c) PROVE AloneInv'
    <2>1. CASE \/ \E k \in Items : BeginEnqueue(c, k) \/ BeginSync(c, k)
               \/ \E s \in Sagas : BeginPrepare(c, s)
      BY <1>1, <1>3, <2>1, BeginAlone
    <2>. QED
      BY <1>1, <1>3, <1>4, <2>1, QueueAlone, BindAlone, AskForwardAlone, SettleForwardAlone,
         PrepareAlone, AskCompensationAlone, SettleCompensationAlone, DiesAlone
         DEF CoordinatorStep
  <1>5. ASSUME NEW k \in Items, OutboxMove(k) PROVE AloneInv'
    <2>1. PICK q : phase' = [phase EXCEPT ![k] = q] /\ phase[k] # "absent"
                   /\ UNCHANGED <<saga, step, bound, call>>
      BY <1>5, MoveFacts DEF ForwardInv
    <2>2. \A j \in Items : phase'[j] # "absent" => phase[j] # "absent"
      BY <2>1, TypeFacts DEF ForwardInv
    <2>. QED
      BY <1>1, <1>3, <2>1, <2>2, OutsideAlone
  <1>6. ASSUME NEW k \in Items, WindowMoves(k) PROVE AloneInv'
    BY <1>1, <1>3, <1>6, OutsideAlone DEF WindowMoves, tables, outbox
  <1>7. CASE UNCHANGED svars
    BY <1>1, <1>3, <1>7, OutsideAlone DEF svars
  <1>. QED
    BY <1>1, <1>3, <1>4, <1>5, <1>6, <1>7, CreateAlone DEF SagaNext

LEMMA AloneHolds ==
    ASSUME ~ReplaySync
    PROVE  SagaSpec => [](ForwardInv /\ (alone => AloneInv))
  <1>. DEFINE Both == ForwardInv /\ (alone => AloneInv)
  <1>1. SagaInit => Both
    BY ForwardInit, AloneInit
  <1>2. Both /\ [SagaNext]_svars => Both'
    BY ForwardKept, AloneKept
  <1>. HIDE DEF Both
  <1>3. SagaSpec => []Both
    BY <1>1, <1>2, PTL DEF SagaSpec
  <1>. QED
    BY <1>3 DEF Both

-----------------------------------------------------------------------------
(* What the outbox knows of a saga once one of its steps was refused:      *)
(* every step before it is confirmed, none after it was ever queued.       *)
LEMMA AroundRefused ==
    ASSUME ForwardInv, NEW s \in Sagas, NEW n \in Steps(s), phase[Fwd(s, n)] = "refused"
    PROVE  /\ \A j \in Steps(s) : j < n => phase[Fwd(s, j)] = "confirmed"
           /\ \A j \in Steps(s) : j > n => phase[Fwd(s, j)] = "absent"
           /\ \A j \in Done(s) : j \in Steps(s) /\ j < n
  <1>. USE StepsAreNumbers, TypeFacts DEF ForwardInv
  <1>1. \A j \in Steps(s) : j < n => phase[Fwd(s, j)] = "confirmed"
    BY FwdFacts DEF QueuedRightly, May
  <1>2. \A j \in Steps(s) : j > n => phase[Fwd(s, j)] = "absent"
    BY FwdFacts DEF QueuedRightly, May
  <1>3. \A j \in Steps(s) : phase[Fwd(s, j)] \in {"absent", "refused"} => happened[Fwd(s, j)] # 1
    BY FwdFacts DEF EffectsInAmbiguity
  <1>4. \A j \in Steps(s) : j < n \/ j = n \/ j > n
    OBVIOUS
  <1>5. \A j \in Done(s) : j \in Steps(s) /\ happened[Fwd(s, j)] = 1
    BY DEF Done, Fwd
  <1>. QED
    BY <1>1, <1>2, <1>3, <1>4, <1>5

LEMMA StepsCompare ==
    ASSUME NEW s \in Sagas, NEW i \in Steps(s), NEW j \in Steps(s)
    PROVE  i < j \/ i = j \/ i > j
  BY StepsAreNumbers

(* A step whose intent is ambiguous has no company.                        *)
LEMMA ForwardHasNoCompany ==
    ASSUME ForwardInv, NEW k \in Items, k.dir = "forward", phase[k] = "ambiguous"
    PROVE  LET s == k.saga
           IN  /\ \A i \in Steps(s) : i < k.step => i \in Done(s)
               /\ InAmbiguity(s) = {k} /\ Undone(s) = {} /\ ~Failed(s)
  <1>. USE StepsAreNumbers, TypeFacts DEF ForwardInv
  <1>. DEFINE s == k.saga
              i == k.step
  <1>1. s \in Sagas /\ i \in Steps(s) /\ k = Fwd(s, i) /\ Steps(s) \subseteq Nat /\ i \in Nat
    BY ItemFacts
  <1>2. \A j \in Steps(s) : j < i => phase[Fwd(s, j)] = "confirmed"
    BY <1>1, FwdFacts DEF QueuedRightly, May
  <1>3. \A j \in Steps(s) : j < i => j \in Done(s)
    BY <1>1, <1>2, FwdFacts DEF EffectsInAmbiguity, Done, Fwd
  <1>4. ~Failed(s)
    <2>. SUFFICES ASSUME NEW n \in Steps(s), phase[Fwd(s, n)] = "refused" PROVE FALSE
      BY DEF Failed
    <2>1. n < i \/ n = i \/ n > i
      BY <1>1, StepsCompare
    <2>. QED
      BY <1>1, <1>2, <2>1, AroundRefused
  <1>5. \A a \in Reversible[s] : phase[Cmp(s, a)] = "absent"
    BY <1>1, <1>4, CmpFacts DEF QueuedRightly, May
  <1>6. Undone(s) = {}
    BY <1>1, <1>5, CmpFacts DEF Undone, EffectsInAmbiguity, Cmp
  <1>7. \A j \in Steps(s) : phase[Fwd(s, j)] = "ambiguous" => j = i
    <2>. SUFFICES ASSUME NEW j \in Steps(s), phase[Fwd(s, j)] = "ambiguous", j # i PROVE FALSE
      OBVIOUS
    <2>1. j < i \/ j > i
      BY <1>1, StepsCompare
    <2>2. j > i => phase[Fwd(s, i)] = "confirmed"
      <3>1. Fwd(s, j) \in Items /\ Fwd(s, j).saga = s /\ Fwd(s, j).step = j /\ Fwd(s, j).dir = "forward"
        BY <1>1, FwdFacts
      <3>2. May(Fwd(s, j))
        BY <3>1 DEF QueuedRightly
      <3>. QED
        BY <1>1, <3>1, <3>2 DEF May
    <2>. QED
      BY <1>1, <1>2, <2>1, <2>2
  <1>8. \A x \in Forward(s) \cup Undo(s) : phase[x] = "ambiguous" => x = k
    <2>. SUFFICES ASSUME NEW x \in Forward(s) \cup Undo(s), phase[x] = "ambiguous" PROVE x = k
      OBVIOUS
    <2>1. x \in Items /\ x.saga = s
      BY <1>1, ItemsOfSaga
    <2>2. \/ x = Fwd(s, x.step) /\ x.step \in Steps(s)
          \/ x = Cmp(s, x.step) /\ x.step \in Reversible[s]
      BY <2>1, ItemFacts
    <2>. QED
      BY <1>1, <1>5, <1>7, <2>2
  <1>9. k \in Forward(s) \cup Undo(s)
    BY <1>1, ItemsOfSaga
  <1>10. InAmbiguity(s) = {k}
    BY <1>8, <1>9 DEF InAmbiguity
  <1>. QED
    BY <1>3, <1>4, <1>6, <1>10

LEMMA OnlyDoneIsUndone ==
    ASSUME ForwardInv, NEW k \in Items, k.dir # "forward", phase[k] # "absent"
    PROVE  k.step \in Done(k.saga) /\ Failed(k.saga)
  <1>1. phase[Fwd(k.saga, k.step)] = "confirmed" /\ Failed(k.saga)
    BY DEF ForwardInv, QueuedRightly, May
  <1>. QED
    BY <1>1, ItemFacts, FwdFacts DEF ForwardInv, EffectsInAmbiguity, Done, Fwd

(* A compensation whose intent is ambiguous has no company, and what was   *)
(* done later is undone.                                                   *)
LEMMA UndoIsInOrder ==
    ASSUME ForwardInv, AloneInv, NEW k \in Items, k.dir # "forward", phase[k] = "ambiguous"
    PROVE  LET s == k.saga
           IN  /\ \A i \in Done(s) : i > k.step => i \in Undone(s)
               /\ InAmbiguity(s) = {k}
  <1>. USE StepsAreNumbers, TypeFacts DEF ForwardInv
  <1>. DEFINE s == k.saga
              i == k.step
  <1>1. /\ s \in Sagas /\ i \in Steps(s) /\ i \in Reversible[s] /\ k = Cmp(s, i)
        /\ Steps(s) \subseteq Nat /\ i \in Nat
    BY ItemFacts
  <1>2. RowInv(s)
    BY <1>1 DEF AloneInv, RowsAlone
  <1>3. UndoRow(s, i) /\ \A j \in Steps(s) : j > i /\ OverRow(s, j) => step[s][j] = "COMPENSATED"
    BY <1>1, <1>2 DEF RowInv, UndoneInOrder
  <1>4. PICK n \in Steps(s) : step[s][n] = "REFUSED"
    BY <1>1, <1>2, <1>3 DEF RowInv, RowsInOrder, Refused
  <1>5. phase[Fwd(s, n)] = "refused" /\ \A j \in Steps(s) : j < n => OverRow(s, j)
    BY <1>2, <1>4 DEF RowInv, RowsInOrder
  <1>6. /\ \A j \in Steps(s) : j < n => phase[Fwd(s, j)] = "confirmed"
        /\ \A j \in Steps(s) : j > n => phase[Fwd(s, j)] = "absent"
        /\ \A j \in Done(s) : j \in Steps(s) /\ j < n
    BY <1>1, <1>4, <1>5, AroundRefused
  <1>7. \A j \in Steps(s) : step[s][j] = "COMPENSATED" => j \in Reversible[s] /\ phase[Cmp(s, j)] = "confirmed"
    BY <1>2 DEF RowInv, RowsInOrder
  <1>8. \A j \in Done(s) : j > i => j \in Undone(s)
    <2>1. \A j \in Done(s) : j > i => j \in Reversible[s] /\ phase[Cmp(s, j)] = "confirmed"
      BY <1>3, <1>5, <1>6, <1>7
    <2>. QED
      BY <1>1, <2>1, CmpFacts DEF EffectsInAmbiguity, Undone, Cmp
  <1>9. \A j \in Steps(s) : phase[Fwd(s, j)] # "ambiguous"
    <2>1. \A j \in Steps(s) : j < n \/ j = n \/ j > n
      BY <1>1, StepsCompare
    <2>. QED
      BY <1>5, <1>6, <2>1
  <1>10. \A j \in Reversible[s] : phase[Cmp(s, j)] = "ambiguous" => j = i
    <2>. SUFFICES ASSUME NEW j \in Reversible[s], phase[Cmp(s, j)] = "ambiguous", j # i PROVE FALSE
      OBVIOUS
    <2>1. j \in Steps(s) /\ (j < i \/ j > i)
      BY <1>1, StepsCompare
    <2>2. UndoRow(s, j) /\ \A l \in Steps(s) : l > j /\ OverRow(s, l) => step[s][l] = "COMPENSATED"
      BY <1>2 DEF RowInv, UndoneInOrder
    <2>3. OverRow(s, i) /\ OverRow(s, j)
      BY <1>3, <2>2 DEF OverRow
    <2>. QED
      BY <1>1, <1>3, <1>7, <2>1, <2>2, <2>3
  <1>11. \A x \in Forward(s) \cup Undo(s) : phase[x] = "ambiguous" => x = k
    <2>. SUFFICES ASSUME NEW x \in Forward(s) \cup Undo(s), phase[x] = "ambiguous" PROVE x = k
      OBVIOUS
    <2>1. x \in Items /\ x.saga = s
      BY <1>1, ItemsOfSaga
    <2>2. \/ x = Fwd(s, x.step) /\ x.step \in Steps(s)
          \/ x = Cmp(s, x.step) /\ x.step \in Reversible[s]
      BY <2>1, ItemFacts
    <2>. QED
      BY <1>1, <1>9, <1>10, <2>2
  <1>12. k \in Forward(s) \cup Undo(s)
    BY <1>1, ItemsOfSaga
  <1>13. InAmbiguity(s) = {k}
    BY <1>11, <1>12 DEF InAmbiguity
  <1>. QED
    BY <1>8, <1>13

(* An effect takes place only while its intent is ambiguous.               *)
LEMMA EffectIsAmbiguous ==
    ASSUME ForwardInv, [SagaNext]_svars, NEW k \in Items, happened'[k] > happened[k]
    PROVE  phase[k] = "ambiguous"
  <1>. USE TypeFacts DEF ForwardInv
  <1>1. CASE happened' = happened
    BY <1>1
  <1>2. CASE \E x \in Items : OutboxMove(x)
    <2>1. PICK x \in Items, q \in Outbox!Phases, h \in {0, 1} :
              /\ Outbox!Moves(phase[x], happened[x], q, h)
              /\ happened' = [happened EXCEPT ![x] = h]
      BY <1>2, MoveFacts
    <2>. QED
      BY <2>1 DEF Outbox!Moves
  <1>. QED
    BY <1>1, <1>2
       DEF SagaNext, CoordinatorStep, Create, BeginEnqueue, BeginSync, BeginPrepare, Begins,
           QueueItem, Queue, BindItem, AskForward, AskCompensation, Asks, SettleForward,
           SettleCompensation, PrepareCompensation, Dies, WindowMoves, outbox, svars

(* Whatever coordinators do, however often they sync a settled step again, *)
(* however many of them work on one saga and wherever they die.            *)
ForwardIsOrderly ==
    [][\A k \in Items : happened'[k] > happened[k] =>
          LET s == k.saga
          IN  IF k.dir = "forward"
              THEN /\ \A i \in Steps(s) : i < k.step => i \in Done(s)
                   /\ InAmbiguity(s) = {k} /\ Undone(s) = {} /\ ~Failed(s)
              ELSE k.step \in Done(s) /\ Failed(s)]_svars

(* A step takes effect after all its predecessors, beside no other effect  *)
(* of its saga, while no step was refused and nothing was undone; and only *)
(* what was done is undone, in a saga that failed.  Only the order of the  *)
(* compensations needs coordinators that keep apart.                       *)
THEOREM ForwardEffectsStayOrderly == SagaSpec => ForwardIsOrderly
  <1>. DEFINE Orderly ==
           \A k \in Items : happened'[k] > happened[k] =>
              LET s == k.saga
              IN  IF k.dir = "forward"
                  THEN /\ \A i \in Steps(s) : i < k.step => i \in Done(s)
                       /\ InAmbiguity(s) = {k} /\ Undone(s) = {} /\ ~Failed(s)
                  ELSE k.step \in Done(s) /\ Failed(s)
  <1>1. ForwardInv /\ [SagaNext]_svars => Orderly
    <2>. SUFFICES ASSUME ForwardInv, [SagaNext]_svars,
                         NEW k \in Items, happened'[k] > happened[k]
                  PROVE  LET s == k.saga
                         IN  IF k.dir = "forward"
                             THEN /\ \A i \in Steps(s) : i < k.step => i \in Done(s)
                                  /\ InAmbiguity(s) = {k} /\ Undone(s) = {} /\ ~Failed(s)
                             ELSE k.step \in Done(s) /\ Failed(s)
      OBVIOUS
    <2>1. phase[k] = "ambiguous"
      BY EffectIsAmbiguous
    <2>2. CASE k.dir = "forward"
      BY <2>1, <2>2, ForwardHasNoCompany
    <2>3. CASE k.dir # "forward"
      BY <2>1, <2>3, OnlyDoneIsUndone
    <2>. QED
      BY <2>2, <2>3
  <1>. HIDE DEF Orderly
  <1>2. SagaSpec => [][Orderly]_svars
    BY <1>1, ForwardHolds, PTL DEF SagaSpec
  <1>. QED
    BY <1>2 DEF ForwardIsOrderly, Orderly

(* When no settled step is synced again, the effects of a saga are         *)
(* orderly, for any number of sagas, steps and coordinators: forward ones  *)
(* whatever the coordinators do, compensations as long as no saga is in    *)
(* two calls at once.                                                      *)
THEOREM EffectsStayOrderly ==
    ASSUME ~ReplaySync
    PROVE  SagaSpec => OrderlyEffects
  <1>. DEFINE Orderly ==
           \A k \in Items : happened'[k] > happened[k] =>
              LET s == k.saga
              IN  IF k.dir = "forward"
                  THEN /\ \A i \in Steps(s) : i < k.step => i \in Done(s)
                       /\ InAmbiguity(s) = {k} /\ Undone(s) = {}
                  ELSE /\ k.step \in Done(s)
                       /\ alone => /\ \A i \in Done(s) : i > k.step => i \in Undone(s)
                                   /\ InAmbiguity(s) = {k}
  <1>1. ForwardInv /\ (alone => AloneInv) /\ [SagaNext]_svars => Orderly
    <2>. SUFFICES ASSUME ForwardInv, alone => AloneInv, [SagaNext]_svars,
                         NEW k \in Items, happened'[k] > happened[k]
                  PROVE  LET s == k.saga
                         IN  IF k.dir = "forward"
                             THEN /\ \A i \in Steps(s) : i < k.step => i \in Done(s)
                                  /\ InAmbiguity(s) = {k} /\ Undone(s) = {}
                             ELSE /\ k.step \in Done(s)
                                  /\ alone => /\ \A i \in Done(s) : i > k.step => i \in Undone(s)
                                              /\ InAmbiguity(s) = {k}
      OBVIOUS
    <2>1. phase[k] = "ambiguous"
      BY EffectIsAmbiguous
    <2>2. CASE k.dir = "forward"
      BY <2>1, <2>2, ForwardHasNoCompany
    <2>3. CASE k.dir # "forward"
      BY <2>1, <2>3, OnlyDoneIsUndone, UndoIsInOrder
    <2>. QED
      BY <2>2, <2>3
  <1>. HIDE DEF Orderly
  <1>2. SagaSpec => [][Orderly]_svars
    BY <1>1, AloneHolds, PTL DEF SagaSpec
  <1>. QED
    BY <1>2 DEF OrderlyEffects, Orderly

(* And while a row is UNCERTAIN its saga says that it must be reconciled,  *)
(* as long as no saga is in two calls at once.                             *)
THEOREM AmbiguityStaysShown ==
    ASSUME ~ReplaySync
    PROVE  SagaSpec => []AmbiguityIsShown
  <1>1. (alone => AloneInv) => AmbiguityIsShown
    BY DEF AloneInv, RowsAlone, RowInv, SagaTells, AmbiguityIsShown, In
  <1>. QED
    BY <1>1, AloneHolds, PTL

(* And its final states are true under the same condition.                 *)
THEOREM FinalStatesStayTrue ==
    ASSUME ~ReplaySync
    PROVE  SagaSpec => []FinalStatesAreTrue
  <1>1. ForwardInv /\ (alone => AloneInv) => FinalStatesAreTrue
    <2>. SUFFICES ASSUME ForwardInv, AloneInv, NEW s \in Sagas
                  PROVE  /\ saga[s] = "COMPLETED" => Done(s) = Steps(s) /\ Undone(s) = {}
                         /\ saga[s] = "COMPENSATED" => Done(s) = Undone(s)
                         /\ saga[s] = "FAILED" => Done(s) = {}
      BY DEF FinalStatesAreTrue
    <2>. USE StepsAreNumbers, TypeFacts DEF ForwardInv
    <2>1. RowInv(s)
      BY DEF AloneInv, RowsAlone
    <2>2. \A i \in Undone(s) : /\ i \in Reversible[s] /\ i \in Steps(s)
                              /\ phase[Cmp(s, i)] # "absent"
      BY CmpFacts DEF Undone, EffectsInAmbiguity, Cmp
    <2>3. CASE saga[s] = "COMPLETED"
      <3>1. \A i \in Steps(s) : step[s][i] = "CONFIRMED"
        BY <2>1, <2>3 DEF RowInv, SagaTells
      <3>2. Done(s) = Steps(s)
        BY <3>1, FwdFacts DEF RowsSure, Sure, EffectsInAmbiguity, Done, Fwd
      <3>3. Undone(s) = {}
        BY <2>1, <2>2, <3>1 DEF RowInv, UndoneInOrder, UndoRow, UndoOpen
      <3>. QED
        BY <2>3, <3>2, <3>3
    <2>4. CASE saga[s] = "COMPENSATED"
      <3>1. Refused(s) /\ \A i \in Steps(s) : OverRow(s, i) => step[s][i] = "COMPENSATED"
        BY <2>1, <2>4 DEF RowInv, SagaTells
      <3>2. PICK n \in Steps(s) : step[s][n] = "REFUSED"
        BY <3>1 DEF Refused
      <3>3. phase[Fwd(s, n)] = "refused" /\ \A j \in Steps(s) : j < n => OverRow(s, j)
        BY <2>1, <3>2 DEF RowInv, RowsInOrder
      <3>4. \A j \in Done(s) : j \in Reversible[s] /\ phase[Cmp(s, j)] = "confirmed"
        BY <2>1, <3>1, <3>3, AroundRefused DEF RowInv, RowsInOrder
      <3>5. Done(s) \subseteq Undone(s)
        BY <3>4, CmpFacts DEF EffectsInAmbiguity, Undone, Cmp
      <3>6. Undone(s) \subseteq Done(s)
        BY <2>2, CmpFacts, OnlyDoneIsUndone
      <3>. QED
        BY <2>4, <3>5, <3>6
    <2>5. CASE saga[s] = "FAILED"
      <3>1. 1 \in Steps(s) /\ phase[Fwd(s, 1)] = "refused"
        BY <2>1, <2>5 DEF RowInv, RowsInOrder, SagaTells, Steps
      <3>2. \A j \in Done(s) : j \in Steps(s) /\ j < 1
        BY <3>1, AroundRefused
      <3>. QED
        BY <2>5, <3>2 DEF Steps
    <2>. QED
      BY <2>3, <2>4, <2>5
  <1>. QED
    BY <1>1, AloneHolds, PTL

-----------------------------------------------------------------------------
(* Sums.  SumFunctionOnSet folds over a set one element at a time, in the  *)
(* order First takes them; these lemmas show that the order is of no       *)
(* account.  Induction over the subsets of a finite set, for a property    *)
(* given as the set S of the subsets that have it:                         *)
LEMMA SubsetInduction ==
    ASSUME NEW K, IsFiniteSet(K), NEW S,
           \A T \in SUBSET K : (\A x \in T : T \ {x} \in S) => T \in S
    PROVE  \A T \in SUBSET K : T \in S
  <1>. SUFFICES ASSUME NEW U \in SUBSET K, U \notin S PROVE FALSE
    OBVIOUS
  <1>. DEFINE Bad == {T \in SUBSET K : T \notin S}
              N == {Cardinality(T) : T \in Bad}
  <1>1. \A T \in SUBSET K : IsFiniteSet(T) /\ Cardinality(T) \in Nat
    BY FS_Subset, FS_CardinalityType
  <1>2. N \subseteq Nat /\ N # {}
    BY <1>1
  <1>3. PICK n \in N : \A m \in N : n <= m
    <2>. HIDE DEF N
    <2>. QED
      BY <1>2, LeastNatural
  <1>4. PICK T \in Bad : Cardinality(T) = n
    OBVIOUS
  <1>5. PICK x \in T : T \ {x} \notin S
    BY <1>4
  <1>6. Cardinality(T \ {x}) \in N
    BY <1>5
  <1>7. Cardinality(T \ {x}) = Cardinality(T) - 1
    BY <1>1, <1>4, <1>5, FS_RemoveElement
  <1>8. n <= Cardinality(T \ {x}) /\ Cardinality(T) \in Nat
    BY <1>1, <1>3, <1>4, <1>6
  <1>. HIDE DEF N, Bad
  <1>. QED
    BY <1>4, <1>7, <1>8

First(t) == CHOOSE x \in t : TRUE

Accumulates(g, f, K) ==
    g = [t \in SUBSET K |-> IF t = {} THEN 0 ELSE f[First(t)] + g[t \ {First(t)}]]

LEMMA SumIsAccumulated ==
    ASSUME NEW f, NEW K
    PROVE  SumFunctionOnSet(f, K) = (CHOOSE g : Accumulates(g, f, K))[K]
  BY DEF SumFunctionOnSet, FoldFunctionOnSet, MapThenFoldSet, First, Accumulates

LEMMA FirstIn ==
    ASSUME NEW t, t # {}
    PROVE  First(t) \in t
  BY DEF First

LEMMA AccumulatorIsUnique ==
    ASSUME NEW f, NEW K, IsFiniteSet(K), NEW g, NEW h,
           Accumulates(g, f, K), Accumulates(h, f, K)
    PROVE  g = h
  <1>. DEFINE S == {t \in SUBSET K : g[t] = h[t]}
  <1>1. /\ DOMAIN g = SUBSET K
        /\ \A t \in SUBSET K : g[t] = IF t = {} THEN 0 ELSE f[First(t)] + g[t \ {First(t)}]
    BY DEF Accumulates
  <1>2. /\ DOMAIN h = SUBSET K
        /\ \A t \in SUBSET K : h[t] = IF t = {} THEN 0 ELSE f[First(t)] + h[t \ {First(t)}]
    BY DEF Accumulates
  <1>3. ASSUME NEW T \in SUBSET K, \A x \in T : T \ {x} \in S PROVE T \in S
    BY <1>1, <1>2, <1>3, FirstIn
  <1>4. \A t \in SUBSET K : t \in S
    <2>. HIDE DEF S
    <2>. QED
      BY <1>3, SubsetInduction
  <1>5. g = [t \in SUBSET K |-> g[t]] /\ h = [t \in SUBSET K |-> h[t]]
    BY DEF Accumulates
  <1>. QED
    BY <1>4, <1>5

(* Values for the sets of up to n elements are extended to those of n + 1. *)
LEMMA AccumulatorExists ==
    ASSUME NEW f, NEW K, IsFiniteSet(K), \A x \in K : f[x] \in Nat
    PROVE  \E g \in [SUBSET K -> Nat] : Accumulates(g, f, K)
  <1>. DEFINE Good(g, n) == \A t \in SUBSET K : Cardinality(t) <= n =>
                  g[t] = IF t = {} THEN 0 ELSE f[First(t)] + g[t \ {First(t)}]
              Bad == {n \in Nat : ~ \E g \in [SUBSET K -> Nat] : Good(g, n)}
  <1>1. \A t \in SUBSET K : /\ Cardinality(t) \in Nat
                            /\ Cardinality(t) = 0 <=> t = {}
                            /\ Cardinality(t) <= Cardinality(K)
    BY FS_Subset, FS_CardinalityType, FS_EmptySet
  <1>2. \A t \in SUBSET K : t # {} =>
            /\ First(t) \in K /\ t \ {First(t)} \in SUBSET K /\ f[First(t)] \in Nat
            /\ Cardinality(t \ {First(t)}) = Cardinality(t) - 1
    BY FirstIn, FS_Subset, FS_RemoveElement
  <1>3. Bad = {}
    <2>. SUFFICES ASSUME Bad # {} PROVE FALSE
      OBVIOUS
    <2>1. PICK n \in Bad : \A m \in Bad : n <= m
      <3>1. Bad \subseteq Nat
        OBVIOUS
      <3>. HIDE DEF Bad
      <3>. QED
        BY <3>1, LeastNatural
    <2>2. CASE n = 0
      <3>. DEFINE z == [t \in SUBSET K |-> 0]
      <3>1. z \in [SUBSET K -> Nat] /\ Good(z, 0)
        BY <1>1
      <3>. QED
        BY <2>2, <3>1
    <2>3. CASE n # 0
      <3>1. n \in Nat /\ n - 1 \in Nat /\ ~(n <= n - 1)
        BY <2>3
      <3>2. PICK g \in [SUBSET K -> Nat] : Good(g, n - 1)
        <4>1. n - 1 \notin Bad
          BY <2>1, <3>1
        <4>. QED
          BY <3>1, <4>1
      <3>. DEFINE h == [t \in SUBSET K |-> IF Cardinality(t) = n
                            THEN f[First(t)] + g[t \ {First(t)}] ELSE g[t]]
      <3>3. h \in [SUBSET K -> Nat]
        <4>1. ASSUME NEW t \in SUBSET K, Cardinality(t) = n
              PROVE  f[First(t)] + g[t \ {First(t)}] \in Nat
          BY <1>1, <1>2, <2>3, <4>1
        <4>. QED
          BY <4>1
      <3>4. ASSUME NEW t \in SUBSET K, Cardinality(t) <= n
            PROVE  h[t] = IF t = {} THEN 0 ELSE f[First(t)] + h[t \ {First(t)}]
        <4>1. CASE t = {}
          BY <1>1, <2>3, <3>1, <3>2, <4>1
        <4>2. CASE t # {}
          <5>1. /\ t \ {First(t)} \in SUBSET K /\ Cardinality(t \ {First(t)}) # n
                /\ Cardinality(t) \in Nat
            BY <1>1, <1>2, <3>1, <3>4, <4>2
          <5>2. h[t \ {First(t)}] = g[t \ {First(t)}]
            BY <5>1
          <5>3. h[t] = f[First(t)] + g[t \ {First(t)}]
            BY <3>1, <3>2, <3>4, <4>2, <5>1
          <5>. QED
            BY <4>2, <5>2, <5>3
        <4>. QED
          BY <4>1, <4>2
      <3>5. Good(h, n)
        BY <3>4
      <3>. HIDE DEF h, Good
      <3>. QED
        BY <3>3, <3>5
    <2>. QED
      BY <2>2, <2>3
  <1>4. PICK g \in [SUBSET K -> Nat] : Good(g, Cardinality(K))
    BY <1>1, <1>3
  <1>5. \A t \in SUBSET K : g[t] = IF t = {} THEN 0 ELSE f[First(t)] + g[t \ {First(t)}]
    BY <1>1, <1>4
  <1>. QED
    BY <1>5 DEF Accumulates

(* A set's sum is what any accumulator on a larger set has at it.          *)
LEMMA SumAccumulates ==
    ASSUME NEW f, NEW K, IsFiniteSet(K), NEW g, Accumulates(g, f, K), NEW T \in SUBSET K
    PROVE  SumFunctionOnSet(f, T) = g[T]
  <1>. DEFINE h == [t \in SUBSET T |-> g[t]]
              c == CHOOSE x : Accumulates(x, f, T)
  <1>1. \A t \in SUBSET K : g[t] = IF t = {} THEN 0 ELSE f[First(t)] + g[t \ {First(t)}]
    BY DEF Accumulates
  <1>2. \A t \in SUBSET T : h[t] = IF t = {} THEN 0 ELSE f[First(t)] + h[t \ {First(t)}]
    BY <1>1
  <1>3. Accumulates(h, f, T)
    <2>1. h = [t \in SUBSET T |-> h[t]]
      OBVIOUS
    <2>. HIDE DEF h
    <2>. QED
      BY <1>2, <2>1 DEF Accumulates
  <1>4. Accumulates(c, f, T)
    <2>. HIDE DEF h
    <2>. QED
      BY <1>3
  <1>5. c = h
    <2>1. IsFiniteSet(T)
      BY FS_Subset
    <2>. HIDE DEF h, c
    <2>. QED
      BY <1>3, <1>4, <2>1, AccumulatorIsUnique
  <1>. QED
    BY <1>5, SumIsAccumulated

LEMMA SumFacts ==
    ASSUME NEW f, NEW K, IsFiniteSet(K), \A x \in K : f[x] \in Nat
    PROVE  /\ SumFunctionOnSet(f, {}) = 0 /\ SumFunctionOnSet(f, K) \in Nat
           /\ K # {} => SumFunctionOnSet(f, K)
                          = f[First(K)] + SumFunctionOnSet(f, K \ {First(K)})
  <1>1. PICK g \in [SUBSET K -> Nat] : Accumulates(g, f, K)
    BY AccumulatorExists
  <1>2. \A T \in SUBSET K : SumFunctionOnSet(f, T) = g[T]
    BY <1>1, SumAccumulates
  <1>3. /\ g[{}] = 0 /\ g[K] \in Nat
        /\ K # {} => g[K] = f[First(K)] + g[K \ {First(K)}]
    BY <1>1 DEF Accumulates
  <1>. QED
    BY <1>2, <1>3

(* Any element may be taken first.                                         *)
LEMMA SumTakesOne ==
    ASSUME NEW f, NEW K, IsFiniteSet(K), \A x \in K : f[x] \in Nat, NEW k \in K
    PROVE  SumFunctionOnSet(f, K) = f[k] + SumFunctionOnSet(f, K \ {k})
  <1>. DEFINE Sum(T) == SumFunctionOnSet(f, T)
              S == {T \in SUBSET K : \A x \in T : Sum(T) = f[x] + Sum(T \ {x})}
  <1>1. \A T \in SUBSET K : /\ Sum(T) \in Nat
                            /\ T # {} => Sum(T) = f[First(T)] + Sum(T \ {First(T)})
    BY FS_Subset, SumFacts
  <1>. HIDE DEF Sum
  <1>2. ASSUME NEW T \in SUBSET K, \A x \in T : T \ {x} \in S PROVE T \in S
    <2>. SUFFICES ASSUME NEW x \in T PROVE Sum(T) = f[x] + Sum(T \ {x})
      OBVIOUS
    <2>. DEFINE y == First(T)
    <2>1. y \in T /\ Sum(T) = f[y] + Sum(T \ {y})
      BY <1>1, FirstIn
    <2>. HIDE DEF y
    <2>2. CASE x = y
      BY <2>1, <2>2
    <2>3. CASE x # y
      <3>1. x \in T \ {y} /\ y \in T \ {x} /\ (T \ {y}) \ {x} = (T \ {x}) \ {y}
        BY <2>1, <2>3
      <3>2. Sum(T \ {y}) = f[x] + Sum((T \ {y}) \ {x}) /\ Sum(T \ {x}) = f[y] + Sum((T \ {x}) \ {y})
        BY <1>2, <2>1, <3>1
      <3>3. f[x] \in Nat /\ f[y] \in Nat /\ Sum((T \ {y}) \ {x}) \in Nat
        BY <1>1, <2>1
      <3>. QED
        BY <2>1, <3>1, <3>2, <3>3
    <2>. QED
      BY <2>2, <2>3
  <1>3. K \in S
    <2>. HIDE DEF S
    <2>1. \A T \in SUBSET K : T \in S
      BY <1>2, SubsetInduction
    <2>. QED
      BY <2>1
  <1>. QED
    BY <1>3 DEF Sum

LEMMA SumGrows ==
    ASSUME NEW f, NEW L, IsFiniteSet(L), \A x \in L : f[x] \in Nat, NEW K \in SUBSET L
    PROVE  SumFunctionOnSet(f, K) <= SumFunctionOnSet(f, L)
  <1>. DEFINE Sum(T) == SumFunctionOnSet(f, T)
              S == {T \in SUBSET L : K \subseteq T => Sum(K) <= Sum(T)}
  <1>1. ASSUME NEW T \in SUBSET L
        PROVE  Sum(T) \in Nat /\ \A x \in T : Sum(T) = f[x] + Sum(T \ {x})
    <2>1. IsFiniteSet(T) /\ \A x \in T : f[x] \in Nat
      BY FS_Subset
    <2>2. Sum(T) \in Nat
      BY <2>1, SumFacts
    <2>3. \A x \in T : Sum(T) = f[x] + Sum(T \ {x})
      BY <2>1, SumTakesOne
    <2>. QED
      BY <2>2, <2>3
  <1>. HIDE DEF Sum
  <1>2. ASSUME NEW T \in SUBSET L, \A x \in T : T \ {x} \in S PROVE T \in S
    <2>. SUFFICES ASSUME K \subseteq T PROVE Sum(K) <= Sum(T)
      OBVIOUS
    <2>1. CASE K = T
      BY <1>1, <2>1
    <2>2. CASE K # T
      <3>1. PICK x \in T : x \notin K
        BY <2>2
      <3>2. Sum(K) <= Sum(T \ {x}) /\ Sum(T) = f[x] + Sum(T \ {x})
        BY <1>1, <1>2, <3>1
      <3>3. Sum(K) \in Nat /\ Sum(T \ {x}) \in Nat /\ f[x] \in Nat
        BY <1>1
      <3>. QED
        BY <3>2, <3>3
    <2>. QED
      BY <2>1, <2>2
  <1>3. L \in S
    <2>. HIDE DEF S
    <2>1. \A T \in SUBSET L : T \in S
      BY <1>2, SubsetInduction
    <2>. QED
      BY <2>1
  <1>. QED
    BY <1>3 DEF Sum

LEMMA SumOfDisjoint ==
    ASSUME NEW f, NEW A, IsFiniteSet(A), NEW B, IsFiniteSet(B), A \cap B = {},
           \A x \in A \cup B : f[x] \in Nat
    PROVE  SumFunctionOnSet(f, A \cup B) = SumFunctionOnSet(f, A) + SumFunctionOnSet(f, B)
  <1>. DEFINE Sum(T) == SumFunctionOnSet(f, T)
              S == {T \in SUBSET B : Sum(A \cup T) = Sum(A) + Sum(T)}
  <1>1. IsFiniteSet(A \cup B)
    BY FS_Union
  <1>2. ASSUME NEW T \in SUBSET (A \cup B)
        PROVE  Sum(T) \in Nat /\ \A x \in T : Sum(T) = f[x] + Sum(T \ {x})
    <2>1. IsFiniteSet(T) /\ \A x \in T : f[x] \in Nat
      BY <1>1, FS_Subset
    <2>2. Sum(T) \in Nat
      BY <2>1, SumFacts
    <2>3. \A x \in T : Sum(T) = f[x] + Sum(T \ {x})
      BY <2>1, SumTakesOne
    <2>. QED
      BY <2>2, <2>3
  <1>3. Sum({}) = 0
    BY SumFacts
  <1>. HIDE DEF Sum
  <1>4. ASSUME NEW T \in SUBSET B, \A x \in T : T \ {x} \in S PROVE T \in S
    <2>1. CASE T = {}
      <3>1. A \cup T = A
        BY <2>1
      <3>2. Sum(A) \in Nat
        BY <1>2
      <3>. QED
        BY <1>3, <2>1, <3>1, <3>2
    <2>2. CASE T # {}
      <3>1. PICK x \in T : TRUE
        BY <2>2
      <3>2. (A \cup T) \ {x} = A \cup (T \ {x}) /\ x \in A \cup T
        BY <3>1
      <3>3. Sum(A \cup T) = f[x] + Sum(A \cup (T \ {x}))
        BY <1>2, <3>2
      <3>4. Sum(T) = f[x] + Sum(T \ {x})
        BY <1>2, <3>1
      <3>5. Sum(A \cup (T \ {x})) = Sum(A) + Sum(T \ {x})
        BY <1>4, <3>1
      <3>6. f[x] \in Nat /\ Sum(A) \in Nat /\ Sum(T \ {x}) \in Nat
        BY <1>2, <3>1
      <3>7. Sum(A \cup T) = Sum(A) + Sum(T)
        BY <3>3, <3>4, <3>5, <3>6
      <3>. QED
        BY <3>7
    <2>. QED
      BY <2>1, <2>2
  <1>5. B \in S
    <2>. HIDE DEF S
    <2>1. \A T \in SUBSET B : T \in S
      BY <1>4, SubsetInduction
    <2>. QED
      BY <2>1
  <1>. QED
    BY <1>5 DEF Sum

(* A sum over the indices of distinct items is the sum over the items.     *)
LEMMA SumRenamed ==
    ASSUME NEW f, NEW g, NEW h, NEW I, IsFiniteSet(I),
           \A i \in I : g[i] \in Nat /\ f[h[i]] = g[i],
           \A i, j \in I : h[i] = h[j] => i = j
    PROVE  /\ IsFiniteSet({h[i] : i \in I})
           /\ SumFunctionOnSet(f, {h[i] : i \in I}) = SumFunctionOnSet(g, I)
  <1>. DEFINE Img(T) == {h[i] : i \in T}
              S == {T \in SUBSET I : /\ IsFiniteSet(Img(T))
                                     /\ SumFunctionOnSet(f, Img(T)) = SumFunctionOnSet(g, T)}
  <1>1. ASSUME NEW T \in SUBSET I, \A x \in T : T \ {x} \in S PROVE T \in S
    <2>1. CASE T = {}
      <3>1. Img(T) = {}
        BY <2>1
      <3>2. \A e : SumFunctionOnSet(e, {}) = 0
        BY SumFacts, FS_EmptySet
      <3>. QED
        BY <2>1, <3>1, <3>2, FS_EmptySet
    <2>2. CASE T # {}
      <3>1. PICK x \in T : TRUE
        BY <2>2
      <3>2. /\ Img(T) = Img(T \ {x}) \cup {h[x]} /\ h[x] \in Img(T)
            /\ Img(T) \ {h[x]} = Img(T \ {x})
        BY <3>1
      <3>3. IsFiniteSet(Img(T \ {x}))
            /\ SumFunctionOnSet(f, Img(T \ {x})) = SumFunctionOnSet(g, T \ {x})
        BY <1>1, <3>1
      <3>4. \A y \in Img(T) : f[y] \in Nat
        OBVIOUS
      <3>. HIDE DEF Img
      <3>5. IsFiniteSet(Img(T))
        <4>1. IsFiniteSet(Img(T \ {x}) \cup {h[x]})
          BY <3>3, FS_AddElement
        <4>. QED
          BY <3>2, <4>1, Zenon
      <3>6. SumFunctionOnSet(f, Img(T)) = f[h[x]] + SumFunctionOnSet(f, Img(T) \ {h[x]})
        <4>1. h[x] \in Img(T)
          BY <3>2
        <4>. QED
          BY <3>4, <3>5, <4>1, SumTakesOne
      <3>7. SumFunctionOnSet(g, T) = g[x] + SumFunctionOnSet(g, T \ {x})
        <4>1. IsFiniteSet(T) /\ \A y \in T : g[y] \in Nat
          BY FS_Subset
        <4>. QED
          BY <3>1, <4>1, SumTakesOne
      <3>8. f[h[x]] = g[x]
        BY <3>1
      <3>. QED
        BY <3>2, <3>3, <3>5, <3>6, <3>7, <3>8
    <2>. QED
      BY <2>1, <2>2
  <1>2. I \in S
    <2>. HIDE DEF S
    <2>1. \A T \in SUBSET I : T \in S
      BY <1>1, SubsetInduction
    <2>. QED
      BY <2>1
  <1>. QED
    BY <1>2

-----------------------------------------------------------------------------
(* The reserve.                                                            *)
LEMMA WorstCaseCounts ==
    ASSUME NEW s \in Sagas
    PROVE  /\ IsFiniteSet(Forward(s) \cup Undo(s))
           /\ Cardinality(Forward(s) \cup Undo(s)) = WorstCase(s)
  <1>1. IsFiniteSet(Steps(s)) /\ Cardinality(Steps(s)) = Length[s]
    BY StepsAreNumbers, FS_Interval DEF Steps
  <1>2. IsFiniteSet(Reversible[s])
    BY <1>1, StepsAreNumbers, FS_Subset
  <1>3. IsFiniteSet(Forward(s)) /\ Cardinality(Forward(s)) = Length[s]
    <2>. DEFINE f == [i \in Steps(s) |-> Fwd(s, i)]
    <2>1. f \in Bijection(Steps(s), Forward(s))
      BY DEF Bijection, Injection, Surjection, IsInjective, Forward, Fwd, Item
    <2>. QED
      BY <1>1, <2>1, FS_Bijection DEF ExistsBijection
  <1>4. IsFiniteSet(Undo(s)) /\ Cardinality(Undo(s)) = Cardinality(Reversible[s])
    <2>. DEFINE f == [i \in Reversible[s] |-> Cmp(s, i)]
    <2>1. f \in Bijection(Reversible[s], Undo(s))
      BY DEF Bijection, Injection, Surjection, IsInjective, Undo, Cmp, Item
    <2>. QED
      BY <1>2, <2>1, FS_Bijection DEF ExistsBijection
  <1>5. Forward(s) \cap Undo(s) = {}
    BY DEF Forward, Undo, Item
  <1>6. Cardinality(Forward(s) \cap Undo(s)) = 0
    BY <1>5, FS_EmptySet
  <1>7. Cardinality(Forward(s)) \in Nat /\ Cardinality(Undo(s)) \in Nat
    BY <1>3, <1>4, FS_CardinalityType
  <1>8. /\ IsFiniteSet(Forward(s) \cup Undo(s))
        /\ Cardinality(Forward(s) \cup Undo(s))
             = Cardinality(Forward(s)) + Cardinality(Undo(s)) - Cardinality(Forward(s) \cap Undo(s))
    BY <1>3, <1>4, FS_Union
  <1>. QED
    BY <1>3, <1>4, <1>6, <1>7, <1>8 DEF WorstCase

(* The risk reserved, added up over the steps and over their compensations *)
(* apart, is the risk of all the items the saga may ever spend.            *)
LEMMA RiskTypes ==
    ASSUME NEW s \in Sagas
    PROVE  /\ Risk[s] \in [Steps(s) -> 1..100]
           /\ CompensationRisk[s] \in [Reversible[s] -> 1..100]
  BY SagaAssumption DEF Steps

LEMMA RiskPointsFacts ==
    /\ \A k \in Items : RiskPoints[k] \in Nat
    /\ \A s \in Sagas : /\ \A i \in Steps(s) : RiskPoints[Fwd(s, i)] = Risk[s][i]
                        /\ \A i \in Reversible[s] :
                              RiskPoints[Cmp(s, i)] = CompensationRisk[s][i]
  <1>1. ASSUME NEW s \in Sagas
        PROVE  /\ \A i \in Steps(s) : /\ RiskPoints[Fwd(s, i)] = Risk[s][i]
                                       /\ Risk[s][i] \in Nat
               /\ \A i \in Reversible[s] : /\ RiskPoints[Cmp(s, i)] = CompensationRisk[s][i]
                                          /\ CompensationRisk[s][i] \in Nat
    <2>1. ASSUME NEW i \in Steps(s)
          PROVE  RiskPoints[Fwd(s, i)] = Risk[s][i] /\ Risk[s][i] \in Nat
      <3>1. Risk[s][i] \in 1..100
        BY RiskTypes
      <3>. QED
        BY <3>1, FwdFacts DEF RiskPoints
    <2>2. ASSUME NEW i \in Reversible[s]
          PROVE  RiskPoints[Cmp(s, i)] = CompensationRisk[s][i] /\ CompensationRisk[s][i] \in Nat
      <3>1. CompensationRisk[s][i] \in 1..100
        BY RiskTypes
      <3>. QED
        BY <3>1, CmpFacts DEF RiskPoints
    <2>. QED
      BY <2>1, <2>2
  <1>. QED
    BY <1>1, ItemFacts

LEMMA WorstCaseRiskCounts ==
    ASSUME NEW s \in Sagas
    PROVE  RiskOf(Forward(s) \cup Undo(s)) = WorstCaseRisk(s)
  <1>. DEFINE fwd == [i \in Steps(s) |-> Fwd(s, i)]
              cmp == [i \in Reversible[s] |-> Cmp(s, i)]
  <1>1. IsFiniteSet(Steps(s)) /\ IsFiniteSet(Reversible[s])
    BY StepsAreNumbers, FS_Interval, FS_Subset DEF Steps
  <1>2. Forward(s) = {fwd[i] : i \in Steps(s)} /\ Undo(s) = {cmp[i] : i \in Reversible[s]}
    BY DEF Forward, Undo, Fwd, Cmp
  <1>3. /\ \A i \in Steps(s) : Risk[s][i] \in Nat /\ RiskPoints[fwd[i]] = Risk[s][i]
        /\ \A i, j \in Steps(s) : fwd[i] = fwd[j] => i = j
    <2>1. \A i \in Steps(s) : Risk[s][i] \in 1..100
      BY RiskTypes
    <2>2. \A i \in Steps(s) : RiskPoints[fwd[i]] = Risk[s][i] /\ fwd[i].step = i
      BY FwdFacts, RiskPointsFacts
    <2>. HIDE DEF fwd
    <2>3. ASSUME NEW i \in Steps(s), NEW j \in Steps(s), fwd[i] = fwd[j] PROVE i = j
      BY <2>2, <2>3
    <2>. QED
      BY <2>1, <2>2, <2>3
  <1>4. /\ \A i \in Reversible[s] : /\ CompensationRisk[s][i] \in Nat
                                   /\ RiskPoints[cmp[i]] = CompensationRisk[s][i]
        /\ \A i, j \in Reversible[s] : cmp[i] = cmp[j] => i = j
    <2>1. \A i \in Reversible[s] : CompensationRisk[s][i] \in 1..100
      BY RiskTypes
    <2>2. \A i \in Reversible[s] :
              RiskPoints[cmp[i]] = CompensationRisk[s][i] /\ cmp[i].step = i
      BY CmpFacts, RiskPointsFacts
    <2>. HIDE DEF cmp
    <2>3. ASSUME NEW i \in Reversible[s], NEW j \in Reversible[s], cmp[i] = cmp[j] PROVE i = j
      BY <2>2, <2>3
    <2>. QED
      BY <2>1, <2>2, <2>3
  <1>. HIDE DEF fwd, cmp
  <1>5. /\ IsFiniteSet(Forward(s))
        /\ RiskOf(Forward(s)) = SumFunctionOnSet(Risk[s], Steps(s))
    <2>1. /\ IsFiniteSet({fwd[i] : i \in Steps(s)})
          /\ SumFunctionOnSet(RiskPoints, {fwd[i] : i \in Steps(s)})
               = SumFunctionOnSet(Risk[s], Steps(s))
      BY <1>1, <1>3, SumRenamed
    <2>. QED
      BY <1>2, <2>1 DEF RiskOf
  <1>6. /\ IsFiniteSet(Undo(s))
        /\ RiskOf(Undo(s)) = SumFunctionOnSet(CompensationRisk[s], Reversible[s])
    <2>1. /\ IsFiniteSet({cmp[i] : i \in Reversible[s]})
          /\ SumFunctionOnSet(RiskPoints, {cmp[i] : i \in Reversible[s]})
               = SumFunctionOnSet(CompensationRisk[s], Reversible[s])
      BY <1>1, <1>4, SumRenamed
    <2>. QED
      BY <1>2, <2>1 DEF RiskOf
  <1>7. Forward(s) \cap Undo(s) = {}
    BY DEF Forward, Undo, Item
  <1>8. \A k \in Forward(s) \cup Undo(s) : RiskPoints[k] \in Nat
    BY RiskPointsFacts, ItemsOfSaga
  <1>. QED
    BY <1>5, <1>6, <1>7, <1>8, SumOfDisjoint DEF RiskOf, WorstCaseRisk

(* Every saga with an intent or a call was created, so its worst case fits *)
(* the limits of a transaction, and what is recorded as spent has          *)
(* happened.                                                               *)
Fits(s) == /\ WorstCase(s) <= MaxTransactionEffects
           /\ WorstCaseRisk(s) <= MaxTransactionRisk

CreatedFit == \A s \in Sagas : saga[s] # "ABSENT" => Fits(s)

QueuedCreated == \A k \in Items : phase[k] # "absent" => saga[k.saga] # "ABSENT"

CallsCreated == \A c \in Coordinators : call[c] # Idle => saga[SagaOf(call[c])] # "ABSENT"

SpentConfirmed == \A k \in spend : phase[k] = "confirmed"

ReserveInv == CreatedFit /\ QueuedCreated /\ CallsCreated /\ SpentConfirmed

LEMMA ReserveIsEnough ==
    ASSUME ForwardInv, ReserveInv
    PROVE  ReserveSuffices
  <1>. SUFFICES ASSUME NEW k \in Items, phase[k] = "queued" PROVE WithinTransaction(k)
    BY DEF ReserveSuffices
  <1>. USE TypeFacts DEF ForwardInv
  <1>. DEFINE s == k.saga
              All == Forward(s) \cup Undo(s)
  <1>1. s \in Sagas /\ Fits(s)
    BY ItemFacts DEF ReserveInv, CreatedFit, QueuedCreated
  <1>2. All = {x \in Items : x.saga = s} /\ IsFiniteSet(All) /\ Cardinality(All) = WorstCase(s)
        /\ RiskOf(All) = WorstCaseRisk(s)
    BY <1>1, ItemsOfSaga, WorstCaseCounts, WorstCaseRiskCounts
  <1>3. Spent(s) \subseteq All /\ k \in All \ Spent(s)
    BY <1>2 DEF ReserveInv, SpentConfirmed, Spent
  <1>. HIDE DEF s, All
  <1>4. IsFiniteSet(Spent(s)) /\ IsFiniteSet(Spent(s) \cup {k})
    BY <1>2, <1>3, FS_Subset
  <1>5. Cardinality(Spent(s) \cup {k}) = Cardinality(Spent(s)) + 1
    BY <1>3, <1>4, FS_AddElement
  <1>6. Cardinality(Spent(s) \cup {k}) <= WorstCase(s)
    BY <1>2, <1>3, FS_Subset
  <1>7. Cardinality(Spent(s)) \in Nat /\ WorstCase(s) \in Nat
    BY <1>2, <1>4, FS_CardinalityType
  <1>8. MaxTransactionEffects \in Nat /\ MaxTransactionRisk \in Nat
    BY SagaAssumption
  <1>9. \A x \in All : RiskPoints[x] \in Nat
    BY <1>2, RiskPointsFacts
  <1>10. RiskOf(Spent(s) \cup {k}) <= RiskOf(All)
    BY <1>2, <1>3, <1>9, SumGrows DEF RiskOf
  <1>11. RiskOf(Spent(s) \cup {k}) = RiskPoints[k] + RiskOf(Spent(s))
    <2>1. (Spent(s) \cup {k}) \ {k} = Spent(s) /\ \A x \in Spent(s) \cup {k} : RiskPoints[x] \in Nat
      BY <1>3, <1>9
    <2>. QED
      BY <1>4, <2>1, SumTakesOne DEF RiskOf
  <1>12. RiskOf(Spent(s)) \in Nat /\ RiskOf(All) \in Nat /\ RiskPoints[k] \in Nat
    BY <1>2, <1>3, <1>4, <1>9, SumFacts DEF RiskOf
  <1>13. Cardinality(Spent(s)) + 1 <= MaxTransactionEffects
    BY <1>1, <1>5, <1>6, <1>7, <1>8 DEF Fits
  <1>14. RiskOf(Spent(s)) + RiskPoints[k] <= MaxTransactionRisk
    BY <1>1, <1>2, <1>8, <1>10, <1>11, <1>12 DEF Fits
  <1>. QED
    BY <1>13, <1>14 DEF WithinTransaction, s

(* A saga that was created stays so.                                       *)
LEMMA CreatedStays ==
    ASSUME ForwardInv, [SagaNext]_svars, NEW s \in Sagas
    PROVE  /\ saga[s] # "ABSENT" => saga'[s] # "ABSENT"
           /\ saga[s] = "ABSENT" /\ saga'[s] # "ABSENT" =>
                 Fits(s) \/ \E c \in Coordinators : call[c] # Idle /\ SagaOf(call[c]) = s
  <1>. USE TypeFacts DEF ForwardInv
  <1>1. CASE UNCHANGED saga
    BY <1>1
  <1>2. ASSUME NEW t \in Sagas, Create(t) PROVE saga' = [saga EXCEPT ![t] = "PLANNED"] /\ Fits(t)
    BY <1>2 DEF Create, SetSaga, Fits
  <1>3. ASSUME NEW c \in Coordinators,
               BindItem(c) \/ SettleForward(c) \/ PrepareCompensation(c) \/ SettleCompensation(c)
        PROVE  \/ UNCHANGED saga
               \/ \E state \in SAGA_STATES :
                     call[c] # Idle /\ saga' = [saga EXCEPT ![SagaOf(call[c])] = state]
    <2>1. call[c] # Idle /\ call[c] \in Call
      BY <1>3, CallAt DEF BindItem, SettleForward, PrepareCompensation, SettleCompensation, At
    <2>2. CASE BindItem(c)
      BY <2>1, <2>2 DEF BindItem, At, SetSaga, SagaOf, SAGA_STATES
    <2>3. CASE SettleForward(c) \/ SettleCompensation(c)
      <3>1. call[c].pc = "settle" /\ call[c].saga \in SAGA_STATES
        BY <2>1, <2>3, CallFields DEF SettleForward, SettleCompensation, At
      <3>. QED
        BY <2>1, <2>3, <3>1 DEF SettleForward, SettleCompensation, SetSaga, SagaOf
    <2>4. CASE PrepareCompensation(c)
      BY <2>1, <2>4 DEF PrepareCompensation, At, SetSaga, SagaOf, SAGA_STATES
    <2>. QED
      BY <1>3, <2>2, <2>3, <2>4
  <1>4. "ABSENT" \notin SAGA_STATES
    BY DEF SAGA_STATES
  <1>5. \/ UNCHANGED saga
        \/ \E t \in Sagas : Create(t)
        \/ \E c \in Coordinators :
               BindItem(c) \/ SettleForward(c) \/ PrepareCompensation(c) \/ SettleCompensation(c)
    BY DEF SagaNext, CoordinatorStep, BeginEnqueue, BeginSync, BeginPrepare, Begins, QueueItem,
           AskForward, AskCompensation, Asks, Dies, WindowMoves, OutboxMove, tables, svars
  <1>6. CASE \E t \in Sagas : Create(t)
    BY <1>2, <1>6
  <1>7. CASE \E c \in Coordinators :
               BindItem(c) \/ SettleForward(c) \/ PrepareCompensation(c) \/ SettleCompensation(c)
    BY <1>1, <1>3, <1>4, <1>7
  <1>. QED
    BY <1>1, <1>5, <1>6, <1>7

(* Who writes the outbox and the budget.                                   *)
LEMMA WhoMoves ==
    ASSUME [SagaNext]_svars
    PROVE  /\ \/ UNCHANGED outbox
              \/ \E k \in Items : OutboxMove(k)
              \/ \E c \in Coordinators : QueueItem(c)
           /\ \/ UNCHANGED budget
              \/ \E k \in Items : WindowMoves(k)
              \/ \E c \in Coordinators : Asks(c)
  <1>1. ASSUME NEW s \in Sagas, Create(s) PROVE UNCHANGED <<outbox, budget>>
    BY <1>1 DEF Create
  <1>2. ASSUME NEW c \in Coordinators, CoordinatorStep(c)
        PROVE  /\ UNCHANGED outbox \/ QueueItem(c)
               /\ UNCHANGED budget \/ Asks(c)
    <2>1. ASSUME NEW v, Begins(c, v) PROVE UNCHANGED <<outbox, budget>>
      BY <2>1 DEF Begins
    <2>2. CASE \/ \E k \in Items : BeginEnqueue(c, k) \/ BeginSync(c, k)
               \/ \E s \in Sagas : BeginPrepare(c, s)
      BY <2>1, <2>2 DEF BeginEnqueue, BeginSync, BeginPrepare
    <2>3. CASE AskForward(c) \/ AskCompensation(c)
      BY <2>3 DEF AskForward, AskCompensation, Asks
    <2>. QED
      BY <1>2, <2>2, <2>3
         DEF CoordinatorStep, QueueItem, BindItem, SettleForward, SettleCompensation,
             PrepareCompensation, Dies
  <1>3. ASSUME NEW k \in Items, OutboxMove(k) PROVE UNCHANGED budget
    BY <1>3 DEF OutboxMove
  <1>4. ASSUME NEW k \in Items, WindowMoves(k) PROVE UNCHANGED outbox
    BY <1>4 DEF WindowMoves
  <1>5. CASE UNCHANGED svars
    BY <1>5 DEF svars, outbox, budget
  <1>. QED
    BY <1>1, <1>2, <1>3, <1>4, <1>5 DEF SagaNext

LEMMA ReserveCreated ==
    ASSUME ForwardInv, ReserveInv, [SagaNext]_svars
    PROVE  CreatedFit' /\ QueuedCreated'
  <1>. USE TypeFacts DEF ForwardInv
  <1>1. CreatedFit'
    <2>. SUFFICES ASSUME NEW s \in Sagas, saga'[s] # "ABSENT" PROVE Fits(s)
      BY DEF CreatedFit, Fits, WorstCase, WorstCaseRisk
    <2>1. CASE saga[s] # "ABSENT"
      BY <2>1 DEF ReserveInv, CreatedFit
    <2>2. CASE saga[s] = "ABSENT"
      BY <2>2, CreatedStays DEF ReserveInv, CallsCreated
    <2>. QED
      BY <2>1, <2>2
  <1>2. \A s \in Sagas : saga[s] # "ABSENT" => saga'[s] # "ABSENT"
    BY CreatedStays
  <1>3. \A k \in Items : phase[k] = "absent" /\ phase'[k] # "absent" =>
            \E c \in Coordinators : call[c] # Idle /\ SagaOf(call[c]) = k.saga
    <2>1. CASE UNCHANGED outbox
      BY <2>1 DEF outbox
    <2>2. CASE \E k \in Items : OutboxMove(k)
      BY <2>2, MoveFacts
    <2>3. CASE \E c \in Coordinators : QueueItem(c)
      <3>1. PICK c \in Coordinators : QueueItem(c)
        BY <2>3
      <3>2. call[c] # Idle /\ call[c].pc = "enqueue" /\ call[c].item \in Items
        BY <3>1, CallAt, CallFields DEF QueueItem, At
      <3>. QED
        BY <3>1, <3>2 DEF QueueItem, Queue, SagaOf
    <2>. QED
      BY <2>1, <2>2, <2>3, WhoMoves
  <1>4. QueuedCreated'
    BY <1>2, <1>3, ItemFacts DEF ReserveInv, QueuedCreated, CallsCreated
  <1>. QED
    BY <1>1, <1>4

(* Calls are begun on sagas that were created, and continued on them.      *)
LEMMA ReserveCalls ==
    ASSUME ForwardInv, ReserveInv, [SagaNext]_svars
    PROVE  CallsCreated'
  <1>. USE TypeFacts DEF ForwardInv
  <1>1. \A s \in Sagas : saga[s] # "ABSENT" => saga'[s] # "ABSENT"
    BY CreatedStays
  <1>2. ASSUME NEW c \in Coordinators, NEW v \in Call \cup {Idle}, Goes(c, v),
               v # Idle => SagaOf(v) \in Sagas /\ saga[SagaOf(v)] # "ABSENT"
        PROVE  CallsCreated'
    <2>1. call' = [call EXCEPT ![c] = v]
      BY <1>2 DEF Goes
    <2>2. \A d \in Coordinators : d # c => call'[d] = call[d]
      BY <2>1
    <2>3. \A d \in Coordinators : call[d] # Idle =>
              SagaOf(call[d]) \in Sagas /\ saga[SagaOf(call[d])] # "ABSENT"
      BY CallAt, CallFields DEF ReserveInv, CallsCreated
    <2>. QED
      BY <1>1, <1>2, <2>1, <2>2, <2>3 DEF CallsCreated
  <1>3. CASE UNCHANGED call
    BY <1>1, <1>3, CallAt, CallFields DEF ReserveInv, CallsCreated
  <1>4. CASE \E c \in Coordinators : Goes(c, Idle)
    BY <1>2, <1>4
  <1>5. ASSUME NEW c \in Coordinators, NEW k \in Items, BeginEnqueue(c, k) PROVE CallsCreated'
    <2>1. PICK v \in Call : v # Idle /\ v.pc = "enqueue" /\ v.item = k /\ Begins(c, v)
      BY <1>5, EnqueueBegins
    <2>2. k.saga \in Sagas /\ saga[k.saga] # "ABSENT"
      BY <1>5, ItemFacts DEF BeginEnqueue, Chosen, NextForward, NextCompensation
    <2>. QED
      BY <1>2, <2>1, <2>2 DEF Begins, SagaOf
  <1>6. ASSUME NEW c \in Coordinators, NEW k \in Items, BeginSync(c, k) PROVE CallsCreated'
    <2>1. PICK v \in Call : v # Idle /\ v.pc = "sync" /\ v.item = k /\ Begins(c, v)
      BY <1>6, SyncBegins
    <2>2. k.saga \in Sagas /\ saga[k.saga] # "ABSENT"
      BY <1>6, ItemFacts DEF BeginSync, Syncs, BoundRightly, ReserveInv, QueuedCreated
    <2>. QED
      BY <1>2, <2>1, <2>2 DEF Begins, SagaOf
  <1>7. ASSUME NEW c \in Coordinators, NEW s \in Sagas, BeginPrepare(c, s) PROVE CallsCreated'
    <2>1. PICK v \in Call : v # Idle /\ v.pc = "prepare" /\ v.of = s /\ Begins(c, v)
      BY <1>7, PrepareBegins
    <2>2. saga[s] # "ABSENT"
      BY <1>7 DEF BeginPrepare
    <2>. QED
      BY <1>2, <2>1, <2>2 DEF Begins, SagaOf
  <1>8. ASSUME NEW c \in Coordinators,
               QueueItem(c) \/ AskForward(c) \/ (AskCompensation(c) /\ ~Goes(c, Idle))
        PROVE  CallsCreated'
    <2>1. PICK v \in Call : /\ v.pc # "prepare" /\ v.item = call[c].item /\ Goes(c, v)
                            /\ call[c] \in Call /\ call[c] # Idle /\ call[c].pc # "prepare"
      BY <1>8, QueueGoes, AskForwardGoes, AskCompensationGoes
    <2>2. SagaOf(v) = SagaOf(call[c]) /\ SagaOf(v) \in Sagas /\ saga[SagaOf(v)] # "ABSENT"
      BY <2>1, CallFields DEF ReserveInv, CallsCreated, SagaOf
    <2>. QED
      BY <1>2, <2>1, <2>2
  <1>. QED
    BY <1>3, <1>4, <1>5, <1>6, <1>7, <1>8
       DEF SagaNext, CoordinatorStep, Create, BindItem, SettleForward, SettleCompensation,
           PrepareCompensation, Dies, WindowMoves, OutboxMove, svars

LEMMA ReserveSpends ==
    ASSUME ForwardInv, ReserveInv, [SagaNext]_svars
    PROVE  SpentConfirmed'
  <1>. USE TypeFacts DEF ForwardInv
  <1>1. OutboxGrows
    BY OutboxStep
  <1>2. CASE UNCHANGED budget \/ \E k \in Items : WindowMoves(k)
    BY <1>1, <1>2 DEF ReserveInv, SpentConfirmed, OutboxGrows, WindowMoves, budget
  <1>3. CASE \E c \in Coordinators : Asks(c)
    <2>1. PICK c \in Coordinators : Asks(c)
      BY <1>3
    <2>. QED
      BY <2>1 DEF Asks, RecordConfirmed, ReserveInv, SpentConfirmed, outbox
  <1>. QED
    BY <1>2, <1>3, WhoMoves

(* The reserve taken at creation is enough, for any number of sagas, steps *)
(* and coordinators, any risks and any limits, also when settled steps are *)
(* synced again and calls on one saga overlap.                             *)
THEOREM ReserveIsSufficient == SagaSpec => []ReserveSuffices
  <1>1. SagaInit => ForwardInv /\ ReserveInv
    BY ForwardInit
       DEF SagaInit, Outbox!LifecycleInit, ReserveInv, CreatedFit, QueuedCreated, CallsCreated,
           SpentConfirmed
  <1>2. ForwardInv /\ ReserveInv /\ [SagaNext]_svars => ForwardInv' /\ ReserveInv'
    BY ForwardKept, ReserveCreated, ReserveCalls, ReserveSpends DEF ReserveInv
  <1>3. ForwardInv /\ ReserveInv => ReserveSuffices
    BY ReserveIsEnough
  <1>. QED
    BY <1>1, <1>2, <1>3, PTL DEF SagaSpec

-----------------------------------------------------------------------------
(* The sagas and the outbox under them.  Whatever coordinators do, they    *)
(* move an intent only as the outbox lets it move: ExecutionSaga is a      *)
(* behaviour of IntentLifecycle, which ExecutionOutbox implements.         *)
THEOREM SagasUseTheLifecycle == SagaSpec => Outbox!LifecycleSpec
  <1>1. SagaInit => Outbox!LifecycleInit
    BY DEF SagaInit
  <1>2. ASSUME ForwardInv, [SagaNext]_svars
        PROVE  [Outbox!LifecycleNext]_(Outbox!lvars)
    <2>. USE TypeFacts, <1>2 DEF ForwardInv
    <2>1. phase' \in [Items -> Outbox!Phases] /\ happened' \in [Items -> {0, 1}]
      BY OutboxStep DEF Outbox!LifecycleTypeOK
    <2>2. \A k \in Items : Outbox!Moves(phase[k], happened[k], phase'[k], happened'[k])
      <3>1. CASE UNCHANGED outbox
        BY <3>1 DEF outbox, Outbox!Moves
      <3>2. CASE \E k \in Items : OutboxMove(k)
        <4>1. PICK k \in Items, q \in Outbox!Phases, h \in {0, 1} :
                  /\ Outbox!Moves(phase[k], happened[k], q, h)
                  /\ phase' = [phase EXCEPT ![k] = q] /\ happened' = [happened EXCEPT ![k] = h]
          BY <3>2, MoveFacts
        <4>2. \A j \in Items : j # k => phase'[j] = phase[j] /\ happened'[j] = happened[j]
          BY <4>1
        <4>3. phase'[k] = q /\ happened'[k] = h
          BY <4>1
        <4>. QED
          BY <4>1, <4>2, <4>3 DEF Outbox!Moves
      <3>3. CASE \E c \in Coordinators : QueueItem(c)
        BY <3>3 DEF QueueItem, Queue, Outbox!Moves
      <3>. QED
        BY <3>1, <3>2, <3>3, WhoMoves
    <2>. QED
      BY <2>1, <2>2 DEF Outbox!LifecycleNext
  <1>. QED
    BY <1>1, <1>2, ForwardHolds, PTL DEF SagaSpec, Outbox!LifecycleSpec
=============================================================================
