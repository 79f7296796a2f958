# AtlasQuant / AION: a TLA+ model of its execution machinery

AtlasQuant is a private market-intelligence platform. Most of the repository is
collectors, indicators, Streamlit pages and offline validators. The part that
can go wrong in ways tests hardly reach is AION's execution machinery: the code
that decides whether an external effect may be attempted, attempted again, or
must wait for a human, although workers crash, leases run out, answers are
lost, several processes share one SQLite file and several runs share one file on
a git branch. That part is modelled here.

All paths below are relative to `src/`.

## 1. The system

| Component | State | Operations | Interacts with |
|---|---|---|---|
| Durable execution kernel (`atlasquant_aion_durable_execution_kernel.py`) | one row per execution: state, attempt, error streak, backoff, lease token and expiry, dispatch mark, result; four write-once evidence tables | `prepare`, `acquire_lease`, `heartbeat`, `record_dispatch_started`, `complete`, `fail_before_dispatch`, `mark_outcome_unknown`, `recover_expired_leases`, `cancel`, `reconcile_unknown`; `bind_execution_scope_once`, `persist_*_once`, `read_terminal_certificate_snapshot` | workers and operators in any process, through SQLite |
| Execution outbox (`atlasquant_aion_execution_outbox.py`) | one row per intent, a sequence number per aggregate, the effect ledger `action_effects` | `enqueue`, `release_expired_claims`, `claim_next`, `dispatch_claimed`, `reconcile` | an authorization callback, a budget guard, an adapter that performs the effect |
| Execution saga (`..._execution_saga.py`) and cumulative authority budget (`..._cumulative_authority_budget.py`) | saga and step rows; spend rows | `create`, `enqueue_next`, `sync_forward_outcome`, `prepare_compensation`, `enqueue_next_compensation`, `sync_compensation_outcome`; `guard`, `record_confirmed` | queues in the outbox, reads outcomes from it; the guard is called by `dispatch_claimed` |
| Global worker control plane (`..._global_worker.py`, `..._global_worker_persisted_arming.py`, `..._recovery.py`, the admin page) | the checkpoint file on the runtime branch: armed/paused/killed, arming contract, fence, lease, announced tick, receipts; the working copy of each page session | `run_global_worker_once`; staging of arm, pause, kill; save, persisted arming with rollback, restore of a revision | runs of a scheduled workflow and administrator sessions, through conditional writes of one file |
| Background executor (`..._background_executor.py`) and the session's worker runtime | the receipt list in the checkpoint; the page session | which occurrences are due and may run, attempts, backoff, the cut of the list | called by the global worker and by a click on the page |
| Durable tasks (`..._durable_tasks.py`) and their repository (`..._durable_task_repository.py`) | one row per task: state, cursor, revision, steps with attempts and retry keys | `update_step`, `retry_step`, `transition`, `cancel`, `pause`, `record_resume`; `create`, `load`, `compare_and_swap` | sessions in several processes, through SQLite |
| Unified journal store | append-only journal, snapshots | append, snapshot, recover | one process, under a file lock |
| Memory quarantine, verification ledger, FinOps metering | in-memory records | admission and transition functions | their caller |
| Chat store and service | the SQLite file of the outbox and the saga | transactions | the outbox and the saga |
| Tenant store, specialist sessions | files of one writer | save, load | their caller |
| Trading side (autopilot, scanner queue, API budget, signals, paper trading) | JSON files, a GitHub-hosted budget | batch jobs, credit reservation, trade lifecycle | market data providers |
| B2B contract chain, core intelligence, panels, news, UI | none of their own, or presentation | digests, pages, HTTP | people |

The first six are modelled; section 7 says why the others are not.

### What is hard, and what makes each component correct

**Kernel.** `prepare`, `acquire_lease` and `recover_expired_leases` each run in
one `BEGIN IMMEDIATE` transaction. Every other mutating method reads the row
with `get()` on one connection, decides, and updates it on another; only
`heartbeat` and `record_dispatch_started` carry the token in their `WHERE`
clause. Correct means: an effect that was handed over is never handed over
again before a reconciliation proved that it did not happen; it never hides
behind a retryable, canceled or dead-lettered row; leases are exclusive; limits
are respected; terminal rows are final and what is certified about them is
true; nothing hangs although every worker may die.

**Outbox.** A dispatch is spread over a read, a callback, a transaction, the
adapter call and another transaction. Correct means: at most one effect per
intent, effects of an aggregate in order, an effect is never forgotten, the
ledger only ever holds what happened, a claim does not outlive its worker.

**Saga.** Every call of the coordinator reads the saga, writes the outbox or the
ledger in one transaction and the saga in another, and any number of
coordinators may work on it. Correct means: effects one at a time and in order,
compensations in reverse and only of what was done, final states that tell the
truth, ambiguity that is shown, a reserve that suffices for the compensations,
and cumulative limits that separate transactions cannot exceed together.

**Global worker.** One file is the queue, the lease, the receipts and the kill
switch. Everybody writes the whole of it, on condition that its SHA is still the
one read, and every request may be overtaken, refused, or answered after the
caller died. Correct means: nobody's write is lost under another one's; a
killed worker is quiet; work that was done and not recorded stays announced; an
arming that was rolled back ran nothing; an occurrence that ended is not
executed again.

**Tasks.** Sessions compute a successor of the copy they hold and swap it in by
revision; the answer may be lost and the call repeated. Correct means: no
committed update is lost, a stored task that makes sense goes on making sense, and a
suspended task goes on only by the call that may release it.

## 2. Modules

```
ExecutionStore              the executions table: what each method tests and writes
 |- DurableExecution        + workers, leases, crashes, clock; calls served one at a time
 |   `- DurableExecutionRace    the same writes, calls cut into read and update
 |       `- CertifiedExecution  + TerminalEvidence: interleaved calls beside the evidence
 `- TerminalEvidence        the four write-once tables
ExecutionOutbox             the outbox, its workers, operators and the outside world
ExecutionSaga               coordinators and budget, over IntentLifecycle
DurableTask                 a task and the pure functions that change it
 `- TaskRepository          + the row, the sessions, compare_and_swap
ExecutorReceipts            what is due, what may run, and the receipt list
 `- GlobalWorker            + the checkpoint file, the runs, the administrators

EffectOnce                  abstract: the life of an effect as the kernel promises it
IntentLifecycle             abstract: an intent as the outbox promises it
CheckpointRegister          abstract: a compare-and-swap register that loses no write

DurableExecutionProofs, RaceProofs, EvidenceProofs      proofs about the kernel
OutboxProofs, SagaProofs, TaskProofs, WorkerProofs      one per component
NaturalLemmas                                           the least-number principle
MC*                                                     TLC instances
```

### How state corresponds

*Kernel.* `store[x]` is the row of execution `x` (`Row` lists the columns the
protocol reads). A lease token is a fresh random string in the code and every
update that writes one also increments `attempt`, so a token is named by its
attempt. `acquire_lease` also accepts a `lease_token` from its caller
(kernel:417, 424) and does not test whether it was used before; the models assume that
callers who choose their tokens do not repeat one. `LeaseEndIsKnown`, `DispatchIsFenced` and
everything else that rests on the token fence depend on it.
`lease[w][x]` is what a worker remembers of its lease: the token, and
until when. `call[p]` is a call in flight, with what it read and will still use.
`pending[x]` is a history variable: tokens under which the effect was handed to
the outside and which no reconciliation has declared to be without effect.

*Outbox.* `row`, `queued` and `ledger` are the tables, `run[w]` is the program
counter and the locals of a `dispatch_claimed` call, `inquiry[p]` those of a
`reconcile` call, and `effects[k]` is the outside world.

*Saga.* `saga`, `step`, `bound` and `spend` are tables; `aged` are the spend rows
that time has moved out of the rolling window; `call[c]` is the call a
coordinator is in, with what it read; `phase` and `happened` are the outbox as
its abstract specification shows it.

*Global worker.* `file` is the checkpoint, reduced to what the program decides
on (`edits` stands for the rest of it: the version over which it was last changed,
because a change leaves an event with its time), `sha` counts its versions, `past`
are the revisions git keeps. `run[r]` and `session[u]` hold the copies that a run or
a page session works from. History: `unrecorded` (work whose receipts are not in
the file), `workedUnder` and `undone` (armings), `careful`, `ran`, `again`.

*Tasks.* `row` is the stored task, `session[s]` the copy a session holds, or the
offer whose answer it lacks; `slipped` is history.

### How actions correspond

`DurableExecution` has one action per method, with the method's early returns as
guards. What a method writes is an operator of `ExecutionStore` that takes two
rows, the one read and the one written over, so that the serial and the
interleaved modules share every line: `DurableExecutionRace` passes the stale
row, `DurableExecution` the same row twice. `AcquirePastDeadline` is the branch
of `acquire_lease` that dead-letters; `_deadline_check` is the first branch of
`HeartbeatWrite` and `DispatchWrite`. A call that is refused changes nothing and
has no action; so do replays of `prepare` and `enqueue`.

Elsewhere a call is cut wherever another process can run: an outbox dispatch at
the read, the callback, the update, the send and the answer; a saga call into
`Begin...` (the read and the tests), the write of the outbox or the ledger, and
the write of the saga; a run of the global worker at each request to the branch
(`LoadRun`, `PutClaim`, `ExecuteRun`, `PutResult`); an arming at its write, its
proof and its rollback. Between any two of these the process may die. A task
call is a pure function and one transaction, so it is one action.

### The refinement chain

`DurableExecution` implements `EffectOnce` (checked and proved). So does
`DurableExecutionRace`, for every external effect, as long as its callers keep the
discipline of section 3 (proved). `ExecutionOutbox` under
disciplined callers implements `IntentLifecycle` (checked and proved), and
`ExecutionSaga` is built over `IntentLifecycle` instead of the whole outbox: the
outbox of a saga is a behaviour of `IntentLifecycle` and nothing else (proved), so
what is shown of sagas is shown of sagas over any outbox that keeps that promise.
`TaskRepository` and `GlobalWorker` both implement `CheckpointRegister` (checked
and proved): the one by a revision column, the other by the SHA of a file.

### Abstractions

- Ids, digests, reasons and payloads are members of small sets, and hashes are
  assumed collision-free. Input validation, error codes and formatting are left
  out. In `TerminalEvidence` fields that are always compared together are one value.
- There is one clock. Callers pass `now_ts`, and a caller whose clock runs ahead
  or behind is outside the model.
- The outbox is one trusted scope. An adapter is truthful about the moment it is
  asked: an accepted or confirmed send has had its effect, a rejected one has not
  and never will, an exception says nothing, and an authoritative absence means
  that there is no effect yet. An adapter that accepts first and acts later would
  need its queue in the model.
- `REFUSED` stands for `FAILED`, `REVOKED` and `BLOCKED_REAPPROVAL` steps. `get()`
  of a saga is one read, although it selects the saga and its steps one after the
  other. Effects leave the window in any order. Of `guard`'s refusals the ones
  that count (effects, risk, capabilities, per transaction and per window) are
  modelled. The event log of a saga is left out.
- The guardian and the loop governor, who may refuse any call of a task, any run
  and any click, are left out: a refused call changes nothing that is modelled.
  `DISABLED` is treated like `PAUSED`, as the code does. Schedules have a first
  time and a period; calendars and time zones are left out.
- Of a task, `resume_generation`, `checkpoint_digest`, the texts and `MAX_TASKS`
  are left out, and so is the limit of 1000 at which `attempts` stops counting.

## 3. What the runs check

| Run | Question | Answer |
|---|---|---|
| `durable` | With calls served one at a time, does the kernel keep every promise? Two executions (`x1`, `x3`) claim one effect, `x2` is local, two workers. | Yes: `NoSecondHandOver`, `PendingEffectVisible`, `ExclusiveLease`, `RetryIsWithinLimits`, `TerminalIsFinal`, the refinement of `EffectOnce`, and under fairness `EveryExecutionSettles`. |
| `attempts` | Are attempts limited by `max_attempts`, as the kernel's document says? | **No**: `acquire_lease` takes over an expired lease without looking. |
| `race` | What survives when calls of two workers and two operators interleave between their read and their update, and evidence is written meanwhile? | Whatever callers do: `DispatchIsFenced`, `LeaseEndIsKnown`, `CertificateVerifies`. With the discipline below: `DisciplineHandsOverOnce`, `DisciplineShowsEffects`, `DisciplineKeepsLeases`, `FinalizationIsTrue`, `NoEffectCertifiedAway`. |
| `race_second_hand_over` | Is the critical invariant enforced by the store itself? | **No**: a stale `fail_before_dispatch` overwrites a recorded dispatch. |
| `outbox` | Two workers and an operator, disciplined callers and others. | Disciplined: `EffectIsAccountedFor`, `AggregateOrder`, and `IntentLifecycle` is implemented, at most one effect included. All: `LedgerIsTruthful`, `LedgerIsPermanent`; and for the others, under fairness, `ClaimsEnd`. |
| `outbox_overtaken` | Does persisting `UNCERTAIN` before the send fence off a worker whose claim expired? | **No**: the row count of that update is ignored. |
| `saga` | Every step and, declared apart, every compensation has its own risk. Two coordinators that interleave between their transactions and die there, while recorded effects leave the window. | `OrderlyEffects`, `ReserveSuffices`; and as long as no saga is in two calls at once, `FinalStatesAreTrue` and `AmbiguityIsShown`. |
| `saga_replay` | The same when a settled step is synced again. | **No**: the saga's state is computed from that step alone. |
| `saga_window` | Can separate transactions exceed the window together? | **Yes**: effects in flight are not counted. |
| `global_worker` | Two runs and an administrator share the checkpoint file: every overtaken, refused, lost or half-done request. | `ImplementsRegister`, `KilledIsQuiet`, `UnrecordedRunsAreFlagged`, `RolledBackArmingRanNothing`; and with careful administrators `CarefulWorkEndsOnce`. |
| `worker_forgets` | Is an occurrence whose receipt says it ended ever executed again? | **Yes**: the receipt list is cut to its newest entries, and a `ONCE` schedule stays due. |
| `tasks` | Two sessions create, load, change and swap one task, with lost answers and repeated offers, starting from steps that are open, failed, running or over. | `ImplementsRegister`, `CursorIsKept`, `SuspensionIsReleased`, and no state is a deadlock. `CursorIsKept` also says what goes wrong: in a task created with its cursor on a finished step no other step is ever started, done or skipped. |

### The disciplines

Several promises hold only for callers who keep to something that the code does
not enforce. Nothing is prevented in the models: a history variable notes when a
caller leaves the discipline, and the conditional properties say what keeping to
it buys. It is what a deployment has to ensure.

*Kernel* (`disciplined`). A worker begins a call only with an unexpired lease and
leases nothing an operator is working on; the clock of the leases does not move
on while a call is in flight; a reconciliation begins only when no other
operator has a call on the execution; and an execution that an operator is working on is
not dead-lettered by an offer past its deadline. These cover `cancel` too: a cancel
that read the row before it was leased would otherwise write `CANCELED` over a
dispatched row.

*Outbox* (`manners`, fixed at the start). `prompt`: a claim does not expire while
authorization is being checked. `patient`: nobody reconciles an intent whose send
is running. The run explores callers who keep to both and callers who keep to
neither; `outbox_overtaken` has callers who are patient and not prompt. Dropping only
`patient` also breaks `AtMostOneEffect`: the adapter truthfully reports that there is
no effect yet, and the intent is retried beside the send. The code leaves that
judgement to the operator, so it is listed as a hazard and not as a finding.

*Saga* (`alone`, and the constant `ReplaySync`). A saga is in one call at a time,
and no settled step is synced again. A call that dies may be followed by
any other; that is not two calls at once. The order of forward steps needs
neither (`ForwardEffectsStayOrderly`). The order of compensations and the
truth of the final states need both. A saga of four steps shows it: a
forward sync of step 2, repeated during the compensation, makes that step confirmed again and
ends the compensation, and a repeated sync of the compensation of step 3 takes it up
again with step 1, while step 2 has not been undone.

*Global worker* (`careful`). An administrator runs due work by a click only while
the worker is not armed, on a copy that is not stale, and while nobody else holds
unsaved edits; no write of a session removes an announcement or terminal receipts, no
session with terminal receipts of its own drops them, and the receipt list does
not overflow while a receipt in it is still needed. Nor does a careful administrator
arm the worker runtime of the page itself: while it is armed, the page executes due occurrences
every minute over its working copy (`worker_tick`, `atlasquant_aion_admin.py:3921-3967`),
whatever else holds edits or runs, and a later save brings those receipts to the file. It is the
executor of `HumanRun` on a timer, and no action of its own here. Only `CarefulWorkEndsOnce`
assumes any of this discipline.

### Bounds, and why they are enough

The proofs of section 4 depend on none of these.

- *Kernel, serial.* Three executions are the least that show two claimants of an
  effect and a bystander; two workers are the least for a take-over.
  `MaxAttempts` 3 and `PoisonThreshold` 2 with two error fingerprints separate the
  two limits. `Deadline` 3, `LeaseSeconds` 2 and `MaxTime` 4 let a lease expire
  before, at and after the deadline, and let the whole life after it happen.
- *Kernel, interleaved, with evidence.* Two workers and two operators: every pair
  of calls of either kind is in flight together. One execution, because no call
  but the recovery scan touches two rows. `MaxAttempts` 2 allows one take-over;
  the counterexample run uses 3. Two digests, so that a record can differ from
  the one before; one trace, chain and revision, which are compared in the same way.
- *Outbox.* Two intents of one aggregate for order with disciplined callers, one
  without (`FreeIntents`), because those two promises are about one intent.
  `MaxClaims` 3 lets a retry happen twice; the clock passes the end of the
  authority (3) and of every claim. The code has no limit on attempts: `MaxClaims`
  is a bound of the model only, and so is the guard that keeps claims within
  `MaxTime`.
- *Saga.* Three steps let a failure come after one reversible and one
  irreversible success. The risks differ between steps and between a step and its
  compensation, so that reserving or charging the wrong one is noticed (both were tried:
  `RiskTwice`, the mutant of the run, and `ForwardPoints`); the first saga needs its
  budget to the last point, and risk and capabilities of the window run out before its
  effects do. A behaviour creates one of three sagas (`MaxSagas` 1): one that
  can be rolled back, one that starts with an irreversible step, and one that
  does not fit its budget once its compensations are counted, which `Create` must
  notice. The window holds three effects, of which one may leave it (`MaxAged`). Sagas meet
  only in the window, which `saga_window` shows with three of them.
- *Global worker.* One `ONCE` schedule and two runs, the least for an overtaken
  run; one session; versions 1 to 4 of the file (`MaxWrites`), so three accepted
  writes: a claim, its result and a kill or a restore; an arming, its rollback and
  a claim; an arming, a claim that overtakes its rollback, and the result. One
  arming; the clock moves once, which ends a lease and a backoff. `MaxEdits` 0: no
  save carries other edits, which only enter by a restore. The clock stands still while a session holds edits.
  `worker_forgets` has a second, recurring schedule and three runs, one after the other.
- *Tasks.* Two steps, one that needs approval and one that may be retried; two
  sessions; five revisions, with which a task can wait, be blocked, be released and
  end; one retry key and one time stamp. A task is created in one of six shapes
  (`MixedTasks`): nothing done; the first step failed, with a retry key left and with none; the first
  step done, so that the cursor is misplaced; and two that `new_durable_task` does not make
  but `create` stores: a running task at its second step, and a blocked one whose cursor is
  behind its steps.

Symmetry is used over workers and operators (`race`, `race_second_hand_over`),
coordinators (`saga`), runs (`global_worker`, `worker_forgets`) and sessions
(`tasks`), which nothing but quantifiers tells apart; never in a run with a
liveness property. `CHECK_DEADLOCK FALSE` is set in all runs but `tasks`: tables
may come to rest, runs end for ever, and the clock is bounded. In `tasks` some
session can always load or leave.

### Fairness

The kernel has no thread of its own. `FairSpec` assumes a caller that
keeps scanning for expired leases and keeps offering due executions (which is
what makes `acquire_lease` dead-letter them after the deadline), an operator who
eventually settles an unknown outcome, and a clock that moves. All are weak
fairness, each on an action that stays enabled until taken. Nothing is assumed
of workers: they may all die. `OutboxFairness` assumes the clock and that some
process goes on calling `claim_next`, whose first transaction releases expired
claims. The saga, the global worker and the tasks promise nothing that must
eventually happen: each goes on only when somebody calls it.

## 4. What is proved

The theorems hold for any sets of executions, intents, sagas, schedules, workers,
operators, coordinators, runs and sessions and any limits within the ranges the code
enforces; these are the named assumptions of the modules (`StoreAssumption`,
`OutboxAssumption`, `SagaAssumption`, `GlobalAssumption`, ...), which every run
evaluates. The one about the executor that is not a matter of types is
`MaxJobs <= MaxReceipts`: a batch is cut to 20 occurrences
(`MAX_JOBS_PER_RUN`), the list to 1000 receipts (`MAX_RECEIPTS`), so that no batch
pushes its own receipts out. Theorems without a property state what no run checks.

| Module | Theorem | Property |
|---|---|---|
| `DurableExecutionProofs` | `TypeCorrect`, `RetriesAreLimited`, `PendingEffectsStayVisible`, `HandedOverOnce`, `LeasesAreExclusive`, `TerminalRowsAreFinal`, `KernelImplementsEffectOnce` | `TypeOK`, `RetryIsWithinLimits`, `PendingEffectVisible`, `NoSecondHandOver`, `ExclusiveLease`, `TerminalIsFinal`, `ImplementsEffectOnce` |
| `RaceProofs` | `RaceTypeCorrect`, `LeaseEndsAreKnown`, `DispatchesAreFenced`, `DisciplinedHandOverOnce`, `DisciplinedEffectsShow`, `DisciplinedLeasesExclude`; `DisciplineImplementsEffectOnce` | `RaceTypeOK`, `LeaseEndIsKnown`, `DispatchIsFenced`, `DisciplineHandsOverOnce`, `DisciplineShowsEffects`, `DisciplineKeepsLeases` |
| `EvidenceProofs` | `EvidenceTypeCorrect`, `CertificatesVerify`, `FinalizationsAreTrue`, `NoEffectIsCertifiedAway` | `EvidenceTypeOK`, `CertificateVerifies`, `FinalizationIsTrue`, `NoEffectCertifiedAway` |
| `OutboxProofs` | `OutboxTypeCorrect`, `LedgerStaysTruthful`, `LedgerStaysPermanent`, `EffectsAreAccountedFor`, `EffectsAreInOrder`, `OutboxImplementsLifecycle`; `DisciplinedEffectsAreSingle` | `OutboxTypeOK`, `LedgerIsTruthful`, `LedgerIsPermanent`, `EffectIsAccountedFor`, `AggregateOrder`, `ImplementsLifecycle` |
| `SagaProofs` | `SagaTypeCorrect`, `ReserveIsSufficient`; with `~ReplaySync`: `EffectsStayOrderly`, `AmbiguityStaysShown`, `FinalStatesStayTrue`; `ForwardEffectsStayOrderly`, `SagasUseTheLifecycle` | `SagaTypeOK`, `ReserveSuffices`, `OrderlyEffects`, `AmbiguityIsShown`, `FinalStatesAreTrue` |
| `TaskProofs` | `TaskTypeCorrect`, `CursorsAreKept`, `SuspensionsAreReleased`, `RepositoryIsARegister`; `TaskHistoryIsKept`, `TaskRetriesAreBounded` | `TaskTypeOK`, `CursorIsKept`, `SuspensionIsReleased`, `ImplementsRegister` |
| `WorkerProofs` | `GlobalTypeCorrect`, `UnrecordedRunsStayFlagged`, `KilledWorkersAreQuiet`, `CheckpointIsARegister`, `RolledBackArmingsRanNothing`, `CarefulWorkIsDoneOnce`; `ReceiptListsAreLegal`, `RunsRespectReceipts` | `GlobalTypeOK`, `UnrecordedRunsAreFlagged`, `KilledIsQuiet`, `ImplementsRegister`, `RolledBackArmingRanNothing`, `CarefulWorkEndsOnce` |

### The arguments

*Kernel, serial.* Three inductive invariants, each preserved by one lemma with one
step per action.

1. `RowsOK` relates the columns of a row to its state: the dispatch mark implies
   a state in which an effect may have happened, a row nobody leases has no
   token, retry rows are within the limits. It holds because every write, under
   its method's test, produces such a row (`RowsStayOK`, stated on rows alone).
2. `EffectInv` adds to `PendingEffectVisible` that a row has at most one pending
   token and that an effect key has at most one execution. `NoSecondHandOver`
   alone is not inductive: it says nothing of the row from which the next dispatch
   starts. A dispatch starts from `LEASED`, where visibility says that nothing is
   pending; two executions with one effect key cannot both exist, because
   `prepare` looks the key up.
3. `GrantsOK` says that a worker's token is one of the past, that no token has two
   holders, and that a grant which still runs is the lease the row shows.

The refinement maps row states to phases and `pending` to `mayHaveHappened`; each
action is a step of `EffectOnce`, the recovery scan a step of several executions
at once, and heartbeats and clock ticks stutter.

*Kernel, interleaved.* `RaceInv` holds whatever callers do: the row keeps a token
only of its newest attempt, tokens are of the past and have one holder, a call
carries the token its worker still holds. Hence a token in a row names its
holder, and the `WHERE lease_token = ?` of a dispatch fences. With the discipline
the kernel's own invariants come back, because every half-finished call would
still pass its test on the present row (`CallsFresh`), so that its update is a
step of the serial kernel and inherits the three invariants above. One kind of
call is overtaken all the same: `acquire_lease` may dead-letter a lease past the deadline
under its holder's call (`TooLate`); what that call then writes is a final row.
Read with the mapping of the serial kernel, every step of the interleaved one is
thus a step of `EffectOnce` for each external effect: the update of a fresh call is the
serial step, and the update of a late one leaves a dead-lettered row
dead-lettered (`LateEndStays`). It is also why
`FinalizationIsTrue` speaks of external effects: a `LOCAL_SAFE` execution may
still be completed by such a call.

*Evidence.* `EvidenceAgrees`: each record rests on the ones below it, which are
written once. That the finalized state stands then follows from the kernel's
invariants, because under the discipline no late update changes a terminal row of
an external effect.

*Outbox.* `LedgerInv` holds for any callers: a reference that a call carries comes
from an effect that happened. With the discipline, `KeyFits` relates the row, the
effects, the runs and the inquiries of one intent: the owner of a claimed row is
the only run of it, a run in front of its send has an `UNCERTAIN` row without an
effect, an inquiry finds exactly what is there; `AskedAlone` keeps runs away
from an intent an operator asks about. `InOrder` says that what has started has only ended
predecessors. From these each step of an intent is one of a short list
(`Passes`), and that list is `IntentLifecycle`.

*Saga.* `ForwardInv` holds whatever the coordinators do: an item is in the outbox
only when it may be (predecessors confirmed; a compensation: its step confirmed and
another one refused), and a row or a call in flight claims no more than the outbox has said.
Both kinds of facts are stable because the outbox does not take back what it has
said. `AloneInv` holds while no saga was in two calls: rows are over up to a
first one, at most one is open, compensations went from the last one down, the saga's
state says what its rows say, and a call still finds what it read.
The forward half of the order follows from `ForwardInv` alone: an item that is
ambiguous has only confirmed predecessors and nothing after it in the outbox.
The reserve (`ReserveInv`): whatever is in the outbox belongs to a saga that was admitted
with its worst case, and only confirmed items are spent. A queued item is therefore
an unspent one among at most worst-case-many items of its saga.
Risks are added up by a fold over the items, each with the risk of its step or of its
compensation. What the prover needs of it is one recursion, "take an element away", which
determines the sum of every finite set (`AccumulatorIsUnique`, `AccumulatorExists`); from
it follow that sums grow with their sets, add up over disjoint ones and survive
renaming (`SumGrows`, `SumOfDisjoint`, `SumRenamed`). The worst case `create` computes over
steps is then the sum over all items of the saga (`WorstCaseRiskCounts`), and the ones that are
queued or spent are among those.

*Tasks.* Each pure function makes a coherent task of a coherent one, leaves a misplaced
cursor where it is, and raises the revision by one. Nothing is assumed of the tasks that are created
but their type, revision 1 and the limit on retry keys that `_consumed_keys` enforces
(`SubmittedAssumption`).
A session's copy is never ahead of the row and, when its revision is the
row's, equals it; so the revision in `compare_and_swap` decides by content.

*Task history.* Hence a write that is accepted replaces the very task it was computed
from, and what holds of a call on one record (`TaskAdvances`, one lemma per
function) holds of the stored history (`HistoryIsKept`): one step at most changes per
revision, what is over stays as it is, `attempts` counts the starts, and a failed
step starts again only by a retry with a key it has not spent, below both limits
(docs/aion/AION_CORE_HARDENING_P2_V1.md:17-19). Keys are never taken back, so
no key starts a step twice, also after a lost answer. `RetriesAreBounded` follows by
induction over that history: whatever a task was created with, no step comes to hold more than
`MaxKeys` keys. `_consumed_keys` keeps the first `MAX_IDEMPOTENCY_KEYS` each time a task is
normalized, so it never cuts off a key that was spent. Nothing relates keys to
attempts, because a task may be created with 32 keys and one attempt. It is
only retries that `max_attempts` limits. `update_step` may take a step from
`WAITING_APPROVAL` or `BLOCKED` to `RUNNING` any number of times, so no bound on `attempts`
itself can be stated.

*Global worker.* A copy whose SHA is the file's is the file (`CopiesOK`); a run works
on an armed copy without an announcement until it claims, and on its own
claim afterwards. So an accepted write of a run finds the file armed, and an
announcement of unrecorded work is only replaced by the run that made it or
by a session, which answers for it.

*Rolled-back armings* (`ArmInv`). `workedUnder` and `undone` alone say nothing of the
files that could still be written, so the invariant dates files by two numbers: `edits`,
and under equal `edits` the fence, which a claim of an unclaimed file raises. One
session stages an arming (`OneStager`), and it goes back to the source it staged it
over. Once a run has worked under the arming, that source is older than the file and than
whatever another rollback could put in its place (`WorkedIsOld`), so the session's
conditional write, which needs the source or the arming it has just written to be the file,
comes too late: it meets a file that is not the source, and its own arming was
claimed. In the other direction, a file that shows a rolled-back arming is not there
to be claimed (`UndoneStays`).

*Careful work* (`CareInv`). For every occurrence that ended while everybody was
careful, somebody answers (`Covered`): its terminal receipt is in the file; or the file
announces a tick and the run that made it, if it is still there, carries the receipt; or a
session has it among its edits, over a file that is not armed; or the occurrence is not due
any more and never will be again (`Gone`, from `KnownAndGone`: what was once due and is not
now has a successor). Every batch is computed from a list of one of
these, holds only what is due and has no terminal receipt there, so it repeats nothing.
The discipline is used exactly where a step could break the chain: a list
is cut, an announcement removed, edits dropped, a revision restored, an arming
persisted beside another session's edits.

*Receipt lists* (`LegalInv`). Every list anybody holds comes from a legal one by a
batch: a batch writes once about each of its occurrences, and only about those that
have no terminal receipt and an attempt left, and what a cut leaves of a legal list
is legal. So the executor forgets, but it never contradicts what it remembers;
`worker_forgets` shows the other half.

### Only model-checked

Liveness (`EveryExecutionSettles`, `ClaimsEnd`) needs `ENABLED` and is out of the
prover's reach. Every other property that a passing run checks is also a theorem. The
properties that the code violates are shown by TLC's counterexamples only.

## 5. Disagreements between code and documents

Found while modelling; each of 1 to 6 has a run whose counterexample shows it.

1. `fail_before_dispatch` (kernel:586) updates `WHERE execution_id=?` what it
   tested on another connection, and can turn `DISPATCH_RECORDED` into
   `RETRY_WAIT`. So can `cancel` (669) turn it into `CANCELED`.
2. `acquire_lease` (kernel:453) does not compare `attempt` with `max_attempts`.
3. `dispatch_claimed` (outbox:635) does not look whether `UNCERTAIN` was stored.
4. `sync_forward_outcome` (saga:568) forgets another step's ambiguity. The same
   line and its twin for compensations (803) let repeated syncs send a saga that
   is being undone on in the wrong order (section 3, *Saga*).
5. `guard` (budget:222) does not count effects in flight.
6. `attach_executor_receipts` (background executor:199) keeps the newest receipts
   whatever they are about, and nothing writes `last_due_at`, so an occurrence
   of a `ONCE` schedule whose terminal receipt was cut off is executed again.
7. A task can be stored whose open steps can never be done. `new_durable_task` keeps the
   states its caller gives the steps (`normalize_step`, durable tasks:172-203) and always
   sets the cursor to the first step (253); `create` (repository:195) looks at the revision
   alone. If the first step comes as `DONE` or `SKIPPED`, the cursor is on a finished step:
   `update_step` moves the cursor only when it changes the step there (471), that step cannot
   change any more, and every other step is out of order. What is left is to cancel the
   task, or to end it if all its steps came finished. No document forbids or promises
   anything here, so this is no run with a counterexample but the second half of
   `CursorIsKept`, which is checked and proved.

## 6. Running it

    tlc -config MCDurableExecution.cfg MCDurableExecution
    tlapm DurableExecutionProofs.tla

`PROJECT.json` names the configuration of every run, the faulty variant of the
code that breaks each property (an operator commented "Faulty variant" beside
the definition it replaces), the source lines of every definition, the hazards
and the theorems.

## 7. Not modelled

- *Unified journal store.* One writer under a file lock; what could go wrong lies
  in file operations, `fsync` and digests, below the level of these models.
- *The session's own worker runtime* (`worker_tick`, called by the page at
  `atlasquant_aion_admin.py:3921-3967`). While it is armed it executes due occurrences over the
  session's working copy, and its receipts reach the file with the next save, so it does
  interleave with the global worker. Its batch is what `HumanRun` does, up to its smaller size;
  its own state, lease and kill switch inside the working copy, and its timer, are not modelled.
  Sessions that arm it are outside the `careful` discipline, on which only
  `CarefulWorkEndsOnce` depends.
- *Saga event log*, a hash chain written in the same transactions as the saga.
- *Memory quarantine, verification ledger, FinOps metering.* Transition and admission
  functions over one process's records, without concurrency or failure of their own.
- *Chat store and service.* Modelled only through the transactions that the outbox
  and the saga run in their SQLite file.
- *Tenant store, specialist sessions.* Single-writer files and read-only snapshots.
- *Trading side.* Scheduled batch jobs and arithmetic on prices; the API credit
  reservation is one more compare-and-swap on a GitHub file, which
  `CheckpointRegister` describes.
- *B2B contract chain, core intelligence, panels, news, UI.* Offline validators that
  compute digests and verdicts, HTTP collectors, pages and text. They are by far
  most of the repository's lines and have no protocol of their own.
- *Clocks that disagree.* Every module has one clock; what callers with different
  clocks do to a lease is outside the model, and so is a lease that is measured
  by a process that slept.
- *Time-outs inside SQLite and GitHub* (`busy_timeout`, rate limits) appear as calls
  that fail before or after their write.
