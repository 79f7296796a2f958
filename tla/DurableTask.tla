----------------------------- MODULE DurableTask -----------------------------
(***************************************************************************)
(* One durable task: a list of steps, a cursor, a revision, and the calls  *)
(* that move them.  Every call is a function of the record it is given; it *)
(* records state and performs nothing.  What a call rejects leaves no      *)
(* trace and is a guard here.                                              *)
(***************************************************************************)
EXTENDS Naturals, FiniteSets, FiniteSetsExt

CONSTANTS
    NumSteps,
    NeedsApproval,  \* the steps that require approval or have effects outside
    RetrySafe,      \* the steps a retry may start: local, reading actions
    MaxAttempts,
    MaxKeys,        \* most retry keys a step remembers
    Keys,           \* idempotency keys of retries
    Stamps          \* values of changed_at

ASSUME TaskAssumption ==
    /\ NumSteps \in Nat
    /\ NeedsApproval \subseteq 1..NumSteps /\ RetrySafe \subseteq 1..NumSteps
    /\ MaxAttempts \in Nat /\ MaxKeys \in Nat

TaskStates == {"PLANNED", "RUNNING", "PAUSED", "WAITING_APPROVAL", "BLOCKED",
               "DONE", "CANCELED"}
StepStates == {"PENDING", "READY", "RUNNING", "WAITING_APPROVAL", "BLOCKED",
               "DONE", "SKIPPED", "FAILED"}
TerminalTask == {"DONE", "CANCELED"}
TerminalStep == {"DONE", "SKIPPED"}
Suspended == {"WAITING_APPROVAL", "BLOCKED"}

TaskMoves ==
    [PLANNED          |-> {"RUNNING", "PAUSED", "WAITING_APPROVAL", "BLOCKED", "CANCELED"},
     RUNNING          |-> {"PAUSED", "WAITING_APPROVAL", "BLOCKED", "DONE", "CANCELED"},
     PAUSED           |-> {"RUNNING", "WAITING_APPROVAL", "BLOCKED", "CANCELED"},
     WAITING_APPROVAL |-> {"RUNNING", "BLOCKED", "CANCELED"},
     BLOCKED          |-> {"PAUSED", "RUNNING", "CANCELED"},
     DONE             |-> {},
     CANCELED         |-> {}]

StepMoves ==
    [PENDING          |-> {"READY", "RUNNING", "WAITING_APPROVAL", "BLOCKED", "SKIPPED"},
     READY            |-> {"RUNNING", "WAITING_APPROVAL", "BLOCKED", "SKIPPED"},
     RUNNING          |-> {"WAITING_APPROVAL", "BLOCKED", "DONE", "FAILED"},
     WAITING_APPROVAL |-> {"READY", "RUNNING", "BLOCKED"},
     BLOCKED          |-> {"READY", "RUNNING"},
     FAILED           |-> {},   \* RUNNING, by a retry
     DONE             |-> {},
     SKIPPED          |-> {}]

StepNumbers == 1..NumSteps

(* cursor: the step the task is at, NumSteps + 1 behind the last one.      *)
Task == [state: TaskStates, cursor: 1..(NumSteps + 1), revision: Nat \ {0}, changed: Stamps,
         steps: [StepNumbers -> [state: StepStates, attempts: Nat, keys: SUBSET Keys]]]

(* What new_durable_task makes of steps, which keep the states, attempts   *)
(* and retry keys their caller gave them.                                  *)
NewTask(steps, stamp) ==
    [state |-> "PLANNED", cursor |-> 1, revision |-> 1, changed |-> stamp, steps |-> steps]

-----------------------------------------------------------------------------
(* What the caller says: whether the call is approved, and whether it      *)
(* gives a reason to unblock.  The guardian, who may deny any call         *)
(* besides, is left out.                                                   *)
Say == [approved: BOOLEAN, reason: BOOLEAN]

MayMove(moves, from, to, say) ==
    /\ to \in moves[from]
    /\ from = "BLOCKED" /\ to # "CANCELED" => say.reason
    /\ from = "WAITING_APPROVAL" /\ to \in {"READY", "RUNNING"} => say.approved

Guarded(i, say) == i \in NeedsApproval => say.approved

Finished(t) == \A i \in StepNumbers : t.steps[i].state \in TerminalStep

AtCursor(t) == t.cursor \in StepNumbers

Revised(t, stamp) == [t EXCEPT !.revision = @ + 1, !.changed = stamp]

-----------------------------------------------------------------------------
(* Faulty variant: any step may run, not only the one at the cursor.       *)
InAnyOrder(t, i, say) ==
    /\ t.state = "BLOCKED" => say.reason
    /\ t.state = "WAITING_APPROVAL" => say.approved

InOrder(t, i, say) ==
    /\ i = t.cursor
    /\ t.state = "BLOCKED" => say.reason
    /\ t.state = "WAITING_APPROVAL" => say.approved

(* An update that leaves the step's state alone changes nothing.           *)
StepAllowed(t, i, to, say) ==
    /\ MayMove(StepMoves, t.steps[i].state, to, say)
    /\ to \in {"RUNNING", "DONE", "SKIPPED"} => InOrder(t, i, say)
    /\ to \in {"RUNNING", "DONE"} => Guarded(i, say)

(* A retry with a key that was used already changes nothing.               *)
RetryAllowed(t, i, say, key) ==
    LET s == t.steps[i]
    IN  /\ s.state = "FAILED"
        /\ key \notin s.keys
        /\ i \in RetrySafe
        /\ s.attempts < MaxAttempts
        /\ Cardinality(s.keys) < MaxKeys
        /\ InOrder(t, i, say)
        /\ Guarded(i, say)

MovedSteps(t, i, to, key) ==
    [t.steps EXCEPT ![i] = [state    |-> to,
                            attempts |-> IF to = "RUNNING" THEN @.attempts + 1 ELSE @.attempts,
                            keys     |-> @.keys \cup key]]

Open(steps) == {i \in StepNumbers : steps[i].state \notin TerminalStep}

NextCursor(steps) == IF Open(steps) = {} THEN NumSteps + 1 ELSE Min(Open(steps))

(* Faulty variant: the task takes the state of its step.                   *)
StateOfStep(steps, cursor) ==
    IF cursor = NumSteps + 1 THEN "DONE" ELSE steps[cursor].state

StateAt(steps, cursor) ==
    IF cursor = NumSteps + 1 THEN "DONE"
    ELSE CASE steps[cursor].state \in {"WAITING_APPROVAL", "RUNNING"} -> steps[cursor].state
           [] steps[cursor].state \in {"BLOCKED", "FAILED"} -> "BLOCKED"
           [] OTHER -> "PAUSED"

KeepsSuspension(t, to) == t.state \in Suspended /\ to \notin {"RUNNING", "DONE"}

(* A step other than the one at the cursor changes nothing of the task.    *)
StepUpdated(t, i, to, key, stamp) ==
    LET steps == MovedSteps(t, i, to, key)
        cursor == NextCursor(steps)
    IN  IF AtCursor(t) /\ i # t.cursor
        THEN Revised([t EXCEPT !.steps = steps], stamp)
        ELSE Revised([t EXCEPT !.steps = steps, !.cursor = cursor,
                               !.state = IF KeepsSuspension(t, to) THEN @
                                         ELSE StateAt(steps, cursor)], stamp)

-----------------------------------------------------------------------------
TransitionAllowed(t, to, say) ==
    /\ MayMove(TaskMoves, t.state, to, say)
    /\ to = "RUNNING" /\ AtCursor(t) =>
           /\ t.steps[t.cursor].state \notin Suspended \cup {"FAILED"}
           /\ Guarded(t.cursor, say)
    /\ to = "DONE" => Finished(t)

Transitioned(t, to, stamp) == Revised([t EXCEPT !.state = to], stamp)

(* pause and resume never release a task that waits or is blocked.         *)
Paused(t, blocker, stamp) ==
    Revised([t EXCEPT !.state = IF @ \in Suspended THEN @
                                ELSE IF blocker THEN "BLOCKED" ELSE "PAUSED"], stamp)

(* Faulty variant: to resume also sets a suspended task free.              *)
ResumedFree(t, stamp) == Revised([t EXCEPT !.state = "PAUSED"], stamp)

Resumed(t, stamp) ==
    Revised([t EXCEPT !.state = IF @ \in Suspended THEN @ ELSE "PAUSED"], stamp)

-----------------------------------------------------------------------------
(* The steps before the cursor are those that are over, and only the step  *)
(* at the cursor runs or has failed.                                       *)
CursorIsExact(t) ==
    \A i \in StepNumbers :
        /\ t.steps[i].state \in TerminalStep <=> i < t.cursor
        /\ t.steps[i].state \in {"RUNNING", "FAILED"} => i = t.cursor

RunningIsFree(t) ==
    t.state = "RUNNING" /\ AtCursor(t) => t.steps[t.cursor].state \notin Suspended \cup {"FAILED"}

DoneIsFinished(t) == t.state = "DONE" => Finished(t)

Coherent(t) == CursorIsExact(t) /\ RunningIsFree(t) /\ DoneIsFinished(t)

(* A cursor on a step that is over already.                                *)
Misplaced(t) == AtCursor(t) /\ t.steps[t.cursor].state \in TerminalStep

(* From t to u: what was coherent stays so; a misplaced cursor stays where *)
(* it is, and beside it no step starts, is done or is skipped.             *)
KeepsCursor(t, u) ==
    /\ Coherent(t) => Coherent(u)
    /\ Misplaced(t) =>
           /\ u.cursor = t.cursor
           /\ \A i \in StepNumbers : u.steps[i].state \in {"RUNNING", "DONE", "SKIPPED"} =>
                                       u.steps[i] = t.steps[i]
=============================================================================
