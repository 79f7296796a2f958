----------------------------- MODULE TaskProofs -----------------------------
(***************************************************************************)
(* Proofs about durable tasks and their repository.  First what each pure  *)
(* call makes of one task, then what the sessions make of the row.         *)
(***************************************************************************)
EXTENDS TaskRepository, NaturalLemmas, FiniteSetTheorems, TLAPS

StepRecord == [state: StepStates, attempts: Nat, keys: SUBSET Keys]

-----------------------------------------------------------------------------
(* A set of numbers has a least one, which is Min of it.                   *)
LEMMA MinOfNats ==
    ASSUME NEW S \in SUBSET Nat, S # {}
    PROVE  Min(S) \in S /\ \A y \in S : Min(S) <= y
  BY LeastNatural DEF Min

(* NextCursor is the first open step, or lies behind the last step.        *)
LEMMA NextCursorFacts ==
    ASSUME NEW steps
    PROVE  /\ NextCursor(steps) \in 1..(NumSteps + 1)
           /\ NextCursor(steps) \in StepNumbers =>
                  steps[NextCursor(steps)].state \notin TerminalStep
           /\ \A i \in StepNumbers :
                  i < NextCursor(steps) => steps[i].state \in TerminalStep
  <1>0. NumSteps \in Nat
    BY TaskAssumption
  <1>1. CASE Open(steps) = {}
    BY <1>0, <1>1 DEF NextCursor, Open, StepNumbers
  <1>2. CASE Open(steps) # {}
    <2>1. Open(steps) \in SUBSET Nat
      BY <1>0 DEF Open, StepNumbers
    <2>2. Min(Open(steps)) \in Open(steps)
      BY <1>2, <2>1, MinOfNats
    <2>3. \A y \in Open(steps) : Min(Open(steps)) <= y
      BY <1>2, <2>1, MinOfNats
    <2>4. NextCursor(steps) = Min(Open(steps))
      BY <1>2 DEF NextCursor
    <2>. DEFINE c == NextCursor(steps)
    <2>5. c \in StepNumbers /\ steps[c].state \notin TerminalStep
      BY <2>2, <2>4 DEF Open
    <2>6. \A i \in StepNumbers : steps[i].state \notin TerminalStep => c <= i
      BY <2>3, <2>4 DEF Open
    <2>. HIDE DEF c
    <2>7. \A i \in StepNumbers : i < c => steps[i].state \in TerminalStep
      BY <1>0, <2>5, <2>6 DEF StepNumbers
    <2>. QED
      BY <1>0, <2>5, <2>7 DEF c, StepNumbers
  <1>. QED
    BY <1>1, <1>2

(* MovedSteps changes one step, and that one to the state asked for.       *)
LEMMA MovedStepsFacts ==
    ASSUME NEW t \in Task, NEW i \in StepNumbers, NEW to \in StepStates,
           NEW key \in SUBSET Keys
    PROVE  /\ MovedSteps(t, i, to, key) \in [StepNumbers -> StepRecord]
           /\ MovedSteps(t, i, to, key)[i].state = to
           /\ \A j \in StepNumbers : j # i => MovedSteps(t, i, to, key)[j] = t.steps[j]
  <1>1. t.steps \in [StepNumbers -> StepRecord]
    BY DEF Task, StepRecord
  <1>2. t.steps[i].attempts \in Nat /\ t.steps[i].keys \in SUBSET Keys
    BY <1>1 DEF StepRecord
  <1>. DEFINE new == [state    |-> to,
                      attempts |-> IF to = "RUNNING" THEN t.steps[i].attempts + 1
                                   ELSE t.steps[i].attempts,
                      keys     |-> t.steps[i].keys \cup key]
  <1>3. new \in StepRecord
    BY <1>2 DEF StepRecord
  <1>4. MovedSteps(t, i, to, key) = [t.steps EXCEPT ![i] = new]
    BY DEF MovedSteps
  <1>5. new.state = to
    OBVIOUS
  <1>. HIDE DEF new
  <1>. QED
    BY <1>1, <1>3, <1>4, <1>5

(* The state a cursor gives the task.                                      *)
LEMMA StateAtFacts ==
    ASSUME NEW steps, NEW cursor \in 1..(NumSteps + 1)
    PROVE  /\ StateAt(steps, cursor) \in TaskStates
           /\ StateAt(steps, cursor) = "DONE" => cursor = NumSteps + 1
           /\ StateAt(steps, cursor) = "RUNNING" =>
                  cursor # NumSteps + 1 /\ steps[cursor].state = "RUNNING"
  <1>. DEFINE st == steps[cursor].state
  <1>1. CASE cursor = NumSteps + 1
    BY <1>1 DEF StateAt, TaskStates
  <1>2. CASE cursor # NumSteps + 1 /\ st = "WAITING_APPROVAL"
    BY <1>2 DEF StateAt, TaskStates
  <1>3. CASE cursor # NumSteps + 1 /\ st = "RUNNING"
    BY <1>3 DEF StateAt, TaskStates
  <1>4. CASE cursor # NumSteps + 1 /\ st \in {"BLOCKED", "FAILED"}
    BY <1>4 DEF StateAt, TaskStates
  <1>5. CASE /\ cursor # NumSteps + 1
             /\ st \notin {"WAITING_APPROVAL", "RUNNING", "BLOCKED", "FAILED"}
    BY <1>5 DEF StateAt, TaskStates
  <1>. QED
    BY <1>1, <1>2, <1>3, <1>4, <1>5

(* What an update of a step does to the fields of the task.                *)
LEMMA StepUpdatedFields ==
    ASSUME NEW t \in Task, NEW i \in StepNumbers, NEW to \in StepStates,
           NEW key \in SUBSET Keys, NEW stamp \in Stamps
    PROVE  LET u == StepUpdated(t, i, to, key, stamp)
               steps == MovedSteps(t, i, to, key)
           IN  /\ u \in Task
               /\ u.revision = t.revision + 1
               /\ u.steps = steps
               /\ \/ /\ AtCursor(t) /\ i # t.cursor
                     /\ u.cursor = t.cursor /\ u.state = t.state
                  \/ /\ ~AtCursor(t) \/ i = t.cursor
                     /\ u.cursor = NextCursor(steps)
                     /\ u.state = IF KeepsSuspension(t, to) THEN t.state
                                  ELSE StateAt(steps, NextCursor(steps))
  <1>. DEFINE steps == MovedSteps(t, i, to, key)
              next == NextCursor(steps)
              u == StepUpdated(t, i, to, key, stamp)
              state == IF KeepsSuspension(t, to) THEN t.state ELSE StateAt(steps, next)
  <1>1. steps \in [StepNumbers -> StepRecord]
    BY MovedStepsFacts
  <1>2. next \in 1..(NumSteps + 1)
    BY NextCursorFacts
  <1>3. state \in TaskStates
    <2>1. StateAt(steps, next) \in TaskStates
      <3>. HIDE DEF steps, next
      <3>. QED
        BY <1>2, StateAtFacts
    <2>2. t.state \in TaskStates
      BY DEF Task
    <2>. QED
      BY <2>1, <2>2
  <1>4. u = IF AtCursor(t) /\ i # t.cursor
            THEN Revised([t EXCEPT !.steps = steps], stamp)
            ELSE Revised([t EXCEPT !.steps = steps, !.cursor = next, !.state = state], stamp)
    BY DEF StepUpdated
  <1>. HIDE DEF steps, next, state
  <1>5. /\ t.state \in TaskStates /\ t.cursor \in 1..(NumSteps + 1)
        /\ t.revision + 1 \in Nat \ {0}
    BY DEF Task
  <1>6. t = [state |-> t.state, cursor |-> t.cursor, revision |-> t.revision,
             changed |-> t.changed, steps |-> t.steps]
    BY DEF Task
  <1>7. steps \in [StepNumbers -> [state: StepStates, attempts: Nat, keys: SUBSET Keys]]
    BY <1>1 DEF StepRecord
  <1>8. CASE AtCursor(t) /\ i # t.cursor
    <2>1. u = [state |-> t.state, cursor |-> t.cursor, revision |-> t.revision + 1,
               changed |-> stamp, steps |-> steps]
      BY <1>4, <1>8, <1>6 DEF Revised
    <2>. HIDE DEF u
    <2>2. u \in Task
      BY <1>5, <1>7, <2>1 DEF Task
    <2>. QED
      BY <1>8, <2>1, <2>2 DEF steps, next, state, u
  <1>9. CASE ~(AtCursor(t) /\ i # t.cursor)
    <2>1. u = [state |-> state, cursor |-> next, revision |-> t.revision + 1,
               changed |-> stamp, steps |-> steps]
      BY <1>4, <1>9, <1>6 DEF Revised
    <2>. HIDE DEF u
    <2>2. u \in Task
      BY <1>2, <1>3, <1>5, <1>7, <2>1 DEF Task
    <2>. QED
      BY <1>9, <2>1, <2>2 DEF steps, next, state, u
  <1>. QED
    BY <1>8, <1>9 DEF steps, next, state

(* An update of an open step, of the step at the cursor where the table    *)
(* and InOrder ask for that, keeps the task coherent.                      *)
LEMMA StepUpdatedIsCoherent ==
    ASSUME NEW t \in Task, Coherent(t),
           NEW i \in StepNumbers, NEW to \in StepStates,
           NEW key \in SUBSET Keys, NEW stamp \in Stamps,
           t.steps[i].state \notin TerminalStep,
           to \in {"RUNNING", "DONE", "SKIPPED", "FAILED"} => i = t.cursor
    PROVE  Coherent(StepUpdated(t, i, to, key, stamp))
  <1>. DEFINE steps == MovedSteps(t, i, to, key)
              next == NextCursor(steps)
              u == StepUpdated(t, i, to, key, stamp)
              state == IF KeepsSuspension(t, to) THEN t.state ELSE StateAt(steps, next)
  <1>0. NumSteps \in Nat /\ t.cursor \in Nat /\ i \in Nat
    BY TaskAssumption DEF Task, StepNumbers
  <1>1. /\ steps[i].state = to
        /\ \A j \in StepNumbers : j # i => steps[j] = t.steps[j]
    BY MovedStepsFacts
  <1>2. /\ next \in 1..(NumSteps + 1)
        /\ next \in StepNumbers => steps[next].state \notin TerminalStep
        /\ \A j \in StepNumbers : j < next => steps[j].state \in TerminalStep
    BY NextCursorFacts
  <1>3. /\ u.steps = steps
        /\ \/ /\ AtCursor(t) /\ i # t.cursor
              /\ u.cursor = t.cursor /\ u.state = t.state
           \/ /\ ~AtCursor(t) \/ i = t.cursor
              /\ u.cursor = next
              /\ u.state = state
    BY StepUpdatedFields
  <1>4. /\ state = "DONE" => next = NumSteps + 1 \/ t.state \in Suspended
        /\ state = "RUNNING" => t.state \in Suspended \/
               (next # NumSteps + 1 /\ steps[next].state = "RUNNING")
    <2>. HIDE DEF steps, next
    <2>. QED
      BY <1>2, StateAtFacts DEF KeepsSuspension
  <1>5. t.state \in Suspended /\ state = t.state => state \notin {"DONE", "RUNNING"}
    BY DEF Suspended
  <1>6. state \in {"DONE", "RUNNING"} => ~KeepsSuspension(t, to)
    BY DEF KeepsSuspension, Suspended
  <1>7. /\ state = "DONE" => next = NumSteps + 1
        /\ state = "RUNNING" => next # NumSteps + 1 /\ steps[next].state = "RUNNING"
    <2>. HIDE DEF steps, next
    <2>. QED
      BY <1>2, <1>6, StateAtFacts
  <1>8. /\ \A j \in StepNumbers : t.steps[j].state \in TerminalStep <=> j < t.cursor
        /\ \A j \in StepNumbers : t.steps[j].state \in {"RUNNING", "FAILED"} => j = t.cursor
    BY DEF Coherent, CursorIsExact
  <1>9. i >= t.cursor /\ AtCursor(t)
    BY <1>0, <1>8 DEF AtCursor, StepNumbers, Task
  <1>. HIDE DEF steps, next, u, state
  <1>10. CASE i # t.cursor
    <2>1. u.cursor = t.cursor /\ u.state = t.state /\ u.steps = steps
      BY <1>3, <1>9, <1>10
    <2>2. to \notin TerminalStep \cup {"RUNNING", "FAILED"}
      BY <1>10 DEF TerminalStep
    <2>3. CursorIsExact(u)
      <3>. SUFFICES ASSUME NEW j \in StepNumbers
                    PROVE  /\ steps[j].state \in TerminalStep <=> j < t.cursor
                           /\ steps[j].state \in {"RUNNING", "FAILED"} => j = t.cursor
        BY <2>1 DEF CursorIsExact
      <3>1. CASE j = i
        BY <1>0, <1>1, <1>9, <2>2, <3>1
      <3>2. CASE j # i
        BY <1>1, <1>8, <3>2
      <3>. QED
        BY <3>1, <3>2
    <2>4. RunningIsFree(u)
      BY <1>1, <1>10, <2>1 DEF RunningIsFree, AtCursor, Coherent
    <2>5. DoneIsFinished(u)
      BY <2>1 DEF DoneIsFinished, Coherent, Finished
    <2>. QED
      BY <2>3, <2>4, <2>5 DEF Coherent, u
  <1>11. CASE i = t.cursor
    <2>1. u.cursor = next /\ u.state = state /\ u.steps = steps
      BY <1>3, <1>11
    <2>2. next \in Nat
      BY <1>0, <1>2
    <2>3. \A j \in StepNumbers : j < i => steps[j].state \in TerminalStep
      BY <1>0, <1>1, <1>8, <1>11 DEF StepNumbers
    <2>4. \A j \in StepNumbers : j > i => steps[j].state \notin TerminalStep \cup {"RUNNING", "FAILED"}
      <3>. SUFFICES ASSUME NEW j \in StepNumbers, j > i
                    PROVE  steps[j].state \notin TerminalStep \cup {"RUNNING", "FAILED"}
        OBVIOUS
      <3>1. j \in Nat /\ j # i /\ ~(j < t.cursor) /\ j # t.cursor
        BY <1>0, <1>11 DEF StepNumbers
      <3>. QED
        BY <1>1, <1>8, <3>1
    <2>5. CASE to \in TerminalStep
      <3>1. next > i
        <4>1. next # i
          BY <1>1, <1>2, <2>5
        <4>2. ~(next < i)
          <5>. SUFFICES ASSUME next < i
                        PROVE  FALSE
            OBVIOUS
          <5>1. next \in StepNumbers
            BY <1>0, <1>2 DEF StepNumbers
          <5>. QED
            BY <1>2, <2>3, <5>1
        <4>. QED
          BY <1>0, <2>2, <4>1, <4>2
      <3>2. \A j \in StepNumbers : j >= next => steps[j].state \notin TerminalStep
        BY <1>0, <2>2, <2>4, <3>1 DEF StepNumbers
      <3>3. \A j \in StepNumbers : steps[j].state \notin {"RUNNING", "FAILED"}
        <4>. SUFFICES ASSUME NEW j \in StepNumbers
                      PROVE  steps[j].state \notin {"RUNNING", "FAILED"}
          OBVIOUS
        <4>0. j \in Nat
          BY DEF StepNumbers
        <4>1. CASE j = i
          BY <1>1, <2>5, <4>1 DEF TerminalStep
        <4>2. CASE j < i
          BY <2>3, <4>2 DEF TerminalStep
        <4>3. CASE j > i
          BY <2>4, <4>3
        <4>. QED
          BY <1>0, <4>0, <4>1, <4>2, <4>3
      <3>4. CursorIsExact(u)
        BY <1>0, <1>2, <2>1, <2>2, <3>2, <3>3 DEF CursorIsExact, StepNumbers
      <3>5. RunningIsFree(u)
        BY <1>0, <1>2, <1>7, <2>1, <3>3 DEF RunningIsFree, StepNumbers
      <3>6. DoneIsFinished(u)
        BY <1>0, <1>2, <1>7, <2>1 DEF DoneIsFinished, Finished, StepNumbers
      <3>. QED
        BY <3>4, <3>5, <3>6 DEF Coherent, u
    <2>6. CASE to \notin TerminalStep
      <3>1. next = i
        <4>1. ~(i < next)
          BY <1>1, <1>2, <2>6
        <4>2. ~(next < i)
          <5>. SUFFICES ASSUME next < i
                        PROVE  FALSE
            OBVIOUS
          <5>1. next \in StepNumbers
            BY <1>0, <1>2 DEF StepNumbers
          <5>. QED
            BY <1>2, <2>3, <5>1
        <4>. QED
          BY <1>0, <2>2, <4>1, <4>2
      <3>2. CursorIsExact(u)
        <4>. SUFFICES ASSUME NEW j \in StepNumbers
                      PROVE  /\ steps[j].state \in TerminalStep <=> j < i
                             /\ steps[j].state \in {"RUNNING", "FAILED"} => j = i
          BY <2>1, <3>1 DEF CursorIsExact
        <4>0. j \in Nat
          BY DEF StepNumbers
        <4>1. CASE j = i
          BY <1>0, <1>1, <2>6, <4>1
        <4>2. CASE j < i
          BY <2>3, <4>2 DEF TerminalStep
        <4>3. CASE j > i
          BY <1>0, <2>4, <4>0, <4>3
        <4>. QED
          BY <1>0, <4>0, <4>1, <4>2, <4>3
      <3>3. RunningIsFree(u)
        BY <1>7, <2>1, <3>1 DEF RunningIsFree, Suspended
      <3>4. DoneIsFinished(u)
        BY <1>0, <1>7, <2>1, <3>1 DEF DoneIsFinished, StepNumbers
      <3>. QED
        BY <3>2, <3>3, <3>4 DEF Coherent, u
    <2>. QED
      BY <2>5, <2>6
  <1>. QED
    BY <1>10, <1>11

-----------------------------------------------------------------------------
(* The calls.  next is a good successor of t under the word say: a task,   *)
(* one revision on, with its cursor kept as KeepsCursor says, and free of  *)
(* t's suspension only if say allows that.                                 *)
Released(t, next, say) ==
    next.state \in Suspended \cup {"CANCELED"} \/
    /\ t.state = "WAITING_APPROVAL" => say.approved
    /\ t.state = "BLOCKED" => say.reason

GoodSuccessor(t, next, say) ==
    /\ next \in Task
    /\ next.revision = t.revision + 1
    /\ KeepsCursor(t, next)
    /\ Released(t, next, say)

(* The step an update sets in motion, ends or skips is at the cursor.      *)
LEMMA StepAllowedFacts ==
    ASSUME NEW t \in Task, NEW i \in StepNumbers, NEW to \in StepStates,
           NEW say, StepAllowed(t, i, to, say)
    PROVE  /\ t.steps[i].state \notin TerminalStep
           /\ to \in {"RUNNING", "DONE", "SKIPPED"} => InOrder(t, i, say)
           /\ to \in {"RUNNING", "DONE", "SKIPPED"} => i = t.cursor
           /\ Coherent(t) /\ to = "FAILED" => i = t.cursor
  <1>1. t.steps[i].state \in StepStates
    BY DEF Task
  <1>2. to \in StepMoves[t.steps[i].state]
    BY DEF StepAllowed, MayMove
  <1>3. t.steps[i].state \notin TerminalStep
    BY <1>2 DEF StepMoves, TerminalStep
  <1>4. to = "FAILED" => t.steps[i].state = "RUNNING"
    BY <1>1, <1>2 DEF StepMoves, StepStates
  <1>5. Coherent(t) /\ t.steps[i].state = "RUNNING" => i = t.cursor
    BY DEF Coherent, CursorIsExact
  <1>. QED
    BY <1>3, <1>4, <1>5 DEF StepAllowed, InOrder

(* An update beside a misplaced cursor leaves it where it is.              *)
LEMMA UpdateKeepsCursor ==
    ASSUME NEW t \in Task, NEW i \in StepNumbers, NEW to \in StepStates,
           NEW key \in SUBSET Keys, NEW stamp \in Stamps,
           t.steps[i].state \notin TerminalStep,
           to \in {"RUNNING", "DONE", "SKIPPED"} => i = t.cursor,
           Coherent(t) /\ to = "FAILED" => i = t.cursor
    PROVE  KeepsCursor(t, StepUpdated(t, i, to, key, stamp))
  <1>. DEFINE u == StepUpdated(t, i, to, key, stamp)
  <1>1. Coherent(t) => Coherent(u)
    BY StepUpdatedIsCoherent
  <1>2. ASSUME Misplaced(t)
        PROVE  /\ u.cursor = t.cursor
               /\ \A j \in StepNumbers : u.steps[j].state \in {"RUNNING", "DONE", "SKIPPED"} =>
                                           u.steps[j] = t.steps[j]
    <2>1. AtCursor(t) /\ i # t.cursor /\ to \notin {"RUNNING", "DONE", "SKIPPED"}
      BY <1>2 DEF Misplaced
    <2>2. u.cursor = t.cursor /\ u.steps = MovedSteps(t, i, to, key)
      BY <2>1, StepUpdatedFields
    <2>3. /\ u.steps[i].state = to
          /\ \A j \in StepNumbers : j # i => u.steps[j] = t.steps[j]
      BY <2>2, MovedStepsFacts
    <2>. QED
      BY <2>1, <2>2, <2>3
  <1>. QED
    BY <1>1, <1>2 DEF KeepsCursor

(* How an update releases the task it is about.                            *)
LEMMA StepUpdatedReleases ==
    ASSUME NEW t \in Task, NEW i \in StepNumbers, NEW to \in StepStates,
           NEW key \in SUBSET Keys, NEW stamp \in Stamps, NEW say,
           to \in {"RUNNING", "DONE"} => InOrder(t, i, say)
    PROVE  Released(t, StepUpdated(t, i, to, key, stamp), say)
  <1>. DEFINE u == StepUpdated(t, i, to, key, stamp)
              steps == MovedSteps(t, i, to, key)
  <1>1. \/ u.state = t.state
        \/ u.state = IF KeepsSuspension(t, to) THEN t.state
                     ELSE StateAt(steps, NextCursor(steps))
    BY StepUpdatedFields
  <1>. HIDE DEF u, steps
  <1>2. CASE u.state = t.state
    BY <1>2 DEF Released, Suspended, u
  <1>3. CASE u.state # t.state
    <2>1. ~KeepsSuspension(t, to)
      BY <1>1, <1>3
    <2>. QED
      BY <2>1 DEF KeepsSuspension, Released, Suspended, InOrder
  <1>. QED
    BY <1>2, <1>3

LEMMA UpdateIsGood ==
    ASSUME NEW t \in Task, NEW i \in StepNumbers, NEW to \in StepStates,
           NEW say, NEW stamp \in Stamps, StepAllowed(t, i, to, say)
    PROVE  GoodSuccessor(t, StepUpdated(t, i, to, {}, stamp), say)
  <1>1. /\ t.steps[i].state \notin TerminalStep
        /\ to \in {"RUNNING", "DONE", "SKIPPED"} => InOrder(t, i, say)
        /\ to \in {"RUNNING", "DONE", "SKIPPED"} => i = t.cursor
        /\ Coherent(t) /\ to = "FAILED" => i = t.cursor
    BY StepAllowedFacts
  <1>2. {} \in SUBSET Keys
    OBVIOUS
  <1>3. KeepsCursor(t, StepUpdated(t, i, to, {}, stamp))
    BY <1>1, <1>2, UpdateKeepsCursor
  <1>4. Released(t, StepUpdated(t, i, to, {}, stamp), say)
    BY <1>1, <1>2, StepUpdatedReleases
  <1>5. /\ StepUpdated(t, i, to, {}, stamp) \in Task
        /\ StepUpdated(t, i, to, {}, stamp).revision = t.revision + 1
    BY <1>2, StepUpdatedFields
  <1>. QED
    BY <1>3, <1>4, <1>5 DEF GoodSuccessor

LEMMA RetryIsGood ==
    ASSUME NEW t \in Task, NEW i \in StepNumbers,
           NEW say, NEW key \in Keys, NEW stamp \in Stamps, RetryAllowed(t, i, say, key)
    PROVE  GoodSuccessor(t, StepUpdated(t, i, "RUNNING", {key}, stamp), say)
  <1>1. /\ t.steps[i].state \notin TerminalStep
        /\ InOrder(t, i, say)
        /\ i = t.cursor
    BY DEF RetryAllowed, TerminalStep, InOrder
  <1>2. {key} \in SUBSET Keys /\ "RUNNING" \in StepStates
    BY DEF StepStates
  <1>3. KeepsCursor(t, StepUpdated(t, i, "RUNNING", {key}, stamp))
    BY <1>1, <1>2, UpdateKeepsCursor
  <1>4. Released(t, StepUpdated(t, i, "RUNNING", {key}, stamp), say)
    BY <1>1, <1>2, StepUpdatedReleases
  <1>5. /\ StepUpdated(t, i, "RUNNING", {key}, stamp) \in Task
        /\ StepUpdated(t, i, "RUNNING", {key}, stamp).revision = t.revision + 1
    BY <1>2, StepUpdatedFields
  <1>. QED
    BY <1>3, <1>4, <1>5 DEF GoodSuccessor

(* A call that changes the state alone.                                    *)
LEMMA StateChanged ==
    ASSUME NEW t \in Task, NEW state \in TaskStates, NEW stamp \in Stamps,
           state = "RUNNING" /\ AtCursor(t) =>
               t.steps[t.cursor].state \notin Suspended \cup {"FAILED"},
           state = "DONE" => Finished(t)
    PROVE  LET u == Revised([t EXCEPT !.state = state], stamp)
           IN  /\ u \in Task /\ KeepsCursor(t, u)
               /\ u.revision = t.revision + 1 /\ u.state = state
  <1>. DEFINE u == Revised([t EXCEPT !.state = state], stamp)
  <1>1. t = [state |-> t.state, cursor |-> t.cursor, revision |-> t.revision,
             changed |-> t.changed, steps |-> t.steps]
    BY DEF Task
  <1>2. u = [state |-> state, cursor |-> t.cursor, revision |-> t.revision + 1,
             changed |-> stamp, steps |-> t.steps]
    <2>. DEFINE v == [t EXCEPT !.state = state]
    <2>1. v = [state |-> state, cursor |-> t.cursor, revision |-> t.revision,
               changed |-> t.changed, steps |-> t.steps]
      BY <1>1
    <2>2. u = [v EXCEPT !.revision = v.revision + 1, !.changed = stamp]
      BY DEF Revised
    <2>. HIDE DEF v, u
    <2>. QED
      BY <2>1, <2>2
  <1>3. /\ t.cursor \in 1..(NumSteps + 1)
        /\ t.revision + 1 \in Nat \ {0}
        /\ t.steps \in [StepNumbers -> [state: StepStates, attempts: Nat, keys: SUBSET Keys]]
    BY DEF Task
  <1>. HIDE DEF u
  <1>4. u \in Task
    BY <1>2, <1>3 DEF Task
  <1>5. CursorIsExact(t) => CursorIsExact(u)
    BY <1>2 DEF CursorIsExact
  <1>6. RunningIsFree(u)
    BY <1>2 DEF RunningIsFree, AtCursor
  <1>7. DoneIsFinished(u)
    BY <1>2 DEF DoneIsFinished, Finished
  <1>8. u.cursor = t.cursor /\ u.steps = t.steps
    BY <1>2
  <1>9. KeepsCursor(t, u)
    BY <1>5, <1>6, <1>7, <1>8 DEF KeepsCursor, Coherent
  <1>. QED
    BY <1>2, <1>4, <1>9 DEF u

LEMMA TransitionIsGood ==
    ASSUME NEW t \in Task, NEW to \in TaskStates, NEW say, NEW stamp \in Stamps,
           TransitionAllowed(t, to, say)
    PROVE  GoodSuccessor(t, Transitioned(t, to, stamp), say)
  <1>1. /\ to = "RUNNING" /\ AtCursor(t) =>
               t.steps[t.cursor].state \notin Suspended \cup {"FAILED"}
        /\ to = "DONE" => Finished(t)
    BY DEF TransitionAllowed
  <1>2. LET u == Transitioned(t, to, stamp)
        IN  /\ u \in Task /\ KeepsCursor(t, u)
            /\ u.revision = t.revision + 1 /\ u.state = to
    BY <1>1, StateChanged DEF Transitioned
  <1>3. /\ to \in TaskMoves[t.state]
        /\ t.state = "BLOCKED" /\ to # "CANCELED" => say.reason
        /\ t.state = "WAITING_APPROVAL" /\ to \in {"READY", "RUNNING"} => say.approved
    BY DEF TransitionAllowed, MayMove
  <1>4. t.state = "WAITING_APPROVAL" => to \in {"RUNNING", "BLOCKED", "CANCELED"}
    BY <1>3 DEF TaskMoves
  <1>. QED
    BY <1>2, <1>3, <1>4 DEF GoodSuccessor, Released, Suspended

LEMMA PauseIsGood ==
    ASSUME NEW t \in Task, NEW blocker \in BOOLEAN, NEW say, NEW stamp \in Stamps
    PROVE  GoodSuccessor(t, Paused(t, blocker, stamp), say)
  <1>. DEFINE state == IF t.state \in Suspended THEN t.state
                       ELSE IF blocker THEN "BLOCKED" ELSE "PAUSED"
  <1>1. Paused(t, blocker, stamp) = Revised([t EXCEPT !.state = state], stamp)
    BY DEF Paused, Task
  <1>2. state \in TaskStates /\ state \notin {"RUNNING", "DONE"}
    BY DEF TaskStates, Suspended
  <1>3. t.state \in Suspended => state \in Suspended
    OBVIOUS
  <1>. HIDE DEF state
  <1>. QED
    BY <1>1, <1>2, <1>3, StateChanged DEF GoodSuccessor, Released, Suspended

LEMMA ResumeIsGood ==
    ASSUME NEW t \in Task, NEW say, NEW stamp \in Stamps
    PROVE  GoodSuccessor(t, Resumed(t, stamp), say)
  <1>. DEFINE state == IF t.state \in Suspended THEN t.state ELSE "PAUSED"
  <1>1. Resumed(t, stamp) = Revised([t EXCEPT !.state = state], stamp)
    BY DEF Resumed, Task
  <1>2. state \in TaskStates /\ state \notin {"RUNNING", "DONE"}
    BY DEF TaskStates, Suspended
  <1>3. t.state \in Suspended => state \in Suspended
    OBVIOUS
  <1>. HIDE DEF state
  <1>. QED
    BY <1>1, <1>2, <1>3, StateChanged DEF GoodSuccessor, Released, Suspended

-----------------------------------------------------------------------------
(* The sessions.  Every copy and every candidate without an answer is the  *)
(* row or an older revision of it.                                         *)
Behind(t, r) ==
    /\ r # Absent
    /\ t.revision <= r.revision
    /\ t.revision = r.revision => t = r

Fresh(v, r) ==
    /\ v.pc = "holds" /\ v.copy # Absent => Behind(v.copy, r)
    /\ v.pc = "unsure" => Behind(v.next, r) /\ v.next.revision = v.copy.revision + 1

TaskInv ==
    /\ TaskTypeOK
    /\ \A s \in Sessions : session[s] # Idle => Fresh(session[s], row)
    /\ ~slipped

RegisterStep == Register!RNext \/ UNCHANGED Register!cvars

(* The values a session may hold, and what they are to the register.       *)
LEMMA HoldingIsTyped ==
    ASSUME NEW t \in Row
    PROVE  /\ Holding(t) \in Session /\ Holding(t) # Idle
           /\ Holding(t).pc = "holds" /\ Holding(t).copy = t
  BY RepositoryAssumption DEF Session, Holding

LEMMA UnsureIsTyped ==
    ASSUME NEW t \in Task, NEW next \in Task
    PROVE  LET v == [pc |-> "unsure", copy |-> t, next |-> next]
           IN  v \in Session /\ v # Idle /\ v.pc = "unsure" /\ v.copy = t /\ v.next = next
  BY RepositoryAssumption DEF Session

LEMMA SessionIsTyped ==
    ASSUME NEW v \in Session
    PROVE  /\ v.pc \in {"holds", "unsure"} /\ v.copy \in Row
           /\ v.pc = "unsure" => v.copy \in Task /\ v.next \in Task
  BY DEF Session, Row

LEMMA RowIsTask ==
    ASSUME NEW t \in Row
    PROVE  t # Absent => t \in Task /\ t.revision \in Nat
  BY DEF Row, Task

HeldOf(v) == IF v # Idle /\ v.pc = "holds" THEN Copy(v.copy) ELSE Idle

LEMMA HeldBecomes ==
    ASSUME TaskTypeOK, NEW s \in Sessions, NEW v, Becomes(s, v)
    PROVE  Held' = [Held EXCEPT ![s] = HeldOf(v)]
  <1>1. \A c \in Sessions : session'[c] = IF c = s THEN v ELSE session[c]
    BY DEF TaskTypeOK, Becomes
  <1>2. Held = [c \in Sessions |-> HeldOf(session[c])]
    BY DEF Held, HeldOf, Is
  <1>3. Held' = [c \in Sessions |-> HeldOf(session'[c])]
    BY DEF Held, HeldOf, Is, Copy
  <1>. QED
    BY <1>1, <1>2, <1>3

(* The register of the sessions: reading, forgetting and replacing.        *)
LEMMA ReadStep ==
    ASSUME TaskTypeOK, NEW s \in Sessions, Becomes(s, Holding(row)), row' = row
    PROVE  RegisterStep
  <1>1. HeldOf(Holding(row)) = Register!Current
    BY HoldingIsTyped DEF TaskTypeOK, HeldOf, Copy, Register!Current
  <1>2. Held' = [Held EXCEPT ![s] = HeldOf(Holding(row))]
    BY HeldBecomes
  <1>3. Copy(row').version = Copy(row).version
    BY DEF Copy
  <1>4. Register!Read(s)
    BY <1>1, <1>2, <1>3 DEF Register!Read, Copy
  <1>. QED
    BY <1>4 DEF RegisterStep, Register!RNext

LEMMA ForgetStep ==
    ASSUME TaskTypeOK, NEW s \in Sessions, Becomes(s, Idle), row' = row
    PROVE  RegisterStep
  <1>1. Held' = [Held EXCEPT ![s] = HeldOf(Idle)]
    BY HeldBecomes
  <1>2. HeldOf(Idle) = Idle
    BY DEF HeldOf
  <1>3. Register!Forget(s)
    BY <1>1, <1>2 DEF Register!Forget, Copy
  <1>. QED
    BY <1>3 DEF RegisterStep, Register!RNext

LEMMA ReplaceStep ==
    ASSUME TaskTypeOK, NEW s \in Sessions, NEW t \in Row, NEW next \in Task, NEW v,
           session[s] # Idle, session[s].pc = "holds", session[s].copy = t,
           row = t, row' = next, Becomes(s, v),
           Copy(next).version = Copy(t).version + 1,
           HeldOf(v) \in {Copy(next), Idle}
    PROVE  RegisterStep
  <1>1. Held[s] = Register!Current
    BY DEF Held, Is, Copy, Register!Current
  <1>2. Held' = [Held EXCEPT ![s] = HeldOf(v)]
    BY HeldBecomes
  <1>3. Copy(row)' = Copy(next)
    BY DEF Copy
  <1>4. Copy(next) = [value |-> next, version |-> Copy(next).version]
    BY DEF Copy
  <1>5. row' \in Row
    BY DEF Row
  <1>6. \/ Held' = [Held EXCEPT ![s] = [value |-> row', version |-> (Copy(row).version)']]
        \/ Held' = [Held EXCEPT ![s] = Idle]
    BY <1>2, <1>3, <1>4
  <1>7. (Copy(row).version)' = Copy(row).version + 1
    BY <1>3
  <1>8. Register!Replace(s)
    BY <1>1, <1>5, <1>6, <1>7 DEF Register!Replace
  <1>. QED
    BY <1>8 DEF RegisterStep, Register!RNext

-----------------------------------------------------------------------------
(* A step that leaves the row alone, and one that replaces it.             *)
LEMMA RowKept ==
    ASSUME TaskInv, NEW s \in Sessions, NEW v \in Session \cup {Idle},
           v # Idle => Fresh(v, row), Becomes(s, v), row' = row, slipped' = slipped
    PROVE  TaskInv'
  <1>1. TaskTypeOK'
    BY DEF TaskInv, TaskTypeOK, Becomes
  <1>2. ASSUME NEW c \in Sessions, session'[c] # Idle
        PROVE  Fresh(session'[c], row')
    BY <1>2 DEF TaskInv, TaskTypeOK, Becomes
  <1>. QED
    BY <1>1, <1>2 DEF TaskInv

LEMMA RowReplaced ==
    ASSUME TaskInv, NEW s \in Sessions, NEW t \in Row, NEW next \in Task,
           row = t, row # Absent => next.revision = t.revision + 1,
           row' = next, slipped' = FALSE,
           \/ Becomes(s, Idle)
           \/ Becomes(s, Holding(next))
           \/ t \in Task /\ Becomes(s, [pc |-> "unsure", copy |-> t, next |-> next])
    PROVE  TaskInv'
  <1>0. next # Absent /\ next \in Row /\ next.revision \in Nat
    BY RepositoryAssumption DEF Row, Task
  <1>1. PICK v \in Session \cup {Idle} :
            /\ Becomes(s, v)
            /\ \/ v = Idle
               \/ v.pc = "holds" /\ v.copy = next
               \/ /\ t \in Task
                  /\ v.pc = "unsure" /\ v.copy = t /\ v.next = next
    BY <1>0, HoldingIsTyped, UnsureIsTyped
  <1>2. session' \in [Sessions -> Session \cup {Idle}]
    BY <1>1 DEF TaskInv, TaskTypeOK, Becomes
  <1>3. TaskTypeOK'
    BY <1>0, <1>2 DEF TaskTypeOK
  <1>5. \A u : Behind(u, row') <=>
            u.revision <= next.revision /\ (u.revision = next.revision => u = next)
    BY <1>0 DEF Behind
  <1>6. ASSUME NEW u \in Task, Behind(u, row)
        PROVE  Behind(u, row')
    <2>1. u.revision \in Nat /\ u.revision <= row.revision /\ row # Absent
      BY <1>6 DEF Behind, Task
    <2>2. row.revision \in Nat /\ next.revision = row.revision + 1
      BY <2>1, RowIsTask DEF TaskInv, TaskTypeOK
    <2>. QED
      BY <1>5, <2>1, <2>2
  <1>7. ASSUME NEW c \in Sessions, session'[c] # Idle
        PROVE  Fresh(session'[c], row')
    <2>1. session'[c] = IF c = s THEN v ELSE session[c]
      BY <1>1 DEF TaskInv, TaskTypeOK, Becomes
    <2>2. CASE c # s
      <3>1. Fresh(session[c], row) /\ session'[c] = session[c] /\ session[c] \in Session
        BY <1>7, <2>1, <2>2 DEF TaskInv, TaskTypeOK
      <3>. DEFINE w == session[c]
      <3>2. /\ w.pc = "holds" /\ w.copy # Absent => w.copy \in Task
            /\ w.pc = "unsure" => w.next \in Task
        BY <3>1, SessionIsTyped, RowIsTask
      <3>3. /\ w.pc = "holds" /\ w.copy # Absent => Behind(w.copy, row')
            /\ w.pc = "unsure" => /\ Behind(w.next, row')
                                  /\ w.next.revision = w.copy.revision + 1
        BY <1>6, <3>1, <3>2 DEF Fresh
      <3>4. session'[c] = w
        BY <3>1
      <3>. HIDE DEF w
      <3>. QED
        BY <3>3, <3>4 DEF Fresh
    <2>3. CASE c = s
      <3>1. Behind(next, row')
        BY <1>0, <1>5
      <3>2. t \in Task => next.revision = t.revision + 1
        BY RepositoryAssumption
      <3>3. session'[c] = v
        BY <2>1, <2>3
      <3>4. \/ v.pc = "holds" /\ v.copy = next
            \/ v.pc = "unsure" /\ v.copy = t /\ v.next = next /\ t \in Task
        BY <1>1, <1>7, <3>3
      <3>. QED
        BY <3>1, <3>2, <3>3, <3>4 DEF Fresh
    <2>. QED
      BY <2>2, <2>3
  <1>. QED
    BY <1>3, <1>7 DEF TaskInv

-----------------------------------------------------------------------------
(* compare_and_swap, offered a good successor of the session's copy, or    *)
(* the candidate of a call without an answer, which can only be found in   *)
(* place or refused: the row has left the copy behind.                     *)
LEMMA Offered ==
    ASSUME TaskInv, NEW s \in Sessions, NEW t \in Task, NEW next \in Task, NEW say,
           session[s] # Idle, session[s].copy = t, row # Absent,
           next.revision = t.revision + 1,
           \/ /\ session[s].pc = "holds" /\ Behind(t, row)
              /\ Released(t, next, say)
           \/ t.revision < row.revision,
           CompareAndSwap(s, next, say)
    PROVE  TaskInv' /\ RegisterStep
  <1>0. row \in Row /\ row \in Task /\ TaskTypeOK
    BY RowIsTask DEF TaskInv, TaskTypeOK
  <1>1. CASE Replays(s, next)
    <2>1. Becomes(s, Holding(row)) /\ row' = row /\ slipped' = slipped
      BY <1>1 DEF Replays
    <2>2. Holding(row) \in Session /\ Fresh(Holding(row), row)
      BY <1>0, HoldingIsTyped DEF Fresh, Behind, TaskInv, Task
    <2>. QED
      BY <1>0, <2>1, <2>2, RowKept, ReadStep
  <1>2. CASE Refused(s, next)
    <2>1. Becomes(s, Idle) /\ row' = row /\ slipped' = slipped
      BY <1>2 DEF Refused
    <2>. QED
      BY <1>0, <2>1, RowKept, ForgetStep
  <1>3. CASE Commits(s, next, say)
    <2>1. /\ row.revision = t.revision
          /\ row' = next /\ slipped' = (slipped \/ Slips(next, say))
          /\ \/ Becomes(s, Holding(next))
             \/ Becomes(s, [pc |-> "unsure", copy |-> t, next |-> next])
      BY <1>3 DEF Commits, Swappable
    <2>2. /\ session[s].pc = "holds" /\ row = t
          /\ Released(t, next, say)
      BY <1>0, <2>1 DEF Behind, Task
    <2>3. ~Slips(next, say)
      BY <2>2 DEF Slips, Released
    <2>4. slipped' = FALSE
      BY <2>1, <2>3 DEF TaskInv
    <2>5. t \in Row /\ next \in Row /\ next # Absent /\ t # Absent
      BY RepositoryAssumption DEF Row
    <2>6. TaskInv'
      BY <2>1, <2>2, <2>4, <2>5, RowReplaced
    <2>7. Copy(next).version = Copy(t).version + 1
      BY <2>5 DEF Copy
    <2>8. HeldOf(Holding(next)) = Copy(next)
      BY <2>5, HoldingIsTyped DEF HeldOf
    <2>9. HeldOf([pc |-> "unsure", copy |-> t, next |-> next]) = Idle
      BY DEF HeldOf
    <2>10. RegisterStep
      BY <1>0, <2>1, <2>2, <2>5, <2>7, <2>8, <2>9, ReplaceStep
    <2>. QED
      BY <2>6, <2>10
  <1>. QED
    BY <1>1, <1>2, <1>3 DEF CompareAndSwap

(* A session that works holds a copy that is no newer than the row.        *)
LEMMA WorkingCopy ==
    ASSUME TaskInv, NEW s \in Sessions, Works(s)
    PROVE  /\ session[s] # Idle /\ session[s].pc = "holds"
           /\ session[s].copy \in Task
           /\ Behind(session[s].copy, row) /\ row # Absent
  <1>1. session[s] # Idle /\ session[s].pc = "holds" /\ session[s].copy # Absent
    BY DEF Works, Is
  <1>2. session[s].copy \in Task
    BY <1>1, SessionIsTyped, RowIsTask DEF TaskInv, TaskTypeOK
  <1>3. Fresh(session[s], row)
    BY <1>1 DEF TaskInv
  <1>4. Behind(session[s].copy, row)
    BY <1>1, <1>3 DEF Fresh
  <1>. QED
    BY <1>1, <1>2, <1>4 DEF Behind

LEMMA WorkIsSafe ==
    ASSUME TaskInv, NEW s \in Sessions, Works(s), NEW next, NEW say,
           GoodSuccessor(session[s].copy, next, say), CompareAndSwap(s, next, say)
    PROVE  TaskInv' /\ RegisterStep
  <1>1. /\ session[s] # Idle /\ session[s].pc = "holds"
        /\ session[s].copy \in Task
        /\ Behind(session[s].copy, row) /\ row # Absent
    BY WorkingCopy
  <1>. DEFINE t == session[s].copy
  <1>2. /\ next \in Task
        /\ next.revision = t.revision + 1 /\ Released(t, next, say)
    BY DEF GoodSuccessor
  <1>3. session[s].copy = t
    OBVIOUS
  <1>. HIDE DEF t
  <1>. QED
    BY <1>1, <1>2, <1>3, Offered

(* The invariant is kept, and every step is one of the register.           *)
LEMMA TaskStepIsSafe ==
    ASSUME TaskInv, NEW s \in Sessions, SessionStep(s)
    PROVE  TaskInv' /\ RegisterStep
  <1>0. TaskTypeOK /\ row \in Row
    BY DEF TaskInv, TaskTypeOK
  <1>1. CASE Load(s)
    <2>1. Becomes(s, Holding(row)) /\ row' = row /\ slipped' = slipped
      BY <1>1 DEF Load
    <2>2. row # Absent => row.revision \in Nat
      BY <1>0, RowIsTask
    <2>3. Holding(row) \in Session /\ Fresh(Holding(row), row)
      BY <1>0, <2>2, HoldingIsTyped DEF Fresh, Behind, TaskInv
    <2>. QED
      BY <1>0, <2>1, <2>3, RowKept, ReadStep
  <1>2. CASE Leave(s)
    <2>1. Becomes(s, Idle) /\ row' = row /\ slipped' = slipped
      BY <1>2 DEF Leave
    <2>. QED
      BY <1>0, <2>1, RowKept, ForgetStep
  <1>3. ASSUME NEW n \in Submitted, Create(s, n)
        PROVE  TaskInv' /\ RegisterStep
    <2>1. n \in Task /\ n.revision = 1
      BY SubmittedAssumption
    <2>2. /\ session[s] # Idle /\ session[s].pc = "holds" /\ session[s].copy = Absent
          /\ row \in {Absent, n} /\ row' = n /\ slipped' = slipped
          /\ Becomes(s, Holding(n)) \/ Becomes(s, Idle)
      BY <1>3 DEF Create, Is
    <2>3. n \in Row /\ n # Absent
      BY <2>1, RepositoryAssumption DEF Row
    <2>4. CASE row = n
      <3>1. row' = row
        BY <2>2, <2>4
      <3>2. Holding(n) \in Session /\ Fresh(Holding(n), row)
        BY <2>1, <2>3, <2>4, HoldingIsTyped DEF Fresh, Behind
      <3>3. CASE Becomes(s, Holding(n))
        BY <1>0, <2>2, <2>4, <3>1, <3>2, <3>3, RowKept, ReadStep
      <3>4. CASE Becomes(s, Idle)
        BY <1>0, <2>2, <3>1, <3>4, RowKept, ForgetStep
      <3>. QED
        BY <2>2, <3>3, <3>4
    <2>5. CASE row = Absent
      <3>1. Absent \in Row
        BY DEF Row
      <3>2. slipped' = FALSE
        BY <2>2 DEF TaskInv
      <3>3. TaskInv'
        BY <2>1, <2>2, <2>5, <3>1, <3>2, RowReplaced
      <3>4. Copy(n).version = Copy(Absent).version + 1
        BY <2>1, <2>3 DEF Copy
      <3>5. HeldOf(Holding(n)) = Copy(n) /\ HeldOf(Idle) = Idle
        BY <2>3, HoldingIsTyped DEF HeldOf
      <3>6. RegisterStep
        BY <1>0, <2>1, <2>2, <2>5, <3>1, <3>4, <3>5, ReplaceStep
      <3>. QED
        BY <3>3, <3>6
    <2>. QED
      BY <2>2, <2>4, <2>5
  <1>4. CASE UpdateStep(s)
    <2>1. Works(s)
      BY <1>4 DEF UpdateStep
    <2>2. PICK i \in StepNumbers, to \in StepStates, say \in Say, stamp \in Stamps :
              /\ StepAllowed(session[s].copy, i, to, say)
              /\ CompareAndSwap(s, StepUpdated(session[s].copy, i, to, {}, stamp), say)
      BY <1>4 DEF UpdateStep
    <2>3. GoodSuccessor(session[s].copy, StepUpdated(session[s].copy, i, to, {}, stamp), say)
      BY <2>1, <2>2, WorkingCopy, UpdateIsGood
    <2>. QED
      BY <2>1, <2>2, <2>3, WorkIsSafe
  <1>5. CASE RetryStep(s)
    <2>1. Works(s)
      BY <1>5 DEF RetryStep
    <2>2. PICK i \in StepNumbers, approved \in BOOLEAN, key \in Keys, stamp \in Stamps :
              LET say == [approved |-> approved, reason |-> TRUE]
              IN  /\ RetryAllowed(session[s].copy, i, say, key)
                  /\ CompareAndSwap(s, StepUpdated(session[s].copy, i, "RUNNING", {key}, stamp), say)
      BY <1>5 DEF RetryStep
    <2>3. GoodSuccessor(session[s].copy, StepUpdated(session[s].copy, i, "RUNNING", {key}, stamp),
                        [approved |-> approved, reason |-> TRUE])
      BY <2>1, <2>2, WorkingCopy, RetryIsGood
    <2>. QED
      BY <2>1, <2>2, <2>3, WorkIsSafe
  <1>6. CASE TransitionTask(s)
    <2>1. Works(s)
      BY <1>6 DEF TransitionTask
    <2>2. PICK to \in TaskStates, say \in Say, stamp \in Stamps :
              /\ TransitionAllowed(session[s].copy, to, say)
              /\ CompareAndSwap(s, Transitioned(session[s].copy, to, stamp), say)
      BY <1>6 DEF TransitionTask
    <2>3. GoodSuccessor(session[s].copy, Transitioned(session[s].copy, to, stamp), say)
      BY <2>1, <2>2, WorkingCopy, TransitionIsGood
    <2>. QED
      BY <2>1, <2>2, <2>3, WorkIsSafe
  <1>7. CASE PauseTask(s)
    <2>1. Works(s)
      BY <1>7 DEF PauseTask
    <2>2. PICK blocker \in BOOLEAN, stamp \in Stamps :
              CompareAndSwap(s, Paused(session[s].copy, blocker, stamp), Silent)
      BY <1>7 DEF PauseTask
    <2>3. GoodSuccessor(session[s].copy, Paused(session[s].copy, blocker, stamp), Silent)
      BY <2>1, WorkingCopy, PauseIsGood
    <2>. QED
      BY <2>1, <2>2, <2>3, WorkIsSafe
  <1>8. CASE RecordResume(s)
    <2>1. Works(s)
      BY <1>8 DEF RecordResume
    <2>2. PICK stamp \in Stamps : CompareAndSwap(s, Resumed(session[s].copy, stamp), Silent)
      BY <1>8 DEF RecordResume
    <2>3. GoodSuccessor(session[s].copy, Resumed(session[s].copy, stamp), Silent)
      BY <2>1, WorkingCopy, ResumeIsGood
    <2>. QED
      BY <2>1, <2>2, <2>3, WorkIsSafe
  <1>9. CASE OfferAgain(s)
    <2>1. session[s] # Idle /\ session[s].pc = "unsure"
      BY <1>9 DEF OfferAgain, Is
    <2>2. session[s].copy \in Task /\ session[s].next \in Task
      BY <2>1, SessionIsTyped DEF TaskInv, TaskTypeOK
    <2>. DEFINE t == session[s].copy
                next == session[s].next
    <2>3. /\ Behind(next, row)
          /\ next.revision = t.revision + 1
      BY <2>1 DEF TaskInv, Fresh
    <2>4. row # Absent /\ t.revision \in Nat /\ next.revision \in Nat /\ row.revision \in Nat
      BY <1>0, <2>2, <2>3, RowIsTask DEF Behind, Task
    <2>5. t.revision < row.revision
      BY <2>3, <2>4 DEF Behind
    <2>6. CompareAndSwap(s, next, Silent)
      BY <1>9 DEF OfferAgain
    <2>7. session[s].copy = t /\ t \in Task /\ next \in Task
      BY <2>2
    <2>. HIDE DEF t, next
    <2>. QED
      BY <2>1, <2>3, <2>4, <2>5, <2>6, <2>7, Offered
  <1>. QED
    BY <1>1, <1>2, <1>3, <1>4, <1>5, <1>6, <1>7, <1>8, <1>9 DEF SessionStep

LEMMA TaskInvStarts ==
    ASSUME TaskInit
    PROVE  TaskInv
  BY DEF TaskInit, TaskInv, TaskTypeOK, Row

LEMMA TaskInvIsKept ==
    ASSUME TaskInv, [TaskNext]_tvars
    PROVE  TaskInv' /\ RegisterStep
  <1>1. CASE UNCHANGED tvars
    <2>1. row' = row /\ session' = session /\ slipped' = slipped
      BY <1>1 DEF tvars
    <2>2. TaskInv'
      BY <2>1 DEF TaskInv, TaskTypeOK
    <2>3. UNCHANGED Register!cvars
      BY <2>1 DEF Register!cvars, Copy, Held, Is
    <2>. QED
      BY <2>2, <2>3 DEF RegisterStep
  <1>2. CASE TaskNext
    BY <1>2, TaskStepIsSafe DEF TaskNext
  <1>. QED
    BY <1>1, <1>2

LEMMA TaskInvHolds == TaskSpec => []TaskInv
  BY TaskInvStarts, TaskInvIsKept, PTL DEF TaskSpec

-----------------------------------------------------------------------------
(* The variables keep their types.                                         *)
THEOREM TaskTypeCorrect == TaskSpec => []TaskTypeOK
  <1>1. TaskInv => TaskTypeOK
    BY DEF TaskInv
  <1>. QED
    BY <1>1, TaskInvHolds, PTL

(* No task that waits for approval or is blocked goes on without an        *)
(* approved call, or one with a reason.                                    *)
THEOREM SuspensionsAreReleased == TaskSpec => []SuspensionIsReleased
  <1>1. TaskInv => SuspensionIsReleased
    BY DEF TaskInv, SuspensionIsReleased
  <1>. QED
    BY <1>1, TaskInvHolds, PTL

(* The repository is a register in which no write is lost under another.   *)
THEOREM RepositoryIsARegister == TaskSpec => ImplementsRegister
  <1>1. TaskInit => Register!RInit
    BY DEF TaskInit, Register!RInit, Held, Is, Copy, Row
  <1>2. TaskInv /\ [TaskNext]_tvars => [Register!RNext]_Register!cvars
    BY TaskInvIsKept DEF RegisterStep
  <1>. QED
    BY <1>1, <1>2, TaskInvHolds, PTL DEF TaskSpec, ImplementsRegister, Register!RSpec
-----------------------------------------------------------------------------
(* What a step of a task keeps of its past.  What is over stays as it is,  *)
(* attempts counts the starts, a failed step starts again by a retry only, *)
(* and a retry spends a key that was not spent yet, below both limits.     *)
StepAdvances(a, b) ==
    /\ a.state \in TerminalStep => b = a
    /\ b.attempts = IF b.state = "RUNNING" /\ a.state # "RUNNING" THEN a.attempts + 1
                    ELSE a.attempts
    /\ b.state \in {"DONE", "FAILED"} /\ b # a => a.state = "RUNNING"
    /\ a.state = "FAILED" /\ b # a => b.keys # a.keys
    /\ b.keys # a.keys =>
           /\ a.state = "FAILED" /\ b.state = "RUNNING"
           /\ a.attempts < MaxAttempts /\ Cardinality(a.keys) < MaxKeys
           /\ \E key \in Keys \ a.keys : b.keys = a.keys \cup {key}

TaskAdvances(t, u) ==
    /\ t.state \notin TerminalTask
    /\ u.revision = t.revision + 1
    /\ \A i \in StepNumbers : StepAdvances(t.steps[i], u.steps[i])
    /\ \A i, j \in StepNumbers :
           u.steps[i] # t.steps[i] /\ u.steps[j] # t.steps[j] => i = j

(* Whatever sessions write, and however often a call is repeated after a   *)
(* lost answer, the stored task goes from one revision to the next by one  *)
(* step's advance, and not at all once it is done or canceled.             *)
HistoryIsKept == [][row # Absent => row' = row \/ TaskAdvances(row, row')]_tvars

(* A step remembers at most MaxKeys retry keys, whatever it was created    *)
(* with, so that _consumed_keys, which cuts the list to that length each   *)
(* time a task is normalized, never forgets a key that was spent.          *)
KeysAreCounted(s) == IsFiniteSet(s.keys) /\ Cardinality(s.keys) <= MaxKeys

RetriesAreBounded ==
    row # Absent => \A i \in StepNumbers : KeysAreCounted(row.steps[i])

(* The one step that MovedSteps changes.                                   *)
LEMMA MovedStep ==
    ASSUME NEW t \in Task, NEW i \in StepNumbers, NEW to, NEW key
    PROVE  LET a == t.steps[i]
               b == MovedSteps(t, i, to, key)[i]
           IN  /\ a \in StepRecord
               /\ b.state = to
               /\ b.attempts = IF to = "RUNNING" THEN a.attempts + 1 ELSE a.attempts
               /\ b.keys = a.keys \cup key
               /\ \A j \in StepNumbers : j # i => MovedSteps(t, i, to, key)[j] = t.steps[j]
  <1>1. t.steps \in [StepNumbers -> StepRecord]
    BY DEF Task, StepRecord
  <1>. DEFINE new == [state    |-> to,
                      attempts |-> IF to = "RUNNING" THEN t.steps[i].attempts + 1
                                   ELSE t.steps[i].attempts,
                      keys     |-> t.steps[i].keys \cup key]
  <1>2. MovedSteps(t, i, to, key) = [t.steps EXCEPT ![i] = new]
    BY DEF MovedSteps
  <1>3. MovedSteps(t, i, to, key)[i] = new
    <2>. HIDE DEF new
    <2>. QED
      BY <1>1, <1>2
  <1>4. \A j \in StepNumbers : j # i => MovedSteps(t, i, to, key)[j] = t.steps[j]
    <2>. HIDE DEF new
    <2>. QED
      BY <1>1, <1>2
  <1>. QED
    BY <1>1, <1>3, <1>4

(* A step nobody touches advances, and a task advances by one step.        *)
LEMMA StepStays ==
    ASSUME NEW a \in StepRecord
    PROVE  StepAdvances(a, a)
  BY DEF StepAdvances

LEMMA OneStepAdvances ==
    ASSUME NEW t \in Task, t.state \notin TerminalTask, NEW i \in StepNumbers,
           NEW to \in StepStates, NEW key \in SUBSET Keys, NEW stamp \in Stamps,
           StepAdvances(t.steps[i], MovedSteps(t, i, to, key)[i])
    PROVE  TaskAdvances(t, StepUpdated(t, i, to, key, stamp))
  <1>. DEFINE u == StepUpdated(t, i, to, key, stamp)
  <1>1. u.steps = MovedSteps(t, i, to, key) /\ u.revision = t.revision + 1
    BY StepUpdatedFields
  <1>2. \A j \in StepNumbers : j # i => u.steps[j] = t.steps[j]
    BY <1>1, MovedStepsFacts
  <1>3. \A j \in StepNumbers : t.steps[j] \in StepRecord
    BY DEF Task, StepRecord
  <1>4. \A j \in StepNumbers : StepAdvances(t.steps[j], u.steps[j])
    <2>. HIDE DEF u
    <2>. QED
      BY <1>1, <1>2, <1>3, StepStays
  <1>. HIDE DEF u
  <1>5. TaskAdvances(t, u)
    BY <1>1, <1>2, <1>4 DEF TaskAdvances
  <1>. QED
    BY <1>5 DEF u

LEMMA UpdateAdvances ==
    ASSUME NEW t \in Task, t.state \notin TerminalTask, NEW i \in StepNumbers,
           NEW to \in StepStates, NEW say, NEW stamp \in Stamps, StepAllowed(t, i, to, say)
    PROVE  TaskAdvances(t, StepUpdated(t, i, to, {}, stamp))
  <1>1. PICK key \in SUBSET Keys : key = {}
    OBVIOUS
  <1>. DEFINE a == t.steps[i]
              b == MovedSteps(t, i, to, key)[i]
  <1>2. /\ a \in StepRecord /\ b.state = to
        /\ b.attempts = IF to = "RUNNING" THEN a.attempts + 1 ELSE a.attempts
        /\ b.keys = a.keys \cup key
    BY MovedStep
  <1>3. to \in StepMoves[a.state] /\ a.state \in StepStates
    BY <1>2 DEF StepAllowed, MayMove, StepRecord
  <1>. HIDE DEF a, b
  <1>4. /\ a.state \notin TerminalStep \cup {"FAILED"}
        /\ to = "RUNNING" => a.state # "RUNNING"
        /\ to \in {"DONE", "FAILED"} => a.state = "RUNNING"
    BY <1>3 DEF StepMoves, StepStates, TerminalStep
  <1>5. b.keys = a.keys
    BY <1>1, <1>2
  <1>6. StepAdvances(a, b)
    BY <1>2, <1>4, <1>5 DEF StepAdvances
  <1>7. TaskAdvances(t, StepUpdated(t, i, to, key, stamp))
    BY <1>6, OneStepAdvances DEF a, b
  <1>. QED
    BY <1>1, <1>7

LEMMA RetryAdvances ==
    ASSUME NEW t \in Task, t.state \notin TerminalTask, NEW i \in StepNumbers,
           NEW say, NEW key \in Keys, NEW stamp \in Stamps, RetryAllowed(t, i, say, key)
    PROVE  TaskAdvances(t, StepUpdated(t, i, "RUNNING", {key}, stamp))
  <1>. DEFINE a == t.steps[i]
              b == MovedSteps(t, i, "RUNNING", {key})[i]
  <1>1. /\ a \in StepRecord /\ b.state = "RUNNING"
        /\ b.attempts = a.attempts + 1
        /\ b.keys = a.keys \cup {key}
    BY MovedStep
  <1>2. /\ a.state = "FAILED" /\ key \in Keys \ a.keys
        /\ a.attempts < MaxAttempts /\ Cardinality(a.keys) < MaxKeys
    BY DEF RetryAllowed
  <1>. HIDE DEF a, b
  <1>3. b.keys # a.keys
    BY <1>1, <1>2
  <1>4. StepAdvances(a, b)
    BY <1>1, <1>2, <1>3 DEF StepAdvances, TerminalStep
  <1>5. "RUNNING" \in StepStates /\ {key} \in SUBSET Keys
    BY DEF StepStates
  <1>. QED
    BY <1>4, <1>5, OneStepAdvances DEF a, b

LEMMA StateCallAdvances ==
    ASSUME NEW t \in Task, t.state \notin TerminalTask, NEW state, NEW stamp
    PROVE  TaskAdvances(t, Revised([t EXCEPT !.state = state], stamp))
  <1>. DEFINE u == Revised([t EXCEPT !.state = state], stamp)
  <1>1. u.steps = t.steps /\ u.revision = t.revision + 1
    BY DEF Revised, Task
  <1>2. \A j \in StepNumbers : t.steps[j] \in StepRecord
    BY DEF Task, StepRecord
  <1>. HIDE DEF u
  <1>3. TaskAdvances(t, u)
    BY <1>1, <1>2, StepStays DEF TaskAdvances
  <1>. QED
    BY <1>3 DEF u

(* A working session replaces its own copy or leaves the row alone.        *)
LEMMA WorkReplacesCopy ==
    ASSUME TaskInv, NEW s \in Sessions, Works(s), NEW next, NEW say,
           TaskAdvances(session[s].copy, next), GoodSuccessor(session[s].copy, next, say),
           CompareAndSwap(s, next, say)
    PROVE  row' = row \/ (TaskAdvances(row, row') /\ KeepsCursor(row, row'))
  <1>1. session[s].copy \in Task /\ Behind(session[s].copy, row)
    BY WorkingCopy
  <1>2. CASE Commits(s, next, say)
    BY <1>1, <1>2 DEF Commits, Swappable, Behind, GoodSuccessor
  <1>3. CASE Replays(s, next) \/ Refused(s, next)
    BY <1>3 DEF Replays, Refused
  <1>. QED
    BY <1>2, <1>3 DEF CompareAndSwap

LEMMA WorkingTaskIsOpen ==
    ASSUME NEW s \in Sessions, Works(s)
    PROVE  session[s].copy.state \notin TerminalTask
  BY DEF Works

(* A step of a session creates the row, leaves it alone or advances it.    *)
LEMMA RowAdvances ==
    ASSUME TaskInv, NEW s \in Sessions, SessionStep(s)
    PROVE  \/ row' = row
           \/ row = Absent /\ row' \in Submitted
           \/ row # Absent /\ TaskAdvances(row, row') /\ KeepsCursor(row, row')
  <1>1. CASE Load(s) \/ Leave(s)
    BY <1>1 DEF Load, Leave
  <1>2. ASSUME NEW t \in Submitted, Create(s, t)
        PROVE  row' = row \/ (row = Absent /\ row' \in Submitted)
    BY <1>2 DEF Create
  <1>3. ASSUME Works(s), NEW next, NEW say,
               TaskAdvances(session[s].copy, next), GoodSuccessor(session[s].copy, next, say),
               CompareAndSwap(s, next, say)
        PROVE  \/ row' = row
               \/ row # Absent /\ TaskAdvances(row, row') /\ KeepsCursor(row, row')
    BY <1>3, WorkReplacesCopy, WorkingCopy
  <1>4. CASE UpdateStep(s)
    <2>1. Works(s)
      BY <1>4 DEF UpdateStep
    <2>2. PICK i \in StepNumbers, to \in StepStates, say \in Say, stamp \in Stamps :
              /\ StepAllowed(session[s].copy, i, to, say)
              /\ CompareAndSwap(s, StepUpdated(session[s].copy, i, to, {}, stamp), say)
      BY <1>4 DEF UpdateStep
    <2>3. TaskAdvances(session[s].copy, StepUpdated(session[s].copy, i, to, {}, stamp))
      BY <2>1, <2>2, WorkingCopy, WorkingTaskIsOpen, UpdateAdvances
    <2>4. GoodSuccessor(session[s].copy, StepUpdated(session[s].copy, i, to, {}, stamp), say)
      BY <2>1, <2>2, WorkingCopy, UpdateIsGood
    <2>. QED
      BY <1>3, <2>1, <2>2, <2>3, <2>4
  <1>5. CASE RetryStep(s)
    <2>1. Works(s)
      BY <1>5 DEF RetryStep
    <2>2. PICK i \in StepNumbers, approved \in BOOLEAN, key \in Keys, stamp \in Stamps :
              LET say == [approved |-> approved, reason |-> TRUE]
              IN  /\ RetryAllowed(session[s].copy, i, say, key)
                  /\ CompareAndSwap(s, StepUpdated(session[s].copy, i, "RUNNING", {key}, stamp), say)
      BY <1>5 DEF RetryStep
    <2>3. TaskAdvances(session[s].copy, StepUpdated(session[s].copy, i, "RUNNING", {key}, stamp))
      BY <2>1, <2>2, WorkingCopy, WorkingTaskIsOpen, RetryAdvances
    <2>4. GoodSuccessor(session[s].copy, StepUpdated(session[s].copy, i, "RUNNING", {key}, stamp),
                        [approved |-> approved, reason |-> TRUE])
      BY <2>1, <2>2, WorkingCopy, RetryIsGood
    <2>. QED
      BY <1>3, <2>1, <2>2, <2>3, <2>4
  <1>6. CASE TransitionTask(s)
    <2>1. Works(s)
      BY <1>6 DEF TransitionTask
    <2>2. PICK to \in TaskStates, say \in Say, stamp \in Stamps :
              /\ TransitionAllowed(session[s].copy, to, say)
              /\ CompareAndSwap(s, Transitioned(session[s].copy, to, stamp), say)
      BY <1>6 DEF TransitionTask
    <2>3. TaskAdvances(session[s].copy, Transitioned(session[s].copy, to, stamp))
      BY <2>1, WorkingCopy, WorkingTaskIsOpen, StateCallAdvances DEF Transitioned
    <2>4. GoodSuccessor(session[s].copy, Transitioned(session[s].copy, to, stamp), say)
      BY <2>1, <2>2, WorkingCopy, TransitionIsGood
    <2>. QED
      BY <1>3, <2>1, <2>2, <2>3, <2>4
  <1>7. CASE PauseTask(s)
    <2>1. Works(s)
      BY <1>7 DEF PauseTask
    <2>2. PICK blocker \in BOOLEAN, stamp \in Stamps :
              CompareAndSwap(s, Paused(session[s].copy, blocker, stamp), Silent)
      BY <1>7 DEF PauseTask
    <2>. DEFINE t == session[s].copy
                state == IF t.state \in Suspended THEN t.state
                         ELSE IF blocker THEN "BLOCKED" ELSE "PAUSED"
    <2>3. t \in Task /\ t.state \notin TerminalTask
      BY <2>1, WorkingCopy, WorkingTaskIsOpen
    <2>4. Paused(t, blocker, stamp) = Revised([t EXCEPT !.state = state], stamp)
      BY <2>3 DEF Paused, Task
    <2>5. TaskAdvances(t, Paused(t, blocker, stamp))
      <3>. HIDE DEF state, t
      <3>. QED
        BY <2>3, <2>4, StateCallAdvances
    <2>6. GoodSuccessor(t, Paused(t, blocker, stamp), Silent)
      BY <2>3, PauseIsGood
    <2>. QED
      BY <1>3, <2>1, <2>2, <2>5, <2>6
  <1>8. CASE RecordResume(s)
    <2>1. Works(s)
      BY <1>8 DEF RecordResume
    <2>2. PICK stamp \in Stamps : CompareAndSwap(s, Resumed(session[s].copy, stamp), Silent)
      BY <1>8 DEF RecordResume
    <2>. DEFINE t == session[s].copy
                state == IF t.state \in Suspended THEN t.state ELSE "PAUSED"
    <2>3. t \in Task /\ t.state \notin TerminalTask
      BY <2>1, WorkingCopy, WorkingTaskIsOpen
    <2>4. Resumed(t, stamp) = Revised([t EXCEPT !.state = state], stamp)
      BY <2>3 DEF Resumed, Task
    <2>5. TaskAdvances(t, Resumed(t, stamp))
      <3>. HIDE DEF state, t
      <3>. QED
        BY <2>3, <2>4, StateCallAdvances
    <2>6. GoodSuccessor(t, Resumed(t, stamp), Silent)
      BY <2>3, ResumeIsGood
    <2>. QED
      BY <1>3, <2>1, <2>2, <2>5, <2>6
  <1>9. CASE OfferAgain(s)
    <2>1. session[s] # Idle /\ session[s].pc = "unsure"
      BY <1>9 DEF OfferAgain, Is
    <2>2. session[s].copy \in Task /\ session[s].next \in Task /\ row \in Row
      BY <2>1, SessionIsTyped DEF TaskInv, TaskTypeOK
    <2>3. /\ Behind(session[s].next, row)
          /\ session[s].next.revision = session[s].copy.revision + 1
      BY <2>1 DEF TaskInv, Fresh
    <2>4. row.revision # session[s].copy.revision
      BY <2>2, <2>3, RowIsTask DEF Behind, Task
    <2>5. ~Commits(s, session[s].next, Silent)
      BY <2>4 DEF Commits, Swappable
    <2>. QED
      BY <1>9, <2>5 DEF OfferAgain, CompareAndSwap, Replays, Refused
  <1>. QED
    BY <1>1, <1>2, <1>4, <1>5, <1>6, <1>7, <1>8, <1>9 DEF SessionStep

(* An advance keeps the count of a step's keys.                            *)
LEMMA AdvanceCounts ==
    ASSUME NEW a \in StepRecord, NEW b \in StepRecord, KeysAreCounted(a), StepAdvances(a, b)
    PROVE  KeysAreCounted(b)
  <1>1. CASE b.keys # a.keys
    <2>1. PICK key \in Keys \ a.keys : b.keys = a.keys \cup {key}
      BY <1>1 DEF StepAdvances
    <2>2. IsFiniteSet(a.keys) /\ Cardinality(a.keys) \in Nat /\ MaxKeys \in Nat
      BY FS_CardinalityType, TaskAssumption DEF KeysAreCounted
    <2>3. IsFiniteSet(b.keys) /\ Cardinality(b.keys) = Cardinality(a.keys) + 1
      BY <2>1, <2>2, FS_AddElement
    <2>4. Cardinality(a.keys) < MaxKeys
      BY <1>1 DEF StepAdvances
    <2>. QED
      BY <2>2, <2>3, <2>4 DEF KeysAreCounted
  <1>. QED
    BY <1>1 DEF KeysAreCounted

LEMMA CountsAreKept ==
    ASSUME TaskInv, TaskInv', RetriesAreBounded, [TaskNext]_tvars
    PROVE  RetriesAreBounded'
  <1>1. CASE row' = row
    BY <1>1 DEF RetriesAreBounded
  <1>2. CASE row = Absent /\ row' \in Submitted
    BY <1>2, SubmittedAssumption DEF RetriesAreBounded, KeysAreCounted
  <1>3. CASE row # Absent /\ TaskAdvances(row, row')
    <2>1. SUFFICES ASSUME row' # Absent, NEW i \in StepNumbers
                   PROVE  KeysAreCounted(row'.steps[i])
      BY DEF RetriesAreBounded
    <2>2. row \in Task /\ row' \in Task
      BY <1>3, <2>1 DEF TaskInv, TaskTypeOK, Row
    <2>3. row.steps[i] \in StepRecord /\ row'.steps[i] \in StepRecord
      BY <2>2 DEF Task, StepRecord
    <2>4. KeysAreCounted(row.steps[i]) /\ StepAdvances(row.steps[i], row'.steps[i])
      BY <1>3 DEF RetriesAreBounded, TaskAdvances
    <2>. QED
      BY <2>3, <2>4, AdvanceCounts
  <1>4. CASE UNCHANGED tvars
    BY <1>1, <1>4 DEF tvars
  <1>. QED
    BY <1>1, <1>2, <1>3, <1>4, RowAdvances DEF TaskNext

(* The stored task only advances: a retry key is spent once and for good,  *)
(* a step that is over is never touched again, an attempt is counted when  *)
(* a step starts and only then, and a retry starts a failed step that has  *)
(* attempts and room for a key left.                                       *)
THEOREM TaskHistoryIsKept == TaskSpec => HistoryIsKept
  <1>1. TaskInv /\ [TaskNext]_tvars =>
            [row # Absent => row' = row \/ TaskAdvances(row, row')]_tvars
    BY RowAdvances DEF TaskNext
  <1>. QED
    BY <1>1, TaskInvHolds, PTL DEF TaskSpec, HistoryIsKept

(* A stored task that is coherent stays so under any sequence of calls by  *)
(* any number of sessions.  One whose cursor was created on a step that is *)
(* over stays stuck there: no step of it starts, is done or is skipped.     *)
THEOREM CursorsAreKept == TaskSpec => CursorIsKept
  <1>1. TaskInv /\ [TaskNext]_tvars => [row # Absent => KeepsCursor(row, row')]_tvars
    <2>. SUFFICES ASSUME TaskInv, [TaskNext]_tvars, row # Absent, ~UNCHANGED tvars
                  PROVE  KeepsCursor(row, row')
      OBVIOUS
    <2>1. PICK s \in Sessions : SessionStep(s)
      BY DEF TaskNext
    <2>2. row' = row => KeepsCursor(row, row')
      BY DEF KeepsCursor
    <2>. QED
      BY <2>1, <2>2, RowAdvances
  <1>. QED
    BY <1>1, TaskInvHolds, PTL DEF TaskSpec, CursorIsKept

(* Whatever keys a task was created with, no step ever remembers more than *)
(* MaxKeys, and so none of them is ever cut off and could be spent again.  *)
THEOREM TaskRetriesAreBounded == TaskSpec => []RetriesAreBounded
  <1>1. TaskInit => RetriesAreBounded
    BY DEF TaskInit, RetriesAreBounded
  <1>2. TaskInv /\ TaskInv' /\ RetriesAreBounded /\ [TaskNext]_tvars => RetriesAreBounded'
    BY CountsAreKept
  <1>. QED
    BY <1>1, <1>2, TaskInvHolds, PTL DEF TaskSpec
=============================================================================
