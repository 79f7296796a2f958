-------------------------- MODULE MCTaskRepository --------------------------
(* TLC instances of TaskRepository.                                        *)
EXTENDS TaskRepository, TLC

CONSTANT k1

SessionSymmetry == Permutations(Sessions)

Step(state, attempts, keys) == [state |-> state, attempts |-> attempts, keys |-> keys]

Pending == Step("PENDING", 0, {})

\* Nothing done yet; the first step failed, with room for a retry and without;
\* the first step done, on which the cursor is misplaced; and, not made by
\* new_durable_task, a task that runs and one whose cursor is behind its steps.
MixedTasks ==
    {NewTask(<<first, Pending>>, 1) :
        first \in {Pending, Step("FAILED", 1, {}), Step("FAILED", 1, {k1}), Step("DONE", 1, {})}}
    \cup {[NewTask(<<Step("DONE", 1, {}), Step("RUNNING", 1, {})>>, 1)
             EXCEPT !.state = "RUNNING", !.cursor = 2],
          [NewTask(<<Pending, Pending>>, 1) EXCEPT !.state = "BLOCKED", !.cursor = 3]}
=============================================================================
