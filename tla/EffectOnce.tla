----------------------------- MODULE EffectOnce -----------------------------
(***************************************************************************)
(* What the kernel promises about an effect, whatever happens to the       *)
(* workers: an execution is open, its effect is handed over at most once,  *)
(* and once handed over it can only be answered, or become unknown until   *)
(* someone settles it.  Several executions may move in one step.           *)
(***************************************************************************)
CONSTANTS Executions, External      \* External: those that act on the outside

VARIABLES phase, mayHaveHappened

vars == <<phase, mayHaveHappened>>

Phases == {"new", "open", "handed", "unknown", "done", "abandoned"}

Init ==
    /\ phase = [x \in Executions |-> "new"]
    /\ mayHaveHappened = [x \in Executions |-> FALSE]

Moves(x, from, to) == phase[x] = from /\ phase'[x] = to

Keeps(x) == mayHaveHappened'[x] = mayHaveHappened[x]

Register(x) == Moves(x, "new", "open") /\ Keeps(x)

HandOver(x) ==
    /\ x \in External
    /\ ~mayHaveHappened[x]
    /\ Moves(x, "open", "handed")
    /\ mayHaveHappened'[x]

Answer(x) == Moves(x, "handed", "done") /\ Keeps(x)

LoseAnswer(x) == Moves(x, "handed", "unknown") /\ Keeps(x)

ProveEffect(x) == Moves(x, "unknown", "done") /\ Keeps(x)

ProveNoEffect(x) ==
    /\ Moves(x, "unknown", "open") \/ Moves(x, "unknown", "abandoned")
    /\ ~mayHaveHappened'[x]

FinishLocally(x) == x \notin External /\ Moves(x, "open", "done") /\ Keeps(x)

GiveUp(x) == ~mayHaveHappened[x] /\ Moves(x, "open", "abandoned") /\ Keeps(x)

Stays(x) == phase'[x] = phase[x] /\ Keeps(x)

Step(x) ==
    \/ Register(x)
    \/ HandOver(x)
    \/ Answer(x)
    \/ LoseAnswer(x)
    \/ ProveEffect(x)
    \/ ProveNoEffect(x)
    \/ FinishLocally(x)
    \/ GiveUp(x)
    \/ Stays(x)

Next ==
    /\ phase' \in [Executions -> Phases]
    /\ mayHaveHappened' \in [Executions -> BOOLEAN]
    /\ \A x \in Executions : Step(x)

Spec == Init /\ [][Next]_vars
=============================================================================
