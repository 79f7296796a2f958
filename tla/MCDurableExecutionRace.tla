---------------------- MODULE MCDurableExecutionRace ----------------------
(* TLC instances of DurableExecutionRace.                                  *)
EXTENDS DurableExecutionRace, TLC

AllExternal == [x \in Executions |-> "EXTERNAL_EFFECT"]
OwnKeys == [x \in Executions |-> x]

CallerSymmetry == Permutations(Workers) \cup Permutations(Operators)
=============================================================================
