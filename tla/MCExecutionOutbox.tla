------------------------- MODULE MCExecutionOutbox -------------------------
(* TLC instances of ExecutionOutbox.                                       *)
EXTENDS ExecutionOutbox

OneAggregate == [k \in Intents |-> "a"]
LongAuthority == [k \in Intents |-> MaxTime + 1]
ShortAuthority == [k \in Intents |-> 3]

DisciplinedOrFree ==
    {[prompt |-> TRUE, patient |-> TRUE], [prompt |-> FALSE, patient |-> FALSE]}
Hasty == {[prompt |-> FALSE, patient |-> TRUE]}
=============================================================================
