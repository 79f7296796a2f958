------------------------ MODULE MCDurableExecution ------------------------
(* TLC instances of DurableExecution.                                      *)
EXTENDS DurableExecution

CONSTANTS x1, x2, x3

(* x1 and x3 are two executions that claim one external effect; x2 works   *)
(* locally.                                                                *)
MixedModes == [x \in Executions |-> IF x = x2 THEN "LOCAL_SAFE" ELSE "EXTERNAL_EFFECT"]
SharedKeys == [x \in Executions |-> IF x = x2 THEN "own effect" ELSE "shared effect"]
OwnKeys == [x \in Executions |-> x]
=============================================================================
