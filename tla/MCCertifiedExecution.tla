----------------------- MODULE MCCertifiedExecution -----------------------
(* TLC instances of CertifiedExecution.                                    *)
EXTENDS CertifiedExecution, TLC

AllExternal == [x \in Executions |-> "EXTERNAL_EFFECT"]
OwnKeys == [x \in Executions |-> x]

(* Callers and digests are told apart by nothing but comparison.           *)
Alike == Permutations(Workers) \cup Permutations(Operators) \cup Permutations(Digests)
=============================================================================
