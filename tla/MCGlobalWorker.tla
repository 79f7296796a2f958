--------------------------- MODULE MCGlobalWorker ---------------------------
(* TLC instances of GlobalWorker.  Schedule 1 is ONCE, schedule 2 recurs.  *)
EXTENDS GlobalWorker, TLC

OnceAndOften == [s \in Schedules |-> [at |-> 0, every |-> s - 1]]
OneUnit == [n \in 1 .. MaxAttempts |-> 1]

RunSymmetry == Permutations(Runtimes)
=============================================================================
