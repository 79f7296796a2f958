--------------------------- MODULE MCExecutionSaga ---------------------------
(* TLC instances of ExecutionSaga.                                         *)
EXTENDS ExecutionSaga, TLC

CONSTANTS s1, s2, s3

\* s1 can be rolled back, and its reserve is the whole budget; s2 starts with
\* an irreversible step; s3 does not fit the budget once its compensations are
\* counted at the risk they declare.
ThreeSteps == [s \in Sagas |-> 3]
TwoOrThreeSteps == [s \in Sagas |-> IF s = s2 THEN 2 ELSE 3]
MixedReversible == [s \in Sagas |-> IF s = s2 THEN {2} ELSE {1, 2}]

CoordinatorSymmetry == Permutations(Coordinators)
MixedRisk ==
    [s \in Sagas |-> CASE s = s1 -> <<1, 5, 1>> [] s = s2 -> <<2, 1>> [] s = s3 -> <<1, 1, 1>>]
MixedCompensationRisk ==
    [s \in Sagas |-> CASE s = s1 -> <<2, 1>> [] s = s2 -> [i \in {2} |-> 3] [] s = s3 -> <<5, 5>>]
MixedCapability ==
    [s \in Sagas |-> IF s = s2 THEN <<"LOW_RISK", "MEDIUM_RISK">>
                     ELSE [i \in 1..3 |-> "LOW_RISK"]]

OneStep == [s \in Sagas |-> 1]
NoneReversible == [s \in Sagas |-> {}]
UnitRisk == [s \in Sagas |-> <<1>>]
NoCompensationRisk == [s \in Sagas |-> <<>>]
OneCapability == [s \in Sagas |-> <<"LOW_RISK">>]
=============================================================================
