\* One saga whose settled steps may be synced again.
SPECIFICATION SagaSpec
CONSTANTS
    s1 = s1
    s2 = s2
    s3 = s3
    Sagas = {s1}
    Length <- ThreeSteps
    Reversible <- MixedReversible
    Risk <- MixedRisk
    CompensationRisk <- MixedCompensationRisk
    Capability <- MixedCapability
    MaxWindowEffects = 5
    MaxWindowRisk = 10
    MaxWindowCapabilities = 1
    MaxTransactionEffects = 5
    MaxTransactionRisk = 10
    ReplaySync = TRUE
    Coordinators = {c1}
    Idle = Idle
    MaxSagas = 1
    MaxAged = 1
CHECK_DEADLOCK FALSE
INVARIANTS
    AmbiguityIsShown
