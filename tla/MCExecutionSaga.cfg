\* Two coordinators on one of three sagas; settled steps are not synced again.
SPECIFICATION SagaSpec
CONSTANTS
    s1 = s1
    s2 = s2
    s3 = s3
    Sagas = {s1, s2, s3}
    Length <- TwoOrThreeSteps
    Reversible <- MixedReversible
    Risk <- MixedRisk
    CompensationRisk <- MixedCompensationRisk
    Capability <- MixedCapability
    MaxWindowEffects = 3
    MaxWindowRisk = 6
    MaxWindowCapabilities = 1
    MaxTransactionEffects = 5
    MaxTransactionRisk = 10
    ReplaySync = FALSE
    Coordinators = {c1, c2}
    Idle = Idle
    MaxSagas = 1
    MaxAged = 1
CHECK_DEADLOCK FALSE
SYMMETRY CoordinatorSymmetry
INVARIANTS
    SagaTypeOK
    FinalStatesAreTrue
    AmbiguityIsShown
    ReserveSuffices
PROPERTIES
    OrderlyEffects
