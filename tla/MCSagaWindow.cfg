\* Three sagas of one step each; the window allows two effects.
SPECIFICATION SagaSpec
CONSTANTS
    s1 = s1
    s2 = s2
    s3 = s3
    Sagas = {s1, s2, s3}
    Length <- OneStep
    Reversible <- NoneReversible
    Risk <- UnitRisk
    CompensationRisk <- NoCompensationRisk
    Capability <- OneCapability
    MaxWindowEffects = 2
    MaxWindowRisk = 3
    MaxWindowCapabilities = 1
    MaxTransactionEffects = 1
    MaxTransactionRisk = 1
    ReplaySync = FALSE
    Coordinators = {c1}
    Idle = Idle
    MaxSagas = 3
    MaxAged = 1
CHECK_DEADLOCK FALSE
INVARIANTS
    WindowBudget
