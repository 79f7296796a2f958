\* One execution whose last attempt's lease expires unrecovered.
SPECIFICATION Spec
CONSTANTS
    x1 = x1
    x2 = x2
    x3 = x3
    Executions = {x1}
    Workers = {w1, w2}
    Mode <- MixedModes
    EffectKey <- SharedKeys
    IdempotencyKey <- OwnKeys
    Errors = {e1}
    NoError = NoError
    Results = {r1}
    NoResult = NoResult
    MaxAttempts = 2
    PoisonThreshold = 2
    Deadline = 5
    LeaseSeconds = 1
    BaseBackoff = 1
    MaxBackoff = 1
    MaxTime = 6
INVARIANT AttemptsWithinLimit
CHECK_DEADLOCK FALSE
