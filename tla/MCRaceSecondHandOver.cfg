\* Two workers, no operator: an effect is handed over twice.
SPECIFICATION RaceSpec
CONSTANTS
    Executions = {x1}
    Workers = {w1, w2}
    Operators = {}
    Idle = Idle
    Mode <- AllExternal
    EffectKey <- OwnKeys
    IdempotencyKey <- OwnKeys
    Errors = {e1}
    NoError = NoError
    Results = {r1}
    NoResult = NoResult
    MaxAttempts = 3
    PoisonThreshold = 3
    Deadline = 4
    LeaseSeconds = 1
    BaseBackoff = 1
    MaxBackoff = 1
    MaxTime = 5
CHECK_DEADLOCK FALSE
SYMMETRY CallerSymmetry
INVARIANT NoSecondHandOver
