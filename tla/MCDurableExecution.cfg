\* Two executions that claim one effect, a local one, two workers that may crash.
SPECIFICATION FairSpec
CONSTANTS
    x1 = x1
    x2 = x2
    x3 = x3
    Executions = {x1, x2, x3}
    Workers = {w1, w2}
    Mode <- MixedModes
    EffectKey <- SharedKeys
    IdempotencyKey <- OwnKeys
    Errors = {e1, e2}
    NoError = NoError
    Results = {r1}
    NoResult = NoResult
    MaxAttempts = 3
    PoisonThreshold = 2
    Deadline = 3
    LeaseSeconds = 2
    BaseBackoff = 1
    MaxBackoff = 2
    MaxTime = 4
INVARIANTS
    TypeOK
    NoSecondHandOver
    PendingEffectVisible
    ExclusiveLease
    RetryIsWithinLimits
PROPERTIES
    TerminalIsFinal
    ImplementsEffectOnce
    EveryExecutionSettles
CHECK_DEADLOCK FALSE
