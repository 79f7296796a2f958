\* Two workers and an operator: two intents of one aggregate with discipline, one without.
SPECIFICATION FairOutboxSpec
CONSTANTS
    Intents = {k1, k2}
    FreeIntents = {k1}
    Manners <- DisciplinedOrFree
    Aggregate <- OneAggregate
    ValidUntil <- ShortAuthority
    Workers = {w1, w2}
    Operators = {o1}
    Idle = Idle
    LeaseSeconds = 1
    MaxTime = 5
    MaxClaims = 3
CHECK_DEADLOCK FALSE
INVARIANTS
    OutboxTypeOK
    EffectIsAccountedFor
    LedgerIsTruthful
PROPERTIES
    AggregateOrder
    ImplementsLifecycle
    LedgerIsPermanent
    ClaimsEnd
