\* Authorization outlasts the claim.
SPECIFICATION OutboxSpec
CONSTANTS
    Intents = {k1}
    Aggregate <- OneAggregate
    ValidUntil <- LongAuthority
    Workers = {w1, w2}
    Operators = {}
    Idle = Idle
    LeaseSeconds = 1
    MaxTime = 5
    MaxClaims = 2
    FreeIntents = {k1}
    Manners <- Hasty
CHECK_DEADLOCK FALSE
INVARIANT AtMostOneEffect
