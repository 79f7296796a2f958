\* One execution and its evidence, two workers and two operators whose calls
\* interleave freely.
SPECIFICATION CertifiedSpec
CONSTANTS
    Executions = {x1}
    Workers = {w1, w2}
    Operators = {o1, o2}
    Idle = Idle
    Mode <- AllExternal
    EffectKey <- OwnKeys
    IdempotencyKey <- OwnKeys
    Errors = {e1}
    NoError = NoError
    Results = {r1}
    NoResult = NoResult
    MaxAttempts = 2
    PoisonThreshold = 2
    Deadline = 3
    LeaseSeconds = 1
    BaseBackoff = 1
    MaxBackoff = 1
    MaxTime = 3
    Scopes = {s1}
    Digests = {d1, d2}
    Traces = {t1}
    Chains = {c1}
    Revisions = {1}
    None = None
CHECK_DEADLOCK FALSE
SYMMETRY Alike
INVARIANTS
    RaceTypeOK
    LeaseEndIsKnown
    DisciplineHandsOverOnce
    DisciplineShowsEffects
    DisciplineKeepsLeases
    EvidenceTypeOK
    FinalizationIsTrue
    NoEffectCertifiedAway
    CertificateVerifies
PROPERTY DispatchIsFenced
