\* Two overlapping runs and an administrator's session.
SPECIFICATION GlobalSpec
CONSTANTS
    Schedules = {1}
    Cadence <- OnceAndOften
    MaxJobs = 2
    MaxReceipts = 3
    MaxAttempts = 2
    RetryBackoff <- OneUnit
    Runtimes = {r1, r2}
    Sessions = {a1}
    Outcomes = {"SUCCEEDED", "FAILED"}
    LeaseSeconds = 1
    Nobody = Nobody
    Blank = Blank
    Over = Over
    MaxTime = 1
    MaxWrites = 4
    MaxArmings = 1
    MaxEdits = 0
CHECK_DEADLOCK FALSE
SYMMETRY RunSymmetry
INVARIANTS
    GlobalTypeOK
    UnrecordedRunsAreFlagged
    CarefulWorkEndsOnce
    RolledBackArmingRanNothing
PROPERTIES
    KilledIsQuiet
    ImplementsRegister
