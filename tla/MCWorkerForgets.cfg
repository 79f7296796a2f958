\* A receipt list that overflows while a ONCE schedule stays due: three runs, one after the other.
SPECIFICATION GlobalSpec
CONSTANTS
    Schedules = {1, 2}
    Cadence <- OnceAndOften
    MaxJobs = 2
    MaxReceipts = 2
    MaxAttempts = 2
    RetryBackoff <- OneUnit
    Runtimes = {r1, r2, r3}
    Sessions = {}
    Outcomes = {"SUCCEEDED"}
    LeaseSeconds = 1
    Nobody = Nobody
    Blank = Blank
    Over = Over
    MaxTime = 2
    MaxWrites = 7
    MaxArmings = 1
    MaxEdits = 0
CHECK_DEADLOCK FALSE
SYMMETRY RunSymmetry
PROPERTY SettledStaysSettled
