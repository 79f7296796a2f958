\* Two sessions and a task of two steps, the second of which needs approval;
\* it is created in one of six shapes.
SPECIFICATION TaskSpec
CONSTANTS
    NumSteps = 2
    NeedsApproval = {2}
    RetrySafe = {1}
    MaxAttempts = 2
    MaxKeys = 1
    Keys = {k1}
    Stamps = {1}
    Sessions = {s1, s2}
    Submitted <- MixedTasks
    k1 = k1
    Absent = Absent
    Idle = Idle
    MaxRevision = 5
SYMMETRY SessionSymmetry
INVARIANTS
    TaskTypeOK
    SuspensionIsReleased
PROPERTIES
    CursorIsKept
    ImplementsRegister
