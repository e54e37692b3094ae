SPECIFICATION MCSpec
CONSTANTS
    Jobs = {j1, j2, j3, j4}
    Reviewers = {w1, w2}
    Families = {f1, f2}
    Reasons = {r1, r2, n1}
    NonFault = {n1}
    NoJob = NoJob
    NoFamily = NoFamily
    NoReason = NoReason
    MaxAttempts = 2
    Threshold = 2
    RepeatLimit = 1
    Window = 0
    RingLimit = 1
    MaxDay = 1
SYMMETRY Symmetry
CHECK_DEADLOCK FALSE
INVARIANTS
    EscalationIsEarned
    SameExcuseRunsOut
    FreshExcusesRunOut
