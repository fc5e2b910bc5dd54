SPECIFICATION Spec
CONSTANTS
    Source <- Mixed
    Kind <- MixedKind
    Policy <- MixedPolicy
    NoIndex = {}
    SemSize = 4
    SyncInterval = FALSE
    CwdIsRoot = TRUE
    Hang = {}
    MaxStarts = 2
    MaxRefresh = 0
INVARIANT PullRefetches
CHECK_DEADLOCK FALSE
