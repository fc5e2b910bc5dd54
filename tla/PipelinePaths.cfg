SPECIFICATION Spec
CONSTANTS
    Source <- Mixed
    Kind <- MixedKind
    Policy <- MixedPolicy
    NoIndex = {}
    SemSize = 4
    SyncInterval = TRUE
    CwdIsRoot = TRUE
    Hang = {}
    MaxStarts = 1
    MaxRefresh = 1
INVARIANT PathsRelative
CHECK_DEADLOCK FALSE
