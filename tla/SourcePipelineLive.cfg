SPECIFICATION FairSpec
CONSTANTS
    Source <- Slow
    Kind <- SlowKind
    Policy <- SlowPolicy
    NoIndex = {"code"}
    SemSize = 2
    SyncInterval = TRUE
    CwdIsRoot = FALSE
    Hang = {"docs"}
    MaxStarts = 1
    MaxRefresh = 1
PROPERTIES OthersEnd RefreshEnds
CHECK_DEADLOCK FALSE
