SPECIFICATION FairSpec
CONSTANTS
    Source <- Many
    Kind <- ManyKind
    Policy <- ManyPolicy
    NoIndex = {}
    SemSize = 4
    SyncInterval = FALSE
    CwdIsRoot = TRUE
    Hang = {"repo1", "repo2", "repo3", "repo4"}
    MaxStarts = 1
    MaxRefresh = 0
PROPERTY LocalsServed
CHECK_DEADLOCK FALSE
