SPECIFICATION Spec
CONSTANTS
    Source <- Mixed
    Kind <- MixedKind
    Policy <- MixedPolicy
    NoIndex = {}
    SemSize = 2
    SyncInterval = TRUE
    CwdIsRoot = TRUE
    Hang = {}
    MaxStarts = 2
    MaxRefresh = 1
INVARIANTS TypeOK DoneMeansServed OncePerIndex AlwaysIndexesWhole
PROPERTIES ServedChangesBySwap CachedContentKept
CHECK_DEADLOCK FALSE
