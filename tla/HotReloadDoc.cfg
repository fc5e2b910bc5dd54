SPECIFICATION FairSpec
CONSTANTS
    Tool = {"search", "read", "grep"}
    Swapper <- MCSwapper
    Caller = {}
    First = 0
    FirstTools <- MCFirstTools
    NoOne = NoOne
    MaxWrites = 1
    CoarseClock = FALSE
    Version <- MCVersion
    Loads <- MCVersion
    Builds <- MCBuilds
    ToolsIn <- MCToolsIn
PROPERTY HotReloads
CHECK_DEADLOCK FALSE
