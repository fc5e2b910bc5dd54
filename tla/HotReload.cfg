SPECIFICATION ReloadSpec
CONSTANTS
    Tool = {"search", "read", "grep"}
    Swapper <- MCSwapper
    Caller = {c1}
    First = 0
    FirstTools <- MCFirstTools
    NoOne = NoOne
    MaxWrites = 3
    CoarseClock = TRUE
    Version <- MCVersion
    Loads <- MCVersion
    Builds <- MCBuilds
    ToolsIn <- MCToolsIn
    Config <- MCConfig
    Url <- MCUrl
    Policy <- MCPolicy
    Sync <- MCSync
    Flaky <- MCFlaky
    Left <- MCLeft
    MaxEngines = 3
INVARIANTS TypeOK OfferedIsEngine UnknownOnlyAcrossSwap ServedBuilds QuietIsCurrent
    PipesTypeOK ServesOwn
PROPERTIES CallReturns Settles SettlesOnOwn
CHECK_DEADLOCK FALSE
