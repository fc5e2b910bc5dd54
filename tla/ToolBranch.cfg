SPECIFICATION Spec
CONSTANTS
    Tools <- MCTools
    Arguments <- MCArguments
    Outputs <- MCOutputs
    Files <- MCFiles
    KB = 4
INVARIANT NoKeyMissed
CHECK_DEADLOCK FALSE
