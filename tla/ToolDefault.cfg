SPECIFICATION Spec
CONSTANTS
    Tools <- DocTools
    Arguments <- MCArguments
    Outputs <- MCOutputs
    Files <- MCFiles
    KB = 4
INVARIANT DefaultsRender
CHECK_DEADLOCK FALSE
