SPECIFICATION FairSpec
CONSTANTS
    Configs <- Left
    Codes <- Typing
    MaxTyped = 2
INVARIANTS
    ConfigIsTheControllers
    FailuresAreReal
    SuccessIsReal
    ReadyForKeys
PROPERTIES
    InitEnds
CHECK_DEADLOCK FALSE
