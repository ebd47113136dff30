SPECIFICATION FairSpec
CONSTANTS
    KB_BUFFER_SIZE = 2
    Keyboards <- OneKey
    IrqRouted = TRUE
    WireMax = 1
PROPERTIES
    EveryCharIsRead
