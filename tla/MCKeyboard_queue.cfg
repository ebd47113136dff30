SPECIFICATION FairSpec
CONSTANTS
    KB_BUFFER_SIZE = 3
    Keyboards <- Several
    IrqRouted = TRUE
    WireMax = 4
INVARIANTS
    TypeOK
    PopFindsTheKey
    NoStuckModifier
PROPERTIES
    RefinesKeyQueue
    DeliveredUnderTraffic
