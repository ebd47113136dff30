SPECIFICATION FairSpec
CONSTANTS
    MAX_DISKS = 2
    NULL = NULL
    NPORTS = 2
    BIT_POLLS = 2
    CMD_POLLS = 2
    WORD = 8192
    RADIX = 4
    NIBBLE = 2
    LBA_MODE = 64
    PRD_LIMIT = 4096
    Machines <- TwoPorts
    AtaUnits = 1
    Requests <- Edges
    HEAP = 8192
    MaxRequests = 2
INVARIANTS
    TypeOK
    RegistryInOrder
    NamesAreUnique
    StructuresApart
    NothingLeftBehind
    ZeroMeansCompleted
    
    PrdtFitsBuffer
PROPERTIES
    BasesChangeStopped
    EveryCallReturns
CHECK_DEADLOCK FALSE
