SPECIFICATION Spec
CONSTANTS
    MAX_DISKS = 2
    NULL = NULL
    NPORTS = 1
    BIT_POLLS = 2
    CMD_POLLS = 2
    WORD = 8192
    RADIX = 4
    NIBBLE = 2
    LBA_MODE = 64
    PRD_LIMIT = 4096
    Machines <- OneDisk
    AtaUnits = 0
    Requests <- Plain
    HEAP = 8192
    MaxRequests = 1
INVARIANTS
    LuMeansExecuted
CHECK_DEADLOCK FALSE
