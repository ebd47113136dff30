SPECIFICATION FairSpec
CONSTANTS
    RADIX = 4
    NIBBLE = 2
    POLLS = 2
    Channels <- Wired
    Lbas <- MixedLbas
    Counts = {0, 1, 2}
    MaxRequests = 2
INVARIANTS
    TypeOK
    ReadsAreFaithful
    NoBlindTransfer
    DetectionIsRight
PROPERTIES
    WritesStayPut
    RefinesDisk
    EveryCallReturns
CONSTRAINTS
    FirstAfterOverrun
