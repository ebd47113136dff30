SPECIFICATION FairSpec
CONSTANTS
    MAX_PCI_DEVICES = 5
    DEVICES = 3
    FUNCTIONS = 2
    Topologies <- AllMachines
INVARIANTS
    TypeOK
    EndpointsFound
    FlatScanIsExact
PROPERTIES
    ScanEnds
