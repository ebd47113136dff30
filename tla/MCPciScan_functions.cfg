SPECIFICATION Spec
CONSTANTS
    MAX_PCI_DEVICES = 16
    DEVICES = 3
    FUNCTIONS = 2
    Topologies <- Firmware
INVARIANTS
    FunctionsScanned
