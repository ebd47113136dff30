SPECIFICATION FairSpec
CONSTANTS
    KernelSizes <- Builds
    Geometries <- Drives
INVARIANTS
    KernelWhole
    Stage2Survives
PROPERTIES
    LoadEnds
CHECK_DEADLOCK FALSE
