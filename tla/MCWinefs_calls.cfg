CONSTANTS
    nameA = nameA
    nameB = nameB
    v1 = v1
    v2 = v2
    CPUs <- MCCPUs
    NumBlocks = 18
    Cpus = 1
    HeadReserved = 2
    H = 2
    Inodes <- MCInodes
    PerTable = 7
    NormalStart = 4
    Fanout = 2
    Units = 2
    Names = {nameA, nameB}
    Values = {v1}
    MaxSize = 6
    Extents <- MCExtents
    Sizes = {0, 1}
    MaxOps = 2
    MaxDepth = 2
    MaxCrashes = 1
    MaxMountCrashes = 1
SPECIFICATION Spec
SYMMETRY MCSymmetry
VIEW MCView
INVARIANTS
    BlocksSafe
    NothingLost
    Consistent
PROPERTIES
    ImplementsVfs
    StrictWrites
CHECK_DEADLOCK FALSE
