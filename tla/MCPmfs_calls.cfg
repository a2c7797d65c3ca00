CONSTANTS
    nameA = nameA
    nameB = nameB
    v1 = v1
    v2 = v2
    CPUs <- MCCPUs
    BlockEnd = 14
    InitUsed = 1
    Inodes <- MCInodes
    PerTable = 4
    HintStart = 3
    Fanout = 2
    Units = 2
    Large = 2
    Names = {nameA, nameB}
    Values = {v1}
    MaxSize = 6
    Extents <- MCExtents
    Sizes = {0, 1, 3}
    MaxOps = 2
    MaxDepth = 3
    MaxCrashes = 1
    MaxMountCrashes = 1
SPECIFICATION Spec
SYMMETRY MCSymmetry
VIEW MCView
INVARIANTS
    BlocksSafe
    NothingLost
    Consistent
PROPERTIES
    ImplementsVfs
CHECK_DEADLOCK FALSE
