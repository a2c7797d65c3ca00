CONSTANTS
    nameA = nameA
    nameB = nameB
    v1 = v1
    v2 = v2
    CPUs <- MCCPUs
    NumBlocks = 18
    HeadReserved = 2
    DeadZone = 2
    Threshold = 2
    Inodes <- MCInodes
    NormalStart = 4
    Fanout = 2
    Units = 4
    Words = 2
    Names = {nameA, nameB}
    Values = {v1, v2}
    MaxSize = 30
    Extents <- MCExtents
    Sizes = {0, 1}
    MaxOps = 2
    MaxCrashes = 1
    MaxMountCrashes = 1
SPECIFICATION Spec
SYMMETRY MCSymmetry
VIEW MCView
INVARIANT LogSwitchIsAtomic
CHECK_DEADLOCK FALSE
