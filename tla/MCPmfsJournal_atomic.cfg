\* Two tasks, two cells, a journal of eight entries that wraps around.
CONSTANTS
    t1 = t1
    t2 = t2
    cl = cl
    c1 = c1
    c2 = c2
    None = None
    Threads = {t1, t2}
    Cleaner = cl
    Cells = {c1, c2}
    CPUs <- MCCPUs
    JSize = 8
    MaxGen = 4
    Starts <- MCStarts
    MaxTx = 2
    MaxCrashes = 1
    MaxRecCrashes = 1
SPECIFICATION Spec
SYMMETRY MCSymmetry
INVARIANTS
    CrashAtomic
    JournalSound
    UnmountEmptiesJournal
CHECK_DEADLOCK FALSE
