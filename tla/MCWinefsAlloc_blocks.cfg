CONSTANTS
    t1 = t1
    t2 = t2
    Threads = {t1, t2}
    NumBlocks = 12
    Cpus = 2
    HeadReserved = 1
    H = 2
    Nums = {1, 3}
    Runs = {1, 4}
    MaxCalls = 3
SPECIFICATION Spec
INVARIANTS
    ListsSound
    LoneCallServed
PROPERTIES
    CallsReturn
CHECK_DEADLOCK FALSE
