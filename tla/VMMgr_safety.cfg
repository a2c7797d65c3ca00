SPECIFICATION FairSpec
CONSTANTS
    FIRST_PORT_NUM = 1
    LAST_PORT_NUM = 6
    pool_size = 5
    MaxHosts = 1
    num_vms = 4
    run_limit = 4
    StopAfterBase = {TRUE, FALSE}
    FaultKinds = {"qemu", "space", "start", "access", "shutdown", "kill"}
    MaxFaults = 4
INVARIANTS
    PoolSound
    NoSharing
    VncConserved
    CleanUp
PROPERTIES
    Ends
CHECK_DEADLOCK FALSE
