SPECIFICATION Spec
CONSTANTS
  v1 = v1
  v2 = v2
  h1 = h1
  h2 = h2
  VMs <- OneVM
  Hashes <- TwoHashes
  HashOf <- FiveCases
  NumCases = 5
  BadCases = {0}
  SyslogCases = {4}
  FirstPath = {0, 1, 2, 3, 4}
  NumCasesToTest = 5
  RetestThreshold = 2
  ArgCase <- Minus1
  DebugVm = FALSE
  NotDedup = FALSE
  FaultKinds = {"crash", "qemu", "exception", "report", "stall", "slow", "silence", "ssh", "restart", "incr", "add", "host"}
  CrashAt <- Everywhere
  MaxFaults = 4
INVARIANTS TypeOK NoDoubleLaunch CompleteIsDone
PROPERTY NoCaseForgotten
CHECK_DEADLOCK FALSE
