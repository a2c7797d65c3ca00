SPECIFICATION Spec
CONSTANTS
  v1 = v1
  v2 = v2
  h1 = h1
  h2 = h2
  VMs <- TwoVMs
  Hashes <- TwoHashes
  HashOf <- SharedOps
  NumCases = 2
  BadCases = {}
  SyslogCases = {}
  FirstPath = {0, 1}
  NumCasesToTest = 3
  RetestThreshold = 1
  ArgCase <- Minus1
  DebugVm = TRUE
  NotDedup = FALSE
  FaultKinds = {"crash", "qemu", "exception", "report", "stall", "slow", "silence", "ssh", "restart", "incr", "host"}
  CrashAt <- Everywhere
  MaxFaults = 2
INVARIANTS CaseExclusive RunsBounded OnlyOwnerTests ClaimsTested AllTestedOnce
SYMMETRY VMSym
CHECK_DEADLOCK FALSE
