SPECIFICATION FairSpec
CONSTANTS
  v1 = v1
  v2 = v2
  h1 = h1
  h2 = h2
  VMs <- OneVM
  Hashes <- TwoHashes
  HashOf <- ThreeCases
  NumCases = 3
  BadCases = {0}
  SyslogCases = {2}
  FirstPath = {0, 1, 2}
  NumCasesToTest = 3
  RetestThreshold = 2
  ArgCase <- Minus1
  DebugVm = FALSE
  NotDedup = FALSE
  FaultKinds = {"crash", "qemu", "exception", "stall", "slow", "silence", "ssh", "restart", "incr", "add", "host"}
  CrashAt <- OnceBeating
  MaxFaults = 3
PROPERTY CampaignEnds
CHECK_DEADLOCK FALSE
