SPECIFICATION ReplaySpec
CONSTANTS
  Key = {k1, k2, k3, k4}
  NoKey = NoKey
  FreqCap = 3
  CandidateWindow = 2
  MinAdmitDepth = 0
  FastPolicies = {"lru"}
  SlowPolicies = {"lru"}
  FastBlocks = {1}
  SlowBlocks = {1}
  PrefetchDepths = {0}
  MaxBlocks = 2
  Configs <- MCConfigs
  OutputLengths = {100}
  MaxLines = 3
  MaxCalls = 2
  BaselinePool = 3
  ProjectPool = 2
  SlowFactor = 1
  ProjectDepth = 1
  LockFiles <- MCLockFiles
SYMMETRY KeySymmetry
INVARIANTS CompulsoryMisses ReportSound Reproducible CommitTraced LargerLruHits
CHECK_DEADLOCK FALSE
