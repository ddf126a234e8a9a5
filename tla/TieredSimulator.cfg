SPECIFICATION Spec
CONSTANTS
  Key = {k1, k2, k3}
  NoKey = NoKey
  FreqCap = 2
  CandidateWindow = 2
  MinAdmitDepth = 1
  FastPolicies = {"lru","s3fifo","sieve","prefix_lru"}
  SlowPolicies = {"lru","s3fifo","sieve"}
  FastBlocks = {1,2}
  SlowBlocks = {1}
  PrefetchDepths = {0,1}
  MaxBlocks = 2
SYMMETRY KeySymmetry
INVARIANTS TiersSound
PROPERTIES BlocksConserved TwoTiersAreOneLru
