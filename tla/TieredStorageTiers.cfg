SPECIFICATION CallSpec
CONSTANTS
  Key = {k1, k2, k3}
  small = small
  big = big
  wide = wide
  huge = huge
  Payload = {big, wide, huge}
  NoPayload = NoPayload
  Size <- SizeOfPayload
  MaxSize = 11
  Configured <- AllTiers
  Capacity <- CapacityOfTier
  RatioNum = 9
  RatioDen = 10
  Tenant <- OneTenant
  Weighted <- NoTenants
  Weight <- EqualWeights
  GhostCapacity = 1
  MaxClock = 5
  MaxPredicted = 2
SYMMETRY KeySymmetry
INVARIANTS
  CapacityBound
PROPERTIES
  CacheSpec
  CallsKeepBlocks
