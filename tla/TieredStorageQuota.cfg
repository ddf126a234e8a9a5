SPECIFICATION CallSpec
CONSTANTS
  Key = {k1, k2, k3}
  small = small
  big = big
  wide = wide
  huge = huge
  Payload = {small, big}
  NoPayload = NoPayload
  Size <- SizeOfPayload
  MaxSize = 5
  Configured <- HbmDram
  Capacity <- EqualCapacities
  RatioNum = 1
  RatioDen = 2
  Tenant <- TwoTenants
  Weighted <- OnlyTenantOne
  Weight <- EqualWeights
  GhostCapacity = 1
  MaxClock = 5
  MaxPredicted = 1
SYMMETRY KeySymmetry
INVARIANTS
  ByteAccounting
  IndexSync
  VictimFound
  QueuesSound
PROPERTIES
  QuotaFirst
  CallsAdvance
