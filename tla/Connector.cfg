SPECIFICATION ConnectorSpec
CONSTANTS
  huge = huge
  Key = {a, b, c, d}
  max_edges = 3
  MaxLen = 3
  Payload = {x, huge}
  NoPayload = NoPayload
  Size <- SizeOfPayload
  MaxSize = 11
  Configured <- HbmDram
  Capacity <- CapacityOfTier
  RatioNum = 1
  RatioDen = 1
  Tenant <- Tenants
  Weighted <- NoWeights
  Weight <- Weights
  GhostCapacity = 1
  MaxClock = 100
  MaxPredicted = 4
  Thread = {t1, t2}
  NoThread = NoThread
  Clients = {"connector", "replay", "replay_pair", "caller"}
  ReusePrefixes = {TRUE, FALSE}
  Budget = 8
  Budgets <- BudgetsUpToCycle
  Block = x
  Requested = {a, b, c}
  MaxBlocks = 2
  MaxRequests = 3
SYMMETRY Symmetry
INVARIANTS
  IndexCoversStore
  ChainsWereStored
  LoadExact
  TableSound
  PredictionsExact
CHECK_DEADLOCK FALSE
