SPECIFICATION MCSpec
CONSTANTS
  Key = {k1, k2}
  Nodes = 2
  Views <- TwoNodeViews
  MaxPrefix = 2
  Tenants = 3
  MaxDemand = 5
  MaxWeight = 2
  MaxTotal = 11
INVARIANTS
  RouteReuses
  PlacementAvoidsOverload
  SharesSound
  EqualWeightFair
PROPERTIES
  Returns
CHECK_DEADLOCK FALSE
