SPECIFICATION FairSpec
CONSTANTS
  Creator = {p1, p2}
  Order <- TwoPairs
  Codes = {"resource_unavailable", "maintenance"}
  TTL = 3
  Interval = 2
  Limit = 1
  Stocks <- DearerOrNone
  OrderTime = 1
  RetryDelay = 2
  MaxFaults = 1
INVARIANTS SuppressionIsExact GaugeFollowsSuppression
PROPERTY WalksToStock
