SPECIFICATION FairSpec
CONSTANTS
  Contracts = {x, y}
  MaxRefreshes = 3
INVARIANTS
  SubscriptionsOfLastCallback
  CacheIsOfLastRefresh
PROPERTIES
  RefreshesGoOn
  StopEndsWorker
