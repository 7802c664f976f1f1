SPECIFICATION Spec
CONSTANTS
  Contracts = {x}
  MaxRefreshes = 2
PROPERTIES
  FailureKeepsCache
