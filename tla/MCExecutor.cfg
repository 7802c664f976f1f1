SPECIFICATION FairSpec
CONSTANTS
  Modes = {"FOK", "GTC", "LIMIT_FALLBACK"}
  MaxRetries = 1
  Networks = {TRUE, FALSE}
INVARIANTS
  RetryBound
  NoOrderAfterCancel
  HonestFill
  SingleOrder
  ErrorMeansNoOrder
PROPERTIES
  Returns
