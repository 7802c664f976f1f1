SPECIFICATION Spec
CONSTANTS
  a = a
  b = b
  Workers = {w1, w2}
  Runners = {w1}
  Instruments = {a, b}
  Batches <- MCBatches
  Configs <- MCConfigs
  PortfolioValues <- MCPortfolioValues
  MaxDrawdownPct = 40
  EvaluatedAs <- SameInstrument
  Refusals = {"failed", "cancelled", "error"}
  LostReplies = FALSE
  MaxExposure = 2
INVARIANTS
  TypeOK
  NoDoubleEntry
  OneLateOrder
  OrdersBooked
PROPERTIES
  ImplementsBook
