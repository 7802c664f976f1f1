SPECIFICATION BotSpec
CONSTANTS
  a = a
  Workers = {w1, w2}
  Runners = {w1, w2}
  Instruments = {a}
  Batches <- MCBatches
  Configs <- GuardOnly
  PortfolioValues <- MCPortfolioValues
  MaxDrawdownPct = 40
  EvaluatedAs <- SameInstrument
  Refusals = {"failed", "cancelled", "error"}
  LostReplies = FALSE
  MaxExposure = 1
  ErrChanCap = 1
INVARIANTS
  RunErrorReported
  CleanExit
PROPERTIES
  NoOrderAfterShutdown
  StopExits
  NoLeakedSender
  ClaimsEnd
