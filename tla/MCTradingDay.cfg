SPECIFICATION DaySpec
CONSTANTS
  MaxDrawdownPct = 20
  PortfolioValues <- MCPortfolioValues
  Fraction = 25
  MaxPositionPct = 10
  MinBetSize = 20
  MinEdge = 6
  MinConfidence = 50
  Signals <- MCSignals
INVARIANTS
  BreachLatched
  OneNotice
  GradualRamp
  SizeIsKelly
  StrongerNeverSmaller
  OrderWithinRequest
