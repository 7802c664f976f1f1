SPECIFICATION Spec
CONSTANTS
  Tokens = {x, y}
  Prices = {1, 2}
  Sizes = {1, 2}
  Listeners = {l1}
  ListenerCap = 1
  MaxMoves = 2
SYMMETRY Symmetry
INVARIANTS
  QuietBookIsMarket
  QuietBestIsALevel
  MissedOnlyWhenFull
