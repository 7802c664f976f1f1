SPECIFICATION Spec
CONSTANTS
  Tokens = {x}
  Prices = {1, 2}
  Sizes = {1}
  Listeners = {l1}
  ListenerCap = 1
  MaxMoves = 2
INVARIANT
  BestIsBest
