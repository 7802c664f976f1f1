SPECIFICATION FairSpec
CONSTANTS
  Tokens = {x, y}
  Callers = {c1}
  MaxConns = 2
  MaxUpdates = 1
  MaxCalls = 2
INVARIANTS
  TrackedIsSubscribed
  OldConnsClosed
  QuietBookIsCurrent
PROPERTIES
  StopEndsReadLoop
