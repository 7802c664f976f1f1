SPECIFICATION Spec
CONSTANTS
  Cycle = 900
  Timeframes <- MCTimeframes
  Boundary = 300
  BurstWindow = 15
  BurstInterval = 1
  RefreshInterval = 30
  MaxFetch = 2
INVARIANTS
  BurstHolds
  BurstEnds
  OpenContractAsked
  EndedSoonDropped
