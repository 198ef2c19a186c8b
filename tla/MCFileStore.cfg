CONSTANTS
  r1 = r1
  r2 = r2
  d1 = d1
  d2 = d2
  d3 = d3
  RunIDs <- MCRunIDs
  Bodies <- MCBodies
  Garbled = Garbled
  NoText = NoText
  Idle = Idle
  Oversized <- MCOversized
  MaxCrashes = 2
SPECIFICATION FileSpec
CHECK_DEADLOCK FALSE
INVARIANTS
  AckedKept
  RefusesOnlyFaults
