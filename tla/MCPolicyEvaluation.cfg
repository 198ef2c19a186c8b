CONSTANTS
  Inf = Inf
  Sentinel <- MCSentinel
  Matrices <- MCMatrices
  PoolSize = 2
  Screened <- MCScreened
SPECIFICATION FairEvaluateSpec
CHECK_DEADLOCK FALSE
INVARIANTS
  ShadowPrices
  BestComplete
  FilterComplete
PROPERTIES
  SearchEnds
