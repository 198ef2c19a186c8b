CONSTANTS
  Inf = Inf
  Sentinel <- MCSentinel
  Matrices <- MCGreedyMatrices
  PoolSize = 2
  Screened = {}
SPECIFICATION EvaluateSpec
CHECK_DEADLOCK FALSE
INVARIANT ExactBeatsGreedy
