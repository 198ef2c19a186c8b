SPECIFICATION FairSpec
CONSTANTS
  w1 = w1  w2 = w2
  Runner = Runner
  Workers <- MCWorkers
  Episodes = 2
  Steps = 3
  LoadsPerEpoch = 2
  DriverCount = 2
  Kinds <- MCKinds
  SeedTables <- MCSeedTables
CHECK_DEADLOCK FALSE
INVARIANTS ReportComplete LoadsConserved CommonNumbers
  PricedArmsSound
PROPERTY GoroutinesEnd
