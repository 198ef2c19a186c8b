CONSTANTS
  Calls = {1, 2, 3}
  cfa = cfa
  Policies <- MCPolicies
  Requests <- MCRequests
  Epochs = {0, 1}
  Faults = {"count", "last", "tx", "commit"}
  MaxRestarts = 1
  NoRow = NoRow
SPECIFICATION Spec
CHECK_DEADLOCK FALSE
INVARIANTS
  RowsLinked
  OneGenesis
  ForksAreRaces
  AckedCommitted
  WaitsEnd
ACTION_CONSTRAINT NextInTurn
