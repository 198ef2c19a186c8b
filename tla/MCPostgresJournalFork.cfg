CONSTANTS
  Calls = {1, 2, 3}
  cfa = cfa
  Policies <- MCPolicies
  Requests <- MCRequests
  Epochs = {0, 1}
  Faults = {}
  MaxRestarts = 0
  NoRow = NoRow
SPECIFICATION Spec
CHECK_DEADLOCK FALSE
INVARIANTS
  RunsVerify
ACTION_CONSTRAINT NextInTurn
