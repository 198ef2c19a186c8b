CONSTANTS
  Calls = {c1, c2, c3}
  cfa = cfa
  vfa = vfa
  dla = dla
  NoRequest = NoRequest
  Policies <- MCPolicies
  Requests <- MCRequests
  ApiRequestSet <- MCCertified
  Epochs = {0, 1}
SPECIFICATION ApiSpec
CHECK_DEADLOCK FALSE
INVARIANT ReplayBitExact
