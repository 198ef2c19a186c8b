CONSTANTS
  r1 = r1
  r2 = r2
  d1 = d1
  d2 = d2
  RunIDs <- MCRunIDs
  DecisionIDs <- MCDecisionIDs
  Bodies <- MCBodies
  Writers = {w1, w2}
  Readers = {v1}
  Free = Free
SPECIFICATION Spec
INVARIANTS
  VerifierSound
  StoreInv
PROPERTY ImplementsLog
