CONSTANTS
  Policies <- MCPolicies
  Plans <- MCPlans
  Trips <- MCTrips
  Relays <- MCRelays
  MaxCalls = 3
  MaxHistory = 2
  MaxPlanHistory = 1
  MaxTourLegs = 2
  MaxDeadhead = 5
  Horizon = 57
  HomeDrives = {2}
  Availability <- MCAvailability
  PickupDwell = 2
  Interchange = 1
  DeliveryDwell = 2
  Day = 19
SPECIFICATION FairItinerarySpec
CHECK_DEADLOCK FALSE
INVARIANTS
  ClocksCoupled
  ClocksMatchLog
  WorkConserved
  PlanTimes
PROPERTIES
  ImplementsLog
  EvaluationEnds
