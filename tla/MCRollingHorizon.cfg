SPECIFICATION Spec
CONSTANTS
  d1 = d1  d2 = d2  d3 = d3
  x = x  y = y  z = z
  a = a  b = b  c = c
  NoLoad = NoLoad
  Drivers <- MCDrivers
  Loads <- MCLoads
  Places <- MCPlaces
  Origin <- MCOrigin
  Destination <- MCDestination
  Transit <- MCTransit
  Near <- MCNear
  HubReach <- MCHubReach
  LongHaul <- MCLongHaul
  MaxTourLegs = 2
  Start = 1
  End = 5
  Step = 2
  Hour = 1
  FirstDriver = d1
  InitialFleets <- MCInitialFleets
  InitialClocks = {1, 4}
  Streams <- MCStreams
  Policies = {"CFA", "VFA", "PiecewiseVFA", "DLA", "PFA"}
INVARIANTS RolesDisjoint JournalLeads FailureExplained
PROPERTY ImplementsLedger
