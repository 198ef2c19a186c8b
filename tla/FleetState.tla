----------------------------- MODULE FleetState -----------------------------
(***************************************************************************)
(* ResourceState and Action (internal/domain/model/resource.go and         *)
(* action.go): drivers and outstanding loads, what makes an action         *)
(* feasible, and the transition it causes.  A fleet value is immutable.    *)
(*                                                                         *)
(* Left out: the hours that remain and the Hours of Service clocks, which  *)
(* Transition advances with HosSimulator's Simulate (see there); whether   *)
(* they allow a trip is a free choice here.  Loads have distinct names.    *)
(***************************************************************************)
EXTENDS Integers, FiniteSets

CONSTANTS
  Drivers,      \* driver ids
  Loads,        \* load ids
  Places,
  Origin,       \* load -> place
  Destination,  \* load -> place
  Transit,      \* load -> EstimatedTransitEpochs
  NoLoad        \* the empty AssignedLoadID

ASSUME FleetAssumption ==
  /\ Origin \in [Loads -> Places]
  /\ Destination \in [Loads -> Places]
  /\ Transit \in [Loads -> Nat]
  /\ NoLoad \notin Loads

\* free is the driver's AvailableEpoch, assigned his AssignedLoadID.
Driver == [at : Places, free : Nat, assigned : Loads \cup {NoLoad}]
Fleet == [drivers : [Drivers -> Driver], loads : SUBSET Loads]

\* DriverLoadMatch; an action is a set of them.
Match == [driver : Drivers, load : Loads, epoch : Nat]

IsIdle(d) == d.assigned = NoLoad

MatchedLoads(ms) == {m.load : m \in ms}
MatchedDrivers(ms) == {m.driver : m \in ms}

\* No driver and no load is matched twice.
OneToOne(ms) ==
  \A m, n \in ms : m # n => m.driver # n.driver /\ m.load # n.load

\* Transition repeats these checks.
ValidateFeasibility(fleet, ms) ==
  /\ OneToOne(ms)
  /\ \A m \in ms : /\ m.driver \in DOMAIN fleet.drivers
                   /\ IsIdle(fleet.drivers[m.driver])
                   /\ m.load \in fleet.loads

\* A matched driver is taken to be at the load's destination at once, idle,
\* and available when the trip ends.
Moved(d, m) ==
  [d EXCEPT !.at = Destination[m.load], !.free = m.epoch + Transit[m.load],
            !.assigned = NoLoad]

MovedDrivers(fleet, ms) ==
  [d \in Drivers |->
     IF d \in MatchedDrivers(ms)
       THEN Moved(fleet.drivers[d], CHOOSE m \in ms : m.driver = d)
       ELSE fleet.drivers[d]]

\* Mutant: the matched loads stay.
TransitionKeepingLoads(fleet, ms, newLoads) ==
  [drivers |-> MovedDrivers(fleet, ms), loads |-> fleet.loads \cup newLoads]

Transition(fleet, ms, newLoads) ==
  [drivers |-> MovedDrivers(fleet, ms),
   loads |-> (fleet.loads \ MatchedLoads(ms)) \cup newLoads]
=============================================================================
