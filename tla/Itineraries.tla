---------------------------- MODULE Itineraries ----------------------------
(***************************************************************************)
(* The time lines of internal/domain/policy for one driver: a tour that    *)
(* TourSynthesizer chains of loads, each a trip evaluated on the clocks    *)
(* the last one left (tour_synthesizer.go, tour.go), and the segment of a  *)
(* relay, whose two drivers meet at a hub (relay.go).  Epochs are computed *)
(* beside the clocks, which prove the plan legal.                          *)
(*                                                                         *)
(* Time 0 is that of the empty log.  A plan starts at the AvailableEpoch   *)
(* of the driver, whatever his clocks say.  Places are not told apart: a   *)
(* load is as far from any of them.  A behaviour follows one line of the   *)
(* search for continuations; a load that is evaluated and not chained ends *)
(* it.                                                                     *)
(***************************************************************************)
EXTENDS TripFeasibility

CONSTANTS
  MaxTourLegs,     \* loads chained at most
  MaxDeadhead,     \* to a continuation
  Horizon,         \* MaxPlanningHorizonHours
  HomeDrives,      \* how far home may be for a driver who goes there
  Availability,    \* how far AvailableEpoch may be ahead of the clocks
  Relays,          \* loads that two drivers may share at a hub
  PickupDwell, Interchange, DeliveryDwell,
  Day,
  MaxPlanHistory   \* loads are chained and relayed after at most so many calls

\* deadhead and start are those of the other driver, hours those of the hub.
Relay == [deadheadIn : Nat, startIn : Nat, pickup : Window, toHub : Nat,
          deadheadOut : Nat, startOut : Nat, fromHub : Nat, latest : Nat,
          hours : [open : Nat, close : Nat]]

ASSUME ItineraryAssumption ==
  /\ {MaxTourLegs, PickupDwell, Interchange, DeliveryDwell, Day} \subseteq Nat \ {0}
  /\ {MaxDeadhead, Horizon, MaxPlanHistory} \subseteq Nat /\ HomeDrives \subseteq Nat
  /\ Availability \subseteq Int
  /\ Relays \subseteq Relay

VARIABLES
  tour,   \* the trips chained, the legs, the epoch it has come to, the state
  relay   \* the driver's segment: when it ends, how long he waits at the pickup,
          \* how far its start was ahead of his clocks

planVars == <<tour, relay>>
itineraryVars == <<allVars, planVars>>

ItineraryInit ==
  /\ TripInit
  /\ tour = [trips |-> << >>, legs |-> << >>, epoch |-> 0, at |-> "none"]
  /\ relay = [end |-> 0, wait |-> 0, ahead |-> 0]

-----------------------------------------------------------------------------
(* Tours *)

Leg(kind, start, end) == [kind |-> kind, start |-> start, end |-> end]

\* A leg that is left out when it takes no time.
TakingTime(kind, start, end) == IF end > start THEN <<Leg(kind, start, end)>> ELSE << >>

\* Minutes of the deadhead leg.
LegDrive(t) == IF t.near THEN 0 ELSE t.planned

\* simulateSingleLoad: the deadhead, the wait, the rest and the haul with its
\* service, which ends when the trip does by the clocks.
TripLegs ==
  LET atPickup == tour.epoch + LegDrive(trip)
      waited == atPickup + inserted.dwell
      rested == waited + inserted.rest
  IN  (IF trip.near THEN << >> ELSE <<Leg("deadhead", tour.epoch, atPickup)>>)
        \o TakingTime("dwell", atPickup, waited)
        \o TakingTime("rest", waited, rested) \o <<Leg("loaded", rested, Now)>>

Evaluated(feasible) ==
  /\ tour.at = "evaluating" /\ leg = "done"
  /\ feasible = (IsFeasible /\ Now - tour.epoch <= Horizon)
  /\ UNCHANGED <<allVars, relay>>

StartTour ==
  /\ tour.at = "none" /\ Evaluate
  /\ \E ahead \in Availability :
       tour' = [tour EXCEPT !.at = "evaluating", !.epoch = Now + ahead]
  /\ relay' = relay

\* The load is the first of the tour or the continuation of the largest
\* contribution, which depends on the load alone.
ChainLoad ==
  /\ Evaluated(TRUE)
  /\ LET began == Upto(SubSeq(log, 1, origin))
         chained == [trip |-> trip, dwell |-> inserted.dwell, ahead |-> tour.epoch - began]
     IN  tour' = [trips |-> Append(tour.trips, chained),
                  legs |-> tour.legs \o TripLegs,
                  epoch |-> Now,
                  at |-> "chaining"]

PassOver ==
  /\ Evaluated(FALSE)
  /\ tour' = [tour EXCEPT !.at = IF tour.trips = << >> THEN "infeasible" ELSE "passed over"]

\* findBestContinuation looks at a load that is near and not in the tour.
Continue ==
  /\ tour.at = "chaining" /\ Len(tour.trips) < MaxTourLegs
  /\ calls <= MaxPlanHistory
  /\ \E t \in Trips :
       /\ t.deadhead <= MaxDeadhead
       /\ \A i \in 1..Len(tour.trips) : tour.trips[i].trip # t
       /\ EvaluateTrip(t)
  /\ tour' = [tour EXCEPT !.at = "evaluating"]
  /\ relay' = relay

\* The context is looked at before each continuation.
CancelTour ==
  /\ tour.at = "chaining" /\ Len(tour.trips) < MaxTourLegs
  /\ tour' = [tour EXCEPT !.at = "cancelled"]
  /\ UNCHANGED <<allVars, relay>>

\* simulateHomeReposition: a leg on no clocks.
HomeLeg(home) == <<Leg("home", tour.epoch, tour.epoch + home)>>

\* What NewDriverTour validates of the legs.
Temporal(legs) ==
  /\ \A i \in 1..Len(legs) : legs[i].start <= legs[i].end
  /\ \A i \in 2..Len(legs) : legs[i - 1].end <= legs[i].start

\* There is no continuation, or none is wanted any more.
NewDriverTour ==
  /\ tour.at = "chaining"
  /\ \E legs \in {tour.legs} \cup {tour.legs \o HomeLeg(home) : home \in HomeDrives} :
       tour' = [tour EXCEPT !.legs = legs,
                            !.at = IF Temporal(legs) THEN "tour" ELSE "refused"]
  /\ UNCHANGED <<allVars, relay>>

-----------------------------------------------------------------------------
(* Relays *)

Later(s, t) == IF s > t THEN s ELSE t

\* A hub that never closes, one that is open by day and one that is by night.
IsOpenAt(t, hours) ==
  LET m == t % Day
  IN  \/ hours.open = 0 /\ (hours.close = 0 \/ hours.close >= Day)
      \/ hours.open <= hours.close /\ hours.open <= m /\ m <= hours.close
      \/ hours.open > hours.close /\ (m >= hours.open \/ m <= hours.close)

\* The epochs of a relay whose drivers start at in and at out.
Epochs(r, in, out) ==
  LET atPickup == in + r.deadheadIn
      pickup == Later(atPickup, r.pickup.earliest)
      hub == pickup + PickupDwell + r.toHub
      inboundEnd == hub + Interchange
      outboundAtHub == out + r.deadheadOut
      handoff == Later(inboundEnd, outboundAtHub)
      delivery == handoff + r.fromHub
  IN  [pickup |-> pickup, pickupWait |-> pickup - atPickup, hub |-> hub,
       inboundEnd |-> inboundEnd, hubWait |-> handoff - outboundAtHub,
       delivery |-> delivery, outboundEnd |-> delivery + DeliveryDwell]

Possible(r, e) ==
  /\ InTime(e.pickup, r.pickup)
  /\ IsOpenAt(e.hub, r.hours)
  /\ r.latest # 0 => e.delivery <= r.latest

Stretch(kind, n) == [kind |-> kind, n |-> n, sleeper |-> FALSE]

EventsIn(r) ==
  <<Stretch("drive", r.deadheadIn), Stretch("duty", PickupDwell),
    Stretch("drive", r.toHub), Stretch("duty", Interchange)>>

\* Mutant: the outbound driver does not wait for the trailer.
EventsOutUnsynchronized(r, wait) ==
  <<Stretch("drive", r.deadheadOut), Stretch("drive", r.fromHub),
    Stretch("duty", DeliveryDwell)>>

EventsOut(r, wait) ==
  <<Stretch("drive", r.deadheadOut)>>
    \o (IF wait > 0 THEN <<Stretch("hold", wait)>> ELSE << >>)
    \o <<Stretch("drive", r.fromHub), Stretch("duty", DeliveryDwell)>>

\* The segment is simulated without inserting rests.  What the clocks of the
\* other driver allow is open.
BeginSegment(events, end, wait, ahead) ==
  /\ Returned("none") /\ tour.at = "none" /\ calls <= MaxPlanHistory
  /\ StartCall(events, FALSE)
  /\ leg' = "relay"
  /\ relay' = [end |-> end, wait |-> wait, ahead |-> ahead]
  /\ UNCHANGED <<calls, trip, origin, arrival, inserted, tour>>

InboundSegment ==
  \E r \in Relays, ahead \in Availability : \E e \in {Epochs(r, Now + ahead, r.startOut)} :
    Possible(r, e) /\ BeginSegment(EventsIn(r), e.inboundEnd, e.pickupWait, ahead)

OutboundSegment ==
  \E r \in Relays, ahead \in Availability : \E e \in {Epochs(r, r.startIn, Now + ahead)} :
    Possible(r, e) /\ BeginSegment(EventsOut(r, e.hubWait), e.outboundEnd, 0, ahead)

SimulateSegment == leg = "relay" /\ Proceed /\ UNCHANGED <<tripVars, planVars>>

-----------------------------------------------------------------------------
ItineraryNext ==
  \/ (History \/ Journey) /\ UNCHANGED planVars
  \/ StartTour \/ ChainLoad \/ PassOver \/ Continue \/ CancelTour \/ NewDriverTour
  \/ InboundSegment \/ OutboundSegment \/ SimulateSegment

ItinerarySpec == ItineraryInit /\ [][ItineraryNext]_itineraryVars

\* Evaluations are sequences of loops that run: nothing in them waits.
FairItinerarySpec ==
  /\ ItinerarySpec
  /\ WF_itineraryVars(Journey /\ UNCHANGED planVars)
  /\ WF_itineraryVars(leg \in {"none", "relay"} /\ Proceed /\ UNCHANGED <<tripVars, planVars>>)

-----------------------------------------------------------------------------
\* By how much the pickup is later by the clocks than in the plan.
Slip(t) == t.trip.deadhead - LegDrive(t.trip) - t.ahead

\* A tour has no gap and its last haul ends when the clocks of the driver do.
\* Its legs count the wait for a window twice, as dwell and within the rest,
\* and start where AvailableEpoch says with a deadhead rounded down, and the
\* haul makes up for it all: NewDriverTour refuses a tour of feasible trips
\* exactly when one waits longer than it takes to load, haul and unload and
\* what it slips.
TourTimes ==
  LET last == Len(tour.legs)
      haul == IF tour.legs[last].kind = "home" THEN last - 1 ELSE last
      service(t) == t.loading + t.loaded + t.unloading
  IN  tour.at \in {"tour", "refused"} =>
        /\ \A i \in 2..Len(tour.legs) : tour.legs[i].start = tour.legs[i - 1].end
        /\ tour.legs[haul].kind = "loaded" /\ tour.legs[haul].end = Now
        /\ (tour.at = "refused") =
             \E i \in 1..Len(tour.trips) :
               tour.trips[i].dwell > service(tour.trips[i].trip) + Slip(tour.trips[i])

\* A segment that was simulated to its end ends when the clocks of the driver
\* do, but for what AvailableEpoch was ahead of them, and the clocks of the
\* inbound driver lack the wait for the pickup.
RelayTimes ==
  leg = "relay" /\ ~ running /\ todo = << >> => Now = relay.end - relay.wait - relay.ahead

\* The epochs of a plan and the clocks that prove it legal tell the same time,
\* trip by trip, over a tour and at a hub, up to what is said above of starts,
\* waits and minutes rounded down.
PlanTimes == TripAddsUp /\ TourTimes /\ RelayTimes
=============================================================================
