-------------------------- MODULE TripFeasibility --------------------------
(***************************************************************************)
(* Simulator.EvaluateTripFeasibility of internal/domain/model/hos: a trip  *)
(* from where a driver is to a load, with the load to its destination, as  *)
(* four calls of Simulate, or up to six when the driver comes early, each  *)
(* on the clocks the one before returned.  The evaluation looks ahead on   *)
(* clocks of its own, so the log is what the driver did and then the trip. *)
(*                                                                         *)
(* Time is the length of the log.  Automatic rests are on, so no call      *)
(* fails.  Miles and speed are given as the minutes they are rounded to:   *)
(* the deadhead to so many up and, by a planner, down, and near if it is   *)
(* too short for a leg of its own.                                         *)
(***************************************************************************)
EXTENDS HosSimulator

CONSTANTS
  Trips,       \* the trips evaluated
  MaxHistory   \* a trip is evaluated after at most so many calls

\* 0 stands for a time that is not set.
Window == [earliest : Nat, latest : Nat]
Trip == [deadhead : Nat, planned : Nat, near : BOOLEAN,
         loading : Nat, loaded : Nat, unloading : Nat,
         pickup : Window, delivery : Window]

ASSUME TripAssumption ==
  /\ Trips \subseteq Trip
  /\ MaxHistory \in Nat

VARIABLES
  trip,      \* the trip evaluated
  leg,       \* the call of Simulate it is at
  origin,    \* the periods of the log when it began
  arrival,   \* when the driver comes to the pickup and to the delivery
  inserted   \* minutes of rest and, among them, of waiting, added up

tripVars == <<trip, leg, origin, arrival, inserted>>
allVars == <<vars, tripVars>>

NoTrip == [deadhead |-> 0, planned |-> 0, near |-> TRUE,
           loading |-> 0, loaded |-> 0, unloading |-> 0,
           pickup |-> [earliest |-> 0, latest |-> 0],
           delivery |-> [earliest |-> 0, latest |-> 0]]

Legs == {"deadhead", "pickup_dwell", "loading", "linehaul", "delivery_dwell", "unloading"}

TripInit ==
  /\ Init
  /\ trip = NoTrip
  /\ leg = "none"
  /\ origin = 0
  /\ arrival = [pickup |-> 0, delivery |-> 0]
  /\ inserted = [rest |-> 0, dwell |-> 0]

Upto(l) == Rules!Minutes(l, 1..Len(l))
Now == Upto(log)

\* The next call, on one event of so many minutes.
BeginLeg(next, kind, n) ==
  /\ StartCall(<<[kind |-> kind, n |-> n, sleeper |-> FALSE]>>, TRUE)
  /\ leg' = next
  /\ UNCHANGED calls

\* A wait for a window that is not open is a hold that counts as dwell.
Early(window) == window.earliest # 0 /\ Now < window.earliest
Dwell(next, window) ==
  /\ BeginLeg(next, "hold", window.earliest - Now)
  /\ UNCHANGED <<trip, origin>>
  /\ inserted' = [inserted EXCEPT !.dwell = @ + window.earliest - Now]

RestOfCall == Rules!Minutes(timeline, Rules!After(timeline, {"rest"}, Len(log)))

\* The call of a leg has returned.
Returned(l) == leg = l /\ ~ running

EvaluateTrip(t) ==
  /\ trip' = t
  /\ origin' = Len(log)
  /\ arrival' = [pickup |-> 0, delivery |-> 0]
  /\ inserted' = [rest |-> 0, dwell |-> 0]
  /\ BeginLeg("deadhead", "drive", t.deadhead)

Evaluate == Returned("none") /\ calls <= MaxHistory /\ \E t \in Trips : EvaluateTrip(t)

Load == BeginLeg("loading", "duty", trip.loading) /\ UNCHANGED <<trip, origin>>
Unload == BeginLeg("unloading", "duty", trip.unloading) /\ UNCHANGED <<trip, origin>>

ArriveAtPickup ==
  /\ Returned("deadhead")
  /\ arrival' = [arrival EXCEPT !.pickup = Now]
  /\ \/ Early(trip.pickup) /\ Dwell("pickup_dwell", trip.pickup)
     \/ ~ Early(trip.pickup) /\ Load /\ UNCHANGED inserted

PickupOpens == Returned("pickup_dwell") /\ Load /\ UNCHANGED <<arrival, inserted>>

Depart ==
  /\ Returned("loading")
  /\ BeginLeg("linehaul", "drive", trip.loaded)
  /\ UNCHANGED <<trip, origin, arrival, inserted>>

ArriveAtDelivery ==
  /\ Returned("linehaul")
  /\ arrival' = [arrival EXCEPT !.delivery = Now]
  /\ \/ Early(trip.delivery) /\ Dwell("delivery_dwell", trip.delivery)
     \/ ~ Early(trip.delivery) /\ Unload /\ UNCHANGED inserted

DeliveryOpens == Returned("delivery_dwell") /\ Unload /\ UNCHANGED <<arrival, inserted>>

Judge ==
  /\ Returned("unloading")
  /\ leg' = "done"
  /\ UNCHANGED <<vars, trip, origin, arrival, inserted>>

\* A call returns: TotalRestMin of its result is added up.
FinishLeg ==
  /\ leg \in Legs /\ Return
  /\ inserted' = [inserted EXCEPT !.rest = @ + RestOfCall]
  /\ UNCHANGED <<trip, leg, origin, arrival>>

\* What the driver does before.
History == leg = "none" /\ Next /\ UNCHANGED tripVars

Journey ==
  \/ leg \in Legs /\ Work /\ UNCHANGED tripVars
  \/ FinishLeg
  \/ ArriveAtPickup \/ PickupOpens \/ Depart \/ ArriveAtDelivery \/ DeliveryOpens \/ Judge

TripNext == History \/ Evaluate \/ Journey

TripSpec == TripInit /\ [][TripNext]_allVars

\* The evaluation is a sequence of loops that run: nothing in it waits.
FairTripSpec ==
  /\ TripSpec
  /\ WF_allVars(Journey)
  /\ WF_allVars(leg = "none" /\ Proceed /\ UNCHANGED tripVars)

-----------------------------------------------------------------------------
InTime(time, window) == window.latest # 0 => time <= window.latest
IsFeasible == InTime(arrival.pickup, trip.pickup) /\ InTime(arrival.delivery, trip.delivery)

TotalTripDuration == Now - Upto(SubSeq(log, 1, origin))

\* Minutes of loading and unloading in periods of the trip that begin before t.
ServedBefore(t) ==
  Rules!Minutes(log, {i \in Rules!After(log, {"duty"}, origin) :
                        Upto(SubSeq(log, 1, i - 1)) < t})

\* What a trip's result says adds up over its calls: the duration is the
\* driving, the service and the rest, of which the waiting is a part; and
\* whatever resets fall into a wait, nothing is loaded before the pickup opens
\* nor unloaded before the delivery does.
TripAddsUp ==
  leg = "done" =>
    /\ TotalTripDuration =
         trip.deadhead + trip.loading + trip.loaded + trip.unloading + inserted.rest
    /\ inserted.dwell <= inserted.rest
    /\ ServedBefore(trip.pickup.earliest) = 0
    /\ ServedBefore(trip.delivery.earliest) <= trip.loading

\* Every call of Simulate returns, and every evaluation of a trip: each rest
\* that is inserted lifts the limit that required it or lets the next one do
\* so, under any valid policy.
EvaluationEnds == CallReturns /\ (leg = "deadhead" ~> leg = "done")
=============================================================================
