--------------------------- MODULE MCItineraries ---------------------------
(* The four policies of policy.go with their proportions kept: a unit is    *)
(* about 75 minutes of a US solo day.                                       *)
EXTENDS Itineraries

policy(rest, daily, weekly, hygiene, driving, shift, cycle, break, sleeper) ==
  [rest |-> rest, daily |-> daily, weekly |-> weekly,
   maxHygiene |-> hygiene, maxDriving |-> driving, maxShift |-> shift,
   maxCycle |-> cycle, splitBreak |-> break, splitSleeper |-> sleeper]

MCPolicies == {policy(1, 8, 12, 4, 6, 8, 15, 2, 5),     \* US solo
               policy(1, 2, 9, 4, 8, 10, 22, 2, 5),      \* US team
               policy(5, 5, 10, 8, 7, 9, 15, 2, 5),      \* Canadian solo
               policy(1, 1, 9, 4, 4, 4, 22, 2, 5)}       \* Canadian team

event(kind, n) == [kind |-> kind, n |-> n, sleeper |-> FALSE]
berth(n) == [kind |-> "rest", n |-> n, sleeper |-> TRUE]

MCPlans == {<<event("drive", 5)>>,
            <<event("duty", 3)>>,
            <<event("rest", 1)>>,
            <<event("rest", 2)>>,
            <<berth(3)>>,
            <<berth(6)>>,
            <<event("drive", 3), event("rest", 2), event("duty", 1), berth(6)>>,
            <<event("hold", 13)>>,
            <<event("drive", 1), event("hold", 4), event("duty", 2), event("drive", 7)>>}

window(earliest, latest) == [earliest |-> earliest, latest |-> latest]
haul(deadhead, planned, loaded, pickup, delivery) ==
  [deadhead |-> deadhead, planned |-> planned, near |-> deadhead = 1,
   loading |-> 1, loaded |-> loaded, unloading |-> 1,
   pickup |-> pickup, delivery |-> delivery]

\* The first is near; of the others two take as many minutes as they are
\* planned and one takes one more.
MCTrips == {haul(1, 0, 3, window(0, 0), window(0, 0)),
            haul(5, 4, 9, window(0, 6), window(0, 30)),
            haul(3, 3, 6, window(18, 20), window(40, 44)),
            haul(9, 9, 5, window(0, 30), window(58, 66))}

\* AvailableEpoch lags behind the clocks, agrees with them or is ahead.
MCAvailability == {-3, 0, 2}

\* A relay whose inbound driver waits for the pickup and whose outbound driver
\* waits for him, one with a hub that closes before he comes, one by night
\* whose outbound driver is late, and one too long for a shift.
meeting(deadhead, toHub, start, fromHub, pickup, latest, hours) ==
  [deadheadIn |-> deadhead, startIn |-> start, pickup |-> pickup, toHub |-> toHub,
   deadheadOut |-> deadhead, startOut |-> start, fromHub |-> fromHub, latest |-> latest,
   hours |-> [open |-> hours[1], close |-> hours[2]]]

MCRelays == {meeting(1, 2, 0, 2, window(3, 30), 0, <<0, 0>>),
             meeting(1, 2, 1, 3, window(2, 8), 14, <<4, 9>>),
             meeting(2, 1, 4, 1, window(0, 0), 20, <<10, 3>>),
             meeting(3, 5, 0, 2, window(0, 9), 0, <<0, 19>>)}
=============================================================================
