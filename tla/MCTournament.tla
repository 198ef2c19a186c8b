---------------------------- MODULE MCTournament ----------------------------
(* Two episodes of three steps, two loads a step, one or two drivers, on two  *)
(* workers.  The draws of 10 and 90 reach every posture from every other.     *)
EXTENDS Tournament

CONSTANTS w1, w2

MCWorkers == {w1, w2}

\* 100 miles: the base price is $250.
Kind(revenue, cost, empty) ==
  [miles |-> 100, revenue |-> revenue, cost |-> cost, empty |-> empty]
Cheap == Kind(24500, 12000, 4000)
Dear == Kind(27500, 12000, 0)
Costly == Kind(26500, 19000, 8000)
Close == Kind(24500, 12100, 0)
MCKinds == {Cheap, Dear, Costly, Close}

\* At most 3 postures and 2 + 4 + 6 prices are drawn.
Wave(a, b, c) == [i \in 1..15 |-> IF i % 3 = 1 THEN a ELSE IF i % 3 = 2 THEN b ELSE c]
Market == {Wave(a, b, c) : a, b, c \in {10, 90}} \ {Wave(10, 10, 10), Wave(90, 10, 90)}
Cargo == {[i \in 1..8 |-> IF i % 2 = 1 THEN k[1] ELSE k[2]] :
            k \in {<<Cheap, Dear>>, <<Costly, Dear>>, <<Cheap, Close>>}}
MCSeed == [market : Market, arrivals : Cargo]

\* The second episode has the seed of the first or a fixed one.
Other == [market |-> Wave(90, 10, 10), arrivals |-> [i \in 1..8 |-> Cheap]]
MCSeedTables == {<<s, x>> : s \in MCSeed, x \in {Other}} \cup {<<s, s>> : s \in MCSeed}
=============================================================================
