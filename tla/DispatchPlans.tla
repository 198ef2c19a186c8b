--------------------------- MODULE DispatchPlans ---------------------------
(***************************************************************************)
(* What RelayDispatchRunner (internal/service/dispatch) plans for a fleet  *)
(* and the matches of an epoch: relays of two drivers first, then a tour   *)
(* of several loads for each match that is left.                           *)
(*                                                                         *)
(* Which exchanges are feasible and profitable, and which continuation of  *)
(* a tour pays best, are free choices; the deadhead limits of relays and   *)
(* tours are taken to be one.  The goroutines of the relay synthesizer and *)
(* of the runner share nothing they write but the channel of their         *)
(* results, which are put in order before use, so a synthesis is one step. *)
(***************************************************************************)
EXTENDS DispatchPolicies, Sequences, Functions

CONSTANTS
  HubReach,     \* places within the deadhead limit of a relay hub
  LongHaul,     \* loads long enough to relay, with a hub on their way
  MaxTourLegs

ASSUME PlanAssumption ==
  /\ HubReach \subseteq Places
  /\ LongHaul \subseteq Loads
  /\ MaxTourLegs \in Nat \ {0}

-----------------------------------------------------------------------------
Exchange == [in : Drivers, out : Drivers, load : Loads]

RelayCandidates(fleet) ==
  {x \in [in : Drivers, out : Drivers, load : fleet.loads \cap LongHaul] :
     /\ x.in # x.out
     /\ Within(x.in, x.load, fleet)
     /\ fleet.drivers[x.out].at \in HubReach}

Crew(x) == {x.in, x.out}
Disjoint(x, y) == Crew(x) \cap Crew(y) = {} /\ x.load # y.load

\* Mutant: the outbound driver is not marked as used.
SelectByInbound(cands) ==
  {R \in SUBSET cands : \A x, y \in R : x # y => x.in # y.in /\ x.load # y.load}

\* The greedy pass over the candidates, best first.  Also what is left of them
\* when a cancelled context stops the search: the partial result is no error.
SelectRelays(cands) ==
  {R \in SUBSET cands : \A x, y \in R : x # y => Disjoint(x, y)}

RelayDrivers(relays) == UNION {Crew(x) : x \in relays}
RelayLoads(relays) == {x.load : x \in relays}

-----------------------------------------------------------------------------
\* Loads chained from the first one, none twice, each picked up near the place
\* where the one before it was delivered.
Chained(t) ==
  \A i \in 1..(Len(t) - 1) : <<Destination[t[i]], Origin[t[i + 1]]>> \in Near

\* SynthesizeTour: a chain may end early, when nothing feasible is left.
Tours(pool) ==
  {t \in UNION {[1..n -> pool] : n \in 1..MaxTourLegs} :
     IsInjective(t) /\ Chained(t)}

\* Mutant: the loads of relays are not taken from the pool.
RemainingLoadsAll(loads, relays) == loads

RemainingLoads(loads, relays) == loads \ RelayLoads(relays)

RemainingMatches(ms, relays) ==
  {m \in ms : m.driver \notin RelayDrivers(relays) /\ m.load \notin RelayLoads(relays)}

\* DispatchRunner.SynthesizeBatch: each match has its tour built apart from
\* the others, out of the same loads.
TourPlans(ms, pool) ==
  {T \in [MatchedDrivers(ms) -> Tours(pool)] : \A m \in ms : T[m.driver][1] = m.load}

Tour == UNION {[1..n -> Loads] : n \in 1..MaxTourLegs}
Batch == [relays : SUBSET Exchange, tours : UNION {[D -> Tour] : D \in SUBSET Drivers}]

TourLoads(T) == UNION {Range(T[d]) : d \in DOMAIN T}
=============================================================================
