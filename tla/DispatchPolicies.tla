-------------------------- MODULE DispatchPolicies --------------------------
(***************************************************************************)
(* What a policy (internal/domain/policy) may answer for a fleet: the arcs *)
(* the feasibility filter leaves, the one-to-one assignment the matcher or *)
(* the priority rule makes of them, and the epoch each match is dispatched *)
(* at, in which the policies differ.                                       *)
(*                                                                         *)
(* Distance is a relation between places.  Hours, time windows, equipment  *)
(* and score are free choices: any of the arcs may be feasible and of      *)
(* positive score.  The filter's and the lookahead's workers share nothing *)
(* they write but a channel, and what comes out of it is sorted or put in  *)
(* its place by index, so an evaluation is one value.                      *)
(***************************************************************************)
EXTENDS FleetState

CONSTANTS
  FirstDriver,  \* the lowest driver id
  Near          \* pairs of places within the deadhead limit

ASSUME PolicyAssumption ==
  /\ FirstDriver \in Drivers
  /\ Near \subseteq Places \X Places

Within(d, l, fleet) == <<fleet.drivers[d].at, Origin[l]>> \in Near

\* FilterCandidates, as far as distance decides.
Arcs(fleet) == {a \in Drivers \X fleet.loads : Within(a[1], a[2], fleet)}

\* Mutant: the greedy pass does not mark the load as assigned.
MatchingsByDriver(arcs) ==
  {M \in SUBSET arcs : \A a, b \in M : a # b => a[1] # b[1]}

\* SolveMatching: no driver and no load twice.  The exact solver and the
\* greedy one drop what does not score above zero, so each such set of arcs is
\* the answer for some scores.
Matchings(arcs) ==
  {M \in SUBSET arcs : \A a, b \in M : a # b => a[1] # b[1] /\ a[2] # b[2]}

MatchesAt(M, e) == {[driver |-> a[1], load |-> a[2], epoch |-> e] : a \in M}

\* drivers[0].AvailableEpoch, whichever driver is matched.
FirstFree(fleet) == fleet.drivers[FirstDriver].free

-----------------------------------------------------------------------------
\* The Evaluate methods.
CFA(fleet) == {MatchesAt(M, FirstFree(fleet)) : M \in Matchings(Arcs(fleet))}
VFA(fleet) == {MatchesAt(M, FirstFree(fleet)) : M \in Matchings(Arcs(fleet))}
PiecewiseVFA(fleet) == {MatchesAt(M, FirstFree(fleet)) : M \in Matchings(Arcs(fleet))}

\* The lookahead prefers the state's clock, if that was ever set.
DLA(fleet, clock) ==
  {MatchesAt(M, IF clock > 0 THEN clock ELSE FirstFree(fleet)) :
     M \in Matchings(Arcs(fleet))}

\* The priority rule gives each driver in turn a load nobody has yet, when he
\* becomes available; it knows distance and equipment, and asks no filter.
PFA(fleet) ==
  {{[driver |-> a[1], load |-> a[2], epoch |-> fleet.drivers[a[1]].free] : a \in M} :
     M \in Matchings(Arcs(fleet))}

PolicyNames == {"CFA", "VFA", "PiecewiseVFA", "DLA", "PFA"}

Actions(policy, fleet, clock) ==
  CASE policy = "CFA" -> CFA(fleet)
    [] policy = "VFA" -> VFA(fleet)
    [] policy = "PiecewiseVFA" -> PiecewiseVFA(fleet)
    [] policy = "DLA" -> DLA(fleet, clock)
    [] policy = "PFA" -> PFA(fleet)
=============================================================================
