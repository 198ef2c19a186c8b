--------------------------- MODULE MarketEpisode ---------------------------
(***************************************************************************)
(* One episode of one arm of the tournament (runEpisodeN0, N0Informed,     *)
(* N1Blind, N1, PFA, CFA, VFA, DLA and executeSimulationLoop in            *)
(* internal/adapter/simulation/tournament.go): the policy is evaluated,    *)
(* the market steps, the informed arms filter their belief, what was won   *)
(* is accounted and driven, and new loads arrive.                          *)
(*                                                                         *)
(* A seed fixes two generators: the draws of the market and the loads that *)
(* arrive.  The score of a match under PFA, VFA and DLA is that of CFA:    *)
(* only that the arm neither prices nor believes matters here.             *)
(***************************************************************************)
EXTENDS BeliefPricing

CONSTANTS
  Steps,          \* decision epochs of an episode
  LoadsPerEpoch,
  Kinds           \* [miles, revenue, cost, empty] of a load

ASSUME EpisodeAssumption ==
  /\ Steps \in Nat \ {0}
  /\ LoadsPerEpoch \in Nat \ {0}
  /\ Kinds \subseteq [miles : Nat, revenue : Nat, cost : Nat, empty : Nat]

-----------------------------------------------------------------------------
\* prices: the competitive policy wraps the CFA; risk: ThetaRisk is set;
\* filters: the belief follows the observations.
Blind == [prices |-> FALSE, risk |-> FALSE, filters |-> FALSE]

runEpisodeN0 == Blind
runEpisodeN0Informed == [prices |-> FALSE, risk |-> TRUE, filters |-> TRUE]
runEpisodeN1Blind == [prices |-> TRUE, risk |-> FALSE, filters |-> FALSE]
runEpisodeN1 == [prices |-> TRUE, risk |-> FALSE, filters |-> TRUE]
runEpisodePFA == Blind
runEpisodeCFA == Blind
runEpisodeVFA == Blind
runEpisodeDLA == Blind

Arm ==
  [N0 |-> runEpisodeN0, N0Informed |-> runEpisodeN0Informed,
   N1Blind |-> runEpisodeN1Blind, N1 |-> runEpisodeN1,
   PFA |-> runEpisodePFA, CFA |-> runEpisodeCFA,
   VFA |-> runEpisodeVFA, DLA |-> runEpisodeDLA]

-----------------------------------------------------------------------------
\* The loads drawn for step s after pos loads of the stream.
GenerateStochasticLoads(arrivals, pos, s) ==
  {[id |-> pos + i, born |-> s, miles |-> arrivals[pos + i].miles,
    revenue |-> arrivals[pos + i].revenue, cost |-> arrivals[pos + i].cost,
    empty |-> arrivals[pos + i].empty] : i \in 1..LoadsPerEpoch}

\* What an arm has before its first step, on the generators of a seed.
StartEpisode(name, seed) ==
  [arm |-> name,
   step |-> 0,
   posture |-> InitialPosture,
   pos |-> 0,
   drawn |-> LoadsPerEpoch,
   belief |-> Uniform,
   loads |-> GenerateStochasticLoads(seed.arrivals, 0, 0),
   clocks |-> [d \in Drivers |-> 0],
   revenue |-> 0,
   cost |-> 0,
   won |-> {},
   lost |-> 0,
   log |-> << >>]

\* Mutant: what was lost leaves the state as well.
DriveAll(loads, market) == loads \ (market.won \cup market.lost)

\* Resource().Transition for the matches that were won: a load that was lost,
\* or not matched, stays on offer.
Drive(loads, market) == loads \ market.won

\* Whoever drives waits for the pickup window to open.
DriveClocks(clocks, action, market) ==
  LET trip(d) == {l \in market.won : action.driver[l.id] = d}
  IN  [d \in Drivers |->
         IF trip(d) = {} THEN clocks[d]
         ELSE LET l == CHOOSE x \in trip(d) : TRUE
              IN  Max({clocks[d], l.born}) + TripSteps]

\* Mutant: only what was won is replaced.
NextDrawReplaced(ep, market) == ep.drawn + Cardinality(market.won)

\* The generator of the arrivals moves by the same draws in every arm.
NextDraw(ep, market) == ep.drawn + LoadsPerEpoch

Decide(ep) == Evaluate(Arm[ep.arm], ep.loads, ep.clocks, ep.belief)

StepMarket(ep, action, seed) ==
  MarketStep(ep.loads, action, ep.posture, ep.pos, seed.market)

\* The rest of the decision epoch: the belief, the accounts, the transition
\* and the arrivals.  log keeps, for the properties, what each step saw.
Settle(ep, action, market, seed) ==
  LET incoming == GenerateStochasticLoads(seed.arrivals, ep.drawn, ep.step + 1)
  IN  [ep EXCEPT
         !.step = @ + 1,
         !.posture = market.posture,
         !.pos = market.pos,
         !.drawn = NextDraw(ep, market),
         !.belief = IF Arm[ep.arm].filters THEN Filter(@, market.feedback, ep.loads) ELSE @,
         !.loads = Drive(@, market) \cup incoming,
         !.clocks = DriveClocks(@, action, market),
         !.revenue = @ + MapThenSumSet(LAMBDA l : market.revenues[l], market.won),
         !.cost = @ + MapThenSumSet(LAMBDA l : l.cost, market.won),
         !.won = @ \cup market.won,
         !.lost = @ + Cardinality(market.lost),
         !.log = Append(@, [offered |-> ep.loads, action |-> action,
                            posture |-> market.posture, won |-> market.won,
                            lost |-> market.lost, feedback |-> market.feedback,
                            belief |-> ep.belief, incoming |-> incoming])]

Over(ep) == ep.step = Steps

\* simResult.
Score(ep) ==
  [revenue |-> ep.revenue, cost |-> ep.cost, net |-> ep.revenue - ep.cost,
   won |-> Cardinality(ep.won), lost |-> ep.lost]
=============================================================================
