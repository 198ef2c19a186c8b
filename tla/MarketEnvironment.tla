------------------------- MODULE MarketEnvironment -------------------------
(***************************************************************************)
(* The market simulator of internal/adapter/simulation/market_env.go: the  *)
(* posture of the competitor, its price for every load on offer, the       *)
(* auction and what the carrier is told of it.                             *)
(*                                                                         *)
(* Prices are cents and a uniform draw of the generator is a percentage.   *)
(* The draws of a generator are a sequence, of which an environment has    *)
(* consumed a prefix.  The configuration is DefaultMarketConfig's.         *)
(***************************************************************************)
EXTENDS Integers, FiniteSets, Sequences, FiniteSetsExt

\* The postures AGGRESSIVE, MODERATE and PASSIVE in the order of the code.
Aggressive == 1
Moderate == 2
Passive == 3
Postures == 1..3

\* DefaultMarketConfig: percents, ten-thousandths and cents.
TransitionPercent == << <<70, 20, 10>>, <<15, 70, 15>>, <<10, 20, 70>> >>
PriceMultiplier == <<8600, 10000, 11800>>
SpotRatePerMile == 250
InitialPosture == Moderate

\* A load on offer: its number, the step it arrived at, its haul, its listed
\* revenue, what the trip costs and how much of that is driven empty.
Load == [id : Nat, born : Nat, miles : Nat, revenue : Nat, cost : Nat, empty : Nat]

-----------------------------------------------------------------------------
\* Step 1: the first posture whose cumulated probability reaches the draw.
NextPosture(p, u) ==
  LET cum(i) == MapThenSumSet(LAMBDA j : TransitionPercent[p][j], 1..i)
  IN  Min({i \in Postures : u <= cum(i) \/ i = 3})

BasePrice(l) == IF l.miles > 0 THEN l.miles * SpotRatePerMile ELSE l.revenue

\* Step 2: noise is up to three percent of the base either way.
CompetitorBid(l, posture, u) ==
  (BasePrice(l) * Max({5000, PriceMultiplier[posture] + (u - 50) * 6})) \div 10000

\* The loads are offered in the order of their numbers.
Rank(l, loads) == Cardinality({x \in loads : x.id <= l.id})

-----------------------------------------------------------------------------
\* Two percent of grace for the carrier.
Wins(price, comp) == price * 100 <= comp * 102

\* bids is a function from the numbers of the loads that were priced.
CarrierPrice(l, bids) ==
  IF l.id \in DOMAIN bids /\ bids[l.id] > 0 THEN bids[l.id] ELSE l.revenue

\* What the feedback loop looks up: zero for a load without a price.
FeedbackPrice(l, bids) == IF l.id \in DOMAIN bids THEN bids[l.id] ELSE 0

RatePerMile(l, comp) == IF l.miles > 0 THEN comp \div l.miles ELSE comp

\* MarketEnvironment.Step for the action [matches, bids] on the loads on
\* offer, after pos draws of the stream: one draw for the posture, then one for
\* every load, matched or not.
MarketStep(loads, action, posture, pos, stream) ==
  LET p == NextPosture(posture, stream[pos + 1])
      comp == [l \in loads |-> CompetitorBid(l, p, stream[pos + 1 + Rank(l, loads)])]
      offered == {l \in loads : l.id \in action.matches}
      won == {l \in offered : Wins(CarrierPrice(l, action.bids), comp[l])}
  IN  [posture |-> p,
       pos |-> pos + 1 + Cardinality(loads),
       won |-> won,
       lost |-> offered \ won,
       revenues |-> [l \in won |-> CarrierPrice(l, action.bids)],
       feedback |->
         {[id |-> l.id,
           won |-> Wins(FeedbackPrice(l, action.bids), comp[l]),
           rate |-> RatePerMile(l, comp[l])] : l \in offered}]
=============================================================================
