--------------------------- MODULE BeliefPricing ---------------------------
(***************************************************************************)
(* What an arm of the tournament believes of the competitor and how it     *)
(* prices: BeliefFilter.Filter with the observation model of the           *)
(* tournament, and CompetitivePOMDPPolicy over the CFA policy.             *)
(*                                                                         *)
(* A belief is its most likely posture, or Uniform before the first        *)
(* observation; log-likelihoods are integers, in hundredths.  The terms    *)
(* that are the same for all postures (the binomial coefficient, the       *)
(* normal constant, the Poisson offers) are left out.                      *)
(***************************************************************************)
EXTENDS MarketEnvironment

CONSTANT DriverCount
ASSUME DriverAssumption == DriverCount \in Nat \ {0}

Uniform == 0
Beliefs == {Uniform} \cup Postures

-----------------------------------------------------------------------------
\* Logarithm of the predicted prior: a row of the matrix, or the mean column.
LogPrior == [b \in Beliefs |->
  CASE b = Uniform -> <<-115, -100, -115>>
    [] b = Aggressive -> <<-36, -161, -230>>
    [] b = Moderate -> <<-190, -36, -190>>
    [] b = Passive -> <<-230, -161, -36>>]

\* PostureObservationProfile: logarithms of the probabilities .35, .65 and .85
\* of winning and of losing a bid, mean spot rate in cents; the deviation of
\* the rate is ten cents.
LogWin == <<-105, -43, -16>>
LogLoss == <<-43, -105, -190>>
ExpectedRate == <<215, 250, 295>>

WonCount(feedback) == Cardinality({f \in feedback : f.won})

\* Mean rate of the bids, or of the loads on offer when nothing was bid.
ObservedRate(feedback, loads) ==
  IF feedback # {}
  THEN MapThenSumSet(LAMBDA f : f.rate, feedback) \div Cardinality(feedback)
  ELSE MapThenSumSet(LAMBDA l : l.revenue, loads)
         \div MapThenSumSet(LAMBDA l : l.miles, loads)

LogLikelihood(p, feedback, loads) ==
  LET n == Cardinality(feedback)
      k == WonCount(feedback)
      diff == IF loads = {} THEN 0 ELSE ObservedRate(feedback, loads) - ExpectedRate[p]
  IN  k * LogWin[p] + (n - k) * LogLoss[p] - (diff * diff) \div 2

\* The posture of the largest posterior.
Filter(belief, feedback, loads) ==
  LET posterior(p) == LogPrior[belief][p] + LogLikelihood(p, feedback, loads)
  IN  CHOOSE p \in Postures :
        /\ \A q \in Postures : posterior(p) >= posterior(q)
        /\ \A q \in 1..(p - 1) : posterior(q) < posterior(p)

-----------------------------------------------------------------------------
AggressivePercent(belief) ==
  IF belief = Uniform THEN 33 ELSE IF belief = Aggressive THEN 100 ELSE 0

\* DefaultCompetitivePricingConfig, in cents: a hurdle of $75 and, by the mass
\* on AGGRESSIVE, up to $125 more; the surplus rate needs .65 on PASSIVE.
MinHurdle(belief) == 7500 + 125 * AggressivePercent(belief)
TargetRate(belief) == IF belief = Passive THEN 292 ELSE 252

\* Mutant: no floor under the price.
BidPriceUnfloored(l, belief) == l.miles * TargetRate(belief)

\* Never below the cost of the trip and the hurdle.
BidPrice(l, belief) == Max({l.miles * TargetRate(belief), l.cost + MinHurdle(belief)})

\* A quarter of the empty cost, by the mass on AGGRESSIVE, for the arms whose
\* ThetaRisk is set.
RiskPremium(l, belief) == (l.empty * AggressivePercent(belief)) \div 400

\* Twelve hours a step: a pickup window of 86400 seconds is two steps, a haul
\* with its rests takes three.
PickupWindow == 2
TripSteps == 3

\* EvaluateTripFeasibility looks at the clock of the driver, which only his own
\* trips advance: for one who was never dispatched no window ever closes.
Feasible(clock, l) == clock <= l.born + PickupWindow

Drivers == 1..DriverCount

\* Every load of S has a driver of its own: whoever can take an older load can
\* take a younger one, so counting is enough.
Matchable(S, clocks) ==
  \A l \in S : Cardinality({x \in S : x.born <= l.born})
                 <= Cardinality({d \in Drivers : Feasible(clocks[d], l)})

\* The loads of the assignment of the largest total score: the best load that
\* can be added, again and again (matchable sets form a matroid).
BestLoads(loads, clocks, score) ==
  LET better(l, k) == score[l] > score[k] \/ (score[l] = score[k] /\ l.id <= k.id)
      more[S \in SUBSET loads] ==
        {l \in loads \ S : score[l] > 0 /\ Matchable(S \cup {l}, clocks)}
      best[M \in SUBSET loads] == {l \in M : \A k \in M : better(l, k)}
      add[S \in SUBSET loads] == S \cup best[more[S]]
      pick[n \in 0..DriverCount] == IF n = 0 THEN {} ELSE add[pick[n - 1]]
  IN  pick[DriverCount]

\* The n-th load by age goes to the n-th driver by clock; which driver gets
\* which does not matter here.
DriverOf(l, S, clocks) ==
  LET n == Cardinality({x \in S : x.born < l.born \/ (x.born = l.born /\ x.id <= l.id)})
  IN  CHOOSE d \in Drivers :
        n = Cardinality({x \in Drivers : clocks[x] < clocks[d] \/ (clocks[x] = clocks[d] /\ x <= d)})

\* Evaluate: who drives what and, for an arm that prices, a bid for each match.
Evaluate(arm, loads, clocks, belief) ==
  LET score == [l \in loads |->
        l.revenue - l.cost - (IF arm.risk THEN RiskPremium(l, belief) ELSE 0)]
      load(i) == CHOOSE l \in loads : l.id = i
      action[S \in SUBSET loads] ==
        LET ids == {l.id : l \in S}
        IN  [matches |-> ids,
             driver |-> [i \in ids |-> DriverOf(load(i), S, clocks)],
             bids |-> IF arm.prices THEN [i \in ids |-> BidPrice(load(i), belief)] ELSE << >>]
  IN  action[BestLoads(loads, clocks, score)]
=============================================================================
