------------------------- MODULE AssignmentMatcher --------------------------
(***************************************************************************)
(* BipartiteMatcher (internal/domain/policy/matcher.go): the payout matrix *)
(* it makes of the candidates' scores, the matches it makes of SolveLAP's  *)
(* answer, and the greedy algorithm beside it.  No policy allows negative  *)
(* scores.  Drivers are rows, loads are columns, both in the order of      *)
(* their ids; a driver or load without any candidate has no row or column. *)
(***************************************************************************)
EXTENDS AssignmentSolver, Functions, FiniteSetsExt

CONSTANT Sentinel  \* InfeasibleScoreSentinel, the payout of a pair that is none

ASSUME MatcherAssumption == Sentinel \in Int /\ Sentinel < 0

\* The matrices of candidates with some scores, for so many drivers and loads.
PayoutMatrices(drivers, loads, scores) ==
  {[rows |-> drivers, cols |-> loads, at |-> f] :
     f \in {g \in [(1..drivers) \X (1..loads) -> scores \cup {Sentinel}] :
              /\ \A r \in 1..drivers : \E c \in 1..loads : g[r, c] # Sentinel
              /\ \A c \in 1..loads : \E r \in 1..drivers : g[r, c] # Sentinel}}

-----------------------------------------------------------------------------
AllPairs == DOMAIN matrix.at
Candidates == {a \in AllPairs : matrix.at[a] # Sentinel}
Value(A) == MapThenSumSet(LAMBDA a : matrix.at[a], A)
Disjoint(a, b) == a[1] # b[1] /\ a[2] # b[2]

\* SolveMatching with AlgorithmExactLAP: what does not score above zero is
\* taken out of the assignment after it was found.
ExactMatching ==
  {a \in AllPairs : RowToCol(a[1]) = a[2] /\ matrix.at[a] # Sentinel /\ matrix.at[a] > 0}

\* The order of solveGreedy: by score, then by driver, then by load.
Before(a, b) ==
  \/ matrix.at[a] > matrix.at[b]
  \/ matrix.at[a] = matrix.at[b]
     /\ (a[1] < b[1] \/ (a[1] = b[1] /\ a[2] < b[2]))

\* AlgorithmGreedy takes a profitable candidate unless it took one before it
\* with the same driver or load.
GreedyMatching ==
  LET profitable == {a \in Candidates : matrix.at[a] > 0}
  IN  CHOOSE M \in SUBSET profitable : \A a \in profitable :
        a \in M <=> \A b \in M : Before(b, a) => Disjoint(a, b)

-----------------------------------------------------------------------------
\* The assignments that leave nobody of the shorter side idle.
Assignments ==
  {{IF Transposed THEN <<f[r], r>> ELSE <<r, f[r]>> : r \in 1..n} :
     f \in {g \in [1..n -> 1..m] : IsInjective(g)}}

\* No way to match all of the shorter side earns more than the exact matcher,
\* which may leave somebody idle.
BestComplete ==
  pc = "done" => \A A \in Assignments : Value(A) <= Value(ExactMatching)

\* The exact algorithm is chosen "to guarantee mathematical global optimality
\* across competing driver preferences" (matcher.go:20), so its matches earn no
\* less than the greedy ones.  The code does not keep to that: SolveLAP must
\* give every driver of the shorter side a load, and the pairs that pay
\* nothing are dropped after it has traded a better match for them.
ExactBeatsGreedy == pc = "done" => Value(ExactMatching) >= Value(GreedyMatching)
=============================================================================
