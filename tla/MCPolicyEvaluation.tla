------------------------- MODULE MCPolicyEvaluation -------------------------
(* Every matrix for two drivers and three loads, or three and two, over      *)
(* three scores, and for three and three over two scores, with a first row   *)
(* in order: the smallest where a path turns twice.  Three drivers for two   *)
(* workers, so that one worker evaluates two, and two for two.               *)
EXTENDS PolicyEvaluation

MCSentinel == -100

Sorted(M) == M.at[1, 1] <= M.at[1, 2] /\ M.at[1, 2] <= M.at[1, 3]
MCMatrices ==
  PayoutMatrices(2, 3, {-2, 1, 3}) \cup PayoutMatrices(3, 2, {-2, 1, 3})
    \cup {M \in PayoutMatrices(3, 3, {1, 3}) : Sorted(M)}

\* Two drivers who compete for one of two loads, where one of them scores 10.
MCGreedyMatrices == PayoutMatrices(2, 2, {1, 10})

MCScreened == PayoutMatrices(3, 2, {3}) \cup PayoutMatrices(2, 3, {3})
=============================================================================
