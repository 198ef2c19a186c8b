------------------------- MODULE MCPostgresJournal -------------------------
(* Requests for two epochs of one policy. *)
EXTENDS PostgresJournal

CONSTANTS cfa

MCPolicies == {cfa}
MCRequests == {[policy |-> cfa, epoch |-> 0], [policy |-> cfa, epoch |-> 1]}

\* Calls are alike, so they may be numbered in the order in which they start.
NextInTurn ==
  \A c, d \in Calls : c < d /\ pc'[c] = "idle" => pc'[d] = "idle"
=============================================================================
