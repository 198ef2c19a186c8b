--------------------------- MODULE MCDecisionApi ---------------------------
(* Three calls.  By REST: CFA, CFA against competitors at other costs, and a *)
(* class that is refused; by gRPC: VFA, and a request that is refused.       *)
EXTENDS DecisionApi

MCPolicies == {cfa, vfa, dla}
MCRequests == {[policy |-> p, epoch |-> e] : p \in {cfa, vfa}, e \in {0, 1}}

Rest == [api |-> "rest", class |-> "CFA", scale |-> "monopolistic",
         config |-> "default", epoch |-> 0, fleet |-> "plain", loads |-> "plain"]
Grpc == [Rest EXCEPT !.api = "grpc", !.class = "VFA", !.epoch = 1]
MCApiRequests ==
  {Rest, [Rest EXCEPT !.scale = "competitive", !.config = "custom"],
   [Rest EXCEPT !.class = "PFA"],
   Grpc, [Grpc EXCEPT !.fleet = "none", !.loads = "none"]}

\* For the replay run, a class REST refuses and gRPC serves with CFA, for a
\* fleet and loads with endorsements.
MCCertified ==
  {Rest, [Grpc EXCEPT !.class = "PFA", !.fleet = "certified", !.loads = "certified"]}
=============================================================================
