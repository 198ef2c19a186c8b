---------------------------- MODULE ApiRequests ----------------------------
(***************************************************************************)
(* What the two front doors of the server make of an optimize request      *)
(* (internal/adapter/api/handlers.go, internal/adapter/grpc/server.go),    *)
(* what CFA decides on it, what of it is recorded (pkg/journal/hasher.go)  *)
(* and what replaying the record decides (pkg/replay/engine.go).           *)
(*                                                                         *)
(* A fleet is "none", "plain" or "certified" (its drivers hold the         *)
(* endorsement some loads require), loads are "none", "plain" or           *)
(* "certified" (they require it), and a configuration is "default" or      *)
(* "custom": one under which the same match contributes something else.    *)
(***************************************************************************)
EXTENDS Naturals

CONSTANTS cfa, vfa, dla  \* the names of the three policies

Request == [api : {"rest", "grpc"}, class : {"CFA", "VFA", "DLA", "", "PFA"},
            scale : {"negative", "monopolistic", "competitive"},
            config : {"default", "custom"}, epoch : Nat,
            fleet : {"none", "plain", "certified"},
            loads : {"none", "plain", "certified"}]

-----------------------------------------------------------------------------
\* EMPTY_FLEET, UNSUPPORTED_POLICY, INVALID_COMPETITOR_SCALE.
RestRefuses(q) ==
  \/ q.fleet = "none"
  \/ q.class \notin {"CFA", "VFA", "DLA", ""}
  \/ q.scale = "negative"

\* gRPC refuses a request of neither drivers nor loads, and only that.
GrpcRefuses(q) == q.fleet = "none" /\ q.loads = "none"

\* A class the gRPC server does not know is served by CFA.
PolicyOf(q) ==
  CASE q.class = "VFA" -> vfa
    [] q.class = "DLA" -> dla
    [] OTHER -> cfa

\* Any competitor_scale above 0 is one aggregated competitor of three postures;
\* gRPC takes every scale it does not know for none.
ScaleOf(q) == IF q.scale = "competitive" THEN 1 ELSE 0

\* A state: endorsements of the drivers and, apart, of their equipment.
State == [drivers : BOOLEAN, endorsed : BOOLEAN, equipped : BOOLEAN,
          loads : {"none", "plain", "certified"}, scale : {0, 1}]

\* REST knows no endorsements at all.
RestState(q) ==
  [drivers |-> TRUE, endorsed |-> FALSE, equipped |-> FALSE,
   loads |-> IF q.loads = "none" THEN "none" ELSE "plain", scale |-> ScaleOf(q)]

\* protoToDriver gives them to the driver and to his equipment.
GrpcState(q) ==
  [drivers |-> q.fleet # "none", endorsed |-> q.fleet = "certified",
   equipped |-> q.fleet = "certified", loads |-> q.loads, scale |-> ScaleOf(q)]

Refuses(q) == IF q.api = "rest" THEN RestRefuses(q) ELSE GrpcRefuses(q)
StateOf(q) == IF q.api = "rest" THEN RestState(q) ELSE GrpcState(q)

-----------------------------------------------------------------------------
\* Equipment.CanHandle: the endorsements that count are the equipment's.
CanHandle(s) == s.loads = "certified" => s.equipped

\* CFAPolicy.Evaluate: the scale does not enter it.
Evaluate(s, config) ==
  IF s.drivers /\ s.loads # "none" /\ CanHandle(s)
  THEN [matches |-> 1, contribution |-> config]
  ELSE [matches |-> 0, contribution |-> "nothing"]

\* EncodeCanonicalResource and EncodeCanonicalBelief: the endorsements of the
\* equipment are not in the bytes.  HashState is a digest of these bytes.
Encode(s) == [drivers |-> s.drivers, endorsed |-> s.endorsed,
              loads |-> s.loads, dimension |-> s.scale]
HashState(s) == Encode(s)

\* DecodeCanonicalResource makes bare equipment, and HandleReplayDecision
\* decodes every belief with no competitor.
Decode(bytes) == [drivers |-> bytes.drivers, endorsed |-> bytes.endorsed,
                  equipped |-> FALSE, loads |-> bytes.loads, scale |-> 0]

\* Mutant: a replay with as many matches is called bit exact.
ReplayMatches(bytes, hash, action) ==
  LET again == Evaluate(Decode(bytes), "default")
  IN  [hashMatch |-> TRUE, actionMatch |-> TRUE,
       bitExact |-> again.matches = action.matches]

\* ReplayEngine.ReplayDecision with the CFA policy of the default
\* configuration, on the state the record's bytes decode to.
Replay(bytes, hash, action) ==
  LET state == Decode(bytes)
      again == Evaluate(state, "default")
  IN  [hashMatch |-> HashState(state) = hash,
       actionMatch |-> again.matches = action.matches,
       bitExact |-> HashState(state) = hash /\ again = action]

=============================================================================
