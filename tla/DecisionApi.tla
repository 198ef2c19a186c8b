---------------------------- MODULE DecisionApi ----------------------------
(***************************************************************************)
(* The decision endpoints of the server over one MemoryJournal and one     *)
(* MemoryStore, which the HTTP handlers and the gRPC server share          *)
(* (cmd/server/main.go): optimize, by both doors, each request one call of *)
(* OptimizeService; and what a reader of GET /decisions/{id} or POST       *)
(* /decisions/{id}/replay is shown in a state.  A reader changes nothing;  *)
(* he takes the journal's entries with one atomic load, and a run's        *)
(* records with two, between which the run may have grown.                 *)
(***************************************************************************)
EXTENDS OptimizeService, ApiRequests

CONSTANTS
  ApiRequestSet,  \* what clients may ask
  NoRequest

\* Whatever passes the front door is a request the service knows.
ASSUME ApiAssumption ==
  /\ ApiRequestSet \subseteq Request /\ NoRequest \notin Request
  /\ \A q \in ApiRequestSet : ~Refuses(q) =>
       [policy |-> PolicyOf(q), epoch |-> q.epoch] \in Requests

VARIABLE asked  \* call -> the request it made

apiVars == <<vars, asked>>

ApiInit == Init /\ asked = [c \in Calls |-> NoRequest]

\* A refused request is answered 400 and leaves no trace; any other enters
\* OptimizeEpoch.
Optimize(c, q) ==
  /\ asked[c] = NoRequest
  /\ asked' = [asked EXCEPT ![c] = q]
  /\ IF Refuses(q) THEN UNCHANGED vars
     ELSE Call(c, [policy |-> PolicyOf(q), epoch |-> q.epoch])

HandleOptimize(c) == \E q \in ApiRequestSet : q.api = "rest" /\ Optimize(c, q)
GrpcOptimize(c) == \E q \in ApiRequestSet : q.api = "grpc" /\ Optimize(c, q)

ApiNext == \E c \in Calls :
  \/ HandleOptimize(c)
  \/ GrpcOptimize(c)
  \/ (Fail(c) \/ Proceed(c)) /\ UNCHANGED asked

ApiSpec == ApiInit /\ [][ApiNext]_apiVars
FairApiSpec == ApiSpec /\ WF_vars(\E c \in Calls : Proceed(c))

-----------------------------------------------------------------------------
\* MemoryJournal.GetEntry scans from the front.
Found(d) == \E i \in 1..Len(journal) : journal[i].body.id = d
GetEntry(d) ==
  journal[CHOOSE i \in 1..Len(journal) :
            journal[i].body.id = d /\ \A j \in 1..(i - 1) : journal[j].body.id # d]

\* The state and the action a record holds: those of the call that sealed it.
RecordedState(r) == StateOf(asked[r.body.state])
RecordedAction(r) ==
  Evaluate(RecordedState(r), asked[r.body.state].config)

\* GET /decisions/{id}/explain and gRPC ExplainDecision: what CFA decided, from
\* the entry's provenance.
ExplainDecision(d) == RecordedAction(GetEntry(d))

\* HandleReplayDecision and gRPC ReplayDecision; only CFA can be replayed.
ReplayableEntry(d) == Found(d) /\ d.policy = cfa
ReplayDecision(d) ==
  LET r == GetEntry(d)
      s == RecordedState(r)
  IN  Replay(Encode(s), HashState(s), RecordedAction(r))

\* The gRPC VerifyMerkleChain reads a run twice: VerifyRunChain found its first
\* n of the records that are there when ListByRun counts them, since a run only
\* grows (ImplementsLog).  A valid run without records counts for one.
\* GET /runs/{id}/integrity shows the verdict without the count.
VerifyMerkleChain(run, n) ==
  LET valid == VerifyChain(SubSeq(chain[run], 1, n))
  IN  [valid |-> valid,
       verified |-> IF chain[run] = << >> /\ valid THEN 1 ELSE Len(chain[run])]

\* The body of a 200: the ids to read the decision and to verify its run.
Response(c) == [decision |-> id[c], run |-> id[c].policy]

-----------------------------------------------------------------------------
\* Calls answered 200.
Answered == {c \in Calls : result[c] = "ok"}

\* What GET /decisions/{id} shows under the id a call was answered with is the
\* call's own entry or, before it, that of another call it overlapped whose
\* record the store refused or will: never another answered decision.
AnswerReadable ==
  \A c \in Answered :
    /\ Found(Response(c).decision)
    /\ LET d == GetEntry(Response(c).decision).body.state
       IN  d = c \/ (d \in overlap[c] /\ d \notin Answered /\ id[d] = id[c])

\* The integrity report of the run a response names is valid and, whatever was
\* there when it was verified, counts one record for each response that had
\* named it by the time they were counted: no refused call left a record in the
\* chain and no answered decision is missing from it.
AnswersAudited ==
  \A c \in Answered : \A n \in 0..Len(chain[Response(c).run]) :
    LET report == VerifyMerkleChain(Response(c).run, n)
        served == {d \in Answered : Response(d).run = Response(c).run}
    IN  report.valid /\ report.verified = Cardinality(served)

\* A replay that reports bit exact vouches for what the explanation shows: the
\* policy of the default configuration decides it on the recorded state.
ReplaySound ==
  \A c \in Calls :
    ReplayableEntry(id[c]) /\ ReplayDecision(id[c]).bitExact =>
      LET r == GetEntry(id[c])
      IN  /\ RecordedState(r).scale = 0
          /\ ExplainDecision(id[c]) = Evaluate(RecordedState(r), "default")

\* "HandleReplayDecision executes an offline bit-exact re-evaluation of a
\* recorded optimization decision": a decision of the default configuration
\* without competitors is replayed bit exactly.
ReplayBitExact ==
  \A c \in Answered :
    LET r == GetEntry(id[c])
        q == asked[r.body.state]
    IN  ReplayableEntry(id[c]) /\ q.config = "default" /\ q.scale # "competitive"
          => ReplayDecision(id[c]).bitExact

\* To the optimization service the two front doors are one client that starts
\* calls: refused requests do not reach it and readers do not disturb it.
ImplementsService == Spec
=============================================================================
