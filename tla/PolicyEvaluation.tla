-------------------------- MODULE PolicyEvaluation --------------------------
(***************************************************************************)
(* Evaluate of the policies that filter and match (internal/domain/policy, *)
(* cfa.go and the value function policies): FilterCandidates of            *)
(* internal/domain/model/feasibility looks for the feasible pairs with a   *)
(* pool of workers, under a context the caller may cancel, and the pairs   *)
(* it answers are the candidates of the matcher.                           *)
(*                                                                         *)
(* The matrix holds what is true of drivers and loads: the score of a      *)
(* feasible pair, Sentinel for one that is not.  The pool finds that out.  *)
(* Evaluating the pairs of one driver is one step, since the worker shares *)
(* nothing while it does that; it fails for a driver whose policy of       *)
(* service hours does not validate.                                        *)
(***************************************************************************)
EXTENDS AssignmentMatcher, Sequences

CONSTANTS
  PoolSize,   \* FilterConfig.WorkerCount
  Screened    \* matrices for which the pool runs; for the others it has ended

ASSUME PoolAssumption ==
  /\ PoolSize \in Nat \ {0}
  /\ Screened \subseteq Matrices

VARIABLES
  faulty,     \* drivers whose evaluation fails
  cancelled,  \* the context is cancelled
  jobs,       \* jobsChan: drivers to evaluate
  worker,     \* worker -> where it stands, and localArcs
  results,    \* resultsChan
  closed,     \* resultsChan is closed
  collected,  \* allArcs
  answer      \* of FilterCandidates: none yet, the arcs, or an error

filterVars == <<faulty, cancelled, jobs, worker, results, closed, collected, answer>>
allVars == <<vars, filterVars>>

\* No more workers than drivers are started.
WorkerCount == IF matrix.rows < PoolSize THEN matrix.rows ELSE PoolSize
Pool == 1..PoolSize
Drivers == 1..matrix.rows
ArcsOf(d) == {a \in Candidates : a[1] = d}

FilterInit ==
  IF matrix \in Screened
  THEN /\ faulty \in {D \in SUBSET Drivers : Cardinality(D) <= 1}
       /\ jobs = [d \in Drivers |-> d]
       /\ worker = [w \in Pool |-> [at |-> IF w <= WorkerCount THEN "job" ELSE "ended",
                                    arcs |-> {}]]
       /\ closed = FALSE /\ collected = {} /\ answer = "none"
  ELSE /\ faulty = {}
       /\ jobs = << >>
       /\ worker = [w \in Pool |-> [at |-> "ended", arcs |-> {}]]
       /\ closed = TRUE /\ collected = Candidates /\ answer = "arcs"

EvaluateInit ==
  /\ Init
  /\ FilterInit
  /\ cancelled = FALSE
  /\ results = << >>

-----------------------------------------------------------------------------
Cancel ==
  /\ ~ cancelled /\ answer = "none"
  /\ cancelled' = TRUE
  /\ UNCHANGED <<vars, faulty, jobs, worker, results, closed, collected, answer>>

\* A worker takes the next driver, unless the context is cancelled, and
\* evaluates it with every load.
EvaluateDriver(w) ==
  /\ worker[w].at = "job" /\ jobs # << >>
  /\ jobs' = Tail(jobs)
  /\ IF cancelled \/ Head(jobs) \in faulty
     THEN worker' = [worker EXCEPT ![w].at = "fail"]
     ELSE worker' = [worker EXCEPT ![w].arcs = @ \cup ArcsOf(Head(jobs))]
  /\ UNCHANGED <<vars, faulty, cancelled, results, closed, collected, answer>>

JobsClosed(w) ==
  /\ worker[w].at = "job" /\ jobs = << >>
  /\ worker' = [worker EXCEPT ![w].at = "send"]
  /\ UNCHANGED <<vars, faulty, cancelled, jobs, results, closed, collected, answer>>

\* Mutant: the channel of results has no buffer, so the caller must be there.
RoomOfCaller == results = << >> /\ answer = "none"

Room == Len(results) < WorkerCount

\* A worker's only result, its arcs or the error that ends it.
Send(w, ok) ==
  /\ Room
  /\ results' = Append(results, [ok |-> ok, arcs |-> IF ok THEN worker[w].arcs ELSE {}])
  /\ worker' = [worker EXCEPT ![w].at = "ended"]
  /\ UNCHANGED <<vars, faulty, cancelled, jobs, closed, collected, answer>>

SendError(w) == worker[w].at = "fail" /\ Send(w, FALSE)

SendArcs(w) == worker[w].at = "send" /\ Send(w, TRUE)

\* The other branch of the select: the arcs are not delivered.
DropArcs(w) ==
  /\ worker[w].at = "send" /\ cancelled
  /\ worker' = [worker EXCEPT ![w].at = "ended"]
  /\ UNCHANGED <<vars, faulty, cancelled, jobs, results, closed, collected, answer>>

CloseResults ==
  /\ ~ closed
  /\ \A w \in Pool : worker[w].at = "ended"
  /\ closed' = TRUE
  /\ UNCHANGED <<vars, faulty, cancelled, jobs, worker, results, collected, answer>>

\* The first error returns at once and leaves the workers behind.
Collect ==
  /\ answer = "none" /\ results # << >>
  /\ results' = Tail(results)
  /\ collected' = collected \cup Head(results).arcs
  /\ answer' = IF Head(results).ok THEN "none" ELSE "error"
  /\ UNCHANGED <<vars, faulty, cancelled, jobs, worker, closed>>

\* Mutant: the context is not looked at once more.
AnswerUnchecked ==
  /\ answer = "none" /\ results = << >> /\ closed
  /\ answer' = "arcs"
  /\ UNCHANGED <<vars, faulty, cancelled, jobs, worker, results, closed, collected>>

Answer ==
  /\ answer = "none" /\ results = << >> /\ closed
  /\ answer' = IF cancelled THEN "error" ELSE "arcs"
  /\ UNCHANGED <<vars, faulty, cancelled, jobs, worker, results, closed, collected>>

\* SolveMatching on the arcs, or no decision at all.
Match == answer = "arcs" /\ Step /\ UNCHANGED filterVars

Work(w) == EvaluateDriver(w) \/ JobsClosed(w) \/ SendError(w) \/ SendArcs(w) \/ DropArcs(w)
Caller == Collect \/ Answer \/ Match

EvaluateNext == Cancel \/ (\E w \in Pool : Work(w)) \/ CloseResults \/ Caller

EvaluateSpec == EvaluateInit /\ [][EvaluateNext]_allVars

\* Goroutines that can run do run; nothing obliges a caller to cancel.
FairEvaluateSpec ==
  /\ EvaluateSpec
  /\ \A w \in Pool : WF_allVars(Work(w))
  /\ WF_allVars(CloseResults) /\ WF_allVars(Caller)

-----------------------------------------------------------------------------
FilterTypeOK ==
  /\ faulty \subseteq Drivers
  /\ cancelled \in BOOLEAN /\ closed \in BOOLEAN
  /\ jobs \in Seq(Drivers)
  /\ worker \in [Pool -> [at : {"job", "send", "fail", "ended"}, arcs : SUBSET Candidates]]
  /\ results \in Seq([ok : BOOLEAN, arcs : SUBSET Candidates])
  /\ collected \subseteq Candidates
  /\ answer \in {"none", "arcs", "error"}

\* The arcs the matcher is given are all the feasible pairs: a worker that
\* fails, or that drops what it found because the context was cancelled,
\* never turns into a shorter list that looks complete.
FilterComplete == answer = "arcs" => collected = Candidates

\* However it goes, the evaluation returns, with an error or with the solver's
\* answer, and no worker is left blocked on the channel nobody reads any more.
SearchEnds ==
  <>(/\ answer = "error" \/ (answer = "arcs" /\ pc = "done")
     /\ \A w \in Pool : worker[w].at = "ended"
     /\ closed)
=============================================================================
