----------------------------- MODULE Tournament -----------------------------
(***************************************************************************)
(* TournamentRunner (internal/adapter/simulation/tournament.go).           *)
(* RunFactorial2x2 plays its episodes on a pool of workers: the runner     *)
(* fills the channel of jobs, the workers send what they played to the     *)
(* channel of results, a goroutine closes it when all of them ended, and   *)
(* the runner collects.  Run, RunTripartite and Run4Way play the episodes  *)
(* one after the other in the caller's goroutine; Run then plays the first *)
(* seed twice again.  The context may be cancelled at any time.            *)
(***************************************************************************)
EXTENDS MarketEpisode, Functions

CONSTANTS
  Episodes,   \* how many; the runner raises fewer than two to two
  Workers,    \* GOMAXPROCS goroutines, at most as many as episodes
  SeedTables  \* episode -> [market, arrivals]: what its seed's generators give

ASSUME TournamentAssumption ==
  /\ Episodes \in Nat /\ Episodes >= 2
  /\ IsFiniteSet(Workers) /\ Workers # {} /\ Cardinality(Workers) <= Episodes

\* A generator draws the loads of all steps, and those left at the end.
ASSUME SeedAssumption ==
  \A s \in SeedTables, e \in 1..Episodes :
    \A i \in 1..(LoadsPerEpoch * (Steps + 1)) : s[e].arrivals[i] \in Kinds

CONSTANT Runner  \* the caller's goroutine
ASSUME RunnerAssumption == Runner \notin Workers

VARIABLES
  mode,       \* the method that was called
  seeds,      \* episode -> its seed
  marketOK,   \* NewMarketEnvironment accepts the configuration
  cancelled,  \* the context
  jobs,       \* channel of episodes
  jobsClosed,
  results,    \* channel of what workers sent
  resultsClosed,
  thread,     \* goroutine -> [pc, ep, todo, sim, played]
  table,      \* episode -> what was entered for it, an entry for each arm
  parity,     \* DegenerateParityVerified of Run's report
  outcome     \* what the method returned

static == <<mode, seeds, marketOK>>
channels == <<jobs, jobsClosed, results, resultsClosed>>
vars == <<static, cancelled, channels, thread, table, parity, outcome>>

Eps == 1..Episodes
Modes == {"run", "tripartite", "factorial", "fourway"}
ArmsOf ==
  [run |-> <<"N0", "N1">>,
   tripartite |-> <<"N0", "N1Blind", "N1">>,
   factorial |-> <<"N0", "N0Informed", "N1Blind", "N1">>,
   fourway |-> <<"PFA", "CFA", "VFA", "DLA", "N1">>]

Threads == Workers \cup {Runner}
PC == {"off", "next", "play", "played", "collect", "ended"}
NotStarted == << >>
NotPlayed == << >>

Idle(label) ==
  [pc |-> label, ep |-> 0, todo |-> << >>, sim |-> NotStarted, played |-> NotPlayed]

Init ==
  /\ mode \in Modes
  /\ seeds \in SeedTables
  /\ marketOK \in BOOLEAN
  /\ cancelled = FALSE
  /\ jobs = << >> /\ jobsClosed = FALSE
  /\ results = << >> /\ resultsClosed = FALSE
  /\ thread = [t \in Threads |->
       Idle(IF t = Runner \/ mode = "factorial" THEN "next" ELSE "off")]
  /\ table = [e \in Eps |-> NotPlayed]
  /\ parity = FALSE
  /\ outcome = "none"

Cancel ==
  /\ ~ cancelled /\ outcome = "none"
  /\ cancelled' = TRUE
  /\ UNCHANGED <<static, channels, thread, table, parity, outcome>>

-----------------------------------------------------------------------------
(* The episodes of a goroutine *)

Begin(t, e, arms) ==
  thread' = [thread EXCEPT ![t] =
    [pc |-> "play", ep |-> e, todo |-> arms, sim |-> NotStarted, played |-> NotPlayed]]

\* Run has entered every episode: it plays the twins.
Twins == mode = "run" /\ table[Episodes] # NotPlayed

\* A failure of the episode: sent by a worker, which then ends, and returned
\* by the runner, except that a failed twin only costs the parity.
Abort(t) ==
  /\ thread' = [thread EXCEPT ![t] = Idle("ended")]
  /\ IF t = Runner
     THEN /\ outcome' = IF Twins THEN "report" ELSE "error"
          /\ results' = results
     ELSE /\ outcome' = outcome
          /\ results' = Append(results, [ep |-> thread[t].ep, ok |-> FALSE])

Seed(t) == seeds[thread[t].ep]

\* The environment, the generators and the state of the next arm.
StartArm(t) ==
  /\ thread[t].pc = "play" /\ thread[t].sim = NotStarted /\ thread[t].todo # << >>
  /\ IF marketOK
     THEN /\ thread' = [thread EXCEPT ![t].sim = StartEpisode(Head(thread[t].todo), Seed(t))]
          /\ UNCHANGED <<results, outcome>>
     ELSE Abort(t)
  /\ UNCHANGED <<static, cancelled, jobs, jobsClosed, resultsClosed, table, parity>>

\* Evaluate fails when the context is cancelled, unless nothing is on offer.
StepArm(t) ==
  /\ thread[t].pc = "play" /\ thread[t].sim # NotStarted /\ ~ Over(thread[t].sim)
  /\ IF cancelled /\ thread[t].sim.loads # {}
     THEN Abort(t)
     ELSE /\ \E action \in {Decide(thread[t].sim)} :
               \E market \in {StepMarket(thread[t].sim, action, Seed(t))} :
                 thread' = [thread EXCEPT ![t].sim = Settle(@, action, market, Seed(t))]
          /\ UNCHANGED <<results, outcome>>
  /\ UNCHANGED <<static, cancelled, jobs, jobsClosed, resultsClosed, table, parity>>

EndArm(t) ==
  /\ thread[t].pc = "play" /\ thread[t].sim # NotStarted /\ Over(thread[t].sim)
  /\ thread' = [thread EXCEPT
       ![t].pc = IF Len(thread[t].todo) > 1 THEN "play" ELSE "played",
       ![t].todo = Tail(@),
       ![t].sim = NotStarted,
       ![t].played = Append(@, thread[t].sim)]
  /\ UNCHANGED <<static, cancelled, channels, table, parity, outcome>>

-----------------------------------------------------------------------------
(* RunFactorial2x2 *)

Enqueue ==
  /\ mode = "factorial" /\ thread[Runner].pc = "next" /\ thread[Runner].ep < Episodes
  /\ jobs' = Append(jobs, thread[Runner].ep + 1)
  /\ thread' = [thread EXCEPT ![Runner].ep = @ + 1]
  /\ UNCHANGED <<static, cancelled, jobsClosed, results, resultsClosed, table, parity, outcome>>

CloseJobs ==
  /\ mode = "factorial" /\ thread[Runner].pc = "next" /\ thread[Runner].ep = Episodes
  /\ jobsClosed' = TRUE
  /\ thread' = [thread EXCEPT ![Runner].pc = "collect"]
  /\ UNCHANGED <<static, cancelled, jobs, results, resultsClosed, table, parity, outcome>>

\* A worker takes an episode and looks at the context before it plays.
TakeJob(w) ==
  /\ thread[w].pc = "next" /\ jobs # << >>
  /\ jobs' = Tail(jobs)
  /\ IF cancelled
     THEN /\ results' = Append(results, [ep |-> Head(jobs), ok |-> FALSE])
          /\ thread' = [thread EXCEPT ![w] = Idle("ended")]
     ELSE /\ Begin(w, Head(jobs), ArmsOf[mode])
          /\ results' = results
  /\ UNCHANGED <<static, cancelled, jobsClosed, resultsClosed, table, parity, outcome>>

NoMoreJobs(w) ==
  /\ thread[w].pc = "next" /\ jobs = << >> /\ jobsClosed
  /\ thread' = [thread EXCEPT ![w] = Idle("ended")]
  /\ UNCHANGED <<static, cancelled, channels, table, parity, outcome>>

\* Mutant: a channel without a buffer, which somebody has to read.
SendResultUnbuffered(w) ==
  /\ w # Runner /\ thread[w].pc = "played" /\ results = << >> /\ outcome = "none"
  /\ results' = Append(results, [ep |-> thread[w].ep, ok |-> TRUE, played |-> thread[w].played])
  /\ thread' = [thread EXCEPT ![w] = Idle("next")]
  /\ UNCHANGED <<static, cancelled, jobs, jobsClosed, resultsClosed, table, parity, outcome>>

SendResult(w) ==
  /\ w # Runner /\ thread[w].pc = "played" /\ Len(results) < Episodes
  /\ results' = Append(results, [ep |-> thread[w].ep, ok |-> TRUE, played |-> thread[w].played])
  /\ thread' = [thread EXCEPT ![w] = Idle("next")]
  /\ UNCHANGED <<static, cancelled, jobs, jobsClosed, resultsClosed, table, parity, outcome>>

\* Mutant: the channel is closed as soon as there are no more jobs.
CloseResultsEarly ==
  /\ mode = "factorial" /\ ~ resultsClosed /\ jobsClosed
  /\ jobs = << >>
  /\ resultsClosed' = TRUE
  /\ UNCHANGED <<static, cancelled, jobs, jobsClosed, results, thread, table, parity, outcome>>

\* The goroutine that waits for the workers, started once the jobs are closed.
CloseResults ==
  /\ mode = "factorial" /\ ~ resultsClosed /\ jobsClosed
  /\ \A w \in Workers : thread[w].pc = "ended"
  /\ resultsClosed' = TRUE
  /\ UNCHANGED <<static, cancelled, jobs, jobsClosed, results, thread, table, parity, outcome>>

\* The first error returns; what is still played is never collected.
Collect ==
  /\ thread[Runner].pc = "collect" /\ results # << >>
  /\ results' = Tail(results)
  /\ LET r == Head(results)
     IN  IF r.ok
         THEN /\ table' = [table EXCEPT ![r.ep] = r.played]
              /\ UNCHANGED <<thread, outcome>>
         ELSE /\ thread' = [thread EXCEPT ![Runner] = Idle("ended")]
              /\ outcome' = "error"
              /\ table' = table
  /\ UNCHANGED <<static, cancelled, jobs, jobsClosed, resultsClosed, parity>>

\* Every result was read and the channel is closed: the report, whose means,
\* effects and tests are left out.
ReportFactorial ==
  /\ thread[Runner].pc = "collect" /\ results = << >> /\ resultsClosed
  /\ thread' = [thread EXCEPT ![Runner] = Idle("ended")]
  /\ outcome' = "report"
  /\ UNCHANGED <<static, cancelled, channels, table, parity>>

-----------------------------------------------------------------------------
(* Run, RunTripartite, Run4Way *)

NextEpisode ==
  /\ mode # "factorial" /\ thread[Runner].pc = "next" /\ thread[Runner].ep < Episodes
  /\ IF cancelled
     THEN /\ thread' = [thread EXCEPT ![Runner] = Idle("ended")]
          /\ outcome' = "error"
     ELSE /\ Begin(Runner, thread[Runner].ep + 1, ArmsOf[mode])
          /\ outcome' = outcome
  /\ UNCHANGED <<static, cancelled, channels, table, parity>>

EnterEpisode ==
  /\ thread[Runner].pc = "played" /\ ~ Twins
  /\ table' = [table EXCEPT ![thread[Runner].ep] = thread[Runner].played]
  /\ thread' = [thread EXCEPT ![Runner].pc = "next"]
  /\ UNCHANGED <<static, cancelled, channels, parity, outcome>>

\* Run plays the blind arm twice on the first seed and compares.
PlayTwins ==
  /\ mode = "run" /\ thread[Runner].pc = "next" /\ thread[Runner].ep = Episodes
  /\ Begin(Runner, 1, <<"N0", "N0">>)
  /\ UNCHANGED <<static, cancelled, channels, table, parity, outcome>>

CompareTwins ==
  /\ thread[Runner].pc = "played" /\ Twins
  /\ parity' = (Score(thread[Runner].played[1]).net = Score(thread[Runner].played[2]).net)
  /\ thread' = [thread EXCEPT ![Runner] = Idle("ended")]
  /\ outcome' = "report"
  /\ UNCHANGED <<static, cancelled, channels, table>>

Report ==
  /\ mode \in {"tripartite", "fourway"}
  /\ thread[Runner].pc = "next" /\ thread[Runner].ep = Episodes
  /\ thread' = [thread EXCEPT ![Runner] = Idle("ended")]
  /\ outcome' = "report"
  /\ UNCHANGED <<static, cancelled, channels, table, parity>>

-----------------------------------------------------------------------------
Play(t) == StartArm(t) \/ StepArm(t) \/ EndArm(t)
Work(w) == Play(w) \/ TakeJob(w) \/ NoMoreJobs(w) \/ SendResult(w)
Main ==
  \/ Play(Runner) \/ Enqueue \/ CloseJobs \/ Collect \/ ReportFactorial
  \/ NextEpisode \/ EnterEpisode \/ PlayTwins \/ CompareTwins \/ Report

Next == Cancel \/ Main \/ CloseResults \/ \E w \in Workers : Work(w)

Spec == Init /\ [][Next]_vars

\* Some goroutine that can run does; nobody has to cancel.  No more is needed,
\* since none of them can run for ever.
Progress == Main \/ CloseResults \/ \E w \in Workers : Work(w)
FairSpec == Spec /\ WF_vars(Progress)

-----------------------------------------------------------------------------
\* The episodes being played; one that is over is seen here before its end.
Sims == {thread[t].sim : t \in {x \in Threads : thread[x].sim # NotStarted}}

TypeOK ==
  /\ mode \in Modes /\ seeds \in SeedTables /\ marketOK \in BOOLEAN
  /\ cancelled \in BOOLEAN /\ jobsClosed \in BOOLEAN /\ resultsClosed \in BOOLEAN
  /\ jobs \in Seq(Eps) /\ Len(jobs) <= Episodes
  /\ Len(results) <= Episodes
  /\ \A t \in Threads : thread[t].pc \in PC /\ thread[t].ep \in 0..Episodes
  /\ \A e \in Eps : Len(table[e]) \in {0, Len(ArmsOf[mode])}
  /\ parity \in BOOLEAN /\ outcome \in {"none", "report", "error"}
  /\ \A s \in Sims : s.loads \subseteq Load /\ s.belief \in Beliefs /\ s.posture \in Postures

\* A report has every arm of every episode, in the order of the arms, played
\* to its last step on the seed of that episode, whichever worker played it
\* and in whatever order the results came; an error needs a cancelled context
\* or a market configuration that is refused; and the twins of Run have equal
\* scores unless they were cancelled ("must yield identical payouts").
ReportComplete ==
  /\ outcome = "report" =>
       \A e \in Eps, i \in 1..Len(ArmsOf[mode]) :
         /\ Len(table[e]) = Len(ArmsOf[mode])
         /\ table[e][i].arm = ArmsOf[mode][i]
         /\ Over(table[e][i])
         /\ table[e][i].log[1].offered = GenerateStochasticLoads(seeds[e].arrivals, 0, 0)
  /\ outcome = "error" => cancelled \/ ~ marketOK
  /\ mode = "run" /\ outcome = "report" => parity \/ cancelled

\* No load is won twice or lost sight of, although one that was lost is
\* offered again: what arrived is won or on offer, what was earned is what
\* the winning prices add up to, and cost is paid once for each load won.
LoadsConserved ==
  \A s \in Sims : s.log # << >> =>
    LET arrived == s.log[1].offered \cup UNION {s.log[i].incoming : i \in DOMAIN s.log}
        price(i) == MapThenSumSet(LAMBDA l : CarrierPrice(l, s.log[i].action.bids), s.log[i].won)
    IN  /\ arrived = s.loads \cup s.won /\ s.loads \cap s.won = {}
        /\ Cardinality(s.won) = MapThenSumSet(LAMBDA i : Cardinality(s.log[i].won), DOMAIN s.log)
        /\ s.revenue = MapThenSumSet(price, DOMAIN s.log)
        /\ s.cost = MapThenSumSet(LAMBDA l : l.cost, s.won)

\* What the arms of an episode have in common: the loads that arrive at a
\* step, always; the postures of the market as long as equally many loads
\* were on offer in each step before.
CommonNumbers ==
  \A t \in {x \in Threads : thread[x].pc = "played"} : \A i, j \in DOMAIN thread[t].played :
    LET a == thread[t].played[i].log
        b == thread[t].played[j].log
        offers(log, n) == [k \in 1..n |-> Cardinality(log[k].offered)]
    IN  \A n \in 1..Steps :
          /\ a[n].incoming = b[n].incoming
          /\ offers(a, n - 1) = offers(b, n - 1) => a[n].posture = b[n].posture

\* An arm that prices never drives below the cost of the trip and the base
\* hurdle of $75, however the auctions went ("never bid below trip cost +
\* minimum hurdle margin"), and what it is told of its bids is true.
PricedArmsSound ==
  \A s \in Sims : Arm[s.arm].prices =>
    \A i \in DOMAIN s.log :
      /\ \A l \in s.log[i].won :
           CarrierPrice(l, s.log[i].action.bids) >= l.cost + 7500
      /\ \A f \in s.log[i].feedback :
           f.won <=> \E l \in s.log[i].won : l.id = f.id

\* Whatever fails and whoever is left behind, the method returns, the workers
\* end and the channel of results is closed: no goroutine is left blocked.
GoroutinesEnd ==
  <>(/\ outcome # "none"
     /\ \A t \in Threads : thread[t].pc \in {"ended", "off"}
     /\ mode = "factorial" => resultsClosed)

=============================================================================
