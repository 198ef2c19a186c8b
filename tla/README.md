# TLA+ models of project_mittens

project_mittens is a freight dispatch optimizer written in Go. A request carries
the state of a fleet; the service chooses an action with one of several
policies, validates it, moves the state on, and records the decision in two
journals: a semantic one that explains it and a hash-chained one that makes it
tamper evident. Live data (positions of drivers, offered and cancelled loads)
arrives as a stream and is merged into the state. Drivers are bound by Hours of
Service rules, which a small simulator applies.

The models in this directory cover the parts where order, concurrency, failure
or long histories decide whether the result is right: the journals in memory,
in a file and in PostgreSQL, the service that writes them and the REST and gRPC
doors in front of it, replay, the stream buffer, the Hours of Service clocks and
the trips, tours and relays planned on them, the pipeline of filter and assignment behind a
policy, the epoch loops that run the policies over a horizon, and the tournament
that plays them against a market.

    tlc -workers 2 -config MCMemoryStore.cfg MCMemoryStore.tla
    tlapm StoreProofs.tla

## The system

### Components, their state and what is hard about them

| Component | Code | State | Operations | Hard part |
|---|---|---|---|---|
| Hash-chained journal in memory | `pkg/journal/store.go`, `record.go` | two atomic snapshots (`recordsMap`, `runMap`), a mutex | `Append`, `Get`, `ListByRun`, `LastRecord`, `VerifyRunChain` | readers take no lock and run between the two stores of an `Append` |
| Hash-chained journal in a file | `pkg/journal/store.go` | the memory store, a JSON Lines file | `NewFileStore`, `Append` | failing writes and syncs, crashes, lines too long to load, loading what they leave |
| Semantic journal | `internal/service/journal.go` | an atomic pointer to a slice | `Record`, `Count`, `GetEntry` | a compare-and-swap loop under contention |
| Optimization service | `internal/service/orchestrator.go` | none of its own | `OptimizeEpoch` | reads the heads and lengths of both journals, without a lock, many steps before it writes |
| PostgreSQL journal store | `internal/adapter/db/journal_store.go`, `deploy/postgres/init.sql` | rows, retained entries in memory | `Append`, `Record`, `Count`, `LastRecord`, `ListByRun` | row locks at READ COMMITTED, commits in doubt, restarts |
| Stream buffer and synchronizer | `internal/adapter/stream` | maps of pings, tenders and cancellations | `Ingest...`, `CancelTender`, `Drain`, `Synchronize` | out-of-order pings, tender against cancellation, batches |
| Hours of Service | `internal/domain/model/hos` | clocks (immutable values) | `ApplyDrive`, `ApplyOnDutyNotDriving`, `ApplyOffDuty`, `Simulate` | four overlapping limits, rests that count in four ways, splits that roll |
| Resource state | `internal/domain/model/resource.go`, `action.go` | drivers and loads (immutable) | `Transition`, `ValidateFeasibility` | relays and tours, which leave loads behind |
| Horizon and time stepping | `internal/service/rolling_horizon.go`, `simulator.go` | the epoch and the current state | the epoch loop | the same load offered again, what one epoch leaves to the next |
| Feasibility filter, tour and relay synthesizers, dispatch runners | `model/feasibility`, `domain/policy`, `service/dispatch` | worker pools, result channels | fan out, collect | cancellation, partial results, order of results |
| Matcher | `domain/policy/matcher.go`, `pkg/math/lap.go` | none | solve an assignment | the best assignment with pairs that may be dropped |
| Policies, learning, belief, mathematics | `domain/policy`, `domain/model`, `pkg/math` | floating point parameters | scoring, updating | numerics |
| Tournament, market simulator | `internal/adapter/simulation` | two random generators, the posture of the competitor, a belief | play an episode, collect results | a worker pool that is left at the first error; arms compared on common random numbers |
| HTTP and gRPC decision endpoints, hashing, replay | `internal/adapter/api`, `internal/adapter/grpc`, `pkg/journal/hasher.go`, `pkg/replay` | none of their own | validate, optimize, explain, replay, verify | two doors with different rules over one journal; a record keeps less than the decision was made from |
| Repositories, commands, telemetry | `internal/adapter/db`, `cmd`, `pkg` | connections, pools | translate and call the above | start-up and shutdown order |
| Python SDK, web console, generated code | `sdk`, `web`, `proto` | | | |

### How they interact

    HTTP / gRPC handlers --- OptimizeEpoch ---> policy, validation, transitions
          |                        |
          |                        +--> journal.Count, cryptoStore.LastRecord   (reads)
          |                        +--> journal.Record, cryptoStore.Append      (writes)
          |                                  |                 |
          |                         MemoryJournal        MemoryStore, FileStore
          |                                  \----- or ------/
          |                               PostgresJournalStore (one store as both)
          |
          +--- stream endpoints --> StreamBuffer --Drain--> Synchronize --> resource state
                                                                            |
    feasibility filter, relays, Transition ------- Simulate (HOS) ----------+

`cmd/server/main.go` picks the stores: without a database the semantic journal
is a `MemoryJournal` and the chained one a `MemoryStore`; with one a single
`PostgresJournalStore` is both, and `OptimizeEpoch` then leaves out its second
append. A `FileStore` is only reached through `WithCryptoStore`, which the
server does not call. `Synchronize` has no caller but tests; it is modelled as
the consumer its package describes.

### What makes each component correct

* Chained journals: every run verifies at all times and for every reader; an id
  names one record; nothing that was acknowledged disappears or changes.
* The service: the entries explain the chain, one entry per decision; numbers
  and ids stay usable as keys although they are computed from stale reads; a
  request fails only for a reason; requests do not keep each other in the journal's
  loop, and when no more come each is answered.
* The doors: a refused request leaves no trace; an id that was answered can be
  read, explained and verified; a replay vouches only for what was computed.
* Filter and matcher: an answered list of pairs is complete; the duals are shadow
  prices of the assignment; nobody is left blocked on a channel.
* The tournament: a report is complete and in order, arms differ only in what they
  decide, loads and money add up.
* The stream: a load is not both offered and cancelled; the newest position
  wins; buffering is invisible to whoever looks at the merged book of loads.
* Hours of Service: what the running clocks allow is what the rules, read over
  the driver's whole log, allow; time is neither lost nor invented.

## Modules

| Module | Models | Composes |
|---|---|---|
| `MerkleChain` | `record.go` and the chain check: records, digests, links | |
| `ChainLog` | what a `JournalStore` promises (abstract) | `MerkleChain` |
| `MemoryStore` | `MemoryStore`: every step of `Append` and of `VerifyRunChain` | `MerkleChain`, implements `ChainLog` |
| `DecisionRecords` | ids and records `OptimizeEpoch` builds | `MerkleChain` |
| `OptimizeService` | concurrent `OptimizeEpoch` calls, `MemoryJournal` | `DecisionRecords`, client of `ChainLog` |
| `ApiRequests` | what REST and gRPC make of a request, what of it is recorded, and what a replay decides | |
| `DecisionApi` | the decision endpoints over one service | `OptimizeService`, `ApiRequests` |
| `FileStore` | `FileStore` with long lines, faults and crashes | `MerkleChain`, uses `ChainLog` for the index |
| `PostgresJournal` | `PostgresJournalStore` under concurrent calls | `DecisionRecords` |
| `StreamFeed` | the stream endpoints and their batches | |
| `DispatchBook` | the book of loads without a buffer (abstract) | |
| `StreamSync` | `StreamBuffer` and `Synchronize` | `StreamFeed`, implements `DispatchBook` |
| `HosClocks` | `PolicySpecs`, `DriverClocks` and their operations | |
| `DutyLog` | the rules over a whole duty log (abstract) | `HosClocks` for the constants of a policy |
| `HosSimulator` | `Simulate`, call after call | `HosClocks`, implements `DutyLog` |
| `TripFeasibility` | `EvaluateTripFeasibility` as a journey of simulations | `HosSimulator` |
| `Itineraries` | the tour `TourSynthesizer` chains and the segments of a relay, on the clocks of a driver | `TripFeasibility` |
| `AssignmentSolver` | `SolveLAP`, one iteration a step | |
| `AssignmentMatcher` | `BipartiteMatcher`: payout matrix, exact and greedy matches | `AssignmentSolver` |
| `PolicyEvaluation` | the filter's worker pool and the matching of what it answers | `AssignmentMatcher` |
| `FleetState` | `ResourceState`, `Action`: feasibility and `Transition` | |
| `DispatchPolicies` | what each policy may answer: filter, assignment, epochs of the matches | `FleetState` |
| `DispatchPlans` | `RelayDispatchRunner`, `DispatchRunner` and their synthesizers | `DispatchPolicies` |
| `LoadLedger` | a load is offered, outstanding and served once (abstract) | |
| `RollingHorizon` | the `Run` methods of the rolling horizon runner and of the time stepping simulator | `DispatchPlans`, implements `LoadLedger` |
| `MarketEnvironment` | postures, prices, auction and feedback of the market | |
| `BeliefPricing` | `BeliefFilter.Filter`, the competitive policy's prices and the matches behind them | `MarketEnvironment` |
| `MarketEpisode` | an episode of each of the eight arms | `BeliefPricing` |
| `Tournament` | the four methods of `TournamentRunner` with their goroutines | `MarketEpisode` |
| `StoreProofs`, `OptimizeProofs`, `PostgresJournalProofs`, `StreamSyncProofs`, `HosSimulatorProofs`, `PolicyEvaluationProofs`, `RollingHorizonProofs`, `TournamentProofs` | theorems | |

A module `MCx` gives the constants of `x` values for TLC; a configuration
`MCxSomething.cfg` belongs to it too. Definitions that
follow a comment `Mutant:` are not part of the model: each is a version of the
definition below it with a plausible mistake, kept to show that a property
notices it.

### Correspondence to the code

*MerkleChain.* A SHA-256 digest is represented by all it commits to, the
sequence of bodies from the first record of the chain. That is the usual
assumption of collision freedom, made concrete: `RecordHash` appends the body to
the previous digest, and two digests are equal exactly when the histories are.
Tampering is a record whose `hash` is not `RecordHash(prev, body)`.

*MemoryStore.* `recordsMap` and `runMap` are the two `atomic.Pointer` snapshots,
`mu` the append mutex. An `Append` is `CallAppend` (with the integrity check it
makes before it locks), `Lock`, then one of `RejectDuplicate`, `RejectLink` or
`StoreRecords`, and `StoreRuns`, which also unlocks: the copies of the maps are
private until the two stores publish them, so these are the only points another
goroutine can see. A reader's `VerifyRunChain` is `StartVerify` (the lookup of
the run through `Get`) and `ListRun`, each one atomic load.

*OptimizeService.* A call goes through `Start`, `NumberDecision` (`Count` for
the id), `ReadHead` (`LastRecord`), `SealRecord` (`Count` again, then the
digest), `LoadEntries` and `SwapEntries` (the compare-and-swap loop of
`MemoryJournal.Record`, whose loads of the pointer are steps of their own) and
`AppendRecord`. Evaluating the policy, hashing and the state transitions
touch nothing shared; they appear as `Fail`, at every point where the code
returns an error before it has recorded anything. `AppendRecord` is atomic,
which `MemoryStore`'s refinement of `ChainLog` justifies.

*DecisionApi, ApiRequests.* A request is what its door reads: the class of the
policy, the scale of the competitors, the configuration, and whether drivers and
loads hold or require an endorsement. `RestRefuses` and `GrpcRefuses` are the
doors' checks (`handlers.go`, `grpc/server.go`), `PolicyOf` and `StateOf` their
conversions, `Encode` and `Decode` the canonical bytes a record keeps
(`hasher.go`), `Replay` the engine's verdict. `HandleOptimize` and
`GrpcOptimize` are the only actions that are not `OptimizeService`'s: a read
endpoint takes the entries with one atomic load and changes nothing, so what it
shows (`GetEntry`, `ExplainDecision`, `ReplayDecision`) is a function of the state.
`VerifyMerkleChain` of gRPC reads twice, first to verify and then to count
(`grpc/server.go:613`). A run only grows, so what was verified are the first `n`
records of the run that is counted, for any `n`; there is an `n` in
`VerifyMerkleChain(run, n)` and `AnswersAudited` is about all of them.

*FileStore.* `state` walks through `AppendMem`, `Write`, `Sync` in the order of
the code; each may fail or be cut by `Crash`. The file is its complete lines and
the text behind the last newline; `CutShort` is what a failed write may leave
and `Survivors` what a crash may leave of unsynced text. `NewFileStore` has four
ends: `Load`, `Refuse` (a line does not parse, does not fit, or is `TooLong` for the
16 MB of the scanner), `ReadFails` (the file cannot be opened or read) and
`OpenUnseen`, where `os.Stat` fails and the store comes up without reading. Which
bodies make such long lines is the constant `Oversized`. `missed` remembers what was
acknowledged before a start that read nothing.

*PostgresJournal.* The transaction of `Append` is split at its statements, and
`SELECT ... FOR UPDATE` once more into its snapshot (`SelectLast`) and its lock
(`LockLast`), since that is where READ COMMITTED shows. `EnsureRun` waits for an
uncommitted run row, `InsertRow` for an uncommitted row of the same key; both
waits, and the errors after them, follow `deploy/postgres/init.sql`. The integrity
check that comes before the transaction is a conjunct of `EnsureRun`, its refusal a
case of `RejectCorrupted`. When the ten seconds of the context run out or
the connection breaks while the commit is on its way (`DoubtCommit`), the call
returns an error and its transaction stays open, with its locks and its key, until
the commit takes effect (`Land`) or the database gives it up (`Abort`), however many
calls begin and end in between. A `Restart` loses the calls that run and keeps the
commits that were sent. A `Count` that fails numbers a record 1.

*StreamSync.* Producers ingest their batches item by item, one critical section
each; `Drain` swaps the maps; the merge is `Synchronize` from the drained batch
to the new state.

*HosClocks, HosSimulator.* A clocks value is a record with the counters of
`DriverClocks`, each operation the function the method computes. `Simulate` is a
loop, and each iteration of its inner loops is an action: `Drive`, `Duty`,
`Rest`, `Hold`, or the `InsertRequiredReset` that precedes them. Border crossing
and (un)loading are the same loop and one event kind. Left out are the wall
clock, the duty status and the minutes per day, which no rule reads, and the
adverse conditions extension, which nothing sets.

*TripFeasibility.* `leg` is the call of `Simulate` the evaluation is at. Each
action between two calls does what the code does there: it notes the arrival,
inserts a wait when the window is not open, and starts the next call on the
clocks of the last. Miles and speed appear as the minutes they are rounded to,
and those of the deadhead twice: `deadhead`, rounded up by `Simulate`
(`simulator.go:315`), and `planned`, rounded down by the tour synthesizer
(`tour_synthesizer.go:178`). A trip that is `near` begins within a tenth of a mile,
for which a tour has no deadhead leg and the clocks still have the minute.

*Itineraries.* `StartTour` and `Continue` begin the evaluation of the first load
and of a candidate of `findBestContinuation`; `ChainLoad` appends the four legs
of `simulateSingleLoad`, `PassOver` is its refusal, `CancelTour` the look at the
context, `NewDriverTour` the end with its home leg and the validation. A
behaviour follows one line of the search, and a load that was passed over ends
it, because the clocks of this model only go on; which of the feasible loads has
the largest contribution is free. `InboundSegment` and `OutboundSegment` are the
two halves of `EvaluateRelayFeasibility` from the view of their driver, with what
the other one contributes as a constant. Distances between places, equipment,
costs and the detour ratio are left out. A plan starts at the driver's
`AvailableEpoch`, a field of its own: `Availability` says how far it may be ahead of
or behind the epoch his clocks have come to.

*AssignmentSolver, AssignmentMatcher.* `u`, `v`, `p`, `way`, `minv`, `used` are
the arrays of `SolveLAP` and `pc` its loops: `BeginRow`, `Scan` (one round of the
shortest path search), `Augment`. Transposition and negation are in `Cost`, `n`
and `m`. When the search is over, `Assigned` is the assignment it found and
`RowToCol` what is answered of it: a pair that pays less than nothing is taken out
again (`Pruned`, `lap.go:200`), while its row and column keep their duals. Payouts
are integers where the code has floating point, so rounding is not seen.
`ExactMatching` and `GreedyMatching` are what `SolveMatching` makes of the answer
and its alternative; only payouts above zero are kept, as in the code.

*PolicyEvaluation.* Each send and receive on `jobsChan` and `resultsChan` of
`FilterCandidates` is an action. The select of a worker that delivers its arcs
has two ready branches once the context is cancelled, so `SendArcs` and `DropArcs`
are both enabled. Evaluating the pairs of one driver shares nothing and is part of
`EvaluateDriver`. For matrices outside `Screened` the pool has already answered,
which keeps the larger matrices affordable.

*FleetState, DispatchPolicies, DispatchPlans.* A fleet is the drivers, with place,
`AvailableEpoch` and `AssignedLoadID`, and the outstanding loads. The conditions
that read real numbers (hours, windows, scores, margins) are free choices: any
set of the arcs within the deadhead distance may be feasible and score, so a
policy may answer every one-to-one set of them. What the policies differ in, the
epoch at which they dispatch a match, is kept. Relays are any selection of
pairwise disjoint exchanges, tours any chains of near loads, each built from the
same remaining loads. Places stand for coordinates, `Near` for the deadhead
limit. The worker pools of the lookahead and the runners share nothing they write
but channels whose results are ordered afterwards, so an evaluation and a
synthesis are one step each; for the filter `PolicyEvaluation` shows that what
its pool answers does not depend on the schedule.

*RollingHorizon.* Both `Run` methods are one loop: `runner` tells the end test
(`InHorizon`) and whether relays and learning may be on. An iteration is
`Optimize` (stream, `OptimizeEpoch` with its journal entries and the next state),
`Learn`, `SynthesizeBatch`, `Advance`; each can return an error instead
(`FailEvaluation`, `FailOptimize`, `FailAppend`, `FailLearning`, `FailTours`,
`SeeCancellation`), and `Cancel` may happen at any time. `OptimizeEpoch` is one
step here because a run calls it alone; its interleavings are the subject of
`OptimizeService`.

*MarketEnvironment, BeliefPricing, MarketEpisode.* A generator is the sequence of
its draws and a position in it, so that two arms on one seed read the same
numbers for as long as they consume equally many. Prices are cents, draws are
percentages, log-likelihoods are hundredths; the parameters are those of the
default configurations. A belief is its most likely posture. `Decide`,
`StepMarket` and `Settle` are the three parts of an iteration of
`executeSimulationLoop`. The score of a match under PFA, VFA and DLA is taken to
be CFA's, since those arms neither price nor believe.

*Tournament.* `thread` has the goroutines: the caller's, which fills the channel
of jobs and collects (`RunFactorial2x2`) or plays itself (`Run`, `RunTripartite`,
`Run4Way`), and the workers. The goroutine that waits for the workers and closes
the channel of results is `CloseResults`.

## What the runs check

| Run | Shows |
|---|---|
| `memory_store` | Two writers and a reader, two runs, two decision ids. `StoreInv`, the inductive invariant of the proofs, holds: among the rest, chains verify at every point, ids are unique and the index is never behind the runs. A verification started after an `Append` returned finds the record (`VerifierSound`); the store refines `ChainLog` (`ImplementsLog`). |
| `optimize` | Three requests by REST and gRPC. All they do to the store is what `ChainLog` allows (`ImplementsLog`): chains verify and ids are unique although calls compute equal ones; batch numbers increase along a run although they are stale (`SeqIncreases`), since the link check refuses whoever read an old head. Each entry is kept once (`EntriesKeptOnce`), a refusal has a concurrent winner of the same run (`RejectedOnlyByRace`), an answered id shows its own entry or that of a refused call it overlapped (`AnswerReadable`), the integrity report of a run counts exactly the responses that named it (`AnswersAudited`), a replay that reports bit exact vouches for what the explanation shows (`ReplaySound`), calls do not keep each other in the loop of `Record`, whichever of them run, and when no more come each is answered (`CallsAnswered`). That one call may be overtaken for ever by others that never stop coming is how the loop works, and not excluded. |
| `replay_bit_exact` (violated) | A gRPC decision for drivers and loads with an endorsement is replayed without it and reported as divergent. |
| `file_store` | Lines too long to load, failing writes, syncs and reads, starts that do not see the file, and two crashes anywhere. A store that is up verifies and has every acknowledged record but those from before a start that read nothing (`AckedKept`); only a long line, a cut one or a fault makes a file unloadable (`RefusesOnlyFaults`). |
| `postgres` | Three calls of one policy with failing `Count` and `LastRecord` queries, failing transactions, commits in doubt and a restart. Rows stay linked (`RowsLinked`), a run has one genesis (`OneGenesis`); acknowledged means committed (`AckedCommitted`). A run that does not verify has two rows with one predecessor whose calls overlapped, where a call lasts until its commit is settled, or a row that got its number from a failed `Count` and sorts before its predecessor (`ForksAreRaces`). Nobody waits for a transaction that is over, and no transactions wait for each other in a circle (`WaitsEnd`). |
| `postgres_fork` (violated) | Two transactions lock the same last row one after the other, both pass the link check, and the run forks. |
| `stream` | Two producers against `Drain` and merge. A load is never offered and cancelled in the buffer at once (`TenderXorCancel`), the newest ping of a window wins (`NewestWins`), and buffer and merge together implement the unbuffered book (`ImplementsBook`). |
| `hos` | Calls of `Simulate`, then trips, tours and relays, under each of four policies shaped like those of `policy.go`. `ClocksMatchLog`: each clock equals what `DutyLog` computes from the whole history. `ImplementsLog`: only legal periods are added. `ClocksCoupled`, `WorkConserved`. `PlanTimes`: a trip's duration is its driving, service and rest, and no work falls before a window opens (`TripAddsUp`); a tour has no gap, its last haul ends when the clocks do, and it is refused exactly when the wait of a trip is longer than its work and what its pickup slips, by the clocks against the plan, since it starts at `AvailableEpoch` with a deadhead rounded down (`TourTimes`); a relay's clocks end when its segment does, but for the wait at the pickup and what `AvailableEpoch` was ahead (`RelayTimes`). `EvaluationEnds`: no sequence of limits and inserted rests loops. |
| `horizon` | Both loops under each of five policies, any stream, relays and tours, cancellation and a failure at any stage. No load is lost or served twice over the horizon (`ImplementsLedger`); in a plan a driver has one part and a relayed load is nowhere else (`RolesDisjoint`); the state a run returns is behind the journal exactly after a late failure (`JournalLeads`); a refused action means a driver who was not idle, and the clock of the state never stops a run (`FailureExplained`). |
| `tournament` | The four methods, cancellation at any point and a refused configuration. A report has every arm of every episode, played to its end, in order, and `Run`'s twins agree (`ReportComplete`); loads and money add up although what was lost is offered again (`LoadsConserved`); the arms share arrivals always and postures for as long as equally many loads were on offer (`CommonNumbers`); an arm that prices never drives below cost and hurdle, and what it is told of its bids is true (`PricedArmsSound`); no goroutine is left behind (`GoroutinesEnd`). |
| `evaluation` | The filter's pool with a failing driver and a cancellation at any moment answers all feasible pairs or an error (`FilterComplete`); the duals are shadow prices of the assignment, and whoever of the longer side is left over is worth nothing or was taken out of a pair that pays less than nothing (`ShadowPrices`); no assignment of the whole shorter side earns more than the exact matches (`BestComplete`); everything ends, workers included (`SearchEnds`). |
| `matcher_greedy` (violated) | Two drivers and two loads, one pair without a candidate: the exact matcher gives up a match of 10 for two of 1, because it may not leave anybody of the shorter side without a pair; the greedy one keeps it. |

### Bounds

Two writers and one reader are enough for every pair of steps in `MemoryStore` to
meet, and two ids and two runs for a duplicate within and across runs.
`optimize` uses three calls because two can only race pairwise: with three, one
can win while another is still in the compare-and-swap loop of a third. By REST
they may be CFA requests, one against competitors at other costs, or one of a
refused class; by gRPC a VFA request or one that is refused; so calls meet on the
same run and on different ones, and the replayed records include one that cannot
be bit exact. Three calls are also the fewest with which a fork in PostgreSQL can
be extended and in which a commit in doubt lands behind a call that began since;
the one restart falls between any two steps, and all faults are possible together. They
are alike, so `NextInTurn` lets them start in the order of their numbers.
`FileStore` has three decisions over two runs, one of them `Oversized`, and
`MaxCrashes = 2`: one crash to cut a line and one to load a file that was written
behind the cut. The stream run
has one driver (drivers do not interact), two loads, and time stamps 1 and 2, an
older and a newer one; its producers are symmetric.

In the `hos` run a unit is about 75 minutes of a US day, and the four policies
keep their proportions. `MaxCalls = 3` lets a pending split part meet a reset or a
second part with work in between, and the plan with four events exceeds every
limit. A trip is evaluated after at most `MaxHistory = 2` calls; the four trips
come late, early for one window, early for both, and exceed the daily driving and
the `Horizon` of 72 hours; one is near, and one has a deadhead that is planned
with a unit less than it takes. `Availability` is before, at and after the clocks.
A second load is chained after at most one call (`MaxPlanHistory`), which leaves
tours that are accepted and refused with one and with two loads (`MaxTourLegs =
2`). The four relays have an inbound driver who waits for the pickup, an outbound
one who waits at the hub or comes late, hubs open always, by day and by night, and
a segment too long for a shift.

`evaluation` has all matrices of two drivers and three loads and of three and two
over three scores, one of them negative, and those of three and three over two
scores with a first row in order, the smallest in which a path turns twice. The
pool has two workers: for three drivers one worker takes two, for two each takes
one. At most one driver is faulty; a second error changes nothing, since the
first returns.

The `horizon` run has three drivers, the fewest with a relay of two and a match
beside it, and three loads between three places, placed so that relays compete
for drivers and loads and tours chain two loads (`MaxTourLegs = 2`). A horizon of
two or three epochs is enough for a load to arrive before, in and between the
epochs (`Streams` 0, 1, 3), to be planned in one and settled in the next. The
state's clock starts behind (1) or ahead (4) of the loop, which with `Step = 2`
and `Hour = 1` takes both branches of `NextClock`. One driver may be under way
at the start.

`tournament` plays two episodes, the fewest the runner allows, on two workers, so
results arrive in either order and one worker may play both. Three steps are
enough to lose a load, be told, and bid again on what was learned; the draws of 10
and 90 percent reach every posture from every other, and the loads are such that
the arms win and lose different ones.

The theorems remove the bounds of the properties they state.

### Fairness

`WF` on the steps of a goroutine says that one that can run does run, which the Go
scheduler provides: `Work(w)`, `CloseResults` and `Caller` for the filter. For
`OptimizeEpoch` and the tournament less is assumed, that some goroutine of those
that can run does (`Proceed` of some call, `Progress`): `CallsAnswered` does not lean
on a scheduler that gives every call its turn in the loop of `Record`. For trips,
tours and relays it is `WF` of `Journey` and of the `Proceed` of calls and segments
beside it. Nothing obliges a client to ask, a caller to cancel, or a fault or crash
to happen. The runs of the chained journals in memory, in a file and in PostgreSQL,
of streams and of epoch loops check safety and refinement and use no fairness.

## What is proved

All theorems hold for every value of the constants that satisfies the named
assumptions of the modules, which say what kind of thing a constant is; no bound
of a run appears in them.

`StoreProofs`, the store in memory: sealed records and appended chains stay well formed, and
`HeadDetermines`, the tamper evidence the journal exists for: two chains that
verify and end in the same digest are equal. `StoreSafe`: `StoreInv` is an
invariant. It has to say more than the properties it contains. Only the holder of
the mutex is between the checks and the publication (`MutexHeld`); a record
between the two stores is in the index, continues its run and has an id no run
holds (`PendingAppends`); runs hold their own records (`RecordsFiled`, without
which an append to one run could disturb another); and a reader that resolved an
acknowledged decision has it in the run it is about to list (`ListingSound`).
From it follow `ChainsAlwaysVerify`, `RunsAlwaysIndexed`, `IDsAlwaysUnique`,
`VerifierAlwaysSound`, the action property `StoreAppendOnly`, and
`StoreImplementsLog`: each step of the store is a commit of `ChainLog` (the
second store) or a stutter. The assumption is `StoreAssumption` of the module,
that a body names a run and an id and that `Free` is no writer.

`StoreProofs`, the store in a file: `FileSafe`, the invariant `FileInv` of
`FileSpec`. What was synced is a prefix of the file (`DurablePrefix`), and a
record that was acknowledged is one of the synced lines (`AckedFiled`), with one
exception: behind a cut line it merges with it into a line that does not parse,
and then no reload accepts the file. Until something fails the file loads unless
it has a long line, and memory holds what is in it (`Intact`); since a crash may
leave any prefix of the lines that were not synced, `Sane` says it of all prefixes
at once. A store that came up unseen holds what was acknowledged since; what was
before is `missed`, and the next start that reads the file has it or refuses.
Hence `AcksSurvive` and `RefusalsHaveFaults`. A chain whose links verify commits
to its history (`VerifiedCommits`), so a store knows of the records it loads what
it knew of those it sealed. `OfRun`, what a reload takes of the texts, is a
recursive function: `TakesExists` shows that there is one for any texts, and
`OfRunAppend` and `OfRunKeeps` what it does, each by a smallest counterexample.

`OptimizeProofs`: `ServiceSafe`, the invariant `ServiceInv` of concurrent
`OptimizeEpoch` calls. `SeqIncreases` rests on a comparison of two stale reads, so
the invariant ties what a call has read to what happened since: its number is at
most one more than the entries there were (`CountOK`), what it read of its run is
still a prefix and all that followed came from calls that overlap it (`LinkOK`),
and a call whose record was there before another began has the smaller number
(`OverlapOK`). The journal holds the record of each call past `Record` once
(`JournalInv`), a run exactly those of its answered calls (`ChainInv`). Hence
`SequencesIncrease`, `RefusalsAreRaces`, `EntriesOnce`, `AuditExplainsChain`,
`ServiceImplementsLog` (every commit is admissible to `ChainLog`),
`DoorsImplementService` (REST and gRPC are clients of the service, and refused
requests and readers do not disturb it) and `AnswersAreAudited`. For
`AnswersReadable` the invariant is `ReadInv`: of two entries whose calls did not
overlap the earlier has the smaller number (`EntriesOrdered`), and no two answered
calls have one id (`IDsUnique`). `GetEntry` finds the first of several entries.
`ReplaysVouch` needs no history: it is about what encoding and decoding keep of any
state that can be recorded (`BitExactMeans`).

`PostgresJournalProofs`: `JournalSafe`, the invariant `JournalInv`. What a call
holds follows from where its transaction stands: its record is sealed and in
memory, it has a committed run row or its own uncommitted one, and what it
selected is a committed row of its run (`CallOK`). `OneGenesis` needs two facts
about run rows: uncommitted ones exclude each other, and a committed one comes
with a row of the run (`RunsOK`), so that whoever finds no row to lock has the run
to himself. A commit in doubt keeps all this (`CallOK` speaks of open
transactions, not of running calls). From it follow `RowsAlwaysLinked`,
`GenesisUnique` and `AcksAreCommitted`, with any number of calls, faults and restarts.
`TransactionsNeverDeadlock` adds that a row is locked only behind the link check
(`LocksHeld`); then who is blocked waits for a call that is further on
(`BlockedByLater`), and a call whose commit is on its way waits for nobody. Since a
transaction takes each step once, every call returns where the database grants the
locks that are free and ends the transactions of broken connections.
`ForksOnlyByRaces` adds `ForkInv`: a call writes at most one row, at its end; a
row's number is at most the number of rows and, unless its `Count` failed, larger
than that of the row it follows (`RowsNumbered`); and while the rows of a run are in
order, a call has met the writer of every row that extends the
head it read (`CallsMet`), and so two rows that follow the same row come from
calls that met (`TwinsMet`). A run out of order already has its misnumbered row.
Nothing is assumed of the faults.

`StreamSyncProofs`: `StreamSafe`, the invariant `StreamInv`: besides the two
properties, a running call stands at an item of its batch and nothing is drained
between two synchronizations. Hence `TendersExcludeCancels`, `NewestPingWins` and
`BookImplemented`: ingesting an item is a step of `DispatchBook`, `Drain` and the
merge are stutters, because `Effective` of buffer, drained batch and state does
not change.

`HosSimulatorProofs`: `TypeCorrect`, that no clock falls below zero under any
policy `Validate` accepts, and `ClocksAlwaysCoupled`. One lemma per operation
shows that it keeps a clocks value sound, one per way of spending time lifts it to
the simulator. `LogInv` relates the clocks to the log. `Mirrors` adds to the four
clocks of `ClocksMatchLog` what their updates depend on: the off duty streak is
that at the end of the log, and a pending split is the last part taken since the
last full rest. `LegalSince` says that every period added since the call began is
legal after those before it. `ClocksTellTheLog` and `LogImplemented`, the
refinement of `DutyLog`, follow. `DutyLog` speaks of sums and of last occurrences
in a log of any length: the lemmas on them (`Minutes` of a log one period longer,
of a split set, of a subset) replace induction by a smallest counterexample among
the finite sets of positions. `NoWorkLost` needs in addition that the head of the
plan and the period written for it have the same minutes (`PlannedTail` and its
kin).

`HosSimulatorProofs`, the plans: a step of `ItinerarySpec` is a call with some
events, a step of a call that runs, or leaves the clocks and the log alone. This
is `AnyStep`, and the lemmas on a step are about it, so that each of the four
properties above holds of `ItinerarySpec` too (`PlanningKeepsCoupling`,
`PlanningMatchesLog`, `PlanningLosesNoWork`, `PlanningImplementsLog`).
`PlansTellTheTime` is `PlanTimes` for trips, tours and relays of any length, any
deadheads planned shorter or longer than they take and any `Availability`; its
invariant `ItineraryInv` adds to `LogInv` how far a plan is. `JourneyInv`, of a
trip: a running call has come as far as what is left of its event and the rests it
took say (`CallTimes`), the calls that returned took the work of their legs and
the rest added up (`TripTimes`), and once its wait is over a window is open
(`WindowsOpen`), which is what `ServedInTime`, that nothing was served before, rests
on. `TourInv`: the legs of a tour lead without a gap up to now, or up to when the
evaluation of the next load began; and one of them ends before it starts exactly
when a trip waits for longer than its work takes and `Slip`. Only the first trip of a
tour can be ahead of the clocks. `RelayInv`: what the log is long
and what is left of the segment add up to its end, but for the wait at the pickup
and what the start was ahead.
`MaxTourLegs`, `Horizon` and the other bounds may be any numbers. The code's
minutes are natural numbers here, and places are one, as in the module.

`PolicyEvaluationProofs`, the solver: `SolverSafe`, the invariant of the shortest
augmenting path search: the inserted rows hold different columns, also while a
path is turned from its hole (`Matching`); no reduced cost of an inserted row is
negative, that of a matched pair is zero, and a column without a row has price
zero (`Prices`); every column of the search tree hangs on a free edge, and `minv`
is the least reduced cost from the tree (`Search`). From it follow `ColumnLeft`,
that the search never finds itself at distance `Inf`, `PricesAreShadowPrices` (a
pair that is pruned has reduced cost zero, which is what makes it `Worthless`),
and by duality `ExactMatchesAreBest`: nobody earns more than the prices of both
sides, what no row holds has no price, and what the matcher leaves out of the
answer of the solver does not pay. A payout of a pair that is no candidate has to
be negative (`MatcherAssumption`), or the matcher would leave out something that
pays. `Value` is a sum over a set; the lemmas on `Total` (of a set with one
element less, of two functions, of other elements with the same numbers, of a
part) are shown on a smallest counterexample among the subsets.

`PolicyEvaluationProofs`, the filter: `EvaluationSafe`. While nothing failed, every
feasible pair is with its driver in the queue, with a worker, on the channel or collected
(`NothingLost`); the first worker does not leave before the jobs do
(`JobsServed`); the channel is closed after all workers ended (`ClosedLast`); and
results and running workers together fit into the buffer (`Places`). Hence
`FilterAlwaysComplete`, `RoomForAll` (no worker ever waits for room, which is why
one that a failed call leaves behind ends), and, since every step of an
evaluation is a step of `SolveLAP` or leaves it alone (`EvaluationSolves`),
`EvaluationPrices` and `EvaluationMatches`.

`RollingHorizonProofs`: `HorizonSafe`, that `HorizonInv` is an invariant.
`JournalLeads` and `FailureExplained` are not inductive: between `Optimize` and
`Advance` the invariant has to know that the state being prepared is the one the
recorded action leads to, with a later clock (`Prepared`), that everything
outstanding or served was offered before this epoch (`Arrived`, without which an
offered load might be one already served), and that only a run that returned has
failed (`RunsUnfailed`). Its base is `AnswersSane`: what any of the policies may
answer is one to one and over outstanding loads, so `ValidateFeasibility` can
refuse it only for a driver who is not idle. From it follow `TypeCorrect`,
`JournalAlwaysLeads`, `FailuresAlwaysExplained`, and `LedgerImplemented`: `Advance`
settles the epoch's matches and offers in `LoadLedger`, every other step
stutters. `RolesAlwaysDisjoint` follows from the greedy selection and from what
the runner takes out of the pool of tours. The assumptions are those named in
the modules (`FleetAssumption`, `PolicyAssumption`, `PlanAssumption`,
`HorizonAssumption`): types of the constants, positive start, step and hour, and
a start not after the end.

`TournamentProofs`: `TournamentInv`, the invariant of the four methods and their
goroutines. `Course` is the sequence of states an arm goes through on a seed, a
recursive function; `CourseSteps` is all the proofs know of it. What a goroutine
plays is a state of the course of its arm on the seed of its episode, what it has
played are `Final` states in the order of the arms (`PlayOK`), and so are the
results on the channel and the entries of the table (`ResultsOK`, `TableOK`).
Until something fails, an episode is yet to be sent, on a channel, being played or
entered (`SequentialOK`, `ParallelOK`), so that a table that is reported is full;
`MarketOK` and `OutcomeOK` say where an error comes from. `ReportIsComplete`
follows. For `NumbersAreCommon` two courses on one seed are compared step by step:
they draw equally many arrivals whatever they decide, and equally many numbers of
the market while equally many loads are on offer. `PricedArmsAreSound` needs that
the loads on offer are known by their numbers (`CourseOffers`), so that an auction
won, a bid and the match behind it are about the same load. For
`LoadsAreConserved` each step of a course takes what it won from the loads on offer
and adds arrivals with higher numbers (`KeepsAccounts`); that the money is what the
log adds up to needs the lemmas on `Total` that `PolicyEvaluationProofs` has too,
stated here again since the two modules cannot extend each other, and one lemma
for each summand (`EarnedSum`, `CostSum`). The one assumption on
the seeds, `SeedAssumption`, is that a generator draws loads for all steps.

Only model-checked: liveness (`CallsAnswered`, `EvaluationEnds`, `GoroutinesEnd`,
`SearchEnds`), which the prover cannot treat under fairness.
What a recursive definition computes for every input would need induction over
data, which the provers cannot do either; where a proof depends on one (`OfRun`,
`Course`), a smallest counterexample takes its place.
Every invariant and action property of the passing runs is a theorem.

## Where code and documents disagree

* `internal/adapter/grpc/server.go:534` promises "bit-exact deterministic replay";
  `DecodeCanonicalResource` (`pkg/journal/hasher.go:349`) gives recorded
  endorsements to the driver and not to the equipment the filter asks, so a
  decision for loads that require them is replayed as divergent
  (`replay_bit_exact`).
* `internal/adapter/db/journal_store.go:19`: "verifying hash chain continuity";
  two transactions can extend the same row (`postgres_fork`).
* `internal/domain/policy/matcher.go:20`: the exact algorithm is there "to guarantee
  mathematical global optimality across competing driver preferences"; a pair without
  a candidate costs the sentinel and the whole shorter side must be matched before
  what does not pay is dropped (`matcher_greedy`). The test that compares it with the
  greedy one (`lap_matcher_test.go:134`) does so on a dense matrix of positive
  scores, where it is right.

Seen while modelling and not given a run of their own:

* Journals. Concurrent calls compute equal decision ids (`orchestrator.go:152`),
  which only the chained store refuses; the loser of a race has an entry in the
  semantic journal and no record
  (`docs/stochflow_journaling_audit_and_explainability.md:49`), and `GetEntry`,
  which returns the first entry with an id, may show that entry for the id of the
  winner. The index of a `FileStore` keeps a record whose `Append` failed
  (`store.go:227`), and a write behind a cut line is acknowledged and yet
  unreadable (`store.go:243`, against `:222`). A line longer than the 16 MB of the
  scanner (`:204`) is acknowledged, and keeps the file from ever being opened again.
  `NewFileStore` takes any error of `os.Stat` for a missing file (`:185`) and comes up
  without the records that are there. `Count` answers 0 when its query
  fails (`journal_store.go:363`). After a failed `Append` over PostgreSQL
  `GetEntry` answers with the entry of the failed attempt
  (`journal_store.go:255`).
* Doors. gRPC serves policy classes it does not know with CFA and accepts requests
  without drivers, where REST refuses. A replay always uses the default CFA
  against no competitors, whatever the request had. `VerifyMerkleChain` reports
  one verified record for a run without records.
* Stream. A batch is ingested item by item, and a rejected one leaves its first
  items in the buffer (`buffer.go:56`, `:83`: "atomically"). After a `Drain` an
  older ping is accepted (`buffer.go:48`). A cancellation leaves the
  `AssignedLoadID` of a driver (`synchronizer.go:151`).
* Tours and relays. `simulateSingleLoad` adds a wait for a window as a leg of its
  own (`tour_synthesizer.go:254`) and again within `InsertedRestMin` (`:275`,
  since `simulator.go:387` counts it as rest), so the loaded leg is too short by
  the wait, and `NewDriverTour` refuses a tour whose trips are all feasible when
  the wait exceeds loading, haul and unloading (`tour.go:93`). Its deadhead legs are
  rounded down to whole minutes where the clocks round up
  (`tour_synthesizer.go:178`, `simulator.go:315`), and it starts at `AvailableEpoch`
  (`:91`), as a relay does (`relay.go:144`), whatever the clocks say; the haul of the
  first trip makes up for the difference. The inbound events
  of a relay lack the wait for the pickup (`relay.go:178`): his clocks end that
  much before his `EndEpoch`, and the wait does not use up his shift. The home
  leg is on no clocks (`tour_synthesizer.go:391`).
* Hours of Service. The cycle clock never gets a day back (`clocks.go:187`, `:217`,
  against "rolling multi-day window" at `:52`). The code errs on the side of
  caution.
* Tournament. A match without a price is decided by the listed revenue and
  reported to the belief as a bid of 0, hence always as won (`market_env.go:193`,
  against `observation.go:19`). Loads that were lost stay on offer. Arms that won
  differently many loads consume differently many draws, after which their
  generators differ (`CommonNumbers` says how far they agree). The columns of the
  factorial report that hold the conditional value of information are not filled
  (`tournament.go:1240`), although an identity between them is checked (`:1949`).
* Epoch loops. Neither filter nor policies look whether a driver is idle, so one
  driver under way whom a policy matches ends the run with an error
  (`action.go:127`), in every epoch in which he is matched. Loads that a plan
  relays or chains behind the first one stay in the state and are planned again
  (`rolling_horizon.go:304`). Two tours of an epoch may chain the same load
  (`runner.go:115`). Matches are dispatched at the `AvailableEpoch` of the first
  driver by id (`cfa.go:227`), whoever is matched. `EstimatedTransitEpochs` is
  added to epochs in seconds and subtracted from hours (`resource.go:291`). A
  relay search that is cancelled returns what it has as a success
  (`relay_synthesizer.go:152`).
* Shutdown. `main.go` stops gRPC gracefully, and then `Server.Shutdown` closes the
  pool before the HTTP server has finished (`server.go:251`): a REST call in
  flight may read a `Count` of 0 and no last record, and its `Append` is refused.

## Not modelled

* Floating point numerics: scores and costs, the slopes of the value functions and
  their learning, rollouts of the lookahead, exact beliefs, and `pkg/math` but for
  the assignment solver. They appear as free choices where control depends on
  them.
* The costs of relays and tours, and the time lines of `Itineraries` inside an
  epoch of `RollingHorizon`: what they may exclude is a free choice in
  `DispatchPlans`.
* Server shutdown as an action. What it does to a request in flight over
  PostgreSQL, failing counts, reads and transactions, are faults of
  `PostgresJournal`, which the run `postgres` and the theorems about its rows have
  all together.
* The streaming methods of gRPC and the simulation, scenario and repositioning
  endpoints, which wrap what is modelled; the fleet and run repositories, which
  are single statements (`UpsertDrivers` and `UpsertLoads` write row by row
  without a transaction).
* Parsers, provenance texts, reports, telemetry, commands; the Python SDK, the web
  console, deployment files and generated code.

What would come next: the concavity that `UpdateCAVE` restores, on integer slopes;
the lookahead's and the runners' pools, which are built like the filter's; and
the costs by which tours and relays are chosen.
