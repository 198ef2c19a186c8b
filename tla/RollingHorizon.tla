--------------------------- MODULE RollingHorizon ---------------------------
(***************************************************************************)
(* The epoch loops of internal/service: RollingHorizonRunner.Run and       *)
(* TimeSteppingSimulator.Run, which differ in their end test and in what   *)
(* follows a decision.  Each iteration reads the stream, calls             *)
(* OptimizeEpoch, learns, plans relays and tours, and moves the state on.  *)
(* A context may be cancelled at any time; any stage may fail.             *)
(*                                                                         *)
(* Left out: the figures of the report, beliefs, the value function.       *)
(***************************************************************************)
EXTENDS DispatchPlans

CONSTANTS
  Start, End, Step,  \* epochs of the run
  Hour,              \* OptimizeEpoch's default advance
  InitialFleets,     \* fleets a run may start from
  InitialClocks,     \* information epochs it may start from
  Streams,           \* load -> epoch at which the stream offers it
  Policies           \* those that may be run

ASSUME HorizonAssumption ==
  /\ Start \in Nat \ {0} /\ End \in Nat /\ Start <= End
  /\ Step \in Nat \ {0} /\ Hour \in Nat \ {0}
  /\ InitialFleets \subseteq Fleet
  /\ InitialClocks \subseteq Nat
  /\ Streams \subseteq [Loads -> Nat]
  /\ Policies \subseteq PolicyNames

VARIABLES
  runner,    \* "rolling" or "stepping"
  config,    \* policy, relays (EnableRelays), learning (EnableVFALearning)
  arrival,   \* the stream: the epoch of each load; 0, before the run
  cancelled, \* the context
  pc,
  epoch,     \* the loop variable
  fleet,     \* resource state of currentState
  clock,     \* information epoch of currentState
  action,    \* matches of this epoch
  next,      \* nextState: [fleet, clock]
  batch,     \* the relay dispatch batch of this epoch
  steps,     \* epochs completed: snapshots taken
  journal,   \* what OptimizeEpoch recorded: [epoch, matches]
  failure    \* the error the run returned

static == <<runner, config, arrival>>
vars == <<static, cancelled, pc, epoch, fleet, clock, action, next, batch,
          steps, journal, failure>>

PC == {"top", "learn", "synthesize", "advance", "done"}
Failures == {"none", "context", "evaluation", "validation", "information",
             "append", "learning", "tours"}
\* The failures of an epoch whose decision the journal already has.
LateFailures == {"append", "learning", "tours"}

NoBatch == [relays |-> {}, tours |-> << >>]

Offered(e) == {l \in Loads : arrival[l] = e}

Init ==
  /\ runner \in {"rolling", "stepping"}
  /\ config \in [policy : Policies, relays : BOOLEAN, learning : BOOLEAN]
  /\ runner = "stepping" => ~ config.relays /\ ~ config.learning
  /\ arrival \in Streams
  /\ fleet \in {f \in InitialFleets : f.loads = Offered(0)}
  /\ clock \in InitialClocks
  /\ cancelled = FALSE
  /\ pc = "top"
  /\ epoch = Start
  /\ action = {}
  /\ next = [fleet |-> fleet, clock |-> clock]
  /\ batch = NoBatch
  /\ steps = 0
  /\ journal = << >>
  /\ failure = "none"

Goto(label) == pc' = label

Return(why) ==
  /\ failure' = why
  /\ Goto("done")
  /\ UNCHANGED <<static, cancelled, epoch, fleet, clock, action, next, batch,
                 steps, journal>>

-----------------------------------------------------------------------------
InHorizon ==
  IF runner = "rolling" THEN epoch < End ELSE epoch <= End

Finish == pc = "top" /\ ~ InHorizon /\ Return("none")

SeeCancellation == pc = "top" /\ InHorizon /\ cancelled /\ Return("context")

\* Mutant: the loop's next epoch, wherever the state's clock is.
NextClockOfLoop == epoch + Step

\* The information epoch OptimizeEpoch moves to.
NextClock == IF epoch + Step <= clock THEN clock + Hour ELSE epoch + Step

\* OptimizeEpoch succeeds: the decision is recorded, the next state is ready.
Optimize ==
  /\ pc = "top" /\ InHorizon /\ ~ cancelled
  /\ NextClock > clock
  /\ \E ms \in Actions(config.policy, fleet, clock) :
       /\ ValidateFeasibility(fleet, ms)
       /\ action' = ms
       /\ next' = [fleet |-> Transition(fleet, ms, Offered(epoch)), clock |-> NextClock]
       /\ journal' = Append(journal, [epoch |-> clock, matches |-> ms])
  /\ Goto(IF config.learning THEN "learn" ELSE "synthesize")
  /\ batch' = NoBatch
  /\ UNCHANGED <<static, cancelled, epoch, fleet, clock, steps, failure>>

\* It fails before it recorded anything: a trip cannot be evaluated, or the
\* context is cancelled meanwhile (the priority rule never fails); ...
FailEvaluation ==
  /\ pc = "top" /\ InHorizon /\ ~ cancelled
  /\ config.policy # "PFA" /\ fleet.loads # {}
  /\ Return("evaluation")

\* ... the action is refused, or the information state refuses an epoch that
\* does not advance.
FailOptimize ==
  /\ pc = "top" /\ InHorizon /\ ~ cancelled
  /\ \E ms \in Actions(config.policy, fleet, clock) :
       LET feasible == ValidateFeasibility(fleet, ms)
       IN /\ ~ feasible \/ NextClock <= clock
          /\ Return(IF feasible THEN "information" ELSE "validation")

\* The semantic entry is recorded and the chained store refuses the decision.
FailAppend ==
  /\ pc = "top" /\ InHorizon /\ ~ cancelled
  /\ NextClock > clock
  /\ \E ms \in Actions(config.policy, fleet, clock) :
       /\ ValidateFeasibility(fleet, ms)
       /\ journal' = Append(journal, [epoch |-> clock, matches |-> ms])
  /\ failure' = "append"
  /\ Goto("done")
  /\ UNCHANGED <<static, cancelled, epoch, fleet, clock, action, next, batch, steps>>

\* UpdateFromMatching.
Learn ==
  /\ pc = "learn"
  /\ Goto("synthesize")
  /\ UNCHANGED <<static, cancelled, epoch, fleet, clock, action, next, batch,
                 steps, journal, failure>>
FailLearning == pc = "learn" /\ action # {} /\ Return("learning")

\* SynthesizeRelayBatch, on the state and the action of this epoch.
SynthesizeBatch ==
  /\ pc = "synthesize"
  /\ IF config.relays
     THEN \E R \in SelectRelays(RelayCandidates(fleet)) :
            LET ms == RemainingMatches(action, R)
            IN /\ cancelled /\ MaxTourLegs > 1 => ms = {}
               /\ \E T \in TourPlans(ms, RemainingLoads(fleet.loads, R)) :
                    batch' = [relays |-> R, tours |-> T]
     ELSE batch' = NoBatch
  /\ Goto("advance")
  /\ UNCHANGED <<static, cancelled, epoch, fleet, clock, action, next, steps,
                 journal, failure>>

\* A tour's first load is infeasible for it (a match was made under other
\* limits), or the context is cancelled and a tour asks for a continuation.
FailTours ==
  pc = "synthesize" /\ config.relays /\ action # {} /\ Return("tours")

\* Mutant: the loop counter advances and the state stays.
AdvanceEpochOnly ==
  /\ pc = "advance"
  /\ steps' = steps + 1
  /\ epoch' = epoch + Step
  /\ Goto("top")
  /\ UNCHANGED <<static, cancelled, fleet, clock, action, next, batch, journal, failure>>

\* The snapshot, then currentState = nextState.
Advance ==
  /\ pc = "advance"
  /\ fleet' = next.fleet
  /\ clock' = next.clock
  /\ steps' = steps + 1
  /\ epoch' = epoch + Step
  /\ Goto("top")
  /\ UNCHANGED <<static, cancelled, action, next, batch, journal, failure>>

Cancel ==
  /\ pc # "done" /\ ~ cancelled
  /\ cancelled' = TRUE
  /\ UNCHANGED <<static, pc, epoch, fleet, clock, action, next, batch, steps,
                 journal, failure>>

Returned == pc = "done" /\ UNCHANGED vars

Next ==
  \/ Finish \/ SeeCancellation
  \/ Optimize \/ FailEvaluation \/ FailOptimize \/ FailAppend
  \/ Learn \/ FailLearning \/ SynthesizeBatch \/ FailTours \/ Advance
  \/ Cancel \/ Returned

Spec == Init /\ [][Next]_vars

-----------------------------------------------------------------------------
Entry == [epoch : Nat, matches : SUBSET Match]

TypeOK ==
  /\ runner \in {"rolling", "stepping"}
  /\ config \in [policy : Policies, relays : BOOLEAN, learning : BOOLEAN]
  /\ arrival \in [Loads -> Nat]
  /\ cancelled \in BOOLEAN
  /\ pc \in PC
  /\ epoch \in Nat
  /\ fleet \in Fleet
  /\ clock \in Nat
  /\ action \in SUBSET Match
  /\ next \in [fleet : Fleet, clock : Nat]
  /\ batch \in Batch
  /\ steps \in Nat
  /\ journal \in Seq(Entry)
  /\ failure \in Failures

\* In the plan of an epoch a driver has one part, inbound or outbound half of
\* one relay or a tour, and a load that is relayed is in no other relay and in
\* no tour, wherever in its chain (relay_runner.go, relay_synthesizer.go).
RolesDisjoint ==
  /\ \A x \in batch.relays : x.in # x.out
  /\ \A x, y \in batch.relays : x # y => Disjoint(x, y)
  /\ RelayDrivers(batch.relays) \cap DOMAIN batch.tours = {}
  /\ RelayLoads(batch.relays) \cap TourLoads(batch.tours) = {}

\* The state in hand, also the one a failed run returns, is the one before the
\* last journal entry exactly when the decision was recorded and what follows
\* it in the epoch is not complete or failed; and the entries' epochs increase
\* up to it, wherever the state's clock stood when the run began.
JournalLeads ==
  /\ Len(journal) = steps + (IF \/ pc \in {"learn", "synthesize", "advance"}
                                \/ failure \in LateFailures THEN 1 ELSE 0)
  /\ \A i, j \in 1..Len(journal) : i < j => journal[i].epoch < journal[j].epoch
  /\ \A i \in 1..steps : journal[i].epoch < clock
  /\ Len(journal) > steps => journal[Len(journal)].epoch = clock

\* A policy's action is refused only when some driver is not idle; the state's
\* clock can always advance, also when it is ahead of the loop; and without a
\* load no stage fails but the journal.
FailureExplained ==
  /\ failure # "information"
  /\ failure = "validation" => \E d \in Drivers : ~ IsIdle(fleet.drivers[d])
  /\ failure = "context" => cancelled
  /\ failure \in {"evaluation", "learning", "tours"} => fleet.loads # {}

Ledger == INSTANCE LoadLedger WITH
  outstanding <- fleet.loads,
  served <- UNION {MatchedLoads(journal[i].matches) : i \in 1..steps}

\* The horizon loses no load and serves none twice, over all epochs and
\* whatever was relayed, toured or failed: it implements the ledger of loads.
ImplementsLedger == Ledger!LedgerSpec
=============================================================================
