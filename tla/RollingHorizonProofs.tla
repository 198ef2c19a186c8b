------------------------ MODULE RollingHorizonProofs ------------------------
(***************************************************************************)
(* For every fleet, stream, horizon and policy: an epoch loop keeps its    *)
(* types, settles every load once, gives every driver one part in a plan,  *)
(* is ahead of its journal by what JournalLeads says, and fails for the    *)
(* reasons FailureExplained lists.                                         *)
(***************************************************************************)
EXTENDS RollingHorizon, TLAPS

\* The epoch's decision is recorded; what follows it is not finished.
Deciding == pc \in {"learn", "synthesize", "advance"}

Served == UNION {MatchedLoads(journal[i].matches) : i \in 1..steps}

-----------------------------------------------------------------------------
(* What a policy answers *)

\* The assumptions on the constants, for the provers.
LEMMA Constants ==
  /\ Origin \in [Loads -> Places] /\ Destination \in [Loads -> Places]
  /\ Transit \in [Loads -> Nat] /\ FirstDriver \in Drivers
  /\ Start \in Nat /\ Start > 0 /\ Step \in Nat /\ Step > 0 /\ Hour \in Nat /\ Hour > 0
  /\ MaxTourLegs \in Nat /\ MaxTourLegs > 0
  /\ InitialFleets \subseteq Fleet /\ InitialClocks \subseteq Nat
  /\ Streams \subseteq [Loads -> Nat] /\ Policies \subseteq PolicyNames
BY FleetAssumption, PolicyAssumption, PlanAssumption, HorizonAssumption

\* An action of well-typed matches that give nobody and nothing twice.
Sane(ms, f) ==
  /\ ms \in SUBSET Match
  /\ OneToOne(ms)
  /\ MatchedLoads(ms) \subseteq f.loads

\* The matcher's one-to-one arcs make a sane action.
LEMMA AssignmentSane ==
  ASSUME NEW f \in Fleet, NEW M \in Matchings(Arcs(f)), NEW e \in [Drivers -> Nat]
  PROVE  Sane({[driver |-> a[1], load |-> a[2], epoch |-> e[a[1]]] : a \in M}, f)
<1> DEFINE ms == {[driver |-> a[1], load |-> a[2], epoch |-> e[a[1]]] : a \in M}
<1>1. M \subseteq Drivers \X f.loads /\ \A a, b \in M : a # b => a[1] # b[1] /\ a[2] # b[2]
  BY DEF Matchings, Arcs
<1>2. f.loads \subseteq Loads
  BY DEF Fleet
<1>3. ms \in SUBSET Match
  BY <1>1, <1>2 DEF Match
<1>4. OneToOne(ms)
  <2> SUFFICES ASSUME NEW m \in ms, NEW n \in ms, m # n
               PROVE  m.driver # n.driver /\ m.load # n.load
    BY DEF OneToOne
  <2>1. PICK a \in M : m = [driver |-> a[1], load |-> a[2], epoch |-> e[a[1]]]
    OBVIOUS
  <2>2. PICK b \in M : n = [driver |-> b[1], load |-> b[2], epoch |-> e[b[1]]]
    OBVIOUS
  <2>3. a # b
    BY <2>1, <2>2
  <2> QED BY <2>1, <2>2, <2>3, <1>1
<1>5. MatchedLoads(ms) \subseteq f.loads
  BY <1>1 DEF MatchedLoads
<1> QED BY <1>3, <1>4, <1>5 DEF Sane

\* So does the dispatch of all of them at one epoch.
LEMMA MatchesAtSane ==
  ASSUME NEW f \in Fleet, NEW M \in Matchings(Arcs(f)), NEW e \in Nat
  PROVE  Sane(MatchesAt(M, e), f)
<1> DEFINE at == [d \in Drivers |-> e]
<1>1. Sane({[driver |-> a[1], load |-> a[2], epoch |-> at[a[1]]] : a \in M}, f)
  BY AssignmentSane
<1>2. \A a \in M : at[a[1]] = e
  BY DEF Matchings, Arcs
<1>3. {[driver |-> a[1], load |-> a[2], epoch |-> at[a[1]]] : a \in M} = MatchesAt(M, e)
  BY <1>2 DEF MatchesAt
<1> QED BY <1>1, <1>3

\* Every policy's answer is sane, whichever driver is busy.
LEMMA AnswersSane ==
  ASSUME NEW f \in Fleet, NEW k \in Nat, NEW p \in PolicyNames, NEW ms \in Actions(p, f, k)
  PROVE  Sane(ms, f)
<1>1. FirstFree(f) \in Nat
  BY Constants DEF FirstFree, Fleet, Driver
<1>2. ASSUME ms \in CFA(f) \cup VFA(f) \cup PiecewiseVFA(f) PROVE Sane(ms, f)
  BY <1>1, <1>2, MatchesAtSane DEF CFA, VFA, PiecewiseVFA
<1>3. ASSUME ms \in DLA(f, k) PROVE Sane(ms, f)
  <2>1. (IF k > 0 THEN k ELSE FirstFree(f)) \in Nat
    BY <1>1
  <2> QED BY <1>3, <2>1, MatchesAtSane DEF DLA
<1>4. ASSUME ms \in PFA(f) PROVE Sane(ms, f)
  <2> DEFINE free == [d \in Drivers |-> f.drivers[d].free]
  <2>1. PICK M \in Matchings(Arcs(f)) :
          ms = {[driver |-> a[1], load |-> a[2], epoch |-> f.drivers[a[1]].free] : a \in M}
    BY <1>4 DEF PFA
  <2>2. free \in [Drivers -> Nat]
    BY DEF Fleet, Driver
  <2>3. \A a \in M : free[a[1]] = f.drivers[a[1]].free
    BY DEF Matchings, Arcs
  <2>4. ms = {[driver |-> a[1], load |-> a[2], epoch |-> free[a[1]]] : a \in M}
    BY <2>1, <2>3
  <2> QED BY <2>2, <2>4, AssignmentSane
<1>5. ms \in CFA(f) \cup VFA(f) \cup PiecewiseVFA(f) \cup DLA(f, k) \cup PFA(f)
  BY Zenon DEF Actions, PolicyNames
<1> QED BY <1>2, <1>3, <1>4, <1>5

-----------------------------------------------------------------------------
(* The transition *)

\* A transition by a sane action yields a fleet with the loads the ledger expects.
LEMMA TransitionTyped ==
  ASSUME NEW f \in Fleet, NEW ms, Sane(ms, f), NEW L \in SUBSET Loads
  PROVE  /\ Transition(f, ms, L) \in Fleet
         /\ Transition(f, ms, L).loads = (f.loads \ MatchedLoads(ms)) \cup L
<1>1. ASSUME NEW d \in Drivers PROVE MovedDrivers(f, ms)[d] \in Driver
  <2>1. f.drivers[d] \in Driver
    BY DEF Fleet
  <2>2. ASSUME NEW m \in ms PROVE Moved(f.drivers[d], m) \in Driver
    <3>1. m.load \in Loads /\ m.epoch \in Nat
      BY DEF Sane, Match
    <3>2. Destination[m.load] \in Places /\ m.epoch + Transit[m.load] \in Nat
      BY <3>1, Constants
    <3> QED BY <2>1, <3>2 DEF Moved, Driver
  <2>3. CASE d \in MatchedDrivers(ms)
    <3>1. (CHOOSE m \in ms : m.driver = d) \in ms
      BY <2>3 DEF MatchedDrivers
    <3> QED BY <2>2, <2>3, <3>1 DEF MovedDrivers
  <2>4. CASE d \notin MatchedDrivers(ms)
    BY <2>1, <2>4 DEF MovedDrivers
  <2> QED BY <2>3, <2>4
<1>2. MovedDrivers(f, ms) \in [Drivers -> Driver]
  BY <1>1 DEF MovedDrivers
<1> QED BY <1>2 DEF Transition, Fleet

-----------------------------------------------------------------------------
(* The inductive invariant *)

\* The next state is that of the recorded action; its clock is ahead.
Prepared ==
  Deciding =>
    /\ MatchedLoads(action) \subseteq fleet.loads
    /\ next.fleet.loads = (fleet.loads \ MatchedLoads(action)) \cup Offered(epoch)
    /\ next.clock > clock
    /\ journal[Len(journal)].matches = action

\* What is outstanding or served was offered before this epoch.
Arrived == \A l \in fleet.loads \cup Served : arrival[l] < epoch

\* Only a run that returned has failed.
RunsUnfailed == pc # "done" => failure = "none"

HorizonInv ==
  /\ TypeOK
  /\ JournalLeads
  /\ FailureExplained
  /\ Prepared
  /\ Arrived
  /\ RunsUnfailed

\* A run starts in the invariant.
LEMMA InitKeeps == Init => HorizonInv
<1> SUFFICES ASSUME Init PROVE HorizonInv
  OBVIOUS
<1>1. TypeOK
  <2>1. NoBatch \in Batch
    <3>1. << >> \in [{} -> Tour]
      OBVIOUS
    <3> QED BY <3>1 DEF NoBatch, Batch
  <2>2. fleet \in Fleet /\ clock \in Nat /\ arrival \in [Loads -> Nat] /\ epoch \in Nat
    BY Constants DEF Init
  <2>3. next \in [fleet : Fleet, clock : Nat]
    BY <2>2 DEF Init
  <2>4. << >> \in Seq(Entry)
    OBVIOUS
  <2> QED BY <2>1, <2>2, <2>3, <2>4 DEF Init, TypeOK, PC, Failures
<1>2. JournalLeads
  BY DEF Init, JournalLeads, LateFailures
<1>3. FailureExplained
  BY DEF Init, FailureExplained
<1>4. Prepared /\ RunsUnfailed
  BY DEF Init, Prepared, Deciding, RunsUnfailed
<1>5. Arrived
  <2>1. Served = {}
    BY DEF Init, Served
  <2> QED BY <2>1, Constants DEF Init, Arrived, Offered
<1> QED BY <1>1, <1>2, <1>3, <1>4, <1>5 DEF HorizonInv

\* A clock the loop hands on is ahead of the state's.
LEMMA ClockAdvances ==
  ASSUME TypeOK
  PROVE  NextClock \in Nat /\ NextClock > clock
BY Constants DEF TypeOK, NextClock

\* A policy's answer to the state in hand.
LEMMA AnswerSane ==
  ASSUME TypeOK, NEW ms \in Actions(config.policy, fleet, clock)
  PROVE  Sane(ms, fleet)
<1>1. config.policy \in PolicyNames
  BY Constants DEF TypeOK
<1> QED BY <1>1, AnswersSane DEF TypeOK

\* It is refused only for a driver who is not idle.
LEMMA RefusedForBusyDriver ==
  ASSUME TypeOK, NEW ms \in Actions(config.policy, fleet, clock),
         ~ ValidateFeasibility(fleet, ms)
  PROVE  \E d \in Drivers : ~ IsIdle(fleet.drivers[d])
<1>1. Sane(ms, fleet)
  BY AnswerSane
<1>2. \A m \in ms : m.driver \in Drivers /\ m.load \in fleet.loads
  BY <1>1 DEF Sane, Match, MatchedLoads
<1>3. DOMAIN fleet.drivers = Drivers
  BY DEF TypeOK, Fleet
<1> QED BY <1>1, <1>2, <1>3 DEF ValidateFeasibility, Sane

\* Returning changes nothing but the outcome: the invariant is kept if the
\* failure is explained and late exactly when the decision is recorded.
LEMMA ReturnKeeps ==
  ASSUME HorizonInv, NEW why \in Failures, Return(why), pc # "done",
         why \in LateFailures <=> Deciding,
         why # "information",
         why = "validation" => \E d \in Drivers : ~ IsIdle(fleet.drivers[d]),
         why = "context" => cancelled,
         why \in {"evaluation", "learning", "tours"} => fleet.loads # {}
  PROVE  HorizonInv'
<1>0. UNCHANGED <<runner, config, arrival, cancelled, epoch, fleet, clock,
                  action, next, batch, steps, journal>>
      /\ failure' = why /\ pc' = "done"
  BY DEF Return, static, Goto
<1>1. TypeOK'
  BY <1>0 DEF HorizonInv, TypeOK, PC
<1>2. JournalLeads'
  <2>1. failure = "none"
    BY DEF HorizonInv, RunsUnfailed
  <2>2. Len(journal) = steps + (IF Deciding THEN 1 ELSE 0)
    BY <2>1 DEF HorizonInv, JournalLeads, LateFailures, Deciding
  <2>3. Len(journal') = steps' + (IF \/ pc' \in {"learn", "synthesize", "advance"}
                                     \/ failure' \in LateFailures THEN 1 ELSE 0)
    BY <1>0, <2>2
  <2> QED BY <1>0, <2>3 DEF HorizonInv, JournalLeads
<1>3. FailureExplained'
  BY <1>0 DEF FailureExplained, HorizonInv
<1>4. Prepared' /\ RunsUnfailed'
  BY <1>0 DEF Prepared, Deciding, RunsUnfailed
<1>5. Arrived'
  BY <1>0 DEF HorizonInv, Arrived, Served
<1> QED BY <1>1, <1>2, <1>3, <1>4, <1>5 DEF HorizonInv

-----------------------------------------------------------------------------
(* The steps *)

\* An epoch that fails, or a run that ends, keeps the invariant.
LEMMA EndingsKeep ==
  ASSUME HorizonInv, \/ Finish \/ SeeCancellation \/ FailEvaluation
                     \/ FailOptimize \/ FailLearning \/ FailTours
  PROVE  HorizonInv'
<1> USE DEF Failures, LateFailures, Deciding
<1>1. CASE Finish
  BY <1>1, ReturnKeeps DEF Finish
<1>2. CASE SeeCancellation
  BY <1>2, ReturnKeeps DEF SeeCancellation
<1>3. CASE FailEvaluation
  BY <1>3, ReturnKeeps DEF FailEvaluation
<1>4. CASE FailOptimize
  <2>1. PICK ms \in Actions(config.policy, fleet, clock) :
          /\ ~ ValidateFeasibility(fleet, ms) \/ NextClock <= clock
          /\ Return(IF ValidateFeasibility(fleet, ms) THEN "information" ELSE "validation")
    BY <1>4 DEF FailOptimize
  <2>2. ~ ValidateFeasibility(fleet, ms)
    BY <2>1, ClockAdvances DEF HorizonInv, TypeOK
  <2>3. Return("validation") /\ pc = "top"
    BY <1>4, <2>1, <2>2 DEF FailOptimize
  <2>4. \E d \in Drivers : ~ IsIdle(fleet.drivers[d])
    BY <2>2, RefusedForBusyDriver DEF HorizonInv
  <2> QED BY <2>3, <2>4, ReturnKeeps
<1>5. CASE FailLearning
  <2>1. pc = "learn" /\ action # {} /\ Return("learning")
    BY <1>5 DEF FailLearning
  <2>2. fleet.loads # {}
    BY <2>1 DEF HorizonInv, Prepared, MatchedLoads
  <2> QED BY <2>1, <2>2, ReturnKeeps
<1>6. CASE FailTours
  <2>1. pc = "synthesize" /\ action # {} /\ Return("tours")
    BY <1>6 DEF FailTours
  <2>2. fleet.loads # {}
    BY <2>1 DEF HorizonInv, Prepared, MatchedLoads
  <2> QED BY <2>1, <2>2, ReturnKeeps
<1> QED BY <1>1, <1>2, <1>3, <1>4, <1>5, <1>6

\* What both a success and a late refusal of OptimizeEpoch do to the journal.
LEMMA Recorded ==
  ASSUME HorizonInv, pc = "top", NEW ms \in SUBSET Match,
         journal' = Append(journal, [epoch |-> clock, matches |-> ms]),
         steps' = steps
  PROVE  /\ journal' \in Seq(Entry)
         /\ Len(journal') = steps' + 1
         /\ journal'[Len(journal')] = [epoch |-> clock, matches |-> ms]
         /\ \A i \in 1..steps : journal'[i] = journal[i]
         /\ \A i \in 1..steps : journal'[i].epoch < clock
         /\ \A i, j \in 1..Len(journal') : i < j => journal'[i].epoch < journal'[j].epoch
         /\ Served' = Served
<1>1. journal \in Seq(Entry) /\ steps \in Nat /\ clock \in Nat
  BY DEF HorizonInv, TypeOK
<1>2. [epoch |-> clock, matches |-> ms] \in Entry
  BY <1>1 DEF Entry
<1>3. Len(journal) = steps
  BY <1>1 DEF HorizonInv, JournalLeads, RunsUnfailed, LateFailures
<1>4. /\ journal' \in Seq(Entry) /\ Len(journal') = steps + 1
      /\ journal'[steps + 1] = [epoch |-> clock, matches |-> ms]
      /\ \A i \in 1..steps : journal'[i] = journal[i]
  BY <1>1, <1>2, <1>3
<1>5. \A i \in 1..steps : journal'[i].epoch < clock
  BY <1>4 DEF HorizonInv, JournalLeads
<1>6. ASSUME NEW i \in 1..Len(journal'), NEW j \in 1..Len(journal'), i < j
      PROVE  journal'[i].epoch < journal'[j].epoch
  <2>1. i \in 1..steps
    BY <1>1, <1>4, <1>6
  <2>2. CASE j = steps + 1
    BY <1>4, <1>5, <2>1, <2>2
  <2>3. CASE j # steps + 1
    <3>1. j \in 1..steps
      BY <1>1, <1>4, <2>3
    <3> QED BY <1>3, <1>4, <1>6, <2>1, <3>1 DEF HorizonInv, JournalLeads
  <2> QED BY <2>2, <2>3
<1>7. Served' = Served
  BY <1>4 DEF Served
<1> QED BY <1>1, <1>4, <1>5, <1>6, <1>7

\* A decision that is recorded and acted on.
LEMMA OptimizeKeeps == HorizonInv /\ Optimize => HorizonInv'
<1> SUFFICES ASSUME HorizonInv, Optimize PROVE HorizonInv'
  OBVIOUS
<1>0. /\ pc = "top" /\ pc' \in {"learn", "synthesize"} /\ batch' = NoBatch
      /\ UNCHANGED <<runner, config, arrival, cancelled, epoch, fleet, clock, steps, failure>>
  BY DEF Optimize, Goto, static
<1>1. PICK ms \in Actions(config.policy, fleet, clock) :
        /\ action' = ms
        /\ next' = [fleet |-> Transition(fleet, ms, Offered(epoch)), clock |-> NextClock]
        /\ journal' = Append(journal, [epoch |-> clock, matches |-> ms])
  BY DEF Optimize
<1>2. Sane(ms, fleet)
  BY AnswerSane DEF HorizonInv
<1>3. Offered(epoch) \in SUBSET Loads
  BY DEF Offered
<1>4. /\ Transition(fleet, ms, Offered(epoch)) \in Fleet
      /\ Transition(fleet, ms, Offered(epoch)).loads
           = (fleet.loads \ MatchedLoads(ms)) \cup Offered(epoch)
  BY <1>2, <1>3, TransitionTyped DEF HorizonInv, TypeOK
<1>5. NextClock \in Nat /\ NextClock > clock
  BY ClockAdvances DEF HorizonInv
<1>6. ms \in SUBSET Match
  BY <1>2 DEF Sane
<1>7. /\ journal' \in Seq(Entry)
      /\ Len(journal') = steps' + 1
      /\ journal'[Len(journal')] = [epoch |-> clock, matches |-> ms]
      /\ \A i \in 1..steps : journal'[i].epoch < clock
      /\ \A i, j \in 1..Len(journal') : i < j => journal'[i].epoch < journal'[j].epoch
      /\ Served' = Served
  BY <1>0, <1>1, <1>6, Recorded
<1>8. TypeOK'
  <2>1. next' \in [fleet : Fleet, clock : Nat]
    BY <1>1, <1>4, <1>5
  <2>2. batch' \in Batch
    <3>1. << >> \in [{} -> Tour]
      OBVIOUS
    <3> QED BY <1>0, <3>1 DEF NoBatch, Batch
  <2>3. pc' \in PC
    BY <1>0 DEF PC
  <2> QED BY <1>0, <1>1, <1>6, <1>7, <2>1, <2>2, <2>3 DEF HorizonInv, TypeOK
<1>9. JournalLeads'
  BY <1>0, <1>7 DEF JournalLeads
<1>10. FailureExplained' /\ RunsUnfailed'
  BY <1>0 DEF HorizonInv, FailureExplained, RunsUnfailed
<1>11. Prepared'
  <2>1. Offered(epoch)' = Offered(epoch)
    BY <1>0 DEF Offered
  <2> QED BY <1>0, <1>1, <1>2, <1>4, <1>5, <1>7, <2>1 DEF Prepared, Sane
<1>12. Arrived'
  BY <1>0, <1>7 DEF HorizonInv, Arrived
<1> QED BY <1>8, <1>9, <1>10, <1>11, <1>12 DEF HorizonInv

\* A decision the chained store refused.
LEMMA FailAppendKeeps == HorizonInv /\ FailAppend => HorizonInv'
<1> SUFFICES ASSUME HorizonInv, FailAppend PROVE HorizonInv'
  OBVIOUS
<1>0. /\ pc = "top" /\ pc' = "done" /\ failure' = "append"
      /\ UNCHANGED <<runner, config, arrival, cancelled, epoch, fleet, clock,
                     action, next, batch, steps>>
  BY DEF FailAppend, Goto, static
<1>1. PICK ms \in Actions(config.policy, fleet, clock) :
        journal' = Append(journal, [epoch |-> clock, matches |-> ms])
  BY DEF FailAppend
<1>2. ms \in SUBSET Match
  BY AnswerSane DEF HorizonInv, Sane
<1>3. /\ journal' \in Seq(Entry)
      /\ Len(journal') = steps' + 1
      /\ journal'[Len(journal')] = [epoch |-> clock, matches |-> ms]
      /\ \A i \in 1..steps : journal'[i].epoch < clock
      /\ \A i, j \in 1..Len(journal') : i < j => journal'[i].epoch < journal'[j].epoch
      /\ Served' = Served
  BY <1>0, <1>1, <1>2, Recorded
<1>4. TypeOK'
  BY <1>0, <1>3 DEF HorizonInv, TypeOK, PC, Failures
<1>5. JournalLeads'
  BY <1>0, <1>3 DEF JournalLeads, LateFailures
<1>6. FailureExplained' /\ RunsUnfailed'
  BY <1>0 DEF FailureExplained, RunsUnfailed
<1>7. Prepared'
  BY <1>0 DEF Prepared, Deciding
<1>8. Arrived'
  BY <1>0, <1>3 DEF HorizonInv, Arrived
<1> QED BY <1>4, <1>5, <1>6, <1>7, <1>8 DEF HorizonInv

\* Steps that leave the state, the journal and the outcome alone.
LEMMA QuietStepKeeps ==
  ASSUME HorizonInv,
         UNCHANGED <<runner, config, arrival, epoch, fleet, clock, action, next,
                     steps, journal, failure>>,
         cancelled' \in BOOLEAN, cancelled => cancelled',
         pc' = pc \/ (pc \in {"learn", "synthesize"} /\ pc' \in {"synthesize", "advance"}),
         batch' \in Batch
  PROVE  HorizonInv'
<1>1. TypeOK'
  BY DEF HorizonInv, TypeOK, PC
<1>2. (pc \in {"learn", "synthesize", "advance"})' <=> pc \in {"learn", "synthesize", "advance"}
  OBVIOUS
<1>3. JournalLeads'
  BY <1>2 DEF HorizonInv, JournalLeads
<1>4. FailureExplained' /\ RunsUnfailed'
  BY DEF HorizonInv, FailureExplained, RunsUnfailed
<1>5. Prepared'
  <2>1. Offered(epoch)' = Offered(epoch)
    BY DEF Offered
  <2> QED BY <1>2, <2>1 DEF HorizonInv, Prepared, Deciding
<1>6. Arrived'
  BY DEF HorizonInv, Arrived, Served
<1> QED BY <1>1, <1>3, <1>4, <1>5, <1>6 DEF HorizonInv

\* The plan of an epoch is a plan: relays of drivers and loads, and a tour of
\* outstanding loads for each match that is left.
LEMMA PlanTyped ==
  ASSUME HorizonInv, SynthesizeBatch
  PROVE  batch' \in Batch
<1>1. CASE ~ config.relays
  <2>1. batch' = NoBatch
    BY <1>1 DEF SynthesizeBatch
  <2>2. << >> \in [{} -> Tour]
    OBVIOUS
  <2> QED BY <2>1, <2>2 DEF NoBatch, Batch
<1>2. CASE config.relays
  <2> DEFINE ms(R) == RemainingMatches(action, R)
             pool(R) == RemainingLoads(fleet.loads, R)
  <2>0. PICK R \in SelectRelays(RelayCandidates(fleet)) :
          \E T \in TourPlans(ms(R), pool(R)) : batch' = [relays |-> R, tours |-> T]
    BY <1>2 DEF SynthesizeBatch
  <2>1. PICK T \in TourPlans(ms(R), pool(R)) : batch' = [relays |-> R, tours |-> T]
    BY <2>0
  <2>2. fleet.loads \subseteq Loads /\ action \subseteq Match
    BY DEF HorizonInv, TypeOK, Fleet
  <2>3. R \subseteq Exchange
    BY <2>2 DEF SelectRelays, RelayCandidates, Exchange
  <2>4. Tours(pool(R)) \subseteq Tour
    BY <2>2 DEF Tours, Tour, RemainingLoads
  <2>5. MatchedDrivers(ms(R)) \in SUBSET Drivers
    BY <2>2 DEF RemainingMatches, MatchedDrivers, Match
  <2>6. T \in [MatchedDrivers(ms(R)) -> Tour]
    BY <2>4 DEF TourPlans
  <2> HIDE DEF ms, pool
  <2> QED BY <2>1, <2>3, <2>5, <2>6 DEF Batch
<1> QED BY <1>1, <1>2 DEF HorizonInv, TypeOK

\* Every completed epoch has its entry, and entries are well typed.
LEMMA Entries ==
  ASSUME HorizonInv
  PROVE  /\ steps <= Len(journal)
         /\ \A i \in 1..Len(journal) : journal[i].epoch \in Nat /\ journal[i].matches \subseteq Match
         /\ Served \subseteq Loads
<1>1. journal \in Seq(Entry) /\ steps \in Nat
  BY DEF HorizonInv, TypeOK
<1>2. \A i \in 1..Len(journal) : journal[i] \in Entry
  BY <1>1
<1>3. \A i \in 1..Len(journal) : journal[i].epoch \in Nat /\ journal[i].matches \subseteq Match
  BY <1>2 DEF Entry
<1>4. steps <= Len(journal)
  BY <1>1 DEF HorizonInv, JournalLeads
<1>5. \A i \in 1..steps : journal[i].matches \subseteq Match
  BY <1>1, <1>3, <1>4
<1>6. Served \subseteq Loads
  BY <1>5 DEF Served, MatchedLoads, Match
<1> QED BY <1>3, <1>4, <1>6

\* The epoch ends: what was matched is served, what was offered outstanding.
LEMMA AdvanceSettles ==
  ASSUME HorizonInv, Advance
  PROVE  /\ fleet'.loads = (fleet.loads \ MatchedLoads(action)) \cup Offered(epoch)
         /\ Served' = Served \cup MatchedLoads(action)
         /\ MatchedLoads(action) \subseteq fleet.loads
         /\ Offered(epoch) \cap (fleet.loads \cup Served) = {}
<1>1. Deciding /\ steps \in Nat /\ steps' = steps + 1 /\ journal' = journal
      /\ arrival \in [Loads -> Nat] /\ epoch \in Nat
  BY DEF HorizonInv, TypeOK, Advance, Deciding
<1>2. Len(journal) = steps + 1
  BY <1>1 DEF HorizonInv, JournalLeads, Deciding
<1>3. journal[steps + 1].matches = action
  BY <1>1, <1>2 DEF HorizonInv, Prepared
<1>4. 1..(steps + 1) = (1..steps) \cup {steps + 1}
  BY <1>1
<1>5. Served' = Served \cup MatchedLoads(action)
  BY <1>1, <1>3, <1>4 DEF Served
<1>6. \A l \in Offered(epoch) : arrival[l] = epoch
  BY DEF Offered
<1>7. \A l \in fleet.loads \cup Served : arrival[l] # epoch
  <2>1. Served \subseteq Loads
    BY Entries
  <2>2. fleet.loads \subseteq Loads
    BY DEF HorizonInv, TypeOK, Fleet
  <2> QED BY <1>1, <2>1, <2>2 DEF HorizonInv, Arrived
<1> QED BY <1>1, <1>5, <1>6, <1>7 DEF HorizonInv, Prepared, Advance

LEMMA AdvanceKeeps == HorizonInv /\ Advance => HorizonInv'
<1> SUFFICES ASSUME HorizonInv, Advance PROVE HorizonInv'
  OBVIOUS
<1>0. /\ pc = "advance" /\ pc' = "top" /\ fleet' = next.fleet /\ clock' = next.clock
      /\ steps' = steps + 1 /\ epoch' = epoch + Step
      /\ UNCHANGED <<runner, config, arrival, cancelled, action, next, batch,
                     journal, failure>>
  BY DEF Advance, Goto, static
<1>1. /\ next \in [fleet : Fleet, clock : Nat] /\ steps \in Nat /\ epoch \in Nat
      /\ clock \in Nat /\ journal \in Seq(Entry) /\ arrival \in [Loads -> Nat]
      /\ failure = "none" /\ next.clock > clock
  BY <1>0 DEF HorizonInv, TypeOK, RunsUnfailed, Prepared, Deciding
<1>2. Len(journal) = steps + 1
  BY <1>0, <1>1 DEF HorizonInv, JournalLeads
<1>3. TypeOK'
  <2>1. epoch' \in Nat /\ steps' \in Nat
    BY <1>0, <1>1, Constants
  <2> QED BY <1>0, <1>1, <2>1 DEF HorizonInv, TypeOK, PC
<1>4. JournalLeads'
  <2>1. \A i \in 1..(steps + 1) : journal[i].epoch < next.clock
    <3> SUFFICES ASSUME NEW i \in 1..(steps + 1) PROVE journal[i].epoch < next.clock
      OBVIOUS
    <3>1. journal[i].epoch \in Nat
      BY <1>2, Entries
    <3>2. CASE i = steps + 1
      BY <1>1, <1>2, <3>2 DEF HorizonInv, JournalLeads
    <3>3. CASE i # steps + 1
      <4>1. i \in 1..steps
        BY <1>1, <3>3
      <4> QED BY <1>1, <3>1, <4>1 DEF HorizonInv, JournalLeads
    <3> QED BY <3>2, <3>3
  <2> QED BY <1>0, <1>1, <1>2, <2>1 DEF HorizonInv, JournalLeads, LateFailures
<1>5. FailureExplained' /\ RunsUnfailed'
  BY <1>0, <1>1 DEF FailureExplained, RunsUnfailed
<1>6. Prepared'
  BY <1>0 DEF Prepared, Deciding
<1>7. Arrived'
  <2>1. /\ fleet'.loads \cup Served' \subseteq fleet.loads \cup Served \cup Offered(epoch)
    BY AdvanceSettles
  <2>2. Served \subseteq Loads /\ fleet.loads \subseteq Loads /\ Offered(epoch) \subseteq Loads
    BY Entries DEF HorizonInv, TypeOK, Fleet, Offered
  <2>3. \A l \in fleet.loads \cup Served \cup Offered(epoch) :
          arrival[l] \in Nat /\ arrival[l] <= epoch
    BY <1>1, <2>2 DEF HorizonInv, Arrived, Offered
  <2>4. \A l \in fleet'.loads \cup Served' : arrival[l] < epoch + Step
    <3> SUFFICES ASSUME NEW l \in fleet'.loads \cup Served'
                 PROVE  arrival[l] < epoch + Step
      OBVIOUS
    <3>1. arrival[l] \in Nat /\ arrival[l] <= epoch
      BY <2>1, <2>3
    <3> QED BY <1>1, <3>1, Constants
  <2> QED BY <1>0, <2>4 DEF Arrived
<1> QED BY <1>3, <1>4, <1>5, <1>6, <1>7 DEF HorizonInv

\* No step leaves the invariant.
LEMMA StepKeeps == HorizonInv /\ [Next]_vars => HorizonInv'
<1> SUFFICES ASSUME HorizonInv, [Next]_vars PROVE HorizonInv'
  OBVIOUS
<1>1. CASE \/ Finish \/ SeeCancellation \/ FailEvaluation
           \/ FailOptimize \/ FailLearning \/ FailTours
  BY <1>1, EndingsKeep
<1>2. CASE Optimize
  BY <1>2, OptimizeKeeps
<1>3. CASE FailAppend
  BY <1>3, FailAppendKeeps
<1>4. CASE Learn
  BY <1>4, QuietStepKeeps DEF Learn, Goto, static, HorizonInv, TypeOK
<1>5. CASE SynthesizeBatch
  BY <1>5, PlanTyped, QuietStepKeeps DEF SynthesizeBatch, Goto, static, HorizonInv, TypeOK
<1>6. CASE Advance
  BY <1>6, AdvanceKeeps
<1>7. CASE Cancel
  BY <1>7, QuietStepKeeps DEF Cancel, static, HorizonInv, TypeOK
<1>8. CASE UNCHANGED vars
  BY <1>8, QuietStepKeeps DEF vars, static, HorizonInv, TypeOK
<1> QED BY <1>1, <1>2, <1>3, <1>4, <1>5, <1>6, <1>7, <1>8 DEF Next, Returned

\* The inductive invariant of the epoch loops (rolling_horizon.go,
\* simulator.go).
THEOREM HorizonSafe == Spec => []HorizonInv
BY InitKeeps, StepKeeps, PTL DEF Spec

\* States, actions, plans and journal entries keep their types.
THEOREM TypeCorrect == Spec => []TypeOK
<1>1. HorizonInv => TypeOK
  BY DEF HorizonInv
<1> QED BY <1>1, HorizonSafe, PTL

\* A failed or running epoch is exactly one journal entry ahead of the state,
\* and the entries' epochs increase, for any horizon and any failures.
THEOREM JournalAlwaysLeads == Spec => []JournalLeads
<1>1. HorizonInv => JournalLeads
  BY DEF HorizonInv
<1> QED BY <1>1, HorizonSafe, PTL

\* A policy's action is refused only for a driver who is not idle, and the
\* clock never stops a run.
THEOREM FailuresAlwaysExplained == Spec => []FailureExplained
<1>1. HorizonInv => FailureExplained
  BY DEF HorizonInv
<1> QED BY <1>1, HorizonSafe, PTL

-----------------------------------------------------------------------------
(* Plans *)

\* A tour has loads of its pool only.
LEMMA TourInPool ==
  ASSUME NEW pool, NEW t \in Tours(pool)
  PROVE  Range(t) \subseteq pool
BY DEF Tours, Range

\* In a plan a driver has one part and a relayed load is in one relay only.
LEMMA PlanDisjoint ==
  ASSUME SynthesizeBatch
  PROVE  RolesDisjoint'
<1>1. CASE ~ config.relays
  <2>1. batch' = NoBatch
    BY <1>1 DEF SynthesizeBatch
  <2> QED BY <2>1 DEF NoBatch, RolesDisjoint, RelayDrivers, RelayLoads, TourLoads
<1>2. CASE config.relays
  <2> DEFINE ms(R) == RemainingMatches(action, R)
             pool(R) == RemainingLoads(fleet.loads, R)
  <2>0. PICK R \in SelectRelays(RelayCandidates(fleet)) :
          \E T \in TourPlans(ms(R), pool(R)) : batch' = [relays |-> R, tours |-> T]
    BY <1>2 DEF SynthesizeBatch
  <2>1. PICK T \in TourPlans(ms(R), pool(R)) : batch' = [relays |-> R, tours |-> T]
    BY <2>0
  <2>2. \A x \in R : x.in # x.out
    BY DEF SelectRelays, RelayCandidates
  <2>3. \A x, y \in R : x # y => Disjoint(x, y)
    BY DEF SelectRelays
  <2>4. T \in [MatchedDrivers(ms(R)) -> Tours(pool(R))]
    BY DEF TourPlans
  <2>5. RelayDrivers(R) \cap MatchedDrivers(ms(R)) = {}
    BY DEF RemainingMatches, MatchedDrivers
  <2>6. TourLoads(T) \subseteq pool(R)
    BY <2>4, TourInPool DEF TourLoads
  <2>7. RelayLoads(R) \cap pool(R) = {}
    BY DEF RemainingLoads
  <2>8. batch'.relays = R /\ batch'.tours = T
    BY <2>1
  <2>9. DOMAIN T = MatchedDrivers(ms(R))
    BY <2>4
  <2> HIDE DEF ms, pool
  <2> QED BY <2>2, <2>3, <2>5, <2>6, <2>7, <2>8, <2>9 DEF RolesDisjoint
<1> QED BY <1>1, <1>2

\* Relays and tours of an epoch never share a driver or a relayed load, for
\* any fleet, whichever candidates a cancelled search found.
THEOREM RolesAlwaysDisjoint == Spec => []RolesDisjoint
<1>1. batch = NoBatch => RolesDisjoint
  BY DEF NoBatch, RolesDisjoint, RelayDrivers, RelayLoads, TourLoads
<1>2. Init => RolesDisjoint
  BY <1>1 DEF Init
<1>3. HorizonInv /\ RolesDisjoint /\ [Next]_vars => RolesDisjoint'
  <2> SUFFICES ASSUME RolesDisjoint, [Next]_vars PROVE RolesDisjoint'
    OBVIOUS
  <2>1. CASE SynthesizeBatch
    BY <2>1, PlanDisjoint
  <2>2. CASE Optimize
    <3>1. batch' = NoBatch
      BY <2>2 DEF Optimize
    <3> QED BY <3>1 DEF NoBatch, RolesDisjoint, RelayDrivers, RelayLoads, TourLoads
  <2>3. CASE UNCHANGED batch
    BY <2>3 DEF RolesDisjoint
  <2>4. SynthesizeBatch \/ Optimize \/ UNCHANGED batch
    BY DEF Next, vars, Finish, SeeCancellation, FailEvaluation, FailOptimize, FailAppend,
           Learn, FailLearning, FailTours, Advance, Cancel, Returned, Return
  <2> QED BY <2>1, <2>2, <2>3, <2>4
<1> QED BY <1>2, <1>3, HorizonSafe, PTL DEF Spec

-----------------------------------------------------------------------------
(* The ledger of loads *)

\* Only the end of an epoch changes what is outstanding or served.
LEMMA OtherStepsKeepLedger ==
  ASSUME HorizonInv, [Next]_vars, ~ Advance
  PROVE  fleet' = fleet /\ Served' = Served
<1>1. CASE Optimize
  <2>1. PICK ms \in Actions(config.policy, fleet, clock) :
          journal' = Append(journal, [epoch |-> clock, matches |-> ms])
    BY <1>1 DEF Optimize
  <2>2. ms \in SUBSET Match
    BY AnswerSane DEF HorizonInv, Sane
  <2>3. pc = "top" /\ steps' = steps /\ fleet' = fleet
    BY <1>1 DEF Optimize
  <2> QED BY <2>1, <2>2, <2>3, Recorded
<1>2. CASE FailAppend
  <2>1. PICK ms \in Actions(config.policy, fleet, clock) :
          journal' = Append(journal, [epoch |-> clock, matches |-> ms])
    BY <1>2 DEF FailAppend
  <2>2. ms \in SUBSET Match
    BY AnswerSane DEF HorizonInv, Sane
  <2>3. pc = "top" /\ steps' = steps /\ fleet' = fleet
    BY <1>2 DEF FailAppend
  <2> QED BY <2>1, <2>2, <2>3, Recorded
<1>3. CASE UNCHANGED <<fleet, steps, journal>>
  BY <1>3 DEF Served
<1>4. Optimize \/ FailAppend \/ UNCHANGED <<fleet, steps, journal>>
  BY DEF Next, vars, Finish, SeeCancellation, FailEvaluation, FailOptimize,
         Learn, FailLearning, SynthesizeBatch, FailTours, Cancel, Returned, Return
<1> QED BY <1>1, <1>2, <1>3, <1>4

\* The epoch loops implement the ledger: over any number of epochs no load is
\* lost and none is served twice.
THEOREM LedgerImplemented == Spec => ImplementsLedger
<1>1. Init => Ledger!LedgerInit
  BY Constants DEF Init, Ledger!LedgerInit, Fleet
<1>2. HorizonInv /\ [Next]_vars => [Ledger!LedgerNext]_<<fleet.loads, Served>>
  <2> SUFFICES ASSUME HorizonInv, [Next]_vars
               PROVE  [Ledger!LedgerNext]_<<fleet.loads, Served>>
    OBVIOUS
  <2>1. CASE Advance
    <3>1. MatchedLoads(action) \in SUBSET Loads /\ Offered(epoch) \in SUBSET Loads
      BY DEF HorizonInv, TypeOK, Match, MatchedLoads, Offered
    <3>2. Ledger!Settle(MatchedLoads(action), Offered(epoch))
      BY <2>1, AdvanceSettles DEF Ledger!Settle, Served
    <3> QED BY <3>1, <3>2 DEF Ledger!LedgerNext
  <2>2. CASE ~ Advance
    BY <2>2, OtherStepsKeepLedger
  <2> QED BY <2>1, <2>2
<1>3. HorizonInv /\ [Next]_vars =>
        [Ledger!LedgerNext]_<<fleet.loads,
           UNION {MatchedLoads(journal[i].matches) : i \in 1..steps}>>
  BY <1>2 DEF Served
<1> QED BY <1>1, <1>3, HorizonSafe, PTL DEF Spec, ImplementsLedger, Ledger!LedgerSpec
=============================================================================
