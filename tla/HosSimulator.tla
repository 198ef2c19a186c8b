---------------------------- MODULE HosSimulator ----------------------------
(***************************************************************************)
(* Simulator.Simulate of internal/domain/model/hos/simulator.go called     *)
(* again and again for one driver, as Transition and                       *)
(* EvaluateTripFeasibility do: each call goes on from the clocks the last  *)
(* successful one returned, and a failed one leaves them as they were.     *)
(* A call works its events off in chunks, cut where a limit is reached,    *)
(* and either takes the rest that is then required or fails.               *)
(***************************************************************************)
EXTENDS HosClocks, Sequences

CONSTANTS
  Policies,   \* the policy specifications a driver may be under
  Plans,      \* the event lists of the calls
  MaxCalls    \* bound on the calls of a driver's history

\* "duty" stands for loading, unloading and border crossing alike.
Event == [kind : {"drive", "duty", "rest", "hold"}, n : Nat, sleeper : BOOLEAN]

ASSUME SimulatorAssumption ==
  /\ Policies \subseteq PolicySpecs
  /\ \A s \in Policies : Validate(s) /\ s.splitBreak <= s.splitSleeper
  /\ Plans \subseteq Seq(Event)
  /\ MaxCalls \in Nat

VARIABLES
  specs,     \* the driver's policy
  clocks,    \* the clocks of the last successful call
  log,       \* the timelines of the successful calls, one after another
  running,   \* a call is in progress
  auto,      \* its autoInsertRests
  plan,      \* its events
  todo,      \* those to come, the first one cut to what is left of it
  work,      \* its clocks
  timeline,  \* log and its timeline so far
  calls      \* how many calls there were

callVars == <<running, auto, plan, todo, work, timeline>>
vars == <<specs, clocks, log, callVars, calls>>

Init ==
  /\ specs \in Policies
  /\ clocks = NewDriverClocks(specs)
  /\ log = << >>
  /\ running = FALSE
  /\ auto = FALSE
  /\ plan = << >>
  /\ todo = << >>
  /\ work = clocks
  /\ timeline = << >>
  /\ calls = 0

\* Simulate(clocks, events, specs, inserting) is called.
StartCall(events, inserting) ==
  /\ ~ running
  /\ running' = TRUE
  /\ auto' = inserting
  /\ plan' = events
  /\ todo' = events
  /\ work' = clocks
  /\ timeline' = log
  /\ UNCHANGED <<specs, clocks, log>>

Call ==
  /\ calls < MaxCalls
  /\ \E events \in Plans, inserting \in BOOLEAN : StartCall(events, inserting)
  /\ calls' = calls + 1

\* The event the call is at, with kind, if something is left of it to do.
At(kinds) ==
  /\ running /\ todo # << >>
  /\ todo[1].n > 0 /\ todo[1].kind \in kinds

\* n units of the event are done: the clocks move on to c, and a period is
\* added to the timeline.
Spend(n, kind, sleeper, c) ==
  /\ todo' = [todo EXCEPT ![1].n = @ - n]
  /\ work' = c
  /\ timeline' = Append(timeline, [kind |-> kind, n |-> n, sleeper |-> sleeper])
  /\ UNCHANGED <<specs, clocks, log, running, auto, plan, calls>>

Drive ==
  /\ At({"drive"}) /\ MaxImmediateDrive(work) > 0
  /\ LET n == Least(todo[1].n, MaxImmediateDrive(work))
     IN Spend(n, "drive", FALSE, ApplyDrive(work, n))

Duty ==
  /\ At({"duty"}) /\ MaxImmediateDuty(work) > 0
  /\ LET n == Least(todo[1].n, MaxImmediateDuty(work))
     IN Spend(n, "duty", FALSE, ApplyOnDutyNotDriving(work, n))

Rest ==
  /\ At({"rest"})
  /\ Spend(todo[1].n, "rest", todo[1].sleeper,
           ApplyOffDuty(work, todo[1].n, todo[1].sleeper, specs))

\* A hold long enough for a reset is cut into resets in the sleeper berth.
Hold ==
  /\ At({"hold"})
  /\ LET left == todo[1].n
         long == left >= specs.daily
         n == IF ~ long THEN left
              ELSE IF left >= specs.weekly /\ work.cycle = 0 THEN specs.weekly
              ELSE specs.daily
     IN Spend(n, "rest", long, ApplyOffDuty(work, n, long, specs))

\* Mutant: only driving is checked against the limits.
AtLimitDriving == At({"drive"}) /\ MaxImmediateDrive(work) = 0

AtLimit ==
  \/ At({"drive"}) /\ MaxImmediateDrive(work) = 0
  \/ At({"duty"}) /\ MaxImmediateDuty(work) = 0

\* Mutant: the inserted rest is taken off the event as well.
InsertRequiredResetSpending ==
  /\ AtLimit /\ auto
  /\ LET r == RequiredReset(work, specs)
     IN /\ work' = ApplyOffDuty(work, r.n, r.sleeper, specs)
        /\ timeline' = Append(timeline, [kind |-> "rest", n |-> r.n, sleeper |-> r.sleeper])
        /\ todo' = [todo EXCEPT ![1].n = IF @ > r.n THEN @ - r.n ELSE 0]
  /\ UNCHANGED <<specs, clocks, log, running, auto, plan, calls>>

\* The rest a limit requires, inserted before the event goes on.
InsertRequiredReset ==
  /\ AtLimit /\ auto
  /\ LET r == RequiredReset(work, specs)
     IN /\ work' = ApplyOffDuty(work, r.n, r.sleeper, specs)
        /\ timeline' = Append(timeline, [kind |-> "rest", n |-> r.n, sleeper |-> r.sleeper])
  /\ UNCHANGED <<specs, clocks, log, running, auto, plan, todo, calls>>

\* Without automatic rests the limit ends the call with ErrHOSViolation.
Violation ==
  /\ AtLimit /\ ~ auto
  /\ running' = FALSE
  /\ UNCHANGED <<specs, clocks, log, auto, plan, todo, work, timeline, calls>>

NextEvent ==
  /\ running /\ todo # << >> /\ todo[1].n = 0
  /\ todo' = Tail(todo)
  /\ UNCHANGED <<specs, clocks, log, running, auto, plan, work, timeline, calls>>

Return ==
  /\ running /\ todo = << >>
  /\ running' = FALSE
  /\ clocks' = work
  /\ log' = timeline
  /\ UNCHANGED <<specs, auto, plan, todo, work, timeline, calls>>

Work == Drive \/ Duty \/ Rest \/ Hold \/ InsertRequiredReset \/ NextEvent
Proceed == Work \/ Violation \/ Return

Next == Call \/ Proceed

Spec == Init /\ [][Next]_vars

\* A call is a loop that runs: nothing in it waits.
FairSpec == Spec /\ WF_vars(Proceed)

-----------------------------------------------------------------------------
Rules == INSTANCE DutyLog

TypeOK ==
  /\ specs \in Policies
  /\ clocks \in DriverClocks /\ work \in DriverClocks
  /\ log \in Seq(Rules!Period) /\ timeline \in Seq(Rules!Period)
  /\ running \in BOOLEAN /\ auto \in BOOLEAN
  /\ plan \in Seq(Event) /\ todo \in Seq(Event)
  /\ calls \in 0..MaxCalls

\* The redundant clocks never drift apart: what is left of the hygiene limit
\* and the minutes driven since the last break make up the limit, and no more
\* of the shift is left than the driving done in it allows, whichever breaks,
\* splits and resets came between.
Coupled(c) ==
  /\ c.hygiene + c.driven = specs.maxHygiene
  /\ c.driving <= specs.maxDriving /\ c.cycle <= specs.maxCycle
  /\ c.shift + (specs.maxDriving - c.driving) <= specs.maxShift

ClocksCoupled == Coupled(clocks) /\ Coupled(work)

\* Each clock says what the rules say of the whole log: running clocks that
\* forget the past agree with a definition that reads all of it.
Faithful(c, l) ==
  /\ c.hygiene = Rules!HygieneLeft(l, specs)
  /\ c.driving = Rules!DrivingLeft(l, specs)
  /\ c.shift = Rules!ShiftLeft(l, specs)
  /\ c.cycle = Rules!CycleLeft(l, specs)

ClocksMatchLog == Faithful(clocks, log) /\ Faithful(work, timeline)

\* Cutting at limits and inserting rests neither loses nor repeats work: what
\* is done of a kind and what is left make up what was planned.
PlannedMinutes(events, kind) ==
  Rules!Minutes(events, {i \in 1..Len(events) : events[i].kind = kind})

WorkConserved ==
  running => \A kind \in {"drive", "duty"} :
    PlannedMinutes(SubSeq(timeline, Len(log) + 1, Len(timeline)), kind)
      + PlannedMinutes(todo, kind) = PlannedMinutes(plan, kind)

\* Every timeline a call returns extends the driver's log by legal periods
\* only: the simulator implements the log of DutyLog.
ImplementsLog == Rules!LogSpec

\* Every call returns: each rest it inserts lifts the limit that required it
\* or lets the next one do so, under any valid policy.
CallReturns == running ~> ~ running

=============================================================================
