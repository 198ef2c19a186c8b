------------------------- MODULE HosSimulatorProofs -------------------------
(***************************************************************************)
(* For every policy that Validate accepts, every list of events and any    *)
(* number of calls: the clocks stay natural numbers and coupled, they are  *)
(* those a reader of the duty log computes, every call is an entry of the  *)
(* abstract log, and a planned drive is driven in full.  All of this holds *)
(* of the calls that trips, tours and relays make, and the epochs of these *)
(* plans tell the time of the clocks.                                      *)
(***************************************************************************)
EXTENDS Itineraries, FiniteSetTheorems, SequenceTheorems, TLAPS

\* What a clocks value of policy s is.
Sound(c, s) ==
  /\ c \in DriverClocks
  /\ c.hygiene + c.driven = s.maxHygiene
  /\ c.driving <= s.maxDriving /\ c.cycle <= s.maxCycle
  /\ c.shift + (s.maxDriving - c.driving) <= s.maxShift

ValidPolicy(s) == s \in PolicySpecs /\ Validate(s)

\* The limits of a policy are numbers.
LEMMA PolicyLimits ==
  ASSUME NEW s, ValidPolicy(s)
  PROVE  /\ s.rest \in Nat /\ s.daily \in Nat /\ s.weekly \in Nat
         /\ s.maxHygiene \in Nat /\ s.maxDriving \in Nat
         /\ s.maxShift \in Nat /\ s.maxCycle \in Nat
         /\ s.splitBreak \in Nat /\ s.splitSleeper \in Nat
         /\ s.maxDriving <= s.maxShift
BY DEF ValidPolicy, PolicySpecs, Validate

\* The clocks of a sound value are numbers.
LEMMA SoundFields ==
  ASSUME NEW s, NEW c, Sound(c, s)
  PROVE  /\ c \in DriverClocks
         /\ c.hygiene \in Nat /\ c.driving \in Nat /\ c.shift \in Nat
         /\ c.cycle \in Nat /\ c.offDuty \in Nat /\ c.driven \in Nat
BY DEF Sound, DriverClocks

-----------------------------------------------------------------------------
(* The operations on clocks *)

\* A driver's first clocks are sound.
LEMMA NewClocksSound ==
  ASSUME NEW s, ValidPolicy(s)
  PROVE  Sound(NewDriverClocks(s), s)
BY DEF ValidPolicy, PolicySpecs, Validate, Sound, NewDriverClocks, DriverClocks

\* MaxImmediateDrive is a lower bound of the four limits.
LEMMA DriveBounded ==
  ASSUME NEW c \in DriverClocks
  PROVE  /\ MaxImmediateDrive(c) \in Nat
         /\ MaxImmediateDrive(c) <= c.hygiene
         /\ MaxImmediateDrive(c) <= c.driving
         /\ MaxImmediateDrive(c) <= c.shift
         /\ MaxImmediateDrive(c) <= c.cycle
BY DEF DriverClocks, MaxImmediateDrive, Least

\* So is MaxImmediateDuty of the two that count on-duty work.
LEMMA DutyBounded ==
  ASSUME NEW c \in DriverClocks
  PROVE  /\ MaxImmediateDuty(c) \in Nat
         /\ MaxImmediateDuty(c) <= c.shift
         /\ MaxImmediateDuty(c) <= c.cycle
BY DEF DriverClocks, MaxImmediateDuty, Least

\* Driving within the limits takes as much from the shift as from the driving
\* clock, and from the hygiene clock what it adds to the minutes driven.
LEMMA ApplyDriveSound ==
  ASSUME NEW s, ValidPolicy(s), NEW c, Sound(c, s),
         NEW n \in Nat, n <= MaxImmediateDrive(c)
  PROVE  Sound(ApplyDrive(c, n), s)
<1> DEFINE d == ApplyDrive(c, n)
<1>1. c \in DriverClocks
  BY DEF Sound
<1>2. /\ n <= c.hygiene /\ n <= c.driving /\ n <= c.shift /\ n <= c.cycle
  BY <1>1, DriveBounded, SoundFields
<1>3. /\ d.hygiene = c.hygiene - n /\ d.driving = c.driving - n
      /\ d.shift = c.shift - n /\ d.cycle = c.cycle - n
      /\ d.driven = c.driven + n
  BY <1>1 DEF DriverClocks, ApplyDrive
<1>4. d \in DriverClocks
  <2>1. /\ c.hygiene - n \in Nat /\ c.driving - n \in Nat /\ c.shift - n \in Nat
        /\ c.cycle - n \in Nat /\ c.driven + n \in Nat
    BY <1>2, SoundFields
  <2>2. QED
    BY <1>1, <2>1 DEF DriverClocks, ApplyDrive
<1> HIDE DEF d
<1>5. Sound(d, s)
  BY <1>2, <1>3, <1>4, SoundFields, PolicyLimits DEF Sound
<1>6. QED
  BY <1>5 DEF d

\* Other work takes from the shift alone.
LEMMA ApplyDutySound ==
  ASSUME NEW s, ValidPolicy(s), NEW c, Sound(c, s),
         NEW n \in Nat, n <= MaxImmediateDuty(c)
  PROVE  Sound(ApplyOnDutyNotDriving(c, n), s)
<1> DEFINE d == ApplyOnDutyNotDriving(c, n)
<1>1. c \in DriverClocks
  BY DEF Sound
<1>2. n <= c.shift /\ n <= c.cycle
  BY <1>1, DutyBounded, SoundFields
<1>3. /\ d.hygiene = c.hygiene /\ d.driving = c.driving
      /\ d.shift = c.shift - n /\ d.cycle = c.cycle - n
      /\ d.driven = c.driven
  BY <1>1 DEF DriverClocks, ApplyOnDutyNotDriving
<1>4. d \in DriverClocks
  <2>1. c.shift - n \in Nat /\ c.cycle - n \in Nat
    BY <1>2, SoundFields
  <2>2. QED
    BY <1>1, <2>1 DEF DriverClocks, ApplyOnDutyNotDriving
<1> HIDE DEF d
<1>5. Sound(d, s)
  BY <1>2, <1>3, <1>4, SoundFields, PolicyLimits DEF Sound
<1>6. QED
  BY <1>5 DEF d

\* The three things a rest may do to the clocks.
LEMMA TakeBreakSound ==
  ASSUME NEW s, ValidPolicy(s), NEW c, Sound(c, s)
  PROVE  Sound(TakeBreak(c, s), s)
<1> DEFINE d == TakeBreak(c, s)
<1>1. c \in DriverClocks /\ s.maxHygiene \in Nat
  BY PolicyLimits DEF Sound
<1>2. /\ d.hygiene = s.maxHygiene /\ d.driven = 0
      /\ d.driving = c.driving /\ d.shift = c.shift /\ d.cycle = c.cycle
  BY <1>1 DEF DriverClocks, TakeBreak
<1>3. d \in DriverClocks
  BY <1>1 DEF DriverClocks, TakeBreak
<1> HIDE DEF d
<1>4. Sound(d, s)
  BY <1>2, <1>3, SoundFields, PolicyLimits DEF Sound
<1>5. QED
  BY <1>4 DEF d

LEMMA ResetShiftSound ==
  ASSUME NEW s, ValidPolicy(s), NEW c, Sound(c, s)
  PROVE  Sound(ResetShift(c, s), s)
<1> DEFINE b == TakeBreak(c, s)
           d == ResetShift(c, s)
<1>1. Sound(b, s)
  BY TakeBreakSound
<1>2. d = [b EXCEPT !.driving = s.maxDriving, !.shift = s.maxShift]
  BY DEF ResetShift
<1> HIDE DEF b, d
<1>3. b \in DriverClocks /\ s.maxDriving \in Nat /\ s.maxShift \in Nat
  BY <1>1, PolicyLimits DEF Sound
<1>4. /\ d.driving = s.maxDriving /\ d.shift = s.maxShift
      /\ d.hygiene = b.hygiene /\ d.driven = b.driven /\ d.cycle = b.cycle
  BY <1>2, <1>3 DEF DriverClocks
<1>5. d \in DriverClocks
  BY <1>2, <1>3 DEF DriverClocks
<1>6. Sound(d, s)
  BY <1>1, <1>4, <1>5, SoundFields, PolicyLimits DEF Sound
<1>7. QED
  BY <1>6 DEF d

LEMMA AnchorSound ==
  ASSUME NEW s, ValidPolicy(s), NEW c, Sound(c, s),
         NEW n \in Nat, NEW sleeper \in BOOLEAN
  PROVE  Sound(Anchor(c, n, sleeper), s)
BY DEF ValidPolicy, PolicySpecs, Sound, Anchor, DriverClocks

\* A rest of any length keeps the clocks sound, whichever case applies.
LEMMA ApplyOffDutySound ==
  ASSUME NEW s, ValidPolicy(s), NEW c, Sound(c, s),
         NEW n \in Nat, NEW sleeper \in BOOLEAN
  PROVE  Sound(ApplyOffDuty(c, n, sleeper, s), s)
<1> DEFINE r == [c EXCEPT !.offDuty = @ + n]
           cleared == ResetShift(Anchor(r, 0, FALSE), s)
           brk == IF n >= s.rest THEN TakeBreak(r, s) ELSE r
<1>1. Sound(r, s)
  BY DEF ValidPolicy, PolicySpecs, Sound, DriverClocks
<1>2. Sound(cleared, s)
  <2>1. Sound(Anchor(r, 0, FALSE), s)
    BY <1>1, AnchorSound
  <2>2. QED
    BY <2>1, ResetShiftSound
<1>3. Sound([cleared EXCEPT !.cycle = s.maxCycle], s)
  <2> HIDE DEF cleared
  <2>1. QED
    BY <1>2 DEF ValidPolicy, PolicySpecs, Sound, DriverClocks
<1>4. \A t \in BOOLEAN :
        Sound(Anchor(IF t THEN ResetShift(r, s) ELSE TakeBreak(r, s), n, sleeper), s)
  <2> HIDE DEF r
  <2>1. Sound(ResetShift(r, s), s) /\ Sound(TakeBreak(r, s), s)
    BY <1>1, ResetShiftSound, TakeBreakSound
  <2>2. QED
    BY <2>1, AnchorSound
<1>5. Sound([brk EXCEPT !.shift = IF @ > n THEN @ - n ELSE 0], s)
  <2> HIDE DEF r
  <2>1. Sound(brk, s)
    BY <1>1, TakeBreakSound
  <2> HIDE DEF brk
  <2>2. QED
    BY <2>1 DEF ValidPolicy, PolicySpecs, Sound, DriverClocks
<1>6. CASE r.offDuty >= s.weekly
  BY <1>3, <1>6 DEF ApplyOffDuty
<1>7. CASE ~ (r.offDuty >= s.weekly) /\ r.offDuty >= s.daily
  BY <1>2, <1>7 DEF ApplyOffDuty
<1>8. CASE ~ (r.offDuty >= s.weekly) /\ ~ (r.offDuty >= s.daily)
           /\ SplitPart(n, sleeper, s)
  <2>1. CASE CompletesSplit(c, n, sleeper, s)
    BY <1>4, <1>8, <2>1 DEF ApplyOffDuty
  <2>2. CASE ~ CompletesSplit(c, n, sleeper, s)
    BY <1>4, <1>8, <2>2 DEF ApplyOffDuty
  <2>3. QED
    BY <2>1, <2>2
<1>9. CASE ~ (r.offDuty >= s.weekly) /\ ~ (r.offDuty >= s.daily)
           /\ ~ SplitPart(n, sleeper, s)
  BY <1>5, <1>9 DEF ApplyOffDuty
<1>10. QED
  BY <1>6, <1>7, <1>8, <1>9

-----------------------------------------------------------------------------
(* The simulator *)

\* Coupled is Sound without the types.
LEMMA CoupledSound ==
  ASSUME TypeOK
  PROVE  /\ ValidPolicy(specs)
         /\ \A c \in DriverClocks : Coupled(c) <=> Sound(c, specs)
<1>1. ValidPolicy(specs)
  BY SimulatorAssumption DEF TypeOK, ValidPolicy
<1>2. QED
  BY <1>1 DEF Coupled, Sound

\* The rest a limit requires has the policy's length.
LEMMA RequiredResetType ==
  ASSUME NEW s, ValidPolicy(s), NEW c
  PROVE  RequiredReset(c, s).n \in Nat /\ RequiredReset(c, s).sleeper \in BOOLEAN
BY PolicyLimits DEF RequiredReset

\* Spend with sound clocks keeps the types and the coupling.
LEMMA SpendSound ==
  ASSUME TypeOK, ClocksCoupled, running, todo # << >>,
         NEW n \in Nat, n <= todo[1].n,
         NEW kind \in {"drive", "duty", "rest"}, NEW sleeper \in BOOLEAN,
         NEW c, Sound(c, specs), Spend(n, kind, sleeper, c)
  PROVE  TypeOK' /\ ClocksCoupled'
<1> USE DEF Spend
<1>1. [kind |-> kind, n |-> n, sleeper |-> sleeper] \in Rules!Period
  BY DEF Rules!Period
<1>2. timeline' \in Seq(Rules!Period)
  BY <1>1 DEF TypeOK
<1>3. todo' \in Seq(Event)
  <2>1. 1 \in 1..Len(todo) /\ todo[1] \in Event
    BY DEF TypeOK
  <2>2. todo[1].n - n \in Nat
    BY <2>1 DEF Event
  <2>3. [todo[1] EXCEPT !.n = todo[1].n - n] \in Event
    BY <2>1, <2>2 DEF Event
  <2>4. todo' = [todo EXCEPT ![1] = [todo[1] EXCEPT !.n = todo[1].n - n]]
    BY <2>1 DEF TypeOK
  <2>5. QED
    BY <2>1, <2>3, <2>4 DEF TypeOK
<1>4. work' \in DriverClocks
  BY DEF Sound
<1>5. TypeOK'
  BY <1>2, <1>3, <1>4 DEF TypeOK
<1>6. Coupled(work)' /\ Coupled(clocks)'
  BY <1>4, CoupledSound DEF ClocksCoupled, Coupled, TypeOK
<1>7. QED
  BY <1>5, <1>6 DEF ClocksCoupled

\* So does a call, whatever its events.
LEMMA StartSound ==
  ASSUME TypeOK, ClocksCoupled, NEW events \in Seq(Event), NEW inserting \in BOOLEAN,
         StartCall(events, inserting), calls' \in 0..MaxCalls
  PROVE  TypeOK' /\ ClocksCoupled'
<1>1. TypeOK'
  BY DEF StartCall, TypeOK
<1> QED BY <1>1 DEF StartCall, ClocksCoupled, Coupled

\* A step of the simulator, whoever calls it with whatever events.
AnyCall ==
  /\ calls' \in 0..MaxCalls
  /\ \E events \in Seq(Event), inserting \in BOOLEAN : StartCall(events, inserting)

AnyStep == AnyCall \/ Proceed

LEMMA NextIsStep ==
  ASSUME TypeOK, [Next]_vars
  PROVE  [AnyStep]_vars
<1>1. CASE Call
  <2>1. PICK events \in Plans, inserting \in BOOLEAN : StartCall(events, inserting)
    BY <1>1 DEF Call
  <2>2. calls' \in 0..MaxCalls
    BY <1>1, SimulatorAssumption DEF Call, TypeOK
  <2>3. events \in Seq(Event)
    BY SimulatorAssumption
  <2> QED BY <2>1, <2>2, <2>3 DEF AnyStep, AnyCall
<1>2. CASE Proceed \/ UNCHANGED vars
  BY <1>2 DEF AnyStep
<1> QED BY <1>1, <1>2 DEF Next

\* Every step of the simulator keeps types and coupling.
LEMMA StepSound ==
  ASSUME TypeOK, ClocksCoupled, [AnyStep]_vars
  PROVE  TypeOK' /\ ClocksCoupled'
<1>1. ValidPolicy(specs) /\ Sound(work, specs) /\ Sound(clocks, specs)
  BY CoupledSound DEF ClocksCoupled, TypeOK
<1>2. ASSUME NEW kinds, At(kinds)
      PROVE  running /\ todo # << >> /\ todo[1].n \in Nat /\ todo[1].sleeper \in BOOLEAN
  <2>1. running /\ todo # << >> /\ todo \in Seq(Event)
    BY <1>2 DEF At, TypeOK
  <2>2. todo[1] \in Event
    BY <2>1
  <2>3. QED
    BY <2>1, <2>2 DEF Event
<1>3. CASE AnyCall
  BY <1>3, StartSound DEF AnyCall
<1>4. CASE Drive
  <2> DEFINE n == Least(todo[1].n, MaxImmediateDrive(work))
  <2>1. running /\ todo # << >> /\ todo[1].n \in Nat
    BY <1>2, <1>4 DEF Drive
  <2>2. n \in Nat /\ n <= todo[1].n /\ n <= MaxImmediateDrive(work)
    BY <1>1, <2>1, DriveBounded DEF Least, Sound
  <2>3. Spend(n, "drive", FALSE, ApplyDrive(work, n))
    BY <1>4 DEF Drive
  <2> HIDE DEF n
  <2>4. Sound(ApplyDrive(work, n), specs)
    BY <1>1, <2>2, ApplyDriveSound
  <2>5. QED
    BY <2>1, <2>2, <2>3, <2>4, SpendSound
<1>5. CASE Duty
  <2> DEFINE n == Least(todo[1].n, MaxImmediateDuty(work))
  <2>1. running /\ todo # << >> /\ todo[1].n \in Nat
    BY <1>2, <1>5 DEF Duty
  <2>2. n \in Nat /\ n <= todo[1].n /\ n <= MaxImmediateDuty(work)
    BY <1>1, <2>1, DutyBounded DEF Least, Sound
  <2>3. Spend(n, "duty", FALSE, ApplyOnDutyNotDriving(work, n))
    BY <1>5 DEF Duty
  <2> HIDE DEF n
  <2>4. Sound(ApplyOnDutyNotDriving(work, n), specs)
    BY <1>1, <2>2, ApplyDutySound
  <2>5. QED
    BY <2>1, <2>2, <2>3, <2>4, SpendSound
<1>6. CASE Rest
  <2>1. /\ running /\ todo # << >> /\ todo[1].n \in Nat
        /\ todo[1].sleeper \in BOOLEAN
    BY <1>2, <1>6 DEF Rest
  <2>2. Sound(ApplyOffDuty(work, todo[1].n, todo[1].sleeper, specs), specs)
    BY <1>1, <2>1, ApplyOffDutySound
  <2>3. QED
    BY <1>6, <2>1, <2>2, SpendSound DEF Rest
<1>7. CASE Hold
  <2>1. running /\ todo # << >> /\ todo[1].n \in Nat
    BY <1>2, <1>7 DEF Hold
  <2> DEFINE long == todo[1].n >= specs.daily
             n == IF ~ long THEN todo[1].n
                  ELSE IF todo[1].n >= specs.weekly /\ work.cycle = 0 THEN specs.weekly
                  ELSE specs.daily
  <2>2. Spend(n, "rest", long, ApplyOffDuty(work, n, long, specs))
    BY <1>7 DEF Hold
  <2>3. long \in BOOLEAN
    BY <1>1, <2>1, PolicyLimits
  <2>4. n \in Nat /\ n <= todo[1].n
    BY <1>1, <2>1, PolicyLimits
  <2> HIDE DEF long, n
  <2>5. Sound(ApplyOffDuty(work, n, long, specs), specs)
    BY <1>1, <2>3, <2>4, ApplyOffDutySound
  <2>6. QED
    BY <2>1, <2>2, <2>3, <2>4, <2>5, SpendSound
<1>8. CASE InsertRequiredReset
  <2> DEFINE r == RequiredReset(work, specs)
  <2>1. r.n \in Nat /\ r.sleeper \in BOOLEAN
    BY <1>1, RequiredResetType
  <2>2. /\ work' = ApplyOffDuty(work, r.n, r.sleeper, specs)
        /\ timeline' = Append(timeline, [kind |-> "rest", n |-> r.n, sleeper |-> r.sleeper])
        /\ UNCHANGED <<specs, clocks, log, running, auto, plan, todo, calls>>
    BY <1>8 DEF InsertRequiredReset
  <2> HIDE DEF r
  <2>3. Sound(work', specs)
    BY <1>1, <2>1, <2>2, ApplyOffDutySound
  <2>4. [kind |-> "rest", n |-> r.n, sleeper |-> r.sleeper] \in Rules!Period
    BY <2>1 DEF Rules!Period
  <2>5. timeline' \in Seq(Rules!Period)
    BY <2>2, <2>4 DEF TypeOK
  <2>6. TypeOK'
    BY <2>2, <2>3, <2>5 DEF TypeOK, Sound
  <2>7. QED
    BY <2>2, <2>3, <2>6 DEF ClocksCoupled, Coupled, Sound
<1>9. CASE Violation
  BY <1>9 DEF Violation, TypeOK, ClocksCoupled, Coupled
<1>10. CASE NextEvent
  <2>1. todo' \in Seq(Event)
    BY <1>10 DEF NextEvent, TypeOK
  <2>2. QED
    BY <1>10, <2>1 DEF NextEvent, TypeOK, ClocksCoupled, Coupled
<1>11. CASE Return
  BY <1>11 DEF Return, TypeOK, ClocksCoupled, Coupled
<1>12. CASE UNCHANGED vars
  BY <1>12 DEF vars, callVars, TypeOK, ClocksCoupled, Coupled
<1>13. QED
  BY <1>3, <1>4, <1>5, <1>6, <1>7, <1>8, <1>9, <1>10, <1>11, <1>12 DEF AnyStep, Proceed, Work

\* The first clocks are sound, so the invariant holds at the start.
LEMMA InitSound ==
  ASSUME Init
  PROVE  TypeOK /\ ClocksCoupled
<1>1. ValidPolicy(specs)
  BY SimulatorAssumption DEF Init, ValidPolicy
<1>2. Sound(clocks, specs) /\ work = clocks
  BY <1>1, NewClocksSound DEF Init
<1>3. TypeOK
  <2>1. clocks \in DriverClocks /\ work \in DriverClocks
    BY <1>2 DEF Sound
  <2>2. 0 \in 0..MaxCalls
    BY SimulatorAssumption
  <2>3. << >> \in Seq(Rules!Period) /\ << >> \in Seq(Event)
    OBVIOUS
  <2>4. QED
    BY <2>1, <2>2, <2>3 DEF Init, TypeOK
<1>4. QED
  BY <1>2, <1>3 DEF ClocksCoupled, Coupled, Sound

\* The simulator's state keeps its types under every valid policy: no clock
\* falls below zero.
THEOREM TypeCorrect == Spec => []TypeOK
<1>1. Init => TypeOK /\ ClocksCoupled
  BY InitSound
<1>2. TypeOK /\ ClocksCoupled /\ [Next]_vars => (TypeOK /\ ClocksCoupled)'
  BY NextIsStep, StepSound
<1>3. QED
  BY <1>1, <1>2, PTL DEF Spec

\* The clocks of every driver stay coupled: the hygiene clock mirrors the
\* minutes driven since the last break, and the shift left never exceeds what
\* the driving done in it allows.
THEOREM ClocksAlwaysCoupled == Spec => []ClocksCoupled
<1>1. Init => TypeOK /\ ClocksCoupled
  BY InitSound
<1>2. TypeOK /\ ClocksCoupled /\ [Next]_vars => (TypeOK /\ ClocksCoupled)'
  BY NextIsStep, StepSound
<1>3. QED
  BY <1>1, <1>2, PTL DEF Spec

-----------------------------------------------------------------------------
(* Sums of minutes *)

\* A set of subsets of a finite set has a member no other one is part of.
LEMMA MinimalSet ==
  ASSUME NEW S, IsFiniteSet(S), NEW F \in SUBSET (SUBSET S), F # {}
  PROVE  \E T \in F : \A U \in F : U \subseteq T => U = T
<1>1. IsWellFoundedOn(StrictSubsetOrdering(S), FiniteSubsetsOf(S))
  BY FS_StrictSubsetOrderingWellFounded
<1>2. F \subseteq FiniteSubsetsOf(S)
  <2>1. \A T \in SUBSET S : IsFiniteSet(T)
    BY FS_Subset
  <2> QED BY <2>1 DEF FiniteSubsetsOf
<1>3. PICK T \in F : \A U \in F : ~ (<<U, T>> \in StrictSubsetOrdering(S))
  BY <1>1, <1>2, WFMin
<1> QED BY <1>3 DEF StrictSubsetOrdering

\* What the recursion of MapThenSumSet asks of the sums over the parts of S.
Sums(g, l, S) ==
  g = [s \in SUBSET S |->
        IF s = {} THEN 0 ELSE l[CHOOSE x \in s : TRUE].n + g[s \ {CHOOSE x \in s : TRUE}]]

LEMMA MinutesIs ==
  ASSUME NEW l, NEW S
  PROVE  Rules!Minutes(l, S) = (CHOOSE g : Sums(g, l, S))[S]
BY Zenon DEF Rules!Minutes, Rules!MapThenSumSet, Rules!MapThenFoldSet, Sums

LEMMA SumsStep ==
  ASSUME NEW l, NEW S, NEW g, Sums(g, l, S), NEW s \in SUBSET S
  PROVE  /\ s = {} => g[s] = 0
         /\ s # {} => \E x \in s : /\ x = CHOOSE y \in s : TRUE
                                   /\ g[s] = l[x].n + g[s \ {x}]
<1>1. g = [t \in SUBSET S |->
        IF t = {} THEN 0 ELSE l[CHOOSE x \in t : TRUE].n + g[t \ {CHOOSE x \in t : TRUE}]]
  BY DEF Sums
<1>2. g[s] = IF s = {} THEN 0 ELSE l[CHOOSE x \in s : TRUE].n + g[s \ {CHOOSE x \in s : TRUE}]
  BY <1>1, Zenon
<1> QED BY <1>2

LEMMA SumsAgree ==
  ASSUME NEW l, NEW S, IsFiniteSet(S), NEW T \in SUBSET S,
         NEW g, Sums(g, l, S), NEW h, Sums(h, l, T)
  PROVE  g[T] = h[T]
<1> DEFINE F == {u \in SUBSET T : g[u] # h[u]}
<1>1. F = {}
  <2> SUFFICES ASSUME F # {} PROVE FALSE
    OBVIOUS
  <2>1. IsFiniteSet(T) /\ F \in SUBSET (SUBSET T)
    BY FS_Subset
  <2>2. PICK u \in F : \A v \in F : v \subseteq u => v = u
    <3> HIDE DEF F
    <3> QED BY <2>1, MinimalSet
  <2>3. u \in SUBSET T /\ u \in SUBSET S /\ g[u] # h[u]
    OBVIOUS
  <2>4. u # {}
    BY <2>3, SumsStep
  <2>5. PICK x \in u : x = (CHOOSE y \in u : TRUE) /\ g[u] = l[x].n + g[u \ {x}]
    BY <2>3, <2>4, SumsStep
  <2>6. h[u] = l[x].n + h[u \ {x}]
    <3>1. \E y \in u : y = (CHOOSE z \in u : TRUE) /\ h[u] = l[y].n + h[u \ {y}]
      BY <2>3, <2>4, SumsStep
    <3> QED BY <2>5, <3>1
  <2>7. g[u \ {x}] = h[u \ {x}]
    BY <2>2, <2>3, <2>5
  <2> QED BY <2>3, <2>5, <2>6, <2>7
<1> QED BY <1>1

LEMMA SumsExist ==
  ASSUME NEW l, NEW S, IsFiniteSet(S)
  PROVE  \E g : Sums(g, l, S)
<1> DEFINE F == {u \in SUBSET S : ~ \E g : Sums(g, l, u)}
<1>1. F = {}
  <2> SUFFICES ASSUME F # {} PROVE FALSE
    OBVIOUS
  <2>1. PICK u \in F : \A v \in F : v \subseteq u => v = u
    <3>1. F \in SUBSET (SUBSET S)
      OBVIOUS
    <3> HIDE DEF F
    <3> QED BY <3>1, MinimalSet
  <2>2. u \in SUBSET S /\ IsFiniteSet(u) /\ ~ \E g : Sums(g, l, u)
    BY FS_Subset
  <2> DEFINE below(v) == CHOOSE g : Sums(g, l, v)
             pick(v) == CHOOSE y \in v : TRUE
             g == [v \in SUBSET u |-> IF v = {} THEN 0
                                      ELSE l[pick(v)].n + below(v \ {pick(v)})[v \ {pick(v)}]]
  <2>3. \A v \in SUBSET u : v # u => IsFiniteSet(v) /\ Sums(below(v), l, v)
    <3> SUFFICES ASSUME NEW v \in SUBSET u, v # u PROVE IsFiniteSet(v) /\ Sums(below(v), l, v)
      OBVIOUS
    <3>1. IsFiniteSet(v)
      BY <2>2, FS_Subset
    <3>2. v \in SUBSET S /\ v \notin F
      BY <2>1, <2>2
    <3>3. \E k : Sums(k, l, v)
      BY <3>2
    <3>4. Sums(below(v), l, v)
      BY <3>3, Zenon
    <3> QED BY <3>1, <3>4
  <2>4. \A v \in SUBSET u : v # {} => pick(v) \in v
    OBVIOUS
  <2>5. \A v \in SUBSET u : v # u => g[v] = below(v)[v]
    <3> SUFFICES ASSUME NEW v \in SUBSET u, v # u PROVE g[v] = below(v)[v]
      OBVIOUS
    <3>1. Sums(below(v), l, v) /\ IsFiniteSet(v)
      BY <2>3
    <3>2. CASE v = {}
      <4>1. below(v)[v] = 0
        BY <3>1, <3>2, SumsStep
      <4>2. g[v] = 0
        BY <3>2, Zenon
      <4> QED BY <4>1, <4>2
    <3>3. CASE v # {}
      <4> DEFINE x == pick(v)
                 r == v \ {x}
      <4>1. x \in v /\ r \in SUBSET v /\ r \in SUBSET u /\ r # u
        BY <2>4, <3>3
      <4>2. g[v] = l[x].n + below(r)[r]
        BY <3>3, Zenon
      <4>3. below(v)[v] = l[x].n + below(v)[r]
        <5> HIDE DEF below
        <5>1. \E y \in v : y = pick(v) /\ below(v)[v] = l[y].n + below(v)[v \ {y}]
          BY <3>1, <3>3, SumsStep
        <5> QED BY <5>1
      <4>4. Sums(below(r), l, r)
        BY <2>3, <4>1
      <4> HIDE DEF below, r, x
      <4>5. below(v)[r] = below(r)[r]
        BY <3>1, <4>1, <4>4, SumsAgree
      <4> QED BY <4>2, <4>3, <4>5
    <3> QED BY <3>2, <3>3
  <2>6. \A v \in SUBSET u : v # {} => g[v] = l[pick(v)].n + g[v \ {pick(v)}]
    <3> SUFFICES ASSUME NEW v \in SUBSET u, v # {}
                 PROVE  g[v] = l[pick(v)].n + g[v \ {pick(v)}]
      OBVIOUS
    <3> DEFINE r == v \ {pick(v)}
    <3>1. g[v] = l[pick(v)].n + below(r)[r]
      BY Zenon
    <3>2. r \in SUBSET u /\ r # u
      BY <2>4
    <3>3. g[r] = below(r)[r]
      BY <2>5, <3>2
    <3> QED BY <3>1, <3>3
  <2>7. g[{}] = 0
    BY Zenon
  <2>8. Sums(g, l, u)
    <3> DEFINE f == [v \in SUBSET u |->
          IF v = {} THEN 0 ELSE l[pick(v)].n + g[v \ {pick(v)}]]
    <3>1. \A v \in SUBSET u : g[v] = f[v]
      <4> SUFFICES ASSUME NEW v \in SUBSET u PROVE g[v] = f[v]
        OBVIOUS
      <4>1. f[v] = IF v = {} THEN 0 ELSE l[pick(v)].n + g[v \ {pick(v)}]
        BY Zenon
      <4> HIDE DEF g, f
      <4> QED BY <2>6, <2>7, <4>1
    <3>2. g = f
      <4>1. g = [v \in SUBSET u |-> g[v]]
        OBVIOUS
      <4>2. f = [v \in SUBSET u |-> f[v]]
        OBVIOUS
      <4> HIDE DEF g, f
      <4> QED BY <3>1, <4>1, <4>2
    <3> HIDE DEF g
    <3> QED BY <3>2, Zenon DEF Sums
  <2> QED BY <2>2, <2>8
<1> QED BY <1>1

\* The minutes of no period are 0, those of some period are its own and those
\* of the others.
LEMMA MinutesEmpty ==
  ASSUME NEW l
  PROVE  Rules!Minutes(l, {}) = 0
<1>1. IsFiniteSet({}) /\ {} \in SUBSET {}
  BY FS_EmptySet
<1>2. Sums(CHOOSE g : Sums(g, l, {}), l, {})
  BY <1>1, SumsExist
<1> QED BY <1>1, <1>2, MinutesIs, SumsStep

LEMMA MinutesPick ==
  ASSUME NEW l, NEW S, IsFiniteSet(S), S # {}
  PROVE  \E x \in S : Rules!Minutes(l, S) = l[x].n + Rules!Minutes(l, S \ {x})
<1> DEFINE f(T) == CHOOSE g : Sums(g, l, T)
<1>1. \A T \in SUBSET S : IsFiniteSet(T)
  BY FS_Subset
<1>2. \A T \in SUBSET S : Sums(f(T), l, T)
  <2> SUFFICES ASSUME NEW T \in SUBSET S PROVE Sums(f(T), l, T)
    OBVIOUS
  <2>1. \E g : Sums(g, l, T)
    BY <1>1, SumsExist
  <2> QED BY <2>1, Zenon
<1>3. \A T \in SUBSET S : Rules!Minutes(l, T) = f(T)[T]
  BY MinutesIs
<1> HIDE DEF f
<1>4. PICK x \in S : f(S)[S] = l[x].n + f(S)[S \ {x}]
  BY <1>2, SumsStep
<1>5. f(S)[S \ {x}] = f(S \ {x})[S \ {x}]
  BY <1>2, SumsAgree
<1> QED BY <1>3, <1>4, <1>5

LEMMA MinutesNat ==
  ASSUME NEW l, NEW S, IsFiniteSet(S), \A i \in S : l[i].n \in Nat
  PROVE  Rules!Minutes(l, S) \in Nat
<1> DEFINE F == {u \in SUBSET S : Rules!Minutes(l, u) \notin Nat}
<1>1. F = {}
  <2> SUFFICES ASSUME F # {} PROVE FALSE
    OBVIOUS
  <2>1. F \in SUBSET (SUBSET S) /\ \A u \in F : Rules!Minutes(l, u) \notin Nat
    OBVIOUS
  <2>2. \A u \in SUBSET S : u \notin F => Rules!Minutes(l, u) \in Nat
    OBVIOUS
  <2> HIDE DEF F
  <2>3. PICK u \in F : \A v \in F : v \subseteq u => v = u
    BY <2>1, MinimalSet
  <2>4. u # {}
    BY <2>1, MinutesEmpty
  <2>5. IsFiniteSet(u)
    BY <2>1, FS_Subset
  <2>6. PICK x \in u : Rules!Minutes(l, u) = l[x].n + Rules!Minutes(l, u \ {x})
    BY <2>4, <2>5, MinutesPick
  <2>7. u \ {x} \in SUBSET S /\ u \ {x} \notin F /\ l[x].n \in Nat
    BY <2>1, <2>3
  <2>8. Rules!Minutes(l, u \ {x}) \in Nat
    BY <2>2, <2>7
  <2> QED BY <2>1, <2>6, <2>7, <2>8
<1> QED BY <1>1

LEMMA MinutesRemove ==
  ASSUME NEW l, NEW S, IsFiniteSet(S), \A i \in S : l[i].n \in Nat, NEW x \in S
  PROVE  Rules!Minutes(l, S) = l[x].n + Rules!Minutes(l, S \ {x})
<1> DEFINE Splits(u, y) == Rules!Minutes(l, u) = l[y].n + Rules!Minutes(l, u \ {y})
           F == {u \in SUBSET S : \E y \in u : ~ Splits(u, y)}
<1>1. F = {}
  <2> SUFFICES ASSUME F # {} PROVE FALSE
    OBVIOUS
  <2>1. F \in SUBSET (SUBSET S) /\ \A u \in F : \E y \in u : ~ Splits(u, y)
    OBVIOUS
  <2>2. \A u \in SUBSET S : u \notin F => \A y \in u : Splits(u, y)
    OBVIOUS
  <2> HIDE DEF F
  <2>3. PICK u \in F : \A v \in F : v \subseteq u => v = u
    BY <2>1, MinimalSet
  <2>4. PICK y \in u : ~ Splits(u, y)
    BY <2>1
  <2>5. PICK z \in u : Splits(u, z)
    <3>1. IsFiniteSet(u)
      BY <2>1, FS_Subset
    <3> QED BY <2>4, <3>1, MinutesPick
  <2>6. y # z
    BY <2>4, <2>5
  <2>7. u \ {y} \notin F /\ u \ {z} \notin F /\ u \in SUBSET S
    BY <2>1, <2>3
  <2>8. Splits(u \ {y}, z) /\ Splits(u \ {z}, y)
    BY <2>2, <2>6, <2>7
  <2>9. (u \ {y}) \ {z} = (u \ {z}) \ {y}
    OBVIOUS
  <2>10. l[y].n \in Nat /\ l[z].n \in Nat /\ Rules!Minutes(l, (u \ {z}) \ {y}) \in Nat
    <3>1. IsFiniteSet((u \ {z}) \ {y}) /\ (u \ {z}) \ {y} \subseteq S
      BY <2>7, FS_Subset
    <3> QED BY <2>7, <3>1, MinutesNat
  <2> HIDE DEF Splits
  <2>11. /\ Rules!Minutes(l, u) = l[z].n + Rules!Minutes(l, u \ {z})
         /\ Rules!Minutes(l, u \ {z}) = l[y].n + Rules!Minutes(l, (u \ {z}) \ {y})
         /\ Rules!Minutes(l, u \ {y}) = l[z].n + Rules!Minutes(l, (u \ {z}) \ {y})
    BY <2>5, <2>8, <2>9 DEF Splits
  <2>12. Rules!Minutes(l, u) = l[y].n + Rules!Minutes(l, u \ {y})
    BY <2>10, <2>11
  <2> QED BY <2>4, <2>12 DEF Splits
<1>2. S \notin F
  BY <1>1
<1> QED BY <1>2

\* Periods elsewhere that are as long make up as much.
LEMMA MinutesMoved ==
  ASSUME NEW l, NEW m, NEW J, IsFiniteSet(J), NEW h,
         \A i \in J : l[i].n \in Nat /\ m[h[i]].n = l[i].n,
         \A i, j \in J : h[i] = h[j] => i = j
  PROVE  Rules!Minutes(m, {h[i] : i \in J}) = Rules!Minutes(l, J)
<1> DEFINE Image(u) == {h[i] : i \in u}
           F == {u \in SUBSET J : Rules!Minutes(m, Image(u)) # Rules!Minutes(l, u)}
<1>0. \A u \in SUBSET J : IsFiniteSet(u) /\ IsFiniteSet(Image(u))
  <2> SUFFICES ASSUME NEW u \in SUBSET J PROVE IsFiniteSet(u) /\ IsFiniteSet(Image(u))
    OBVIOUS
  <2>1. IsFiniteSet(u)
    BY FS_Subset
  <2> DEFINE g == [i \in u |-> h[i]]
  <2>2. g \in Surjection(u, Image(u))
    BY DEF Surjection
  <2> HIDE DEF g
  <2> QED BY <2>1, <2>2, FS_Surjection
<1>1. F = {}
  <2> SUFFICES ASSUME F # {} PROVE FALSE
    OBVIOUS
  <2>1. F \in SUBSET (SUBSET J) /\ \A u \in F : Rules!Minutes(m, Image(u)) # Rules!Minutes(l, u)
    OBVIOUS
  <2>2. \A u \in SUBSET J : u \notin F => Rules!Minutes(m, Image(u)) = Rules!Minutes(l, u)
    OBVIOUS
  <2> HIDE DEF F
  <2>3. PICK u \in F : \A v \in F : v \subseteq u => v = u
    BY <2>1, MinimalSet
  <2>4. u \in SUBSET J /\ IsFiniteSet(u) /\ IsFiniteSet(Image(u))
    BY <1>0, <2>1
  <2>5. u # {}
    <3>1. Image({}) = {}
      OBVIOUS
    <3> QED BY <2>1, <3>1, MinutesEmpty
  <2>6. PICK x \in u : TRUE
    BY <2>5
  <2>7. Rules!Minutes(l, u) = l[x].n + Rules!Minutes(l, u \ {x})
    BY <2>4, MinutesRemove
  <2>8. Rules!Minutes(m, Image(u)) = m[h[x]].n + Rules!Minutes(m, Image(u) \ {h[x]})
    <3>1. h[x] \in Image(u) /\ \A k \in Image(u) : m[k].n \in Nat
      BY <2>4
    <3> HIDE DEF Image
    <3> QED BY <2>4, <3>1, MinutesRemove
  <2>9. Image(u) \ {h[x]} = Image(u \ {x})
    BY <2>4
  <2>10. Rules!Minutes(m, Image(u \ {x})) = Rules!Minutes(l, u \ {x})
    BY <2>2, <2>3, <2>4
  <2>11. m[h[x]].n = l[x].n
    BY <2>4
  <2> QED BY <2>1, <2>7, <2>8, <2>9, <2>10, <2>11
<1>2. J \notin F
  BY <1>1
<1> QED BY <1>2

\* So do the same periods of another log.
LEMMA MinutesSame ==
  ASSUME NEW l, NEW m, NEW J, IsFiniteSet(J),
         \A i \in J : l[i].n \in Nat /\ m[i].n = l[i].n
  PROVE  Rules!Minutes(m, J) = Rules!Minutes(l, J)
<1> DEFINE h == [i \in J |-> i]
<1>1. {h[i] : i \in J} = J /\ \A i \in J : h[i] = i
  OBVIOUS
<1> HIDE DEF h
<1>2. Rules!Minutes(m, {h[i] : i \in J}) = Rules!Minutes(l, J)
  BY <1>1, MinutesMoved
<1> QED BY <1>1, <1>2

\* A period more adds its minutes.
LEMMA MinutesAdd ==
  ASSUME NEW l, NEW m, NEW A, NEW B, IsFiniteSet(A), NEW x, x \notin A, B = A \cup {x},
         m[x].n \in Nat, \A i \in A : m[i].n = l[i].n /\ l[i].n \in Nat
  PROVE  Rules!Minutes(m, B) = Rules!Minutes(l, A) + m[x].n
<1>1. Rules!Minutes(l, A) \in Nat /\ Rules!Minutes(m, A) = Rules!Minutes(l, A)
  BY MinutesNat, MinutesSame
<1>2. IsFiniteSet(B) /\ x \in B /\ B \ {x} = A /\ \A i \in B : m[i].n \in Nat
  BY FS_AddElement
<1>3. Rules!Minutes(m, B) = m[x].n + Rules!Minutes(m, B \ {x})
  BY <1>2, MinutesRemove
<1>4. Rules!Minutes(m, B \ {x}) = Rules!Minutes(m, A)
  BY <1>2, Zenon
<1> QED BY <1>1, <1>3, <1>4

-----------------------------------------------------------------------------
(* The last of some periods *)

\* A set of natural numbers that is not empty has a least element.
LEMMA LeastMember ==
  ASSUME NEW T \in SUBSET Nat, T # {}
  PROVE  \E m \in T : \A k \in T : m <= k
<1> DEFINE R == OpToRel(<, Nat)
<1>1. IsWellFoundedOn(R, Nat)
  BY NatLessThanWellFounded
<1>2. \A x, y \in Nat : <<x, y>> \in R <=> x < y
  BY DEF OpToRel
<1> HIDE DEF R
<1>3. PICK m \in T : \A k \in T : ~ (<<k, m>> \in R)
  BY <1>1, WFMin
<1>4. ASSUME NEW k \in T PROVE m <= k
  <2>1. m \in Nat /\ k \in Nat
    OBVIOUS
  <2>2. ~ (k < m)
    BY <1>2, <1>3, <2>1, Zenon
  <2> QED BY <2>1, <2>2
<1> QED BY <1>4

LEMMA LastOfUnique ==
  ASSUME NEW I \in SUBSET Nat, NEW m \in I \cup {0}, \A i \in I : i <= m
  PROVE  Rules!LastOf(I) = m
<1>1. m \in Nat /\ \A y \in I \cup {0} : m >= y
  OBVIOUS
<1>2. ASSUME NEW x \in I \cup {0}, \A y \in I \cup {0} : x >= y PROVE x = m
  BY <1>1, <1>2
<1> QED BY <1>1, <1>2 DEF Rules!LastOf, Rules!Max

LEMMA LastOfIs ==
  ASSUME NEW n \in Nat, NEW I \in SUBSET (1..n)
  PROVE  /\ Rules!LastOf(I) \in I \cup {0} /\ Rules!LastOf(I) \in 0..n
         /\ \A i \in I : i <= Rules!LastOf(I)
<1> DEFINE T == {k \in 0..n : n - k \in I \cup {0}}
<1>1. n \in T /\ T \in SUBSET Nat
  OBVIOUS
<1>2. PICK k \in T : \A j \in T : k <= j
  <2> HIDE DEF T
  <2> QED BY <1>1, LeastMember
<1>3. n - k \in I \cup {0} /\ k \in 0..n
  BY <1>2
<1>4. \A i \in I : i <= n - k
  <2> SUFFICES ASSUME NEW i \in I PROVE i <= n - k
    OBVIOUS
  <2>1. i \in 1..n /\ n - i \in 0..n /\ n - (n - i) = i
    OBVIOUS
  <2>2. n - i \in T
    BY <2>1
  <2>3. k <= n - i
    BY <1>2, <2>2
  <2> QED BY <1>3, <2>1, <2>3
<1>5. Rules!LastOf(I) = n - k
  BY <1>3, <1>4, LastOfUnique
<1> QED BY <1>3, <1>4, <1>5

\* One period more is the last of its kind, or the last of before still is.
LEMMA LastOfGrows ==
  ASSUME NEW n \in Nat, NEW A \in SUBSET (1..n), NEW B \in SUBSET (1..(n+1)),
         \A i \in 1..n : i \in B <=> i \in A
  PROVE  Rules!LastOf(B) = IF n + 1 \in B THEN n + 1 ELSE Rules!LastOf(A)
<1>1. CASE n + 1 \in B
  BY <1>1, LastOfUnique
<1>2. CASE n + 1 \notin B
  <2>1. \A i \in B : i \in A
    <3> SUFFICES ASSUME NEW i \in B PROVE i \in A
      OBVIOUS
    <3>1. i \in 1..n
      BY <1>2
    <3> QED BY <3>1
  <2>2. \A i \in A : i \in B
    OBVIOUS
  <2>3. B = A
    BY <2>1, <2>2
  <2> QED BY <1>2, <2>3
<1> QED BY <1>1, <1>2

-----------------------------------------------------------------------------
(* A log with one period more *)

\* Log m is log l with one period more, of k minutes.
OneMore(l, m, k) ==
  /\ l \in Seq(Rules!Period) /\ m \in Seq(Rules!Period)
  /\ Len(m) = Len(l) + 1 /\ m[Len(m)].n = k
  /\ \A i \in 1..Len(l) : m[i] = l[i]

LEMMA OneMoreFacts ==
  ASSUME NEW l, NEW m, NEW k, OneMore(l, m, k)
  PROVE  /\ Len(l) \in Nat /\ Len(m) = Len(l) + 1 /\ k \in Nat
         /\ m[Len(l) + 1].n = k /\ m[Len(l) + 1] \in Rules!Period
         /\ Rules!Upto(l) = 1..Len(l) /\ Rules!Upto(m) = 1..(Len(l) + 1)
         /\ \A i \in 1..Len(l) : m[i] = l[i] /\ l[i].n \in Nat
         /\ \A i \in 1..(Len(l) + 1) : m[i].n \in Nat
<1>1. /\ Len(l) \in Nat /\ Len(m) = Len(l) + 1 /\ Len(l) + 1 \in 1..Len(m)
      /\ \A i \in 1..Len(l) : m[i] = l[i] /\ l[i] \in Rules!Period
      /\ \A i \in 1..(Len(l) + 1) : m[i] \in Rules!Period
      /\ m[Len(l) + 1].n = k
  BY DEF OneMore
<1>2. \A q \in Rules!Period : q.n \in Nat
  BY DEF Rules!Period
<1> QED BY <1>1, <1>2 DEF Rules!Upto

LEMMA MinutesGrow ==
  ASSUME NEW l, NEW m, NEW k, OneMore(l, m, k),
         NEW A \in SUBSET (1..Len(l)), NEW B \in SUBSET (1..(Len(l) + 1)),
         \A i \in 1..Len(l) : i \in B <=> i \in A
  PROVE  /\ Rules!Minutes(l, A) \in Nat
         /\ Rules!Minutes(m, B) =
              Rules!Minutes(l, A) + (IF Len(l) + 1 \in B THEN k ELSE 0)
<1> DEFINE n == Len(l)
           x == n + 1
<1>1. /\ n \in Nat /\ k \in Nat /\ m[x].n = k
      /\ \A i \in A : m[i].n = l[i].n /\ l[i].n \in Nat
      /\ \A i \in B : i \in 1..n \/ i = x
      /\ \A i \in A : i \in 1..n /\ i # x
  BY OneMoreFacts
<1>2. IsFiniteSet(A)
  <2>1. n \in Int
    BY <1>1
  <2>2. IsFiniteSet(1..n)
    <3> HIDE DEF n
    <3> QED BY <2>1, FS_Interval
  <2> QED BY <2>2, FS_Subset
<1>3. /\ x \notin A
      /\ x \in B => B = A \cup {x}
      /\ x \notin B => B = A
  <2> HIDE DEF x
  <2> QED BY <1>1 DEF n
<1>4. Rules!Minutes(l, A) \in Nat
  BY <1>1, <1>2, MinutesNat
<1> HIDE DEF n, x
<1>5. CASE x \in B
  <2>1. m[x].n \in Nat /\ B = A \cup {x}
    BY <1>1, <1>3, <1>5
  <2>2. Rules!Minutes(m, B) = Rules!Minutes(l, A) + m[x].n
    BY <1>1, <1>2, <1>3, <2>1, MinutesAdd
  <2> QED BY <1>1, <1>4, <1>5, <2>2 DEF n, x
<1>6. CASE x \notin B
  <2>1. B = A
    BY <1>3, <1>6
  <2>2. Rules!Minutes(m, A) = Rules!Minutes(l, A)
    BY <1>1, <1>2, MinutesSame
  <2> QED BY <1>4, <1>6, <2>1, <2>2 DEF n, x
<1> QED BY <1>5, <1>6

\* What was said of a period is said of it still.
LEMMA StreakStays ==
  ASSUME NEW l, NEW m, NEW k, OneMore(l, m, k), NEW s, NEW j \in 0..Len(l)
  PROVE  Rules!Streak(m, j, s) = Rules!Streak(l, j, s)
<1> DEFINE W == {i \in 1..j : ~ Rules!Resting(l, i)}
           w == Rules!LastOf(W)
<1>1. Len(l) \in Nat /\ \A i \in 1..j : m[i] = l[i] /\ l[i].n \in Nat
  BY OneMoreFacts
<1>2. {i \in 1..j : ~ Rules!Resting(m, i)} = W
  BY <1>1 DEF Rules!Resting
<1>3. w \in 0..j
  BY <1>1, LastOfIs
<1> HIDE DEF w
<1>4. IsFiniteSet((w + 1)..j) /\ \A i \in (w + 1)..j : m[i].n = l[i].n /\ l[i].n \in Nat
  <2>1. j \in Nat /\ w + 1 \in Int /\ j \in Int
    BY <1>1, <1>3
  <2>2. IsFiniteSet((w + 1)..j)
    BY <2>1, FS_Interval
  <2>3. \A i \in (w + 1)..j : i \in 1..j
    BY <1>3, <2>1
  <2> QED BY <1>1, <2>2, <2>3
<1>5. Rules!Minutes(m, (w + 1)..j) = Rules!Minutes(l, (w + 1)..j)
  BY <1>4, MinutesSame
<1> QED BY <1>2, <1>5 DEF Rules!Streak, w

LEMMA StreakGrows ==
  ASSUME NEW l, NEW m, NEW k, OneMore(l, m, k), NEW s, s.daily \in Nat
  PROVE  /\ Rules!Streak(l, Len(l), s) \in Nat
         /\ Rules!Streak(m, Len(m), s) = IF Rules!Resting(m, Len(m))
                                         THEN Rules!Streak(l, Len(l), s) + k ELSE 0
<1> DEFINE n == Len(l)
           W == {i \in 1..n : ~ Rules!Resting(l, i)}
           V == {i \in 1..(n + 1) : ~ Rules!Resting(m, i)}
           w == Rules!LastOf(W)
           v == Rules!LastOf(V)
<1>1. /\ n \in Nat /\ k \in Nat /\ Len(m) = n + 1
      /\ \A i \in 1..n : m[i] = l[i]
  BY OneMoreFacts
<1>2. \A i \in 1..n : i \in V <=> i \in W
  BY <1>1 DEF Rules!Resting
<1>3. v = (IF n + 1 \in V THEN n + 1 ELSE w) /\ w \in 0..n
  <2>1. W \in SUBSET (1..n) /\ V \in SUBSET (1..(n + 1))
    OBVIOUS
  <2> HIDE DEF W, V
  <2> QED BY <1>1, <1>2, <2>1, LastOfGrows, LastOfIs
<1>4. n + 1 \in V <=> ~ Rules!Resting(m, n + 1)
  BY <1>1
<1>5. /\ Rules!Streak(l, n, s) = Rules!Minutes(l, (w + 1)..n) + (IF w = 0 THEN s.daily ELSE 0)
      /\ Rules!Streak(m, n + 1, s) =
           Rules!Minutes(m, (v + 1)..(n + 1)) + (IF v = 0 THEN s.daily ELSE 0)
  BY DEF Rules!Streak
<1> HIDE DEF w, v, V
<1>6. /\ Rules!Minutes(l, (w + 1)..n) \in Nat
      /\ Rules!Minutes(m, (w + 1)..(n + 1)) = Rules!Minutes(l, (w + 1)..n) + k
  <2>1. /\ (w + 1)..n \in SUBSET (1..n) /\ (w + 1)..(n + 1) \in SUBSET (1..(n + 1))
        /\ \A i \in 1..n : i \in (w + 1)..(n + 1) <=> i \in (w + 1)..n
        /\ n + 1 \in (w + 1)..(n + 1)
    BY <1>1, <1>3
  <2> DEFINE A == (w + 1)..n
             B == (w + 1)..(n + 1)
  <2>2. /\ A \in SUBSET (1..n) /\ B \in SUBSET (1..(n + 1)) /\ n + 1 \in B
        /\ \A i \in 1..n : i \in B <=> i \in A
    BY <2>1
  <2> HIDE DEF A, B
  <2>3. Rules!Minutes(l, A) \in Nat /\ Rules!Minutes(m, B) = Rules!Minutes(l, A) + k
    BY <2>2, MinutesGrow
  <2> QED BY <2>3 DEF A, B
<1>7. CASE Rules!Resting(m, n + 1)
  BY <1>1, <1>3, <1>4, <1>5, <1>6, <1>7
<1>8. CASE ~ Rules!Resting(m, n + 1)
  <2>1. v = n + 1 /\ (v + 1)..(n + 1) = {}
    BY <1>1, <1>3, <1>4, <1>8
  <2>2. Rules!Minutes(m, (v + 1)..(n + 1)) = 0
    BY <2>1, MinutesEmpty
  <2> QED BY <1>1, <1>3, <1>5, <1>6, <1>8, <2>1, <2>2
<1> QED BY <1>7, <1>8

LEMMA PeriodsStay ==
  ASSUME NEW l, NEW m, NEW k, OneMore(l, m, k), NEW s
  PROVE  \A j \in 1..Len(l) :
           /\ Rules!Resting(m, j) = Rules!Resting(l, j)
           /\ Rules!Restart(m, j, s) = Rules!Restart(l, j, s)
           /\ Rules!FullReset(m, j, s) = Rules!FullReset(l, j, s)
           /\ Rules!Part(m, j, s) = Rules!Part(l, j, s)
           /\ Rules!SplitReset(m, j, s) = Rules!SplitReset(l, j, s)
<1> DEFINE n == Len(l)
<1>1. n \in Nat /\ \A j \in 1..n : m[j] = l[j]
  BY OneMoreFacts
<1>2. \A j \in 1..n : Rules!Streak(m, j, s) = Rules!Streak(l, j, s)
  BY StreakStays
<1>3. \A j \in 1..n : Rules!Resting(m, j) = Rules!Resting(l, j)
  BY <1>1 DEF Rules!Resting
<1>4. \A j \in 1..n : Rules!Restart(m, j, s) = Rules!Restart(l, j, s)
  BY <1>2, <1>3 DEF Rules!Restart
<1>5. \A j \in 1..n : Rules!FullReset(m, j, s) = Rules!FullReset(l, j, s)
  BY <1>2, <1>3 DEF Rules!FullReset
<1>6. \A j \in 1..n : Rules!Part(m, j, s) = Rules!Part(l, j, s)
  BY <1>1, <1>3, <1>5 DEF Rules!Part
<1>7. ASSUME NEW j \in 1..n PROVE Rules!SplitReset(m, j, s) = Rules!SplitReset(l, j, s)
  <2> DEFINE X == {i \in 1..(j-1) : Rules!Part(l, i, s)}
             Y == {i \in 1..(j-1) : Rules!FullReset(l, i, s)}
             b == Rules!LastOf(X)
             r == Rules!LastOf(Y)
  <2>1. {i \in 1..(j-1) : Rules!Part(m, i, s)} = X
        /\ {i \in 1..(j-1) : Rules!FullReset(m, i, s)} = Y
    BY <1>1, <1>5, <1>6
  <2>2. b \in 0..(j-1) /\ r \in 0..(j-1)
    <3>1. j - 1 \in Nat /\ X \in SUBSET (1..(j-1)) /\ Y \in SUBSET (1..(j-1))
      BY <1>1
    <3> HIDE DEF X, Y
    <3> QED BY <3>1, LastOfIs
  <2>3. /\ Rules!SplitReset(l, j, s) =
             (Rules!Part(l, j, s) /\ b > r /\ Rules!SplitPair(l, b, j, s))
        /\ Rules!SplitReset(m, j, s) =
             (Rules!Part(m, j, s) /\ b > r /\ Rules!SplitPair(m, b, j, s))
    BY <2>1 DEF Rules!SplitReset
  <2> HIDE DEF b, r
  <2>4. b > r => Rules!SplitPair(m, b, j, s) = Rules!SplitPair(l, b, j, s)
    <3> SUFFICES ASSUME b > r PROVE Rules!SplitPair(m, b, j, s) = Rules!SplitPair(l, b, j, s)
      OBVIOUS
    <3>1. m[b] = l[b] /\ m[j] = l[j]
      BY <1>1, <2>2
    <3> QED BY <3>1 DEF Rules!SplitPair
  <2> QED BY <1>6, <2>3, <2>4
<1> QED BY <1>3, <1>4, <1>5, <1>6, <1>7

LastPart(l, s) == Rules!LastOf({j \in Rules!Upto(l) : Rules!Part(l, j, s)})
LastFull(l, s) == Rules!LastOf({j \in Rules!Upto(l) : Rules!FullReset(l, j, s)})

\* Whether the new period is a break, or takes the shift back to its start.
Breaks(m, s) ==
  LET i == Len(m)
  IN  /\ Rules!Resting(m, i)
      /\ (Rules!FullReset(m, i, s) \/ Rules!Part(m, i, s) \/ m[i].n >= s.rest)
Resets(m, s) == Rules!FullReset(m, Len(m), s) \/ Rules!SplitReset(m, Len(m), s)

LEMMA LastsGrow ==
  ASSUME NEW l, NEW m, NEW k, OneMore(l, m, k), NEW s
  PROVE  /\ LastPart(m, s) = IF Rules!Part(m, Len(m), s) THEN Len(m) ELSE LastPart(l, s)
         /\ LastFull(m, s) = IF Rules!FullReset(m, Len(m), s) THEN Len(m) ELSE LastFull(l, s)
         /\ Rules!ShiftStart(m, s) = IF Resets(m, s) THEN Len(m) ELSE Rules!ShiftStart(l, s)
         /\ Rules!LastBreak(m, s) = IF Breaks(m, s) THEN Len(m) ELSE Rules!LastBreak(l, s)
         /\ Rules!CycleStart(m, s) = IF Rules!Restart(m, Len(m), s) THEN Len(m)
                                     ELSE Rules!CycleStart(l, s)
         /\ LastPart(l, s) \in 0..Len(l) /\ LastFull(l, s) \in 0..Len(l)
         /\ Rules!ShiftStart(l, s) \in 0..Len(l) /\ Rules!LastBreak(l, s) \in 0..Len(l)
         /\ Rules!CycleStart(l, s) \in 0..Len(l)
<1> DEFINE n == Len(l)
           R(q, i) == Rules!FullReset(q, i, s) \/ Rules!SplitReset(q, i, s)
           B(q, i) == Rules!Resting(q, i)
                      /\ (Rules!FullReset(q, i, s) \/ Rules!Part(q, i, s) \/ q[i].n >= s.rest)
<1>1. /\ n \in Nat /\ Len(m) = n + 1 /\ Rules!Upto(l) = 1..n /\ Rules!Upto(m) = 1..(n + 1)
      /\ \A i \in 1..n : m[i] = l[i]
  BY OneMoreFacts
<1>2. \A i \in 1..n : /\ Rules!Part(m, i, s) = Rules!Part(l, i, s)
                      /\ Rules!FullReset(m, i, s) = Rules!FullReset(l, i, s)
                      /\ Rules!Restart(m, i, s) = Rules!Restart(l, i, s)
                      /\ R(m, i) = R(l, i) /\ B(m, i) = B(l, i)
  BY <1>1, PeriodsStay
<1>3. /\ LastPart(m, s) = (IF Rules!Part(m, n + 1, s) THEN n + 1 ELSE LastPart(l, s))
      /\ LastPart(l, s) \in 0..n
  <2> DEFINE X == {j \in 1..n : Rules!Part(l, j, s)}
             Y == {j \in 1..(n + 1) : Rules!Part(m, j, s)}
  <2>1. /\ X \in SUBSET (1..n) /\ Y \in SUBSET (1..(n + 1))
        /\ \A i \in 1..n : i \in Y <=> i \in X
        /\ n + 1 \in Y <=> Rules!Part(m, n + 1, s)
    BY <1>1, <1>2
  <2>2. LastPart(l, s) = Rules!LastOf(X) /\ LastPart(m, s) = Rules!LastOf(Y)
    BY <1>1 DEF LastPart
  <2> HIDE DEF X, Y
  <2> QED BY <1>1, <2>1, <2>2, LastOfGrows, LastOfIs
<1>4. /\ LastFull(m, s) = (IF Rules!FullReset(m, n + 1, s) THEN n + 1 ELSE LastFull(l, s))
      /\ LastFull(l, s) \in 0..n
  <2> DEFINE X == {j \in 1..n : Rules!FullReset(l, j, s)}
             Y == {j \in 1..(n + 1) : Rules!FullReset(m, j, s)}
  <2>1. /\ X \in SUBSET (1..n) /\ Y \in SUBSET (1..(n + 1))
        /\ \A i \in 1..n : i \in Y <=> i \in X
        /\ n + 1 \in Y <=> Rules!FullReset(m, n + 1, s)
    BY <1>1, <1>2
  <2>2. LastFull(l, s) = Rules!LastOf(X) /\ LastFull(m, s) = Rules!LastOf(Y)
    BY <1>1 DEF LastFull
  <2> HIDE DEF X, Y
  <2> QED BY <1>1, <2>1, <2>2, LastOfGrows, LastOfIs
<1>5. /\ Rules!ShiftStart(m, s) = (IF R(m, n + 1) THEN n + 1 ELSE Rules!ShiftStart(l, s))
      /\ Rules!ShiftStart(l, s) \in 0..n
  <2> DEFINE X == {j \in 1..n : R(l, j)}
             Y == {j \in 1..(n + 1) : R(m, j)}
  <2>1. /\ X \in SUBSET (1..n) /\ Y \in SUBSET (1..(n + 1))
        /\ \A i \in 1..n : i \in Y <=> i \in X
        /\ n + 1 \in Y <=> R(m, n + 1)
    BY <1>1, <1>2
  <2>2. Rules!ShiftStart(l, s) = Rules!LastOf(X) /\ Rules!ShiftStart(m, s) = Rules!LastOf(Y)
    BY <1>1 DEF Rules!ShiftStart
  <2> HIDE DEF X, Y, R
  <2> QED BY <1>1, <2>1, <2>2, LastOfGrows, LastOfIs
<1>6. /\ Rules!LastBreak(m, s) = (IF B(m, n + 1) THEN n + 1 ELSE Rules!LastBreak(l, s))
      /\ Rules!LastBreak(l, s) \in 0..n
  <2> DEFINE X == {j \in 1..n : B(l, j)}
             Y == {j \in 1..(n + 1) : B(m, j)}
  <2>1. /\ X \in SUBSET (1..n) /\ Y \in SUBSET (1..(n + 1))
        /\ \A i \in 1..n : i \in Y <=> i \in X
        /\ n + 1 \in Y <=> B(m, n + 1)
    BY <1>1, <1>2
  <2>2. Rules!LastBreak(l, s) = Rules!LastOf(X) /\ Rules!LastBreak(m, s) = Rules!LastOf(Y)
    BY <1>1 DEF Rules!LastBreak
  <2> HIDE DEF X, Y, B
  <2> QED BY <1>1, <2>1, <2>2, LastOfGrows, LastOfIs
<1>7. /\ Rules!CycleStart(m, s) =
           (IF Rules!Restart(m, n + 1, s) THEN n + 1 ELSE Rules!CycleStart(l, s))
      /\ Rules!CycleStart(l, s) \in 0..n
  <2> DEFINE X == {j \in 1..n : Rules!Restart(l, j, s)}
             Y == {j \in 1..(n + 1) : Rules!Restart(m, j, s)}
  <2>1. /\ X \in SUBSET (1..n) /\ Y \in SUBSET (1..(n + 1))
        /\ \A i \in 1..n : i \in Y <=> i \in X
        /\ n + 1 \in Y <=> Rules!Restart(m, n + 1, s)
    BY <1>1, <1>2
  <2>2. Rules!CycleStart(l, s) = Rules!LastOf(X) /\ Rules!CycleStart(m, s) = Rules!LastOf(Y)
    BY <1>1 DEF Rules!CycleStart
  <2> HIDE DEF X, Y
  <2> QED BY <1>1, <2>1, <2>2, LastOfGrows, LastOfIs
<1>8. R(m, n + 1) = Resets(m, s) /\ B(m, n + 1) = Breaks(m, s)
  BY <1>1 DEF Resets, Breaks
<1> QED BY <1>1, <1>3, <1>4, <1>5, <1>6, <1>7, <1>8

Kinds == {"drive", "duty", "rest"}
Counted(l, i, s) == {j \in Rules!After(l, Kinds, i) : ~ Rules!Part(l, j, s)}

\* What was spent since a period before the new one grows by the new one if it
\* counts; since the new one nothing was spent.
LEMMA SpentGrows ==
  ASSUME NEW l, NEW m, NEW k, OneMore(l, m, k), NEW i \in 0..Len(l),
         NEW kinds \in SUBSET Kinds
  PROVE  /\ Rules!Minutes(l, Rules!After(l, kinds, i)) \in Nat
         /\ Rules!Minutes(m, Rules!After(m, kinds, i)) =
              Rules!Minutes(l, Rules!After(l, kinds, i))
                + (IF m[Len(m)].kind \in kinds THEN k ELSE 0)
<1> DEFINE n == Len(l)
           X == Rules!After(l, kinds, i)
           Y == Rules!After(m, kinds, i)
<1>1. /\ n \in Nat /\ Len(m) = n + 1 /\ Rules!Upto(l) = 1..n /\ Rules!Upto(m) = 1..(n + 1)
      /\ \A j \in 1..n : m[j] = l[j]
      /\ k \in Nat
  BY OneMoreFacts
<1>2. /\ X \in SUBSET (1..n) /\ Y \in SUBSET (1..(n + 1))
      /\ \A j \in 1..n : j \in Y <=> j \in X
      /\ n + 1 \in Y <=> m[n + 1].kind \in kinds
  BY <1>1 DEF Rules!After
<1> HIDE DEF X, Y
<1>3. /\ Rules!Minutes(l, X) \in Nat
      /\ Rules!Minutes(m, Y) = Rules!Minutes(l, X) + (IF n + 1 \in Y THEN k ELSE 0)
  BY <1>2, MinutesGrow
<1> QED BY <1>1, <1>2, <1>3 DEF X, Y

LEMMA CountedGrows ==
  ASSUME NEW l, NEW m, NEW k, OneMore(l, m, k), NEW s, NEW i \in 0..Len(l)
  PROVE  /\ Rules!Minutes(l, Counted(l, i, s)) \in Nat
         /\ Rules!Minutes(m, Counted(m, i, s)) =
              Rules!Minutes(l, Counted(l, i, s))
                + (IF Rules!Part(m, Len(m), s) THEN 0 ELSE k)
<1> DEFINE n == Len(l)
           X == Counted(l, i, s)
           Y == Counted(m, i, s)
<1>1. /\ n \in Nat /\ Len(m) = n + 1 /\ Rules!Upto(l) = 1..n /\ Rules!Upto(m) = 1..(n + 1)
      /\ \A j \in 1..n : m[j] = l[j] /\ Rules!Part(m, j, s) = Rules!Part(l, j, s)
      /\ m[n + 1] \in Rules!Period /\ k \in Nat
  BY OneMoreFacts, PeriodsStay
<1>2. m[n + 1].kind \in Kinds
  BY <1>1 DEF Rules!Period, Kinds
<1>3. /\ X \in SUBSET (1..n) /\ Y \in SUBSET (1..(n + 1))
      /\ \A j \in 1..n : j \in Y <=> j \in X
      /\ n + 1 \in Y <=> ~ Rules!Part(m, n + 1, s)
  BY <1>1, <1>2 DEF Rules!After, Counted
<1> HIDE DEF X, Y
<1>4. /\ Rules!Minutes(l, X) \in Nat
      /\ Rules!Minutes(m, Y) = Rules!Minutes(l, X) + (IF n + 1 \in Y THEN k ELSE 0)
  BY <1>3, MinutesGrow
<1> QED BY <1>1, <1>3, <1>4 DEF X, Y

\* The first for the two groups of kinds the limits count.
LEMMA DrivenGrows ==
  ASSUME NEW l, NEW m, NEW k, OneMore(l, m, k), NEW i \in 0..Len(l)
  PROVE  /\ Rules!Minutes(l, Rules!After(l, {"drive"}, i)) \in Nat
         /\ Rules!Minutes(m, Rules!After(m, {"drive"}, i)) =
              Rules!Minutes(l, Rules!After(l, {"drive"}, i))
                + (IF m[Len(m)].kind = "drive" THEN k ELSE 0)
<1>1. {"drive"} \in SUBSET Kinds /\ (m[Len(m)].kind \in {"drive"} <=> m[Len(m)].kind = "drive")
  BY DEF Kinds
<1>2. /\ Rules!Minutes(l, Rules!After(l, {"drive"}, i)) \in Nat
      /\ Rules!Minutes(m, Rules!After(m, {"drive"}, i)) =
           Rules!Minutes(l, Rules!After(l, {"drive"}, i))
             + (IF m[Len(m)].kind \in {"drive"} THEN k ELSE 0)
  BY <1>1, SpentGrows
<1> QED BY <1>1, <1>2

LEMMA WorkedGrows ==
  ASSUME NEW l, NEW m, NEW k, OneMore(l, m, k), NEW i \in 0..Len(l)
  PROVE  /\ Rules!Minutes(l, Rules!After(l, {"drive", "duty"}, i)) \in Nat
         /\ Rules!Minutes(m, Rules!After(m, {"drive", "duty"}, i)) =
              Rules!Minutes(l, Rules!After(l, {"drive", "duty"}, i))
                + (IF m[Len(m)].kind \in {"drive", "duty"} THEN k ELSE 0)
<1>1. {"drive", "duty"} \in SUBSET Kinds
  BY DEF Kinds
<1> QED BY <1>1, SpentGrows

LEMMA NothingSince ==
  ASSUME NEW m \in Seq(Rules!Period), NEW s, NEW kinds
  PROVE  /\ Rules!Minutes(m, Rules!After(m, kinds, Len(m))) = 0
         /\ Rules!Minutes(m, Counted(m, Len(m), s)) = 0
<1>1. \A ks : Rules!After(m, ks, Len(m)) = {}
  <2>1. \A i \in 1..Len(m) : ~ (i > Len(m))
    OBVIOUS
  <2> QED BY <2>1 DEF Rules!After, Rules!Upto
<1>2. Counted(m, Len(m), s) = {}
  BY <1>1 DEF Counted
<1> QED BY <1>1, <1>2, MinutesEmpty

-----------------------------------------------------------------------------
(* What is left, one period later *)

LEMMA ShiftLeftIs ==
  ASSUME NEW l, NEW s
  PROVE  LET left == s.maxShift - Rules!Minutes(l, Counted(l, Rules!ShiftStart(l, s), s))
         IN  Rules!ShiftLeft(l, s) = IF left > 0 THEN left ELSE 0
BY DEF Rules!ShiftLeft, Counted, Kinds

\* Work takes from each limit it counts against.
LEMMA WorkLeaves ==
  ASSUME NEW l, NEW m, NEW k, OneMore(l, m, k), NEW s, ValidPolicy(s),
         m[Len(m)].kind \in {"drive", "duty"}, k <= Rules!ShiftLeft(l, s)
  PROVE  LET driven == IF m[Len(m)].kind = "drive" THEN k ELSE 0
         IN  /\ Rules!HygieneLeft(m, s) = Rules!HygieneLeft(l, s) - driven
             /\ Rules!DrivingLeft(m, s) = Rules!DrivingLeft(l, s) - driven
             /\ Rules!CycleLeft(m, s) = Rules!CycleLeft(l, s) - k
             /\ Rules!ShiftLeft(m, s) = Rules!ShiftLeft(l, s) - k
             /\ Rules!Streak(m, Len(m), s) = 0
             /\ LastPart(m, s) = LastPart(l, s) /\ LastFull(m, s) = LastFull(l, s)
<1> DEFINE driven == IF m[Len(m)].kind = "drive" THEN k ELSE 0
<1>1. ~ Rules!Resting(m, Len(m))
  BY DEF Rules!Resting
<1>2. /\ ~ Rules!FullReset(m, Len(m), s) /\ ~ Rules!Part(m, Len(m), s)
      /\ ~ Resets(m, s) /\ ~ Breaks(m, s) /\ ~ Rules!Restart(m, Len(m), s)
  BY <1>1 DEF Rules!FullReset, Rules!Part, Resets, Breaks, Rules!Restart, Rules!SplitReset
<1>3. /\ Rules!ShiftStart(m, s) = Rules!ShiftStart(l, s)
      /\ Rules!LastBreak(m, s) = Rules!LastBreak(l, s)
      /\ Rules!CycleStart(m, s) = Rules!CycleStart(l, s)
      /\ LastPart(m, s) = LastPart(l, s) /\ LastFull(m, s) = LastFull(l, s)
      /\ Rules!ShiftStart(l, s) \in 0..Len(l) /\ Rules!LastBreak(l, s) \in 0..Len(l)
      /\ Rules!CycleStart(l, s) \in 0..Len(l)
  BY <1>2, LastsGrow
<1>4. k \in Nat /\ s.maxHygiene \in Nat /\ s.maxDriving \in Nat /\ s.maxShift \in Nat
      /\ s.maxCycle \in Nat /\ s.daily \in Nat
  BY OneMoreFacts, PolicyLimits
<1>6. Rules!HygieneLeft(m, s) = Rules!HygieneLeft(l, s) - driven
  <2> DEFINE i == Rules!LastBreak(l, s)
             a == Rules!Minutes(l, Rules!After(l, {"drive"}, i))
             b == Rules!Minutes(m, Rules!After(m, {"drive"}, i))
  <2>1. a \in Nat /\ b = a + driven
    BY <1>3, DrivenGrows
  <2>2. Rules!HygieneLeft(m, s) = s.maxHygiene - b /\ Rules!HygieneLeft(l, s) = s.maxHygiene - a
    BY <1>3 DEF Rules!HygieneLeft
  <2> HIDE DEF a, b
  <2> QED BY <1>4, <2>1, <2>2
<1>7. Rules!DrivingLeft(m, s) = Rules!DrivingLeft(l, s) - driven
  <2> DEFINE i == Rules!ShiftStart(l, s)
             a == Rules!Minutes(l, Rules!After(l, {"drive"}, i))
             b == Rules!Minutes(m, Rules!After(m, {"drive"}, i))
  <2>1. a \in Nat /\ b = a + driven
    BY <1>3, DrivenGrows
  <2>2. Rules!DrivingLeft(m, s) = s.maxDriving - b /\ Rules!DrivingLeft(l, s) = s.maxDriving - a
    BY <1>3 DEF Rules!DrivingLeft
  <2> HIDE DEF a, b
  <2> QED BY <1>4, <2>1, <2>2
<1>8. Rules!CycleLeft(m, s) = Rules!CycleLeft(l, s) - k
  <2> DEFINE i == Rules!CycleStart(l, s)
             a == Rules!Minutes(l, Rules!After(l, {"drive", "duty"}, i))
             b == Rules!Minutes(m, Rules!After(m, {"drive", "duty"}, i))
  <2>1. a \in Nat /\ b = a + k
    BY <1>3, WorkedGrows
  <2>2. Rules!CycleLeft(m, s) = s.maxCycle - b /\ Rules!CycleLeft(l, s) = s.maxCycle - a
    BY <1>3 DEF Rules!CycleLeft
  <2> HIDE DEF a, b
  <2> QED BY <1>4, <2>1, <2>2
<1>9. Rules!ShiftLeft(m, s) = Rules!ShiftLeft(l, s) - k
  <2> DEFINE i == Rules!ShiftStart(l, s)
             a == Rules!Minutes(l, Counted(l, i, s))
             b == Rules!Minutes(m, Counted(m, i, s))
  <2>1. a \in Nat /\ b = a + k
    BY <1>2, <1>3, CountedGrows
  <2>2. /\ Rules!ShiftLeft(m, s) = IF s.maxShift - b > 0 THEN s.maxShift - b ELSE 0
        /\ Rules!ShiftLeft(l, s) = IF s.maxShift - a > 0 THEN s.maxShift - a ELSE 0
    BY <1>3, ShiftLeftIs
  <2> HIDE DEF a, b
  <2> QED BY <1>4, <2>1, <2>2
<1>10. Rules!Streak(m, Len(m), s) = 0
  BY <1>1, <1>4, StreakGrows
<1> QED BY <1>3, <1>6, <1>7, <1>8, <1>9, <1>10

\* A rest restores what its kind restores; one that is neither a reset nor
\* part of a split counts against the shift.
LEMMA RestLeaves ==
  ASSUME NEW l, NEW m, NEW k, OneMore(l, m, k), NEW s, ValidPolicy(s),
         m[Len(m)].kind = "rest"
  PROVE  LET full == Rules!FullReset(m, Len(m), s)
             part == Rules!Part(m, Len(m), s)
         IN  /\ Rules!HygieneLeft(m, s) = IF full \/ part \/ k >= s.rest THEN s.maxHygiene
                                          ELSE Rules!HygieneLeft(l, s)
             /\ Rules!DrivingLeft(m, s) = IF Resets(m, s) THEN s.maxDriving
                                          ELSE Rules!DrivingLeft(l, s)
             /\ Rules!CycleLeft(m, s) = IF Rules!Restart(m, Len(m), s) THEN s.maxCycle
                                        ELSE Rules!CycleLeft(l, s)
             /\ Rules!ShiftLeft(m, s) =
                  IF Resets(m, s) THEN s.maxShift
                  ELSE IF part THEN Rules!ShiftLeft(l, s)
                  ELSE IF Rules!ShiftLeft(l, s) > k THEN Rules!ShiftLeft(l, s) - k ELSE 0
             /\ Rules!Streak(m, Len(m), s) = Rules!Streak(l, Len(l), s) + k
             /\ LastPart(m, s) = IF part THEN Len(m) ELSE LastPart(l, s)
             /\ LastFull(m, s) = IF full THEN Len(m) ELSE LastFull(l, s)
<1> DEFINE full == Rules!FullReset(m, Len(m), s)
           part == Rules!Part(m, Len(m), s)
<1>1. Rules!Resting(m, Len(m))
  BY DEF Rules!Resting
<1>2. /\ k \in Nat /\ m[Len(m)].n = k /\ Len(m) = Len(l) + 1
      /\ s.maxHygiene \in Nat /\ s.maxDriving \in Nat /\ s.maxShift \in Nat
      /\ s.maxCycle \in Nat /\ s.daily \in Nat /\ s.maxShift > 0
  BY OneMoreFacts, PolicyLimits DEF ValidPolicy, Validate
<1>3. Breaks(m, s) <=> full \/ part \/ k >= s.rest
  BY <1>1, <1>2 DEF Breaks
<1> HIDE DEF full, part
<1>4. m \in Seq(Rules!Period)
  BY DEF OneMore
<1>5. Rules!HygieneLeft(m, s) = IF full \/ part \/ k >= s.rest THEN s.maxHygiene
                                ELSE Rules!HygieneLeft(l, s)
  <2>1. CASE Breaks(m, s)
    <3>1. Rules!LastBreak(m, s) = Len(m)
      BY <2>1, LastsGrow
    <3>2. Rules!HygieneLeft(m, s) = s.maxHygiene - 0
      BY <1>4, <3>1, NothingSince DEF Rules!HygieneLeft
    <3> QED BY <1>2, <1>3, <2>1, <3>2
  <2>2. CASE ~ Breaks(m, s)
    <3> DEFINE i == Rules!LastBreak(l, s)
               a == Rules!Minutes(l, Rules!After(l, {"drive"}, i))
               b == Rules!Minutes(m, Rules!After(m, {"drive"}, i))
    <3>1. Rules!LastBreak(m, s) = i /\ i \in 0..Len(l)
      BY <2>2, LastsGrow
    <3>2. a \in Nat /\ b = a + 0
      BY <3>1, DrivenGrows
    <3>3. Rules!HygieneLeft(m, s) = s.maxHygiene - b /\ Rules!HygieneLeft(l, s) = s.maxHygiene - a
      BY <3>1 DEF Rules!HygieneLeft
    <3> HIDE DEF a, b
    <3> QED BY <1>2, <1>3, <2>2, <3>2, <3>3
  <2> QED BY <2>1, <2>2
<1>6. Rules!DrivingLeft(m, s) = IF Resets(m, s) THEN s.maxDriving ELSE Rules!DrivingLeft(l, s)
  <2>1. CASE Resets(m, s)
    <3>1. Rules!ShiftStart(m, s) = Len(m)
      BY <2>1, LastsGrow
    <3>2. Rules!DrivingLeft(m, s) = s.maxDriving - 0
      BY <1>4, <3>1, NothingSince DEF Rules!DrivingLeft
    <3> QED BY <1>2, <2>1, <3>2
  <2>2. CASE ~ Resets(m, s)
    <3> DEFINE i == Rules!ShiftStart(l, s)
               a == Rules!Minutes(l, Rules!After(l, {"drive"}, i))
               b == Rules!Minutes(m, Rules!After(m, {"drive"}, i))
    <3>1. Rules!ShiftStart(m, s) = i /\ i \in 0..Len(l)
      BY <2>2, LastsGrow
    <3>2. a \in Nat /\ b = a + 0
      BY <3>1, DrivenGrows
    <3>3. Rules!DrivingLeft(m, s) = s.maxDriving - b /\ Rules!DrivingLeft(l, s) = s.maxDriving - a
      BY <3>1 DEF Rules!DrivingLeft
    <3> HIDE DEF a, b
    <3> QED BY <1>2, <2>2, <3>2, <3>3
  <2> QED BY <2>1, <2>2
<1>7. Rules!CycleLeft(m, s) = IF Rules!Restart(m, Len(m), s) THEN s.maxCycle
                              ELSE Rules!CycleLeft(l, s)
  <2>1. CASE Rules!Restart(m, Len(m), s)
    <3>1. Rules!CycleStart(m, s) = Len(m)
      BY <2>1, LastsGrow
    <3>2. Rules!CycleLeft(m, s) = s.maxCycle - 0
      BY <1>4, <3>1, NothingSince DEF Rules!CycleLeft
    <3> QED BY <1>2, <2>1, <3>2
  <2>2. CASE ~ Rules!Restart(m, Len(m), s)
    <3> DEFINE i == Rules!CycleStart(l, s)
               a == Rules!Minutes(l, Rules!After(l, {"drive", "duty"}, i))
               b == Rules!Minutes(m, Rules!After(m, {"drive", "duty"}, i))
    <3>1. Rules!CycleStart(m, s) = i /\ i \in 0..Len(l)
      BY <2>2, LastsGrow
    <3>2. a \in Nat /\ b = a + 0
      BY <3>1, WorkedGrows
    <3>3. Rules!CycleLeft(m, s) = s.maxCycle - b /\ Rules!CycleLeft(l, s) = s.maxCycle - a
      BY <3>1 DEF Rules!CycleLeft
    <3> HIDE DEF a, b
    <3> QED BY <1>2, <2>2, <3>2, <3>3
  <2> QED BY <2>1, <2>2
<1>8. Rules!ShiftLeft(m, s) =
        IF Resets(m, s) THEN s.maxShift
        ELSE IF part THEN Rules!ShiftLeft(l, s)
        ELSE IF Rules!ShiftLeft(l, s) > k THEN Rules!ShiftLeft(l, s) - k ELSE 0
  <2>1. CASE Resets(m, s)
    <3>1. Rules!ShiftStart(m, s) = Len(m)
      BY <2>1, LastsGrow
    <3>2. Rules!Minutes(m, Counted(m, Rules!ShiftStart(m, s), s)) = 0
      BY <1>4, <3>1, NothingSince
    <3>3. Rules!ShiftLeft(m, s) = IF s.maxShift - 0 > 0 THEN s.maxShift - 0 ELSE 0
      BY <3>2, ShiftLeftIs
    <3> QED BY <1>2, <2>1, <3>3
  <2>2. CASE ~ Resets(m, s)
    <3> DEFINE i == Rules!ShiftStart(l, s)
               a == Rules!Minutes(l, Counted(l, i, s))
               b == Rules!Minutes(m, Counted(m, i, s))
    <3>1. Rules!ShiftStart(m, s) = i /\ i \in 0..Len(l)
      BY <2>2, LastsGrow
    <3>2. a \in Nat /\ b = a + (IF part THEN 0 ELSE k)
      BY <3>1, CountedGrows DEF part
    <3>3. /\ Rules!ShiftLeft(m, s) = IF s.maxShift - b > 0 THEN s.maxShift - b ELSE 0
          /\ Rules!ShiftLeft(l, s) = IF s.maxShift - a > 0 THEN s.maxShift - a ELSE 0
      BY <3>1, ShiftLeftIs
    <3> HIDE DEF a, b, part
    <3> QED BY <1>2, <2>2, <3>2, <3>3
  <2> QED BY <2>1, <2>2
<1>9. Rules!Streak(m, Len(m), s) = Rules!Streak(l, Len(l), s) + k
  BY <1>1, <1>2, StreakGrows
<1>10. /\ LastPart(m, s) = IF part THEN Len(m) ELSE LastPart(l, s)
       /\ LastFull(m, s) = IF full THEN Len(m) ELSE LastFull(l, s)
  BY LastsGrow DEF full, part
<1> QED BY <1>5, <1>6, <1>7, <1>8, <1>9, <1>10 DEF full, part

-----------------------------------------------------------------------------
(* Clocks that mirror a log *)

\* The split part the clocks keep is the last one of the log, unless a reset
\* has come since.
Pending(c, l, s) ==
  IF LastPart(l, s) > LastFull(l, s)
    THEN c.split = l[LastPart(l, s)].n /\ c.inSleeper = l[LastPart(l, s)].sleeper
    ELSE c.split = 0

Mirrors(c, l, s) ==
  /\ c.offDuty = Rules!Streak(l, Len(l), s)
  /\ Pending(c, l, s)
  /\ c.hygiene = Rules!HygieneLeft(l, s)
  /\ c.driving = Rules!DrivingLeft(l, s)
  /\ c.shift = Rules!ShiftLeft(l, s)
  /\ c.cycle = Rules!CycleLeft(l, s)

\* The log and the clocks use the same operators.
LEMMA SameOperators ==
  /\ \A i, j : Rules!Least(i, j) = Least(i, j)
  /\ \A n, sleeper, s : Rules!SplitPart(n, sleeper, s) <=> SplitPart(n, sleeper, s)
  /\ \A s : Rules!Validate(s) <=> Validate(s)
BY DEF Rules!Least, Least, Rules!SplitPart, SplitPart, Rules!LongSleeper, LongSleeper,
       Rules!Validate, Validate

LEMMA PendingStays ==
  ASSUME NEW l, NEW m, NEW k, OneMore(l, m, k), NEW s, NEW c, NEW d, Pending(c, l, s),
         d.split = c.split, d.inSleeper = c.inSleeper,
         LastPart(m, s) = LastPart(l, s), LastFull(m, s) = LastFull(l, s)
  PROVE  Pending(d, m, s)
<1> DEFINE p == LastPart(l, s)
           f == LastFull(l, s)
<1>1. p \in 0..Len(l) /\ f \in 0..Len(l)
  BY LastsGrow
<1>2. /\ Len(l) \in Nat
      /\ \A j \in 1..Len(l) : m[j] = l[j]
  BY OneMoreFacts
<1>3. CASE p > f
  <2>1. p \in 1..Len(l)
    BY <1>1, <1>2, <1>3
  <2> QED BY <1>2, <1>3, <2>1 DEF Pending
<1>4. CASE ~ (p > f)
  BY <1>4 DEF Pending
<1> QED BY <1>3, <1>4

\* A driver's first clocks mirror the empty log.
LEMMA NewClocksMirror ==
  ASSUME NEW s, ValidPolicy(s)
  PROVE  Mirrors(NewDriverClocks(s), << >>, s)
<1> DEFINE c == NewDriverClocks(s)
           l == << >>
<1>1. Len(l) = 0 /\ Rules!Upto(l) = {} /\ l \in Seq(Rules!Period)
  BY DEF Rules!Upto
<1>2. Rules!LastOf({}) = 0
  <2>1. {} \in SUBSET (1..0) /\ 0 \in Nat
    OBVIOUS
  <2> QED BY <2>1, LastOfIs
<1>3. /\ LastPart(l, s) = 0 /\ LastFull(l, s) = 0 /\ Rules!ShiftStart(l, s) = 0
      /\ Rules!LastBreak(l, s) = 0 /\ Rules!CycleStart(l, s) = 0
  <2>1. \A P : {j \in Rules!Upto(l) : P[j]} = {}
    BY <1>1
  <2>2. LastPart(l, s) = Rules!LastOf({})
    <3>1. {j \in Rules!Upto(l) : Rules!Part(l, j, s)} = {}
      BY <1>1
    <3> QED BY <3>1 DEF LastPart
  <2>3. LastFull(l, s) = Rules!LastOf({})
    <3>1. {j \in Rules!Upto(l) : Rules!FullReset(l, j, s)} = {}
      BY <1>1
    <3> QED BY <3>1 DEF LastFull
  <2>4. Rules!ShiftStart(l, s) = Rules!LastOf({})
    <3>1. {i \in Rules!Upto(l) : Rules!FullReset(l, i, s) \/ Rules!SplitReset(l, i, s)} = {}
      BY <1>1
    <3> QED BY <3>1 DEF Rules!ShiftStart
  <2>5. Rules!LastBreak(l, s) = Rules!LastOf({})
    <3>1. {i \in Rules!Upto(l) : Rules!Resting(l, i)
             /\ (Rules!FullReset(l, i, s) \/ Rules!Part(l, i, s) \/ l[i].n >= s.rest)} = {}
      BY <1>1
    <3> QED BY <3>1 DEF Rules!LastBreak
  <2>6. Rules!CycleStart(l, s) = Rules!LastOf({})
    <3>1. {i \in Rules!Upto(l) : Rules!Restart(l, i, s)} = {}
      BY <1>1
    <3> QED BY <3>1 DEF Rules!CycleStart
  <2> QED BY <1>2, <2>2, <2>3, <2>4, <2>5, <2>6
<1>4. /\ \A kinds : Rules!Minutes(l, Rules!After(l, kinds, 0)) = 0
      /\ Rules!Minutes(l, Counted(l, 0, s)) = 0
  BY <1>1, NothingSince
<1>5. Rules!Streak(l, Len(l), s) = s.daily
  <2>1. {j \in 1..0 : ~ Rules!Resting(l, j)} = {} /\ (0 + 1)..0 = {}
    OBVIOUS
  <2>2. Rules!Minutes(l, {}) = 0
    BY MinutesEmpty
  <2>3. Rules!Streak(l, 0, s) = 0 + s.daily
    BY <1>2, <2>1, <2>2 DEF Rules!Streak
  <2> QED BY <1>1, <2>3, PolicyLimits
<1>6. /\ s.maxHygiene \in Nat /\ s.maxDriving \in Nat /\ s.maxShift \in Nat
      /\ s.maxCycle \in Nat /\ s.maxShift > 0
  BY PolicyLimits DEF ValidPolicy, Validate
<1>7. /\ Rules!HygieneLeft(l, s) = s.maxHygiene /\ Rules!DrivingLeft(l, s) = s.maxDriving
      /\ Rules!CycleLeft(l, s) = s.maxCycle
  <2>1. /\ Rules!HygieneLeft(l, s) = s.maxHygiene - 0
        /\ Rules!DrivingLeft(l, s) = s.maxDriving - 0
        /\ Rules!CycleLeft(l, s) = s.maxCycle - 0
    BY <1>3, <1>4 DEF Rules!HygieneLeft, Rules!DrivingLeft, Rules!CycleLeft
  <2> QED BY <1>6, <2>1
<1>8. Rules!ShiftLeft(l, s) = s.maxShift
  <2>1. Rules!ShiftLeft(l, s) = IF s.maxShift - 0 > 0 THEN s.maxShift - 0 ELSE 0
    BY <1>3, <1>4, ShiftLeftIs
  <2> QED BY <1>6, <2>1
<1>9. c.split = 0
  BY DEF NewDriverClocks
<1>10. /\ c.offDuty = s.daily /\ c.hygiene = s.maxHygiene /\ c.driving = s.maxDriving
       /\ c.shift = s.maxShift /\ c.cycle = s.maxCycle
  BY DEF NewDriverClocks
<1>11. Pending(c, l, s)
  <2> HIDE DEF c, l
  <2>1. ~ (LastPart(l, s) > LastFull(l, s))
    BY <1>3
  <2> QED BY <1>9, <2>1 DEF Pending
<1>12. Mirrors(c, l, s)
  <2> HIDE DEF c, l
  <2> QED BY <1>5, <1>7, <1>8, <1>10, <1>11 DEF Mirrors
<1> QED BY <1>12

\* Driving within the limits moves clocks and log alike.
LEMMA DriveMirrors ==
  ASSUME NEW l, NEW m, NEW k, OneMore(l, m, k), NEW s, ValidPolicy(s),
         m[Len(m)].kind = "drive", NEW c \in DriverClocks, Mirrors(c, l, s),
         k <= MaxImmediateDrive(c)
  PROVE  Mirrors(ApplyDrive(c, k), m, s)
<1> DEFINE d == ApplyDrive(c, k)
<1>1. k \in Nat /\ k <= c.shift
  <2>1. MaxImmediateDrive(c) \in Nat /\ MaxImmediateDrive(c) <= c.shift
    BY DriveBounded
  <2> QED BY <2>1, OneMoreFacts DEF DriverClocks
<1>2. /\ Rules!HygieneLeft(m, s) = Rules!HygieneLeft(l, s) - k
      /\ Rules!DrivingLeft(m, s) = Rules!DrivingLeft(l, s) - k
      /\ Rules!CycleLeft(m, s) = Rules!CycleLeft(l, s) - k
      /\ Rules!ShiftLeft(m, s) = Rules!ShiftLeft(l, s) - k
      /\ Rules!Streak(m, Len(m), s) = 0
      /\ LastPart(m, s) = LastPart(l, s) /\ LastFull(m, s) = LastFull(l, s)
  <2>1. k <= Rules!ShiftLeft(l, s) /\ m[Len(m)].kind \in {"drive", "duty"}
    BY <1>1 DEF Mirrors
  <2> QED BY <2>1, WorkLeaves
<1>3. /\ d.hygiene = c.hygiene - k /\ d.driving = c.driving - k
      /\ d.shift = c.shift - k /\ d.cycle = c.cycle - k /\ d.offDuty = 0
      /\ d.split = c.split /\ d.inSleeper = c.inSleeper
  BY DEF DriverClocks, ApplyDrive
<1> HIDE DEF d
<1>4. Pending(d, m, s)
  BY <1>2, <1>3, PendingStays DEF Mirrors
<1>5. Mirrors(d, m, s)
  BY <1>2, <1>3, <1>4 DEF Mirrors
<1> QED BY <1>5 DEF d

\* So does other work.
LEMMA DutyMirrors ==
  ASSUME NEW l, NEW m, NEW k, OneMore(l, m, k), NEW s, ValidPolicy(s),
         m[Len(m)].kind = "duty", NEW c \in DriverClocks, Mirrors(c, l, s),
         k <= MaxImmediateDuty(c)
  PROVE  Mirrors(ApplyOnDutyNotDriving(c, k), m, s)
<1> DEFINE d == ApplyOnDutyNotDriving(c, k)
<1>1. k \in Nat /\ k <= c.shift /\ c.hygiene \in Nat /\ c.driving \in Nat
  <2>1. MaxImmediateDuty(c) \in Nat /\ MaxImmediateDuty(c) <= c.shift
    BY DutyBounded
  <2> QED BY <2>1, OneMoreFacts DEF DriverClocks
<1>2. /\ Rules!HygieneLeft(m, s) = Rules!HygieneLeft(l, s) - 0
      /\ Rules!DrivingLeft(m, s) = Rules!DrivingLeft(l, s) - 0
      /\ Rules!CycleLeft(m, s) = Rules!CycleLeft(l, s) - k
      /\ Rules!ShiftLeft(m, s) = Rules!ShiftLeft(l, s) - k
      /\ Rules!Streak(m, Len(m), s) = 0
      /\ LastPart(m, s) = LastPart(l, s) /\ LastFull(m, s) = LastFull(l, s)
  <2>1. k <= Rules!ShiftLeft(l, s) /\ m[Len(m)].kind \in {"drive", "duty"}
        /\ m[Len(m)].kind # "drive"
    BY <1>1 DEF Mirrors
  <2> QED BY <2>1, WorkLeaves
<1>3. /\ d.hygiene = c.hygiene /\ d.driving = c.driving
      /\ d.shift = c.shift - k /\ d.cycle = c.cycle - k /\ d.offDuty = 0
      /\ d.split = c.split /\ d.inSleeper = c.inSleeper
  BY DEF DriverClocks, ApplyOnDutyNotDriving
<1> HIDE DEF d
<1>4. Pending(d, m, s)
  BY <1>2, <1>3, PendingStays DEF Mirrors
<1>5. Mirrors(d, m, s)
  BY <1>1, <1>2, <1>3, <1>4 DEF Mirrors
<1> QED BY <1>5 DEF d

\* What a rest of n minutes does to each clock of c.
RestGives(c, n, sleeper, s, d) ==
  /\ d.offDuty = c.offDuty + n
  /\ d.offDuty >= s.weekly =>
       /\ d.split = 0 /\ d.cycle = s.maxCycle /\ d.hygiene = s.maxHygiene
       /\ d.driving = s.maxDriving /\ d.shift = s.maxShift
  /\ ~ (d.offDuty >= s.weekly) /\ d.offDuty >= s.daily =>
       /\ d.split = 0 /\ d.cycle = c.cycle /\ d.hygiene = s.maxHygiene
       /\ d.driving = s.maxDriving /\ d.shift = s.maxShift
  /\ ~ (d.offDuty >= s.weekly) /\ ~ (d.offDuty >= s.daily) =>
       /\ d.cycle = c.cycle
       /\ SplitPart(n, sleeper, s) =>
            /\ d.split = n /\ d.inSleeper = sleeper /\ d.hygiene = s.maxHygiene
            /\ CompletesSplit(c, n, sleeper, s) =>
                 d.driving = s.maxDriving /\ d.shift = s.maxShift
            /\ ~ CompletesSplit(c, n, sleeper, s) =>
                 d.driving = c.driving /\ d.shift = c.shift
       /\ ~ SplitPart(n, sleeper, s) =>
            /\ d.split = c.split /\ d.inSleeper = c.inSleeper /\ d.driving = c.driving
            /\ d.hygiene = IF n >= s.rest THEN s.maxHygiene ELSE c.hygiene
            /\ d.shift = IF c.shift > n THEN c.shift - n ELSE 0

LEMMA RestEffects ==
  ASSUME NEW s, NEW c \in DriverClocks, NEW n \in Nat, NEW sleeper \in BOOLEAN
  PROVE  RestGives(c, n, sleeper, s, ApplyOffDuty(c, n, sleeper, s))
<1> SUFFICES ASSUME NEW d, d = ApplyOffDuty(c, n, sleeper, s)
             PROVE  RestGives(c, n, sleeper, s, d)
  OBVIOUS
<1> USE DEF RestGives
<1> DEFINE r == [c EXCEPT !.offDuty = @ + n]
           q == Anchor(r, 0, FALSE)
<1> USE DEF DriverClocks
<1>1. /\ r \in [hygiene : Nat, driving : Nat, shift : Nat, cycle : Nat,
                offDuty : Nat, driven : Nat, split : Nat, inSleeper : BOOLEAN]
      /\ r.offDuty = c.offDuty + n /\ r.cycle = c.cycle /\ r.hygiene = c.hygiene
      /\ r.driving = c.driving /\ r.shift = c.shift /\ r.split = c.split
      /\ r.inSleeper = c.inSleeper
  OBVIOUS
<1>2. CASE r.offDuty >= s.weekly
  <2>1. d = [ResetShift(q, s) EXCEPT !.cycle = s.maxCycle]
    BY <1>2 DEF ApplyOffDuty
  <2> HIDE DEF r
  <2>2. /\ d.offDuty = r.offDuty /\ d.split = 0 /\ d.cycle = s.maxCycle
        /\ d.hygiene = s.maxHygiene /\ d.driving = s.maxDriving /\ d.shift = s.maxShift
    BY <1>1, <2>1 DEF ResetShift, TakeBreak, Anchor
  <2> QED BY <1>1, <1>2, <2>2
<1>3. CASE ~ (r.offDuty >= s.weekly) /\ r.offDuty >= s.daily
  <2>1. d = ResetShift(q, s)
    BY <1>3 DEF ApplyOffDuty
  <2> HIDE DEF r
  <2>2. /\ d.offDuty = r.offDuty /\ d.split = 0 /\ d.cycle = r.cycle
        /\ d.hygiene = s.maxHygiene /\ d.driving = s.maxDriving /\ d.shift = s.maxShift
    BY <1>1, <2>1 DEF ResetShift, TakeBreak, Anchor
  <2> QED BY <1>1, <1>3, <2>2
<1>4. CASE ~ (r.offDuty >= s.weekly) /\ ~ (r.offDuty >= s.daily)
           /\ SplitPart(n, sleeper, s) /\ CompletesSplit(c, n, sleeper, s)
  <2>1. d = Anchor(ResetShift(r, s), n, sleeper)
    BY <1>4 DEF ApplyOffDuty
  <2> HIDE DEF r
  <2>2. /\ d.offDuty = r.offDuty /\ d.split = n /\ d.inSleeper = sleeper /\ d.cycle = r.cycle
        /\ d.hygiene = s.maxHygiene /\ d.driving = s.maxDriving /\ d.shift = s.maxShift
    BY <1>1, <2>1 DEF ResetShift, TakeBreak, Anchor
  <2> QED BY <1>1, <1>4, <2>2
<1>5. CASE ~ (r.offDuty >= s.weekly) /\ ~ (r.offDuty >= s.daily)
           /\ SplitPart(n, sleeper, s) /\ ~ CompletesSplit(c, n, sleeper, s)
  <2>1. d = Anchor(TakeBreak(r, s), n, sleeper)
    BY <1>5 DEF ApplyOffDuty
  <2> HIDE DEF r
  <2>2. /\ d.offDuty = r.offDuty /\ d.split = n /\ d.inSleeper = sleeper /\ d.cycle = r.cycle
        /\ d.hygiene = s.maxHygiene /\ d.driving = r.driving /\ d.shift = r.shift
    BY <1>1, <2>1 DEF TakeBreak, Anchor
  <2> QED BY <1>1, <1>5, <2>2
<1>6. CASE ~ (r.offDuty >= s.weekly) /\ ~ (r.offDuty >= s.daily)
           /\ ~ SplitPart(n, sleeper, s)
  <2> DEFINE b == IF n >= s.rest THEN TakeBreak(r, s) ELSE r
  <2>1. d = [b EXCEPT !.shift = IF @ > n THEN @ - n ELSE 0]
    BY <1>6 DEF ApplyOffDuty
  <2> HIDE DEF r
  <2>2. /\ b = [b EXCEPT !.shift = b.shift] /\ b.offDuty = r.offDuty /\ b.cycle = r.cycle
        /\ b.driving = r.driving /\ b.shift = r.shift /\ b.split = r.split
        /\ b.inSleeper = r.inSleeper
        /\ b.hygiene = IF n >= s.rest THEN s.maxHygiene ELSE r.hygiene
    BY <1>1 DEF TakeBreak
  <2>3. /\ d.offDuty = b.offDuty /\ d.split = b.split /\ d.inSleeper = b.inSleeper
        /\ d.cycle = b.cycle /\ d.hygiene = b.hygiene /\ d.driving = b.driving
        /\ d.shift = IF b.shift > n THEN b.shift - n ELSE 0
    BY <1>1, <2>1 DEF TakeBreak
  <2> HIDE DEF b
  <2> QED BY <1>1, <1>6, <2>2, <2>3
<1> HIDE DEF r
<1> QED BY <1>2, <1>3, <1>4, <1>5, <1>6

\* A rest of n minutes completes a split by the clocks when it does by the log.
LEMMA SplitsMirror ==
  ASSUME NEW l, NEW m, NEW n, OneMore(l, m, n), NEW s, ValidPolicy(s),
         s.splitBreak <= s.splitSleeper,
         NEW c \in DriverClocks, Mirrors(c, l, s),
         NEW sleeper \in BOOLEAN, m[Len(m)] = [kind |-> "rest", n |-> n, sleeper |-> sleeper],
         Rules!Part(m, Len(m), s)
  PROVE  Rules!SplitReset(m, Len(m), s) <=> CompletesSplit(c, n, sleeper, s)
<1> DEFINE p == LastPart(l, s)
           f == LastFull(l, s)
<1>1. /\ Len(l) \in Nat /\ Len(m) = Len(l) + 1 /\ Rules!Upto(l) = 1..Len(l) /\ n \in Nat
      /\ \A j \in 1..Len(l) : m[j] = l[j]
      /\ l \in Seq(Rules!Period)
  BY OneMoreFacts DEF OneMore
<1>2. p \in 0..Len(l) /\ f \in 0..Len(l)
  BY LastsGrow
<1>3. Rules!SplitReset(m, Len(m), s) <=> p > f /\ Rules!SplitPair(m, p, Len(m), s)
  <2> DEFINE X == {j \in 1..(Len(m) - 1) : Rules!Part(m, j, s)}
             Y == {j \in 1..(Len(m) - 1) : Rules!FullReset(m, j, s)}
  <2>1. Len(m) - 1 = Len(l)
    BY <1>1
  <2>2. /\ X = {j \in 1..Len(l) : Rules!Part(l, j, s)}
        /\ Y = {j \in 1..Len(l) : Rules!FullReset(l, j, s)}
    BY <2>1, PeriodsStay
  <2>3. p = Rules!LastOf(X) /\ f = Rules!LastOf(Y)
    BY <1>1, <2>2 DEF LastPart, LastFull
  <2> HIDE DEF p, f
  <2> QED BY <2>3 DEF Rules!SplitReset
<1>4. s.splitBreak \in Nat /\ s.splitSleeper \in Nat /\ s.daily \in Nat /\ s.weekly \in Nat
  BY PolicyLimits
<1>5. c.split \in Nat
  BY DEF DriverClocks
\* A rest as long as a daily reset is one: it is no part of a split.
<1>6. n < s.daily
  <2>1. ~ (Rules!Streak(m, Len(m), s) >= Least(s.daily, s.weekly))
    <3>1. Rules!Resting(m, Len(m)) /\ ~ Rules!FullReset(m, Len(m), s)
      BY DEF Rules!Part
    <3> QED BY <3>1, SameOperators DEF Rules!FullReset
  <2>2. Rules!Streak(m, Len(m), s) = c.offDuty + n /\ c.offDuty \in Nat
    <3>1. Rules!Resting(m, Len(m)) /\ s.daily \in Nat
      BY <1>4 DEF Rules!Resting
    <3>2. Rules!Streak(m, Len(m), s) = Rules!Streak(l, Len(l), s) + n
      BY <3>1, StreakGrows
    <3> QED BY <3>2 DEF Mirrors, DriverClocks
  <2>3. Least(s.daily, s.weekly) <= s.daily
    BY <1>4 DEF Least
  <2>4. Least(s.daily, s.weekly) \in Nat
    BY <1>4 DEF Least
  <2> QED BY <1>1, <1>4, <2>1, <2>2, <2>3, <2>4
<1>7. CASE p > f
  <2>1. p \in 1..Len(l)
    BY <1>1, <1>2, <1>7
  <2>2. m[p] = l[p] /\ l[p] \in Rules!Period
    BY <1>1, <2>1
  <2>3. c.split = m[p].n /\ c.inSleeper = m[p].sleeper /\ m[p].sleeper \in BOOLEAN
    BY <1>7, <2>2 DEF Mirrors, Pending, Rules!Period
  <2>4. m[Len(m)].n = n /\ m[Len(m)].sleeper = sleeper
    OBVIOUS
  <2> DEFINE a == c.split
             u == c.inSleeper
  <2>5. Rules!SplitPair(m, p, Len(m), s) <=>
          /\ \/ (u /\ a >= s.splitSleeper) /\ n >= s.splitBreak
             \/ a >= s.splitBreak /\ (sleeper /\ n >= s.splitSleeper)
          /\ a + n >= s.daily
    BY <2>3, <2>4 DEF Rules!SplitPair
  <2>6. CompletesSplit(c, n, sleeper, s) <=>
          /\ a > 0
          /\ (u /\ a >= s.splitSleeper) \/ (sleeper /\ n >= s.splitSleeper)
          /\ a >= s.splitBreak /\ n >= s.splitBreak
          /\ a + n >= s.daily
    BY DEF CompletesSplit, LongSleeper
  <2> HIDE DEF a, u, p, f
  <2>7. a \in Nat
    BY <1>5 DEF a
  <2> QED BY <1>1, <1>3, <1>4, <1>6, <1>7, <2>5, <2>6, <2>7
<1>8. CASE ~ (p > f)
  <2>1. c.split = 0
    BY <1>8 DEF Mirrors, Pending
  <2> QED BY <1>3, <1>8, <2>1 DEF CompletesSplit
<1> QED BY <1>7, <1>8

\* A rest of any length moves clocks and log alike, whichever case applies.
LEMMA RestMirrors ==
  ASSUME NEW l, NEW m, NEW n, OneMore(l, m, n), NEW s, ValidPolicy(s),
         s.splitBreak <= s.splitSleeper,
         NEW c \in DriverClocks, Mirrors(c, l, s),
         NEW sleeper \in BOOLEAN, m[Len(m)] = [kind |-> "rest", n |-> n, sleeper |-> sleeper]
  PROVE  Mirrors(ApplyOffDuty(c, n, sleeper, s), m, s)
<1> DEFINE d == ApplyOffDuty(c, n, sleeper, s)
           full == Rules!FullReset(m, Len(m), s)
           part == Rules!Part(m, Len(m), s)
           again == Rules!Restart(m, Len(m), s)
           resets == Resets(m, s)
<1>1. /\ n \in Nat /\ m[Len(m)].kind = "rest" /\ m[Len(m)].n = n
      /\ m[Len(m)].sleeper = sleeper /\ Rules!Resting(m, Len(m))
      /\ Len(l) \in Nat /\ Len(m) = Len(l) + 1
  BY OneMoreFacts DEF Rules!Resting
<1>2. s.daily \in Nat /\ s.weekly \in Nat /\ c.offDuty \in Nat /\ c.shift \in Nat
  BY PolicyLimits DEF DriverClocks
<1>3. RestGives(c, n, sleeper, s, d)
  BY <1>1, RestEffects
<1> HIDE DEF d
<1>4. /\ Rules!HygieneLeft(m, s) = IF full \/ part \/ n >= s.rest THEN s.maxHygiene
                                   ELSE c.hygiene
      /\ Rules!DrivingLeft(m, s) = IF resets THEN s.maxDriving ELSE c.driving
      /\ Rules!CycleLeft(m, s) = IF again THEN s.maxCycle ELSE c.cycle
      /\ Rules!ShiftLeft(m, s) = IF resets THEN s.maxShift
                                 ELSE IF part THEN c.shift
                                 ELSE IF c.shift > n THEN c.shift - n ELSE 0
      /\ Rules!Streak(m, Len(m), s) = c.offDuty + n
      /\ LastPart(m, s) = IF part THEN Len(m) ELSE LastPart(l, s)
      /\ LastFull(m, s) = IF full THEN Len(m) ELSE LastFull(l, s)
  BY <1>1, RestLeaves DEF Mirrors
<1>5. /\ again <=> d.offDuty >= s.weekly
      /\ full <=> d.offDuty >= s.weekly \/ d.offDuty >= s.daily
  <2>1. /\ again <=> d.offDuty >= s.weekly
        /\ full <=> d.offDuty >= Least(s.daily, s.weekly)
    <3>1. Rules!Streak(m, Len(m), s) = d.offDuty
      BY <1>3, <1>4 DEF RestGives
    <3>2. again <=> d.offDuty >= s.weekly
      BY <1>1, <3>1 DEF Rules!Restart
    <3>3. full <=> d.offDuty >= Least(s.daily, s.weekly)
      BY <1>1, <3>1, SameOperators DEF Rules!FullReset
    <3> QED BY <3>2, <3>3
  <2> HIDE DEF full, again
  <2>2. d.offDuty \in Nat
    BY <1>1, <1>2, <1>3 DEF RestGives
  <2> QED BY <1>2, <2>1, <2>2 DEF Least
<1>6. part <=> ~ full /\ SplitPart(n, sleeper, s)
  BY <1>1, SameOperators DEF Rules!Part
<1>7. resets <=> full \/ (part /\ CompletesSplit(c, n, sleeper, s))
  <2>1. Rules!SplitReset(m, Len(m), s) => part
    BY DEF Rules!SplitReset
  <2>2. part => (Rules!SplitReset(m, Len(m), s) <=> CompletesSplit(c, n, sleeper, s))
    BY SplitsMirror
  <2> QED BY <2>1, <2>2 DEF Resets
<1>8. LastPart(l, s) \in 0..Len(l) /\ LastFull(l, s) \in 0..Len(l)
  BY LastsGrow
<1> HIDE DEF full, part, again, resets
<1> USE DEF RestGives
<1>9. /\ d.hygiene = Rules!HygieneLeft(m, s) /\ d.driving = Rules!DrivingLeft(m, s)
      /\ d.shift = Rules!ShiftLeft(m, s) /\ d.cycle = Rules!CycleLeft(m, s)
  <2>1. CASE d.offDuty >= s.weekly
    BY <1>3, <1>4, <1>5, <1>6, <1>7, <2>1
  <2>2. CASE ~ (d.offDuty >= s.weekly) /\ d.offDuty >= s.daily
    BY <1>3, <1>4, <1>5, <1>6, <1>7, <2>2
  <2>3. CASE ~ (d.offDuty >= s.weekly) /\ ~ (d.offDuty >= s.daily)
             /\ SplitPart(n, sleeper, s)
    BY <1>3, <1>4, <1>5, <1>6, <1>7, <2>3
  <2>4. CASE ~ (d.offDuty >= s.weekly) /\ ~ (d.offDuty >= s.daily)
             /\ ~ SplitPart(n, sleeper, s)
    BY <1>3, <1>4, <1>5, <1>6, <1>7, <2>4
  <2> QED BY <2>1, <2>2, <2>3, <2>4
<1>10. Pending(d, m, s)
  <2>1. CASE full
    <3>1. LastFull(m, s) = Len(m) /\ LastPart(m, s) = LastPart(l, s)
      BY <1>4, <1>6, <2>1
    <3>2. ~ (LastPart(m, s) > LastFull(m, s))
      BY <1>1, <1>8, <3>1
    <3>3. d.split = 0
      BY <1>3, <1>5, <2>1
    <3> QED BY <3>2, <3>3 DEF Pending
  <2>2. CASE part
    <3>1. LastFull(m, s) = LastFull(l, s) /\ LastPart(m, s) = Len(m)
      BY <1>4, <1>6, <2>2
    <3>2. LastPart(m, s) > LastFull(m, s)
      BY <1>1, <1>8, <3>1
    <3>3. d.split = n /\ d.inSleeper = sleeper
      BY <1>3, <1>5, <1>6, <2>2
    <3> QED BY <1>1, <3>1, <3>2, <3>3 DEF Pending
  <2>3. CASE ~ full /\ ~ part
    <3>1. LastFull(m, s) = LastFull(l, s) /\ LastPart(m, s) = LastPart(l, s)
      BY <1>4, <2>3
    <3>2. d.split = c.split /\ d.inSleeper = c.inSleeper
      BY <1>3, <1>5, <1>6, <2>3
    <3> QED BY <3>1, <3>2, PendingStays DEF Mirrors
  <2> QED BY <2>1, <2>2, <2>3
<1>11. Mirrors(d, m, s)
  BY <1>3, <1>4, <1>9, <1>10 DEF Mirrors
<1> QED BY <1>11 DEF d

-----------------------------------------------------------------------------
(* The driver's log *)

MirrorInv == Mirrors(clocks, log, specs) /\ Mirrors(work, timeline, specs)

\* What a call has added to the log so far is legal.
LegalSince ==
  /\ Len(log) <= Len(timeline)
  /\ \A i \in 1..Len(log) : timeline[i] = log[i]
  /\ \A i \in (Len(log) + 1)..Len(timeline) :
       Rules!Legal(SubSeq(timeline, 1, i - 1), timeline[i], specs)

LogInv == TypeOK /\ ClocksCoupled /\ MirrorInv /\ LegalSince

\* A period is added to the timeline.
Adds(p) ==
  /\ timeline' = Append(timeline, p)
  /\ Rules!Legal(timeline, p, specs)
  /\ Mirrors(work', timeline', specs)
  /\ UNCHANGED <<specs, clocks, log>>

LEMMA AppendIsOneMore ==
  ASSUME NEW l \in Seq(Rules!Period), NEW p \in Rules!Period
  PROVE  /\ OneMore(l, Append(l, p), p.n)
         /\ Append(l, p)[Len(Append(l, p))] = p
<1>1. /\ Append(l, p) \in Seq(Rules!Period) /\ Len(Append(l, p)) = Len(l) + 1
      /\ Append(l, p)[Len(l) + 1] = p /\ \A i \in 1..Len(l) : Append(l, p)[i] = l[i]
  OBVIOUS
<1> QED BY <1>1 DEF OneMore

\* A rest may always be added.
LEMMA RestAdds ==
  ASSUME TypeOK, MirrorInv, NEW n \in Nat, NEW sleeper \in BOOLEAN,
         work' = ApplyOffDuty(work, n, sleeper, specs),
         timeline' = Append(timeline, [kind |-> "rest", n |-> n, sleeper |-> sleeper]),
         UNCHANGED <<specs, clocks, log>>
  PROVE  \E p \in Rules!Period : Adds(p)
<1> DEFINE p == [kind |-> "rest", n |-> n, sleeper |-> sleeper]
<1>1. p \in Rules!Period /\ p.kind = "rest" /\ p.n = n
  BY DEF Rules!Period
<1>2. /\ timeline \in Seq(Rules!Period) /\ work \in DriverClocks
      /\ ValidPolicy(specs) /\ specs.splitBreak <= specs.splitSleeper
      /\ Mirrors(work, timeline, specs)
  BY SimulatorAssumption DEF TypeOK, ValidPolicy, MirrorInv
<1> DEFINE m == Append(timeline, p)
<1>3. OneMore(timeline, m, n) /\ m[Len(m)] = p
  <2> HIDE DEF p
  <2> QED BY <1>1, <1>2, AppendIsOneMore
<1>4. Mirrors(ApplyOffDuty(work, n, sleeper, specs), m, specs)
  <2> HIDE DEF m
  <2> QED BY <1>2, <1>3, RestMirrors
<1>5. Rules!Legal(timeline, p, specs)
  BY <1>1 DEF Rules!Legal
<1> QED BY <1>1, <1>4, <1>5 DEF Adds

\* Each step that moves the clocks adds a legal period.
LEMMA WorkAdds ==
  ASSUME TypeOK, MirrorInv, Drive \/ Duty \/ Rest \/ Hold \/ InsertRequiredReset
  PROVE  \E p \in Rules!Period : Adds(p)
<1>1. /\ timeline \in Seq(Rules!Period) /\ work \in DriverClocks
      /\ ValidPolicy(specs) /\ Mirrors(work, timeline, specs)
  BY SimulatorAssumption DEF TypeOK, ValidPolicy, MirrorInv
<1>2. /\ work.hygiene = Rules!HygieneLeft(timeline, specs)
      /\ work.driving = Rules!DrivingLeft(timeline, specs)
      /\ work.shift = Rules!ShiftLeft(timeline, specs)
      /\ work.cycle = Rules!CycleLeft(timeline, specs)
  BY <1>1 DEF Mirrors
<1>3. ASSUME NEW kinds, At(kinds)
      PROVE  todo[1].n \in Nat /\ todo[1].sleeper \in BOOLEAN
  <2>1. todo # << >> /\ todo \in Seq(Event)
    BY <1>3 DEF At, TypeOK
  <2>2. todo[1] \in Event
    BY <2>1
  <2> QED BY <2>2 DEF Event
<1>4. CASE Drive
  <2> DEFINE n == Least(todo[1].n, MaxImmediateDrive(work))
             p == [kind |-> "drive", n |-> n, sleeper |-> FALSE]
             m == Append(timeline, p)
  <2>1. /\ MaxImmediateDrive(work) \in Nat /\ todo[1].n \in Nat
        /\ MaxImmediateDrive(work) <= work.hygiene /\ MaxImmediateDrive(work) <= work.driving
        /\ MaxImmediateDrive(work) <= work.shift /\ MaxImmediateDrive(work) <= work.cycle
    BY <1>1, <1>3, <1>4, DriveBounded DEF Drive
  <2>2. n \in Nat /\ n <= MaxImmediateDrive(work)
    BY <2>1 DEF Least
  <2>3. /\ work' = ApplyDrive(work, n) /\ timeline' = m
        /\ UNCHANGED <<specs, clocks, log>>
    BY <1>4 DEF Drive, Spend
  <2> HIDE DEF n
  <2>4. p \in Rules!Period /\ p.n = n /\ p.kind = "drive"
    BY <2>2 DEF Rules!Period
  <2> HIDE DEF p
  <2>5. OneMore(timeline, m, n) /\ m[Len(m)] = p
    BY <1>1, <2>4, AppendIsOneMore
  <2>6. Mirrors(ApplyDrive(work, n), m, specs)
    <3> HIDE DEF m
    <3> QED BY <1>1, <2>2, <2>4, <2>5, DriveMirrors
  <2>7. /\ work.hygiene \in Nat /\ work.driving \in Nat /\ work.shift \in Nat
        /\ work.cycle \in Nat
    BY <1>1 DEF DriverClocks
  <2>8. n <= work.hygiene /\ n <= work.driving /\ n <= work.shift /\ n <= work.cycle
    BY <2>1, <2>2, <2>7
  <2>9. Rules!Legal(timeline, p, specs)
    BY <1>2, <2>4, <2>8 DEF Rules!Legal
  <2> QED BY <2>3, <2>4, <2>6, <2>9 DEF Adds
<1>5. CASE Duty
  <2> DEFINE n == Least(todo[1].n, MaxImmediateDuty(work))
             p == [kind |-> "duty", n |-> n, sleeper |-> FALSE]
             m == Append(timeline, p)
  <2>1. /\ MaxImmediateDuty(work) \in Nat /\ todo[1].n \in Nat
        /\ MaxImmediateDuty(work) <= work.shift /\ MaxImmediateDuty(work) <= work.cycle
    BY <1>1, <1>3, <1>5, DutyBounded DEF Duty
  <2>2. n \in Nat /\ n <= MaxImmediateDuty(work)
    BY <2>1 DEF Least
  <2>3. /\ work' = ApplyOnDutyNotDriving(work, n) /\ timeline' = m
        /\ UNCHANGED <<specs, clocks, log>>
    BY <1>5 DEF Duty, Spend
  <2> HIDE DEF n
  <2>4. p \in Rules!Period /\ p.n = n /\ p.kind = "duty"
    BY <2>2 DEF Rules!Period
  <2> HIDE DEF p
  <2>5. OneMore(timeline, m, n) /\ m[Len(m)] = p
    BY <1>1, <2>4, AppendIsOneMore
  <2>6. Mirrors(ApplyOnDutyNotDriving(work, n), m, specs)
    <3> HIDE DEF m
    <3> QED BY <1>1, <2>2, <2>4, <2>5, DutyMirrors
  <2>7. work.shift \in Nat /\ work.cycle \in Nat
    BY <1>1 DEF DriverClocks
  <2>8. n <= work.shift /\ n <= work.cycle
    BY <2>1, <2>2, <2>7
  <2>9. Rules!Legal(timeline, p, specs)
    BY <1>2, <2>4, <2>8 DEF Rules!Legal
  <2> QED BY <2>3, <2>4, <2>6, <2>9 DEF Adds
<1>6. CASE Rest
  <2>1. todo[1].n \in Nat /\ todo[1].sleeper \in BOOLEAN
    BY <1>3, <1>6 DEF Rest
  <2>2. /\ work' = ApplyOffDuty(work, todo[1].n, todo[1].sleeper, specs)
        /\ timeline' = Append(timeline, [kind |-> "rest", n |-> todo[1].n,
                                         sleeper |-> todo[1].sleeper])
        /\ UNCHANGED <<specs, clocks, log>>
    BY <1>6 DEF Rest, Spend
  <2> QED BY <2>1, <2>2, RestAdds
<1>7. CASE Hold
  <2> DEFINE long == todo[1].n >= specs.daily
             n == IF ~ long THEN todo[1].n
                  ELSE IF todo[1].n >= specs.weekly /\ work.cycle = 0 THEN specs.weekly
                  ELSE specs.daily
  <2>1. n \in Nat /\ long \in BOOLEAN
    BY <1>1, <1>3, <1>7, PolicyLimits DEF Hold
  <2>2. /\ work' = ApplyOffDuty(work, n, long, specs)
        /\ timeline' = Append(timeline, [kind |-> "rest", n |-> n, sleeper |-> long])
        /\ UNCHANGED <<specs, clocks, log>>
    BY <1>7 DEF Hold, Spend
  <2> HIDE DEF n, long
  <2> QED BY <2>1, <2>2, RestAdds
<1>8. CASE InsertRequiredReset
  <2> DEFINE r == RequiredReset(work, specs)
  <2>1. r.n \in Nat /\ r.sleeper \in BOOLEAN
    BY <1>1, RequiredResetType
  <2>2. /\ work' = ApplyOffDuty(work, r.n, r.sleeper, specs)
        /\ timeline' = Append(timeline, [kind |-> "rest", n |-> r.n, sleeper |-> r.sleeper])
        /\ UNCHANGED <<specs, clocks, log>>
    BY <1>8 DEF InsertRequiredReset
  <2> HIDE DEF r
  <2> QED BY <2>1, <2>2, RestAdds
<1> QED BY <1>4, <1>5, <1>6, <1>7, <1>8

\* A legal period more, and all that was added since the log is still legal.
LEMMA AddsLegal ==
  ASSUME TypeOK, LegalSince, NEW p \in Rules!Period, Adds(p)
  PROVE  LegalSince'
<1> DEFINE n == Len(timeline)
<1>1. /\ timeline \in Seq(Rules!Period) /\ log \in Seq(Rules!Period)
      /\ n \in Nat /\ Len(log) \in Nat /\ Len(log) <= n
  BY DEF TypeOK, LegalSince
<1>2. /\ Len(timeline') = n + 1 /\ timeline'[n + 1] = p
      /\ \A i \in 1..n : timeline'[i] = timeline[i]
      /\ log' = log /\ specs' = specs
  BY <1>1 DEF Adds
<1>3. \A i \in 1..Len(log') : timeline'[i] = log'[i]
  BY <1>1, <1>2 DEF LegalSince
<1>4. ASSUME NEW i \in (Len(log) + 1)..(n + 1)
      PROVE  Rules!Legal(SubSeq(timeline', 1, i - 1), timeline'[i], specs)
  <2>1. SubSeq(timeline', 1, i - 1) = SubSeq(timeline, 1, i - 1)
    BY <1>1, <1>2 DEF Adds
  <2>2. CASE i = n + 1
    <3>1. SubSeq(timeline, 1, i - 1) = timeline
      BY <1>1, <2>2
    <3> QED BY <1>2, <2>1, <2>2, <3>1 DEF Adds
  <2>3. CASE i # n + 1
    <3>1. i \in (Len(log) + 1)..n /\ timeline'[i] = timeline[i]
      BY <1>1, <1>2, <2>3
    <3> QED BY <2>1, <3>1 DEF LegalSince
  <2> QED BY <2>2, <2>3
<1>5. \A i \in (Len(log') + 1)..Len(timeline') :
        Rules!Legal(SubSeq(timeline', 1, i - 1), timeline'[i], specs')
  BY <1>2, <1>4
<1>6. Len(log') <= Len(timeline')
  BY <1>1, <1>2
<1> QED BY <1>3, <1>5, <1>6 DEF LegalSince

LEMMA InitLog ==
  ASSUME Init
  PROVE  LogInv
<1>1. TypeOK /\ ClocksCoupled
  BY InitSound
<1>2. ValidPolicy(specs)
  BY <1>1, CoupledSound
<1>3. Mirrors(NewDriverClocks(specs), << >>, specs)
  BY <1>2, NewClocksMirror
<1>4. MirrorInv
  BY <1>3 DEF Init, MirrorInv
<1>5. LegalSince
  BY DEF Init, LegalSince
<1> QED BY <1>1, <1>4, <1>5 DEF LogInv

\* Every step keeps the clocks in step with the log.
LEMMA StepLog ==
  ASSUME LogInv, [AnyStep]_vars
  PROVE  LogInv'
<1>1. TypeOK' /\ ClocksCoupled'
  BY StepSound DEF LogInv
<1>2. CASE Drive \/ Duty \/ Rest \/ Hold \/ InsertRequiredReset
  <2>1. PICK p \in Rules!Period : Adds(p)
    BY <1>2, WorkAdds DEF LogInv
  <2>2. LegalSince'
    BY <2>1, AddsLegal DEF LogInv
  <2>3. MirrorInv'
    BY <2>1 DEF LogInv, MirrorInv, Adds
  <2> QED BY <1>1, <2>2, <2>3 DEF LogInv
<1>3. CASE AnyCall
  <2>1. /\ work' = clocks /\ timeline' = log /\ UNCHANGED <<specs, clocks, log>>
    BY <1>3 DEF AnyCall, StartCall
  <2>2. MirrorInv'
    BY <2>1 DEF LogInv, MirrorInv
  <2>3. log \in Seq(Rules!Period)
    BY DEF LogInv, TypeOK
  <2>4. (Len(log) + 1)..Len(log) = {} /\ Len(log) <= Len(log)
    BY <2>3
  <2>5. LegalSince'
    BY <2>1, <2>4 DEF LegalSince
  <2> QED BY <1>1, <2>2, <2>5 DEF LogInv
<1>4. CASE Violation \/ NextEvent \/ UNCHANGED vars
  <2>1. UNCHANGED <<specs, clocks, log, work, timeline>>
    BY <1>4 DEF Violation, NextEvent, vars, callVars
  <2>2. MirrorInv' /\ LegalSince'
    BY <2>1 DEF LogInv, MirrorInv, LegalSince
  <2> QED BY <1>1, <2>2 DEF LogInv
<1>5. CASE Return
  <2>1. clocks' = work /\ log' = timeline /\ UNCHANGED <<specs, work, timeline>>
    BY <1>5 DEF Return
  <2>2. MirrorInv'
    BY <2>1 DEF LogInv, MirrorInv
  <2>3. timeline \in Seq(Rules!Period)
    BY DEF LogInv, TypeOK
  <2>4. (Len(timeline) + 1)..Len(timeline) = {} /\ Len(timeline) <= Len(timeline)
    BY <2>3
  <2>5. LegalSince'
    BY <2>1, <2>4 DEF LegalSince
  <2> QED BY <1>1, <2>2, <2>5 DEF LogInv
<1> QED BY <1>2, <1>3, <1>4, <1>5 DEF AnyStep, Proceed, Work

\* What a call returns extends the log by legal periods.
LEMMA StepExtends ==
  ASSUME LogInv, [AnyStep]_vars
  PROVE  [Rules!Extend]_<<log, specs>>
<1>1. CASE Return
  <2>1. log' = timeline /\ specs' = specs
    BY <1>1 DEF Return
  <2>2. /\ timeline \in Seq(Rules!Period) /\ log \in Seq(Rules!Period)
        /\ Len(log) <= Len(timeline) /\ \A i \in 1..Len(log) : timeline[i] = log[i]
    BY DEF LogInv, TypeOK, LegalSince
  <2>3. SubSeq(timeline, 1, Len(log)) = log
    BY <2>2
  <2>4. Rules!Extend
    BY <2>1, <2>3 DEF Rules!Extend, LogInv, LegalSince
  <2> QED BY <2>4
<1>2. CASE AnyCall \/ Work \/ Violation \/ UNCHANGED vars
  <2>1. UNCHANGED <<log, specs>>
    BY <1>2 DEF AnyCall, StartCall, Work, Drive, Duty, Rest, Hold, InsertRequiredReset,
                NextEvent, Spend, Violation, vars, callVars
  <2> QED BY <2>1
<1> QED BY <1>1, <1>2 DEF AnyStep, Proceed

\* Under every valid policy, whatever a driver is asked to do and however the
\* rests, splits and resets fall, the running clocks say what the rules say of
\* the whole log.
THEOREM ClocksTellTheLog == Spec => []ClocksMatchLog
<1>1. Init => LogInv
  BY InitLog
<1>2. LogInv /\ [Next]_vars => LogInv'
  BY NextIsStep, StepLog DEF LogInv
<1>3. LogInv => ClocksMatchLog
  BY DEF LogInv, MirrorInv, Mirrors, ClocksMatchLog, Faithful
<1> QED BY <1>1, <1>2, <1>3, PTL DEF Spec

\* The simulator implements the log of DutyLog: what a call that returns adds
\* to it is legal, period after period.
THEOREM LogImplemented == Spec => ImplementsLog
<1>1. Init => LogInv
  BY InitLog
<1>2. LogInv /\ [Next]_vars => LogInv'
  BY NextIsStep, StepLog DEF LogInv
<1>3. Init => Rules!LogInit
  <2> SUFFICES ASSUME Init PROVE Rules!LogInit
    OBVIOUS
  <2>1. Validate(specs) /\ log = << >>
    BY SimulatorAssumption DEF Init
  <2> QED BY <2>1, SameOperators DEF Rules!LogInit
<1>4. LogInv /\ [Next]_vars => [Rules!Extend]_<<log, specs>>
  BY NextIsStep, StepExtends DEF LogInv
<1> QED BY <1>1, <1>2, <1>3, <1>4, PTL DEF Spec, ImplementsLog, Rules!LogSpec

-----------------------------------------------------------------------------
(* What an iteration of Simulate does *)

\* A period is taken from the first event, or inserted before it.
Works(p) ==
  /\ todo # << >> /\ p.n <= todo[1].n
  /\ p.kind = todo[1].kind \/ (p.kind = "rest" /\ todo[1].kind = "hold")
  /\ todo' = [todo EXCEPT ![1].n = @ - p.n]
  /\ timeline' = Append(timeline, p)
  /\ UNCHANGED <<log, running, auto, plan>>

Inserts(p) ==
  /\ todo # << >> /\ todo[1].kind \in {"drive", "duty"} /\ p.kind = "rest" /\ auto
  /\ timeline' = Append(timeline, p)
  /\ UNCHANGED <<log, running, auto, plan, todo>>

LEMMA WorkIs ==
  ASSUME TypeOK, Work
  PROVE  \/ \E p \in Rules!Period : Works(p) \/ Inserts(p)
         \/ NextEvent
<1>1. ValidPolicy(specs) /\ work \in DriverClocks
  BY CoupledSound DEF TypeOK
<1>2. ASSUME NEW kinds, At(kinds)
      PROVE  /\ todo # << >> /\ todo[1].n \in Nat /\ todo[1].sleeper \in BOOLEAN
             /\ todo[1].kind \in kinds
  <2>1. todo # << >> /\ todo \in Seq(Event)
    BY <1>2 DEF At, TypeOK
  <2>2. todo[1] \in Event
    BY <2>1
  <2> QED BY <1>2, <2>1, <2>2 DEF At, Event
<1>3. ASSUME NEW n \in Nat, NEW kind \in {"drive", "duty", "rest"}, NEW sleeper \in BOOLEAN,
             NEW c, Spend(n, kind, sleeper, c), todo # << >>, n <= todo[1].n,
             kind = todo[1].kind \/ (kind = "rest" /\ todo[1].kind = "hold")
      PROVE  \E p \in Rules!Period : Works(p)
  <2> DEFINE p == [kind |-> kind, n |-> n, sleeper |-> sleeper]
  <2>1. p \in Rules!Period /\ p.n = n /\ p.kind = kind
    BY <1>3 DEF Rules!Period
  <2>2. /\ timeline' = Append(timeline, p) /\ todo' = [todo EXCEPT ![1].n = @ - n]
        /\ UNCHANGED <<log, running, auto, plan>>
    BY <1>3 DEF Spend
  <2> HIDE DEF p
  <2>3. Works(p)
    BY <1>3, <2>1, <2>2 DEF Works
  <2> QED BY <2>1, <2>3
<1>4. CASE Drive
  <2> DEFINE n == Least(todo[1].n, MaxImmediateDrive(work))
  <2>1. todo # << >> /\ todo[1].n \in Nat /\ todo[1].kind = "drive"
    BY <1>2, <1>4 DEF Drive
  <2>2. n \in Nat /\ n <= todo[1].n
    BY <1>1, <2>1, DriveBounded DEF Least
  <2>3. Spend(n, "drive", FALSE, ApplyDrive(work, n))
    BY <1>4 DEF Drive
  <2> HIDE DEF n
  <2> QED BY <1>3, <2>1, <2>2, <2>3
<1>5. CASE Duty
  <2> DEFINE n == Least(todo[1].n, MaxImmediateDuty(work))
  <2>1. todo # << >> /\ todo[1].n \in Nat /\ todo[1].kind = "duty"
    BY <1>2, <1>5 DEF Duty
  <2>2. n \in Nat /\ n <= todo[1].n
    BY <1>1, <2>1, DutyBounded DEF Least
  <2>3. Spend(n, "duty", FALSE, ApplyOnDutyNotDriving(work, n))
    BY <1>5 DEF Duty
  <2> HIDE DEF n
  <2> QED BY <1>3, <2>1, <2>2, <2>3
<1>6. CASE Rest
  <2>1. /\ todo # << >> /\ todo[1].n \in Nat /\ todo[1].kind = "rest"
        /\ todo[1].sleeper \in BOOLEAN
    BY <1>2, <1>6 DEF Rest
  <2>2. Spend(todo[1].n, "rest", todo[1].sleeper,
              ApplyOffDuty(work, todo[1].n, todo[1].sleeper, specs))
    BY <1>6 DEF Rest
  <2>3. todo[1].n <= todo[1].n
    BY <2>1
  <2> QED BY <1>3, <2>1, <2>2, <2>3
<1>7. CASE Hold
  <2>1. todo # << >> /\ todo[1].n \in Nat /\ todo[1].kind = "hold"
    BY <1>2, <1>7 DEF Hold
  <2> DEFINE long == todo[1].n >= specs.daily
             n == IF ~ long THEN todo[1].n
                  ELSE IF todo[1].n >= specs.weekly /\ work.cycle = 0 THEN specs.weekly
                  ELSE specs.daily
  <2>2. Spend(n, "rest", long, ApplyOffDuty(work, n, long, specs))
    BY <1>7 DEF Hold
  <2>3. long \in BOOLEAN /\ n \in Nat /\ n <= todo[1].n
    BY <1>1, <2>1, PolicyLimits
  <2> HIDE DEF long, n
  <2> QED BY <1>3, <2>1, <2>2, <2>3
<1>8. CASE InsertRequiredReset
  <2> DEFINE r == RequiredReset(work, specs)
             p == [kind |-> "rest", n |-> r.n, sleeper |-> r.sleeper]
  <2>1. p \in Rules!Period /\ p.kind = "rest"
    BY <1>1, RequiredResetType DEF Rules!Period
  <2>2. timeline' = Append(timeline, p) /\ UNCHANGED <<log, running, auto, plan, todo>>
    BY <1>8 DEF InsertRequiredReset
  <2> HIDE DEF p
  <2>3. auto /\ todo # << >> /\ todo[1].kind \in {"drive", "duty"}
    BY <1>8 DEF InsertRequiredReset, AtLimit, At
  <2> QED BY <2>1, <2>2, <2>3 DEF Inserts
<1> QED BY <1>4, <1>5, <1>6, <1>7, <1>8 DEF Work

\* What is left of the first event.
Left == IF todo = << >> THEN 0 ELSE todo[1].n

\* The event of a call after n of its minutes.
LEMMA LeftSpent ==
  ASSUME TypeOK, todo # << >>, NEW n \in Nat, n <= todo[1].n,
         todo' = [todo EXCEPT ![1].n = @ - n]
  PROVE  /\ todo' # << >> /\ Len(todo') = Len(todo) /\ todo'[1].kind = todo[1].kind
         /\ Left \in Nat /\ Left' = Left - n /\ n <= Left
         /\ todo' \in Seq(Event) /\ todo'[1].n = todo[1].n - n
         /\ \A i \in 2..Len(todo) : todo'[i] = todo[i]
<1>1. todo \in Seq(Event) /\ 1 \in 1..Len(todo) /\ todo[1] \in Event
  BY DEF TypeOK
<1> DEFINE e == [todo[1] EXCEPT !.n = todo[1].n - n]
<1>2. e \in Event /\ e.n = todo[1].n - n /\ e.kind = todo[1].kind /\ todo[1].n \in Nat
  BY <1>1 DEF Event
<1>3. todo' = [todo EXCEPT ![1] = e]
  OBVIOUS
<1> HIDE DEF e
<1>4. /\ todo' \in Seq(Event) /\ Len(todo') = Len(todo) /\ todo'[1] = e
      /\ \A i \in 2..Len(todo) : todo'[i] = todo[i]
  BY <1>1, <1>2, <1>3
<1>5. todo' # << >>
  BY <1>1, <1>4
<1> QED BY <1>2, <1>4, <1>5 DEF Left

-----------------------------------------------------------------------------
(* Planned work *)

LEMMA EventFacts ==
  ASSUME NEW l \in Seq(Event)
  PROVE  /\ Len(l) \in Nat
         /\ \A i \in 1..Len(l) : l[i] \in Event /\ l[i].n \in Nat
<1>1. Len(l) \in Nat /\ \A i \in 1..Len(l) : l[i] \in Event
  OBVIOUS
<1> QED BY <1>1 DEF Event

LEMMA PlannedNat ==
  ASSUME NEW l, Len(l) \in Nat, \A i \in 1..Len(l) : l[i].n \in Nat, NEW kind
  PROVE  PlannedMinutes(l, kind) \in Nat
<1> DEFINE S == {i \in 1..Len(l) : l[i].kind = kind}
<1>1. IsFiniteSet(S) /\ \A i \in S : l[i].n \in Nat
  <2>1. IsFiniteSet(1..Len(l)) /\ S \in SUBSET (1..Len(l))
    BY FS_Interval
  <2> QED BY <2>1, FS_Subset
<1> HIDE DEF S
<1>2. Rules!Minutes(l, S) \in Nat
  BY <1>1, MinutesNat
<1> QED BY <1>2 DEF S, PlannedMinutes

\* A period more in a timeline.
LEMMA PlannedGrows ==
  ASSUME NEW l, NEW m, NEW k, OneMore(l, m, k), NEW kind
  PROVE  PlannedMinutes(m, kind) =
           PlannedMinutes(l, kind) + (IF m[Len(m)].kind = kind THEN k ELSE 0)
<1> DEFINE A == {i \in 1..Len(l) : l[i].kind = kind}
           B == {i \in 1..Len(m) : m[i].kind = kind}
<1>1. /\ Len(l) \in Nat /\ Len(m) = Len(l) + 1
      /\ \A i \in 1..Len(l) : m[i] = l[i]
  BY OneMoreFacts
<1>2. /\ A \in SUBSET (1..Len(l)) /\ B \in SUBSET (1..(Len(l) + 1))
      /\ \A i \in 1..Len(l) : i \in B <=> i \in A
      /\ Len(l) + 1 \in B <=> m[Len(m)].kind = kind
  BY <1>1
<1> HIDE DEF A, B
<1>3. Rules!Minutes(m, B) = Rules!Minutes(l, A) + (IF Len(l) + 1 \in B THEN k ELSE 0)
  BY <1>2, MinutesGrow
<1> QED BY <1>2, <1>3 DEF A, B, PlannedMinutes

\* The first event's own share of what is planned, and that of the others.
Others(l, kind) == {i \in 2..Len(l) : l[i].kind = kind}

LEMMA PlannedSplit ==
  ASSUME NEW l \in Seq(Event), l # << >>, NEW kind
  PROVE  /\ IsFiniteSet(Others(l, kind)) /\ Rules!Minutes(l, Others(l, kind)) \in Nat
         /\ l[1].kind = kind =>
              PlannedMinutes(l, kind) = Rules!Minutes(l, Others(l, kind)) + l[1].n
         /\ l[1].kind # kind =>
              PlannedMinutes(l, kind) = Rules!Minutes(l, Others(l, kind))
<1> DEFINE O == Others(l, kind)
           S == {i \in 1..Len(l) : l[i].kind = kind}
<1>1. /\ Len(l) \in Nat /\ 1 \in 1..Len(l)
      /\ \A i \in 1..Len(l) : l[i].n \in Nat
  BY EventFacts
<1>2. S \in SUBSET (1..Len(l)) /\ O \in SUBSET (1..Len(l)) /\ 1 \notin O
  BY <1>1 DEF Others
<1>3. /\ 1 \in S <=> l[1].kind = kind
      /\ S \ {1} = O
  BY <1>1 DEF Others
<1>4. /\ IsFiniteSet(S) /\ IsFiniteSet(O)
      /\ \A i \in S : l[i].n \in Nat
      /\ \A i \in O : l[i].n \in Nat
  <2>1. IsFiniteSet(1..Len(l))
    BY <1>1, FS_Interval
  <2> HIDE DEF S, O
  <2> QED BY <1>1, <1>2, <2>1, FS_Subset
<1>5. PlannedMinutes(l, kind) = Rules!Minutes(l, S)
  BY DEF PlannedMinutes
<1> HIDE DEF S, O
<1>6. Rules!Minutes(l, O) \in Nat
  BY <1>4, MinutesNat
<1>7. CASE l[1].kind = kind
  <2>1. Rules!Minutes(l, S) = l[1].n + Rules!Minutes(l, S \ {1})
    <3>1. \A x \in S : Rules!Minutes(l, S) = l[x].n + Rules!Minutes(l, S \ {x})
      BY <1>4, MinutesRemove
    <3> QED BY <1>3, <1>7, <3>1
  <2>2. PlannedMinutes(l, kind) = Rules!Minutes(l, O) + l[1].n
    <3>1. Rules!Minutes(l, S \ {1}) = Rules!Minutes(l, O)
      BY <1>3, Zenon
    <3> QED BY <1>1, <1>5, <1>6, <2>1, <3>1
  <2> QED BY <1>4, <1>6, <1>7, <2>2 DEF O
<1>8. CASE l[1].kind # kind
  <2>1. S = O
    BY <1>3, <1>8
  <2> QED BY <1>4, <1>5, <1>6, <1>8, <2>1 DEF O
<1> QED BY <1>7, <1>8

\* k less of the first event.
LEMMA PlannedSpent ==
  ASSUME NEW l \in Seq(Event), l # << >>, NEW k \in Nat, k <= l[1].n,
         NEW m \in Seq(Event), Len(m) = Len(l),
         m[1].n = l[1].n - k, m[1].kind = l[1].kind,
         \A i \in 2..Len(l) : m[i] = l[i],
         NEW kind
  PROVE  /\ l[1].kind = kind => PlannedMinutes(l, kind) = PlannedMinutes(m, kind) + k
         /\ l[1].kind # kind => PlannedMinutes(l, kind) = PlannedMinutes(m, kind)
<1>1. /\ Len(l) \in Nat /\ 1 \in 1..Len(l) /\ l[1].n \in Nat /\ m # << >>
      /\ \A i \in 1..Len(l) : l[i].n \in Nat
  BY EventFacts
<1>5. Others(m, kind) = Others(l, kind)
  BY DEF Others
<1> DEFINE O == Others(l, kind)
<1>6. \A i \in O : l[i].n \in Nat /\ m[i].n = l[i].n
  BY <1>1 DEF Others
<1>7. /\ IsFiniteSet(O) /\ Rules!Minutes(l, O) \in Nat
      /\ l[1].kind = kind => PlannedMinutes(l, kind) = Rules!Minutes(l, O) + l[1].n
      /\ l[1].kind # kind => PlannedMinutes(l, kind) = Rules!Minutes(l, O)
  BY PlannedSplit
<1>8. /\ m[1].kind = kind => PlannedMinutes(m, kind) = Rules!Minutes(m, O) + m[1].n
      /\ m[1].kind # kind => PlannedMinutes(m, kind) = Rules!Minutes(m, O)
  BY <1>1, <1>5, PlannedSplit
<1> HIDE DEF O
<1>9. Rules!Minutes(m, O) = Rules!Minutes(l, O)
  <2>1. IsFiniteSet(O)
    BY <1>7
  <2> QED BY <1>6, <2>1, MinutesSame, Zenon
<1> QED BY <1>1, <1>7, <1>8, <1>9

\* A first event that is done.
LEMMA PlannedTail ==
  ASSUME NEW l \in Seq(Event), l # << >>, l[1].n = 0, NEW kind
  PROVE  PlannedMinutes(Tail(l), kind) = PlannedMinutes(l, kind)
<1> DEFINE t == Tail(l)
           J == {i \in 1..Len(t) : t[i].kind = kind}
           h == [i \in J |-> i + 1]
<1>1. /\ Len(l) \in Nat /\ Len(l) > 0 /\ Len(t) = Len(l) - 1
      /\ \A i \in 1..Len(t) : t[i] = l[i + 1]
      /\ \A i \in 1..Len(l) : l[i].n \in Nat
  BY EventFacts
<1>2. IsFiniteSet(J)
  <2>1. J \in SUBSET (1..Len(t)) /\ Len(t) \in Int
    BY <1>1
  <2> HIDE DEF J, t
  <2>2. IsFiniteSet(1..Len(t))
    BY <2>1, FS_Interval
  <2> QED BY <2>1, <2>2, FS_Subset
<1>3. \A i \in J : h[i] = i + 1 /\ t[i].n \in Nat /\ l[h[i]].n = t[i].n
  <2> TAKE i \in J
  <2>1. h[i] = i + 1 /\ i \in 1..Len(t) /\ i + 1 \in 1..Len(l)
    BY <1>1
  <2> QED BY <1>1, <2>1
<1>4. \A i, j \in J : h[i] = h[j] => i = j
  BY <1>1
<1>5. {h[i] : i \in J} = Others(l, kind)
  <2>1. ASSUME NEW i \in J PROVE h[i] \in Others(l, kind)
    BY <1>1 DEF Others
  <2>2. ASSUME NEW i \in Others(l, kind) PROVE \E j \in J : i = h[j]
    <3>1. i \in 2..Len(l) /\ l[i].kind = kind
      BY DEF Others
    <3>2. i - 1 \in 1..Len(t) /\ t[i - 1] = l[i]
      BY <1>1, <3>1
    <3>3. i - 1 \in J /\ h[i - 1] = i
      BY <3>1, <3>2
    <3> QED BY <3>3
  <2> QED BY <2>1, <2>2
<1>6. PlannedMinutes(t, kind) = Rules!Minutes(t, J)
  BY DEF PlannedMinutes
<1> HIDE DEF h, J, t
<1>7. Rules!Minutes(l, {h[i] : i \in J}) = Rules!Minutes(t, J)
  BY <1>2, <1>3, <1>4, MinutesMoved
<1>8. /\ Rules!Minutes(l, Others(l, kind)) \in Nat
      /\ l[1].kind = kind => PlannedMinutes(l, kind) = Rules!Minutes(l, Others(l, kind)) + l[1].n
      /\ l[1].kind # kind => PlannedMinutes(l, kind) = Rules!Minutes(l, Others(l, kind))
  BY PlannedSplit
<1>9. PlannedMinutes(l, kind) = Rules!Minutes(l, Others(l, kind))
  BY <1>8
<1> QED BY <1>5, <1>6, <1>7, <1>9 DEF t

\* What the call has added to the log so far.
Done == SubSeq(timeline, Len(log) + 1, Len(timeline))

LEMMA DoneGrows ==
  ASSUME TypeOK, LegalSince, NEW p \in Rules!Period,
         timeline' = Append(timeline, p), log' = log
  PROVE  /\ OneMore(Done, Done', p.n)
         /\ Done'[Len(Done')] = p
<1>1. /\ timeline \in Seq(Rules!Period) /\ Len(timeline) \in Nat /\ Len(log) \in Nat
      /\ Len(log) <= Len(timeline)
  BY DEF TypeOK, LegalSince
<1>2. Done' = SubSeq(Append(timeline, p), Len(log) + 1, Len(timeline) + 1)
  <2>1. Len(timeline') = Len(timeline) + 1
    BY <1>1
  <2>2. Done' = SubSeq(timeline', Len(log') + 1, Len(timeline'))
    BY DEF Done
  <2> QED BY <2>1, <2>2
<1>3. /\ Done \in Seq(Rules!Period) /\ Len(Done) = Len(timeline) - Len(log)
      /\ \A i \in 1..Len(Done) : Done[i] = timeline[Len(log) + i]
  <2> DEFINE k == Len(log)
             n == Len(timeline)
  <2>1. k \in Nat /\ n \in Nat /\ k <= n /\ timeline \in Seq(Rules!Period) /\ n = Len(timeline)
    BY <1>1
  <2> HIDE DEF k, n
  <2>2. /\ SubSeq(timeline, k + 1, n) \in Seq(Rules!Period)
        /\ Len(SubSeq(timeline, k + 1, n)) = n - k
        /\ \A i \in 1..(n - k) : SubSeq(timeline, k + 1, n)[i] = timeline[k + i]
    BY <2>1
  <2> QED BY <2>2 DEF Done, k, n
<1>4. /\ Done' \in Seq(Rules!Period) /\ Len(Done') = Len(timeline) + 1 - Len(log)
      /\ \A i \in 1..Len(Done') : Done'[i] = Append(timeline, p)[Len(log) + i]
  <2> DEFINE m == Append(timeline, p)
  <2>1. m \in Seq(Rules!Period) /\ Len(m) = Len(timeline) + 1
    BY <1>1
  <2> HIDE DEF m
  <2>2. /\ SubSeq(m, Len(log) + 1, Len(m)) \in Seq(Rules!Period)
        /\ Len(SubSeq(m, Len(log) + 1, Len(m))) = Len(timeline) + 1 - Len(log)
        /\ \A i \in 1..(Len(timeline) + 1 - Len(log)) :
             SubSeq(m, Len(log) + 1, Len(m))[i] = m[Len(log) + i]
    BY <1>1, <2>1
  <2> QED BY <1>2, <2>1, <2>2 DEF m
<1>5. \A i \in 1..Len(Done) : Done'[i] = Done[i]
  <2> TAKE i \in 1..Len(Done)
  <2>1. i \in 1..Len(Done') /\ Len(log) + i \in 1..Len(timeline)
    BY <1>1, <1>3, <1>4
  <2>2. Append(timeline, p)[Len(log) + i] = timeline[Len(log) + i]
    BY <1>1, <2>1
  <2> QED BY <1>3, <1>4, <2>1, <2>2
<1>6. Done'[Len(Done')] = p
  <2>1. Len(Done') \in 1..Len(Done') /\ Len(log) + Len(Done') = Len(timeline) + 1
    BY <1>1, <1>4
  <2>2. Append(timeline, p)[Len(timeline) + 1] = p
    BY <1>1
  <2> QED BY <1>4, <2>1, <2>2
<1>7. Len(Done') = Len(Done) + 1
  BY <1>1, <1>3, <1>4
<1> QED BY <1>3, <1>4, <1>5, <1>6, <1>7 DEF OneMore

\* What is spent of an event's kind is taken from the event.
LEMMA WorksConserves ==
  ASSUME TypeOK, LegalSince, WorkConserved, running, NEW p \in Rules!Period, Works(p)
  PROVE  WorkConserved'
<1>1. /\ todo # << >> /\ p.n \in Nat /\ p.n <= todo[1].n
      /\ p.kind \in {"drive", "duty", "rest"}
      /\ p.kind = todo[1].kind \/ (p.kind = "rest" /\ todo[1].kind = "hold")
      /\ timeline' = Append(timeline, p) /\ log' = log /\ plan' = plan
      /\ todo' = [todo EXCEPT ![1].n = @ - p.n]
      /\ todo \in Seq(Event) /\ plan \in Seq(Event)
  BY DEF Works, Rules!Period, TypeOK
<1>2. OneMore(Done, Done', p.n) /\ Done'[Len(Done')] = p
  BY <1>1, DoneGrows
<1>3. /\ todo' \in Seq(Event) /\ Len(todo') = Len(todo)
      /\ todo'[1].n = todo[1].n - p.n /\ todo'[1].kind = todo[1].kind
      /\ \A i \in 2..Len(todo) : todo'[i] = todo[i]
  BY <1>1, LeftSpent
<1>4. ASSUME NEW k \in {"drive", "duty"}
      PROVE  PlannedMinutes(Done', k) + PlannedMinutes(todo', k) = PlannedMinutes(plan', k)
  <2> DEFINE v == IF p.kind = k THEN p.n ELSE 0
  <2>1. PlannedMinutes(todo', k) \in Nat
    BY <1>3, EventFacts, PlannedNat
  <2>2. PlannedMinutes(Done', k) = PlannedMinutes(Done, k) + v
    BY <1>2, PlannedGrows
  <2>3. PlannedMinutes(todo, k) = PlannedMinutes(todo', k) + v
    <3>1. todo[1].kind = k <=> p.kind = k
      BY <1>1
    <3>2. /\ todo[1].kind = k => PlannedMinutes(todo, k) = PlannedMinutes(todo', k) + p.n
          /\ todo[1].kind # k => PlannedMinutes(todo, k) = PlannedMinutes(todo', k)
      <4> DEFINE m == todo'
                 n == p.n
      <4>1. /\ todo \in Seq(Event) /\ todo # << >>
            /\ m \in Seq(Event) /\ Len(m) = Len(todo) /\ n \in Nat /\ n <= todo[1].n
            /\ m[1].n = todo[1].n - n /\ m[1].kind = todo[1].kind
            /\ \A i \in 2..Len(todo) : m[i] = todo[i]
        BY <1>1, <1>3
      <4> HIDE DEF m, n
      <4>2. /\ todo[1].kind = k => PlannedMinutes(todo, k) = PlannedMinutes(m, k) + n
            /\ todo[1].kind # k => PlannedMinutes(todo, k) = PlannedMinutes(m, k)
        BY <4>1, PlannedSpent
      <4> QED BY <4>2 DEF m, n
    <3> QED BY <2>1, <3>1, <3>2
  <2>4. PlannedMinutes(Done, k) + PlannedMinutes(todo, k) = PlannedMinutes(plan, k)
    BY DEF WorkConserved, Done
  <2>5. PlannedMinutes(Done, k) \in Nat
    <3>1. Len(Done) \in Nat /\ \A i \in 1..Len(Done) : Done[i].n \in Nat
      BY <1>2, OneMoreFacts
    <3> HIDE DEF Done
    <3> QED BY <3>1, PlannedNat
  <2>6. v \in Nat
    BY <1>1
  <2> HIDE DEF v
  <2> QED BY <1>1, <2>1, <2>2, <2>3, <2>4, <2>5, <2>6
<1> QED BY <1>4 DEF WorkConserved, Done

\* A rest that is inserted is none of the work planned.
LEMMA InsertsConserves ==
  ASSUME TypeOK, LegalSince, WorkConserved, running, NEW p \in Rules!Period, Inserts(p)
  PROVE  WorkConserved'
<1>1. /\ timeline' = Append(timeline, p) /\ p.kind = "rest"
      /\ UNCHANGED <<log, running, plan, todo>>
  BY DEF Inserts
<1>2. OneMore(Done, Done', p.n) /\ Done'[Len(Done')] = p
  BY <1>1, DoneGrows
<1>3. ASSUME NEW k \in {"drive", "duty"}
      PROVE  PlannedMinutes(Done', k) = PlannedMinutes(Done, k)
  <2>1. PlannedMinutes(Done', k) = PlannedMinutes(Done, k) + 0
    BY <1>1, <1>2, PlannedGrows
  <2>2. PlannedMinutes(Done, k) \in Nat
    <3>1. Len(Done) \in Nat /\ \A i \in 1..Len(Done) : Done[i].n \in Nat
      BY <1>2, OneMoreFacts
    <3> HIDE DEF Done
    <3> QED BY <3>1, PlannedNat
  <2> QED BY <2>1, <2>2
<1> QED BY <1>1, <1>3 DEF WorkConserved, Done

\* Every step conserves the work planned.
LEMMA StepConserves ==
  ASSUME LogInv, WorkConserved, [AnyStep]_vars
  PROVE  WorkConserved'
<1>1. /\ TypeOK /\ LegalSince
      /\ todo \in Seq(Event) /\ log \in Seq(Rules!Period)
  BY DEF LogInv, TypeOK
<1>2. CASE AnyCall
  <2>1. timeline' = log /\ log' = log /\ todo' = plan' /\ plan' \in Seq(Event)
    BY <1>2 DEF AnyCall, StartCall
  <2>2. Done' = << >>
    BY <1>1, <2>1 DEF Done
  <2>3. \A k : PlannedMinutes(<< >>, k) = 0
    <3> TAKE k
    <3>1. {i \in 1..Len(<< >>) : << >>[i].kind = k} = {}
      OBVIOUS
    <3> QED BY <3>1, MinutesEmpty DEF PlannedMinutes
  <2>4. \A k : PlannedMinutes(plan', k) \in Nat
    BY <2>1, EventFacts, PlannedNat
  <2>5. \A k : PlannedMinutes(Done', k) + PlannedMinutes(todo', k) = PlannedMinutes(plan', k)
    BY <2>1, <2>2, <2>3, <2>4
  <2> QED BY <2>5 DEF WorkConserved, Done
<1>3. CASE Work
  <2>1. running
    BY <1>3 DEF Work, Drive, Duty, Rest, Hold, InsertRequiredReset, AtLimit, At, NextEvent
  <2>2. ASSUME NEW p \in Rules!Period, Works(p) \/ Inserts(p)
        PROVE  WorkConserved'
    BY <1>1, <2>1, <2>2, WorksConserves, InsertsConserves
  <2>3. CASE NextEvent
    <3>1. /\ todo # << >> /\ todo[1].n = 0 /\ todo' = Tail(todo)
          /\ UNCHANGED <<log, running, plan, timeline>>
      BY <2>3 DEF NextEvent
    <3>2. \A k : PlannedMinutes(todo', k) = PlannedMinutes(todo, k)
      BY <1>1, <3>1, PlannedTail
    <3> QED BY <3>1, <3>2 DEF WorkConserved
  <2> QED BY <1>1, <1>3, <2>2, <2>3, WorkIs
<1>4. CASE Violation \/ Return
  BY <1>4 DEF Violation, Return, WorkConserved
<1>5. CASE UNCHANGED vars
  BY <1>5 DEF vars, callVars, WorkConserved
<1> QED BY <1>2, <1>3, <1>4, <1>5 DEF AnyStep, Proceed

\* However limits cut the events of a call and whatever rests are inserted, no
\* minute of planned work is lost or done twice.
THEOREM NoWorkLost == Spec => []WorkConserved
<1>1. Init => LogInv /\ WorkConserved
  BY InitLog DEF Init, WorkConserved
<1>2. LogInv /\ WorkConserved /\ [Next]_vars => (LogInv /\ WorkConserved)'
  BY NextIsStep, StepLog, StepConserves DEF LogInv
<1> QED BY <1>1, <1>2, PTL DEF Spec

-----------------------------------------------------------------------------
(* Itineraries: what a period more changes *)

\* Minutes of rest in a log behind its first k periods, and of loading and
\* unloading that begins before t.
RestIn(l, k) == Rules!Minutes(l, Rules!After(l, {"rest"}, k))
Served(l, k, t) ==
  Rules!Minutes(l, {i \in Rules!After(l, {"duty"}, k) : Upto(SubSeq(l, 1, i - 1)) < t})
Began(l, k) == Upto(SubSeq(l, 1, k))

LEMMA UptoGrows ==
  ASSUME NEW l, NEW m, NEW k, OneMore(l, m, k)
  PROVE  Upto(l) \in Nat /\ Upto(m) = Upto(l) + k
<1> DEFINE A == 1..Len(l)
           B == 1..Len(m)
<1>1. Len(l) \in Nat /\ Len(m) = Len(l) + 1
  BY OneMoreFacts
<1>2. /\ A \in SUBSET (1..Len(l)) /\ B \in SUBSET (1..(Len(l) + 1))
      /\ Len(l) + 1 \in B
      /\ \A i \in 1..Len(l) : i \in B <=> i \in A
  BY <1>1
<1> HIDE DEF A, B
<1>3. /\ Rules!Minutes(l, A) \in Nat
      /\ Rules!Minutes(m, B) = Rules!Minutes(l, A) + (IF Len(l) + 1 \in B THEN k ELSE 0)
  BY <1>2, MinutesGrow
<1> QED BY <1>2, <1>3 DEF A, B, Upto

LEMMA UptoNat ==
  ASSUME NEW l \in Seq(Rules!Period)
  PROVE  Upto(l) \in Nat
<1>1. Len(l) \in Nat /\ \A i \in 1..Len(l) : l[i] \in Rules!Period
  OBVIOUS
<1>2. IsFiniteSet(1..Len(l)) /\ \A q \in Rules!Period : q.n \in Nat
  BY <1>1, FS_Interval DEF Rules!Period
<1>3. \A i \in 1..Len(l) : l[i].n \in Nat
  BY <1>1, <1>2
<1> QED BY <1>2, <1>3, MinutesNat DEF Upto

LEMMA RestGrows ==
  ASSUME NEW l, NEW m, NEW n, OneMore(l, m, n), NEW k \in 0..Len(l)
  PROVE  /\ RestIn(l, k) \in Nat
         /\ RestIn(m, k) = RestIn(l, k) + (IF m[Len(m)].kind = "rest" THEN n ELSE 0)
<1>1. {"rest"} \in SUBSET Kinds /\ (m[Len(m)].kind \in {"rest"} <=> m[Len(m)].kind = "rest")
  BY DEF Kinds
<1>2. /\ Rules!Minutes(l, Rules!After(l, {"rest"}, k)) \in Nat
      /\ Rules!Minutes(m, Rules!After(m, {"rest"}, k)) =
           Rules!Minutes(l, Rules!After(l, {"rest"}, k))
             + (IF m[Len(m)].kind \in {"rest"} THEN n ELSE 0)
  BY <1>1, SpentGrows
<1> QED BY <1>1, <1>2 DEF RestIn

\* What the first periods of a log were they remain.
LEMMA BeganStays ==
  ASSUME NEW l \in Seq(Rules!Period), NEW m \in Seq(Rules!Period), Len(l) <= Len(m),
         \A i \in 1..Len(l) : m[i] = l[i], NEW k \in 0..Len(l)
  PROVE  SubSeq(m, 1, k) = SubSeq(l, 1, k) /\ Began(m, k) = Began(l, k)
<1>1. SubSeq(m, 1, k) = SubSeq(l, 1, k)
  OBVIOUS
<1> QED BY <1>1 DEF Began

LEMMA ServedGrows ==
  ASSUME NEW l, NEW m, NEW n, OneMore(l, m, n), NEW k \in 0..Len(l), NEW t \in Nat
  PROVE  /\ Served(l, k, t) \in Nat
         /\ Served(m, k, t) =
              Served(l, k, t) + (IF m[Len(m)].kind = "duty" /\ Upto(l) < t THEN n ELSE 0)
<1> DEFINE A == {i \in Rules!After(l, {"duty"}, k) : Upto(SubSeq(l, 1, i - 1)) < t}
           B == {i \in Rules!After(m, {"duty"}, k) : Upto(SubSeq(m, 1, i - 1)) < t}
<1>1. /\ Len(l) \in Nat /\ Len(m) = Len(l) + 1
      /\ Rules!Upto(l) = 1..Len(l) /\ Rules!Upto(m) = 1..(Len(l) + 1)
      /\ \A i \in 1..Len(l) : m[i] = l[i]
      /\ l \in Seq(Rules!Period) /\ m \in Seq(Rules!Period)
  BY OneMoreFacts DEF OneMore
<1>2. \A i \in 1..(Len(l) + 1) : SubSeq(m, 1, i - 1) = SubSeq(l, 1, i - 1)
  BY <1>1
<1>3. SubSeq(l, 1, Len(l)) = l
  BY <1>1
<1>4. /\ \A i : i \in A <=> /\ i \in 1..Len(l) /\ i > k /\ l[i].kind = "duty"
                           /\ Upto(SubSeq(l, 1, i - 1)) < t
      /\ \A i : i \in B <=> /\ i \in 1..(Len(l) + 1) /\ i > k /\ m[i].kind = "duty"
                           /\ Upto(SubSeq(m, 1, i - 1)) < t
  BY <1>1 DEF Rules!After
<1> HIDE DEF A, B
<1>5. \A i \in 1..Len(l) : i \in 1..(Len(l) + 1)
  BY <1>1
<1>6. /\ A \in SUBSET (1..Len(l)) /\ B \in SUBSET (1..(Len(l) + 1))
      /\ \A i \in 1..Len(l) : i \in B <=> i \in A
  BY <1>1, <1>2, <1>4, <1>5
<1>7. Len(l) + 1 \in B <=> m[Len(m)].kind = "duty" /\ Upto(l) < t
  <2> DEFINE x == Len(l) + 1
  <2>1. x - 1 = Len(l) /\ x \in 1..(Len(l) + 1) /\ x > k /\ m[Len(m)] = m[x]
    BY <1>1
  <2>2. SubSeq(m, 1, x - 1) = l
    BY <1>2, <1>3, <2>1
  <2> HIDE DEF x
  <2>3. x \in B <=> m[x].kind = "duty" /\ Upto(SubSeq(m, 1, x - 1)) < t
    BY <1>4, <2>1
  <2> QED BY <2>1, <2>2, <2>3 DEF x
<1>8. /\ Rules!Minutes(l, A) \in Nat
      /\ Rules!Minutes(m, B) = Rules!Minutes(l, A) + (IF Len(l) + 1 \in B THEN n ELSE 0)
  BY <1>6, MinutesGrow, SMTT(20)
<1> QED BY <1>7, <1>8 DEF A, B, Served

LEMMA ServedNat ==
  ASSUME NEW l \in Seq(Rules!Period), NEW k, NEW t
  PROVE  Served(l, k, t) \in Nat /\ RestIn(l, k) \in Nat
<1>1. /\ IsFiniteSet(1..Len(l)) /\ \A i \in 1..Len(l) : l[i].n \in Nat
  <2>1. Len(l) \in Nat /\ \A i \in 1..Len(l) : l[i] \in Rules!Period
    OBVIOUS
  <2>2. \A q \in Rules!Period : q.n \in Nat
    BY DEF Rules!Period
  <2> QED BY <2>1, <2>2, FS_Interval
<1> DEFINE I == {i \in Rules!After(l, {"duty"}, k) : Upto(SubSeq(l, 1, i - 1)) < t}
           J == Rules!After(l, {"rest"}, k)
<1>2. I \subseteq 1..Len(l) /\ J \subseteq 1..Len(l)
  BY DEF Rules!After, Rules!Upto
<1> HIDE DEF I, J
<1>3. /\ IsFiniteSet(I) /\ \A i \in I : l[i].n \in Nat
      /\ IsFiniteSet(J) /\ \A i \in J : l[i].n \in Nat
  BY <1>1, <1>2, FS_Subset
<1>4. Rules!Minutes(l, I) \in Nat /\ Rules!Minutes(l, J) \in Nat
  BY <1>3, MinutesNat
<1> QED BY <1>4 DEF I, J, Served, RestIn

\* Nothing happens behind the end of a log.
LEMMA NothingYet ==
  ASSUME NEW l \in Seq(Rules!Period), NEW t
  PROVE  /\ RestIn(l, Len(l)) = 0 /\ Served(l, Len(l), t) = 0
         /\ Began(l, Len(l)) = Upto(l)
<1>1. \A ks : Rules!After(l, ks, Len(l)) = {}
  <2>1. \A i \in 1..Len(l) : ~ (i > Len(l))
    OBVIOUS
  <2> QED BY <2>1 DEF Rules!After, Rules!Upto
<1>2. {i \in Rules!After(l, {"duty"}, Len(l)) : Upto(SubSeq(l, 1, i - 1)) < t} = {}
  BY <1>1
<1>3. SubSeq(l, 1, Len(l)) = l
  OBVIOUS
<1> QED BY <1>1, <1>2, <1>3, MinutesEmpty DEF RestIn, Served, Began

-----------------------------------------------------------------------------
(* Trips: how far an evaluation is *)

Dwells == {"pickup_dwell", "delivery_dwell"}
LegKind(l) == IF l \in Dwells THEN "hold"
              ELSE IF l \in {"loading", "unloading"} THEN "duty" ELSE "drive"

\* The minutes of work of a leg, of the legs before it, and the window a dwell
\* waits for.
WorkOf(t, l) ==
  IF l = "deadhead" THEN t.deadhead
  ELSE IF l = "loading" THEN t.loading
  ELSE IF l = "linehaul" THEN t.loaded
  ELSE IF l = "unloading" THEN t.unloading ELSE 0
WorkBefore(t, l) ==
  IF l = "deadhead" THEN 0
  ELSE IF l \in {"pickup_dwell", "loading"} THEN t.deadhead
  ELSE IF l = "linehaul" THEN t.deadhead + t.loading
  ELSE IF l \in {"delivery_dwell", "unloading"} THEN t.deadhead + t.loading + t.loaded
  ELSE t.deadhead + t.loading + t.loaded + t.unloading
Opens(t, l) == IF l = "pickup_dwell" THEN t.pickup.earliest ELSE t.delivery.earliest

\* What is loaded by now.
Loaded ==
  IF leg \in {"deadhead", "pickup_dwell"} THEN 0
  ELSE IF leg = "loading" /\ running THEN trip.loading - Left ELSE trip.loading

TripTypes ==
  /\ trip \in Trip /\ leg \in Legs \cup {"none", "done", "relay"}
  /\ origin \in 0..Len(log)
  /\ inserted \in [rest : Nat, dwell : Nat]

\* A call that runs has come as far as what is left of its event and the rests
\* it took say.
CallTimes ==
  running =>
    /\ auto /\ Left \in Nat /\ leg # "done"
    /\ todo = << >> \/ (Len(todo) = 1 /\ todo[1].kind = LegKind(leg))
    /\ leg \in Dwells =>
         /\ Now < Opens(trip, leg)
         /\ RestIn(timeline, Len(log)) + Left = Opens(trip, leg) - Now
         /\ Upto(timeline) = Now + RestIn(timeline, Len(log))
    /\ leg \notin Dwells =>
         /\ Left <= WorkOf(trip, leg)
         /\ Upto(timeline) = Now + (WorkOf(trip, leg) - Left) + RestIn(timeline, Len(log))

\* The calls that returned took the work of their legs and the rest added up;
\* a wait that is counted is rested, or will be when this call is done.
TripTimes ==
  /\ Now = Began(log, origin) + WorkBefore(trip, leg)
             + (IF running THEN 0 ELSE WorkOf(trip, leg)) + inserted.rest
  /\ inserted.dwell <=
       inserted.rest + (IF running /\ leg \in Dwells THEN Opens(trip, leg) - Now ELSE 0)

\* Behind its wait a window is open.
WindowsOpen ==
  /\ (leg \in {"deadhead", "pickup_dwell"} => leg = "pickup_dwell" /\ ~ running)
       => Now >= trip.pickup.earliest
  /\ (leg \in {"unloading", "done"} \/ (leg = "delivery_dwell" /\ ~ running))
       => Now >= trip.delivery.earliest

\* So nothing is loaded before the pickup opens, and only what was loaded was
\* served before the delivery does.
ServedInTime ==
  /\ Served(timeline, origin, trip.pickup.earliest) = 0
  /\ Served(timeline, origin, trip.delivery.earliest) <= Loaded

JourneyInv ==
  leg \in Legs \cup {"done"} =>
    /\ CallTimes /\ TripTimes /\ WindowsOpen /\ ServedInTime
    /\ ~ running => timeline = log

LEMMA TripFacts ==
  ASSUME TripTypes
  PROVE  /\ trip.deadhead \in Nat /\ trip.loading \in Nat /\ trip.loaded \in Nat
         /\ trip.unloading \in Nat
         /\ trip.pickup.earliest \in Nat /\ trip.delivery.earliest \in Nat
         /\ \A l : /\ WorkOf(trip, l) \in Nat /\ WorkBefore(trip, l) \in Nat
                   /\ Opens(trip, l) \in Nat
         /\ inserted.rest \in Nat /\ inserted.dwell \in Nat
<1>1. /\ trip.deadhead \in Nat /\ trip.loading \in Nat /\ trip.loaded \in Nat
      /\ trip.unloading \in Nat
      /\ trip.pickup \in Window /\ trip.delivery \in Window
      /\ inserted.rest \in Nat /\ inserted.dwell \in Nat
  BY DEF TripTypes, Trip
<1>2. trip.pickup.earliest \in Nat /\ trip.delivery.earliest \in Nat
  BY <1>1 DEF Window
<1> QED BY <1>1, <1>2 DEF WorkOf, WorkBefore, Opens

\* The log and the timeline of a call are numbers of minutes long.
LEMMA TimelineFacts ==
  ASSUME TypeOK, LegalSince
  PROVE  /\ log \in Seq(Rules!Period) /\ timeline \in Seq(Rules!Period)
         /\ Len(log) \in Nat /\ Len(log) \in 0..Len(timeline)
         /\ 0..Len(log) \subseteq 0..Len(timeline)
         /\ Now \in Nat /\ Upto(timeline) \in Nat
         /\ \A k \in 0..Len(log) : Began(timeline, k) = Began(log, k) /\ Began(log, k) \in Nat
<1>1. /\ log \in Seq(Rules!Period) /\ timeline \in Seq(Rules!Period)
      /\ Len(log) \in Nat /\ Len(timeline) \in Nat /\ Len(log) <= Len(timeline)
      /\ \A i \in 1..Len(log) : timeline[i] = log[i]
  BY DEF TypeOK, LegalSince
<1>2. Now \in Nat /\ Upto(timeline) \in Nat
  BY <1>1, UptoNat DEF Now
<1>3. ASSUME NEW k \in 0..Len(log)
      PROVE  Began(timeline, k) = Began(log, k) /\ Began(log, k) \in Nat
  <2>1. Began(timeline, k) = Began(log, k)
    BY <1>1, BeganStays
  <2>2. SubSeq(log, 1, k) \in Seq(Rules!Period)
    BY <1>1
  <2> QED BY <2>1, <2>2, UptoNat DEF Began
<1> QED BY <1>1, <1>2, <1>3

\* A period more in the timeline of a call.
LEMMA TimelineGrows ==
  ASSUME TypeOK, LegalSince, TripTypes, NEW p \in Rules!Period,
         timeline' = Append(timeline, p), log' = log
  PROVE  /\ p.n \in Nat
         /\ Upto(timeline') = Upto(timeline) + p.n
         /\ RestIn(timeline, Len(log)) \in Nat
         /\ RestIn(timeline', Len(log')) =
              RestIn(timeline, Len(log)) + (IF p.kind = "rest" THEN p.n ELSE 0)
         /\ \A t \in Nat :
              /\ Served(timeline, origin, t) \in Nat
              /\ Served(timeline', origin, t) =
                   Served(timeline, origin, t)
                     + (IF p.kind = "duty" /\ Upto(timeline) < t THEN p.n ELSE 0)
<1>1. /\ timeline \in Seq(Rules!Period) /\ Len(log) \in 0..Len(timeline)
      /\ origin \in 0..Len(timeline)
  BY TimelineFacts DEF TripTypes
<1>2. /\ OneMore(timeline, timeline', p.n)
      /\ timeline'[Len(timeline')] = p
  BY <1>1, AppendIsOneMore
<1>3. p.n \in Nat
  BY DEF Rules!Period
<1>4. Upto(timeline') = Upto(timeline) + p.n
  BY <1>2, UptoGrows
<1>5. /\ RestIn(timeline, Len(log)) \in Nat
      /\ RestIn(timeline', Len(log)) =
           RestIn(timeline, Len(log)) + (IF p.kind = "rest" THEN p.n ELSE 0)
  BY <1>1, <1>2, RestGrows
<1>6. \A t \in Nat :
        /\ Served(timeline, origin, t) \in Nat
        /\ Served(timeline', origin, t) =
             Served(timeline, origin, t)
               + (IF timeline'[Len(timeline')].kind = "duty" /\ Upto(timeline) < t
                    THEN p.n ELSE 0)
  <2> DEFINE m == timeline'
             n == p.n
             k == origin
  <2>1. OneMore(timeline, m, n) /\ k \in 0..Len(timeline)
    BY <1>1, <1>2
  <2> HIDE DEF m, n, k
  <2>2. \A t \in Nat :
          /\ Served(timeline, k, t) \in Nat
          /\ Served(m, k, t) =
               Served(timeline, k, t)
                 + (IF m[Len(m)].kind = "duty" /\ Upto(timeline) < t THEN n ELSE 0)
    BY <2>1, ServedGrows
  <2> QED BY <2>2 DEF m, n, k
<1> QED BY <1>2, <1>3, <1>4, <1>5, <1>6

\* An iteration that works its event off keeps the books of its trip.
LEMMA JourneyWorks ==
  ASSUME TypeOK, LegalSince, TripTypes, JourneyInv, leg \in Legs, running,
         NEW p \in Rules!Period, Works(p), UNCHANGED tripVars
  PROVE  JourneyInv'
<1>1. /\ timeline' = Append(timeline, p) /\ UNCHANGED <<log, running, auto>>
      /\ UNCHANGED <<trip, leg, origin, inserted>>
      /\ p.kind = todo[1].kind \/ (p.kind = "rest" /\ todo[1].kind = "hold")
      /\ todo # << >> /\ p.n <= todo[1].n /\ todo' = [todo EXCEPT ![1].n = @ - p.n]
  BY DEF Works, tripVars
<1>2. CallTimes /\ TripTimes /\ WindowsOpen /\ ServedInTime
  BY DEF JourneyInv
<1>3. /\ p.n \in Nat /\ Upto(timeline') = Upto(timeline) + p.n
      /\ RestIn(timeline, Len(log)) \in Nat
      /\ RestIn(timeline', Len(log')) =
           RestIn(timeline, Len(log)) + (IF p.kind = "rest" THEN p.n ELSE 0)
      /\ \A t \in Nat :
           /\ Served(timeline, origin, t) \in Nat
           /\ Served(timeline', origin, t) =
                Served(timeline, origin, t)
                  + (IF p.kind = "duty" /\ Upto(timeline) < t THEN p.n ELSE 0)
  BY <1>1, TimelineGrows
<1>4. /\ todo' # << >> /\ Len(todo') = Len(todo) /\ todo'[1].kind = todo[1].kind
      /\ Left \in Nat /\ Left' = Left - p.n /\ p.n <= Left
  BY <1>1, <1>3, LeftSpent
<1>5. Now' = Now /\ Now \in Nat /\ Upto(timeline) \in Nat
  BY <1>1, TimelineFacts DEF Now
<1>6. /\ leg \in Dwells => p.kind = "rest"
      /\ leg \in {"loading", "unloading"} => p.kind = "duty"
      /\ leg \in {"deadhead", "linehaul"} => p.kind = "drive"
  BY <1>1, <1>2 DEF CallTimes, LegKind, Dwells, Rules!Period
<1>7. CallTimes'
  <2>1. leg \in Dwells \/ leg \in {"loading", "unloading"} \/ leg \in {"deadhead", "linehaul"}
    BY DEF Legs, Dwells
  <2>2. WorkOf(trip, leg) \in Nat /\ Opens(trip, leg) \in Nat
    BY TripFacts
  <2>3. /\ running' /\ auto' /\ Left' \in Nat /\ leg' # "done"
        /\ Len(todo') = 1 /\ todo'[1].kind = LegKind(leg')
    BY <1>1, <1>2, <1>3, <1>4 DEF CallTimes, Legs
  <2>4. CASE leg \in Dwells
    <3>1. /\ Now < Opens(trip, leg) /\ Upto(timeline) = Now + RestIn(timeline, Len(log))
          /\ RestIn(timeline, Len(log)) + Left = Opens(trip, leg) - Now
      BY <1>1, <1>2, <2>4 DEF CallTimes
    <3>2. /\ Now' < Opens(trip', leg')
          /\ Upto(timeline') = Now' + RestIn(timeline', Len(log'))
          /\ RestIn(timeline', Len(log')) + Left' = Opens(trip', leg') - Now'
      BY <1>1, <1>3, <1>4, <1>5, <1>6, <2>2, <2>4, <3>1
    <3>3. leg' \in Dwells
      BY <1>1, <2>4
    <3> QED BY <2>3, <3>2, <3>3 DEF CallTimes
  <2>5. CASE leg \notin Dwells
    <3>1. /\ Left <= WorkOf(trip, leg)
          /\ Upto(timeline) = Now + (WorkOf(trip, leg) - Left) + RestIn(timeline, Len(log))
      BY <1>2, <2>5 DEF CallTimes
    <3>2. p.kind # "rest"
      BY <1>6, <2>1, <2>5
    <3>3. /\ Left' <= WorkOf(trip', leg')
          /\ Upto(timeline') = Now' + (WorkOf(trip', leg') - Left')
                                  + RestIn(timeline', Len(log'))
      BY <1>1, <1>3, <1>4, <1>5, <2>2, <3>1, <3>2
    <3>4. leg' \notin Dwells
      BY <1>1, <2>5
    <3> QED BY <2>3, <3>3, <3>4 DEF CallTimes
  <2> QED BY <2>4, <2>5
<1>8. TripTimes'
  BY <1>1, <1>2, <1>5 DEF TripTimes
<1>9. WindowsOpen'
  BY <1>1, <1>2, <1>5 DEF WindowsOpen
<1>10. ServedInTime'
  <2>1. trip.pickup.earliest \in Nat /\ trip.delivery.earliest \in Nat /\ trip.loading \in Nat
    BY TripFacts
  <2>2. leg \notin Dwells => Upto(timeline) >= Now
    <3> SUFFICES ASSUME leg \notin Dwells PROVE Upto(timeline) >= Now
      OBVIOUS
    <3>1. WorkOf(trip, leg) \in Nat /\ RestIn(timeline, Len(log)) \in Nat
      BY <1>3, TripFacts
    <3>2. /\ Left <= WorkOf(trip, leg)
          /\ Upto(timeline) = Now + (WorkOf(trip, leg) - Left) + RestIn(timeline, Len(log))
      BY <1>2 DEF CallTimes
    <3> QED BY <1>4, <1>5, <3>1, <3>2
  <2>3. leg = "loading" => Loaded' = Loaded + p.n
    BY <1>1, <1>3, <1>4, <2>1 DEF Loaded
  <2>4. leg # "loading" => Loaded' = Loaded
    BY <1>1 DEF Loaded
  <2>5. Loaded \in Int
    BY <1>4, <2>1 DEF Loaded
  <2>6. CASE leg = "loading"
    <3>1. Now >= trip.pickup.earliest /\ Upto(timeline) >= Now
      BY <1>2, <2>2, <2>6 DEF WindowsOpen, Dwells
    <3>2. p.n \in Nat /\ ~ (Upto(timeline) < trip.pickup.earliest)
      <4>1. p.n \in Nat
        BY <1>3
      <4>2. ~ (Upto(timeline) < trip.pickup.earliest)
        BY <1>5, <2>1, <3>1
      <4> QED BY <4>1, <4>2
    <3>3. ASSUME NEW t \in Nat
          PROVE  /\ Served(timeline, origin, t) \in Nat
                 /\ Served(timeline', origin, t) =
                      Served(timeline, origin, t)
                        + (IF p.kind = "duty" /\ Upto(timeline) < t THEN p.n ELSE 0)
      BY <1>3, Zenon
    <3>4. /\ Served(timeline, origin, trip.pickup.earliest) = 0
          /\ Served(timeline, origin, trip.delivery.earliest) <= Loaded
      BY <1>2 DEF ServedInTime
    <3>5. Served(timeline', origin, trip.pickup.earliest) = 0
      BY <2>1, <3>2, <3>3, <3>4
    <3>6. Served(timeline', origin, trip.delivery.earliest) <= Loaded + p.n
      BY <2>1, <2>5, <3>2, <3>3, <3>4
    <3> QED BY <1>1, <2>3, <2>6, <3>5, <3>6 DEF ServedInTime
  <2>7. CASE leg = "unloading"
    <3>1. /\ Now >= trip.pickup.earliest /\ Now >= trip.delivery.earliest
          /\ Upto(timeline) >= Now
      BY <1>2, <2>2, <2>7 DEF WindowsOpen, Dwells
    <3> QED BY <1>1, <1>2, <1>3, <1>5, <2>1, <2>4, <2>5, <2>7, <3>1 DEF ServedInTime
  <2>8. CASE leg \notin {"loading", "unloading"}
    <3>1. p.kind # "duty"
      BY <1>6, <2>8 DEF Legs, Dwells
    <3>2. \A t \in Nat : Served(timeline', origin, t) = Served(timeline, origin, t)
      BY <1>3, <3>1
    <3>3. leg # "loading"
      BY <2>8
    <3> QED BY <1>1, <1>2, <2>1, <2>4, <3>2, <3>3 DEF ServedInTime
  <2> QED BY <2>6, <2>7, <2>8
<1> QED BY <1>1, <1>7, <1>8, <1>9, <1>10 DEF JourneyInv

\* So does a rest that is inserted.
LEMMA JourneyInserts ==
  ASSUME TypeOK, LegalSince, TripTypes, JourneyInv, leg \in Legs, running,
         NEW p \in Rules!Period, Inserts(p), UNCHANGED tripVars
  PROVE  JourneyInv'
<1>1. /\ timeline' = Append(timeline, p) /\ UNCHANGED <<log, running, auto, todo>>
      /\ UNCHANGED <<trip, leg, origin, inserted>>
      /\ p.kind = "rest" /\ todo # << >> /\ todo[1].kind \in {"drive", "duty"}
  BY DEF Inserts, tripVars
<1>2. CallTimes /\ TripTimes /\ WindowsOpen /\ ServedInTime
  BY DEF JourneyInv
<1>3. /\ p.n \in Nat /\ Upto(timeline') = Upto(timeline) + p.n
      /\ RestIn(timeline, Len(log)) \in Nat
      /\ RestIn(timeline', Len(log')) = RestIn(timeline, Len(log)) + p.n
      /\ \A t \in Nat : /\ Served(timeline, origin, t) \in Nat
                        /\ Served(timeline', origin, t) = Served(timeline, origin, t)
  <2>1. p.kind # "duty"
    BY <1>1
  <2>2. /\ p.n \in Nat /\ Upto(timeline') = Upto(timeline) + p.n
        /\ RestIn(timeline, Len(log)) \in Nat
        /\ RestIn(timeline', Len(log')) =
             RestIn(timeline, Len(log)) + (IF p.kind = "rest" THEN p.n ELSE 0)
        /\ \A t \in Nat :
             /\ Served(timeline, origin, t) \in Nat
             /\ Served(timeline', origin, t) =
                  Served(timeline, origin, t)
                    + (IF p.kind = "duty" /\ Upto(timeline) < t THEN p.n ELSE 0)
    BY <1>1, TimelineGrows
  <2>3. RestIn(timeline', Len(log')) = RestIn(timeline, Len(log)) + p.n
    BY <1>1, <2>2
  <2>4. \A t \in Nat : /\ Served(timeline, origin, t) \in Nat
                       /\ Served(timeline', origin, t) = Served(timeline, origin, t)
    <3> TAKE t \in Nat
    <3>1. /\ Served(timeline, origin, t) \in Nat
          /\ Served(timeline', origin, t) =
               Served(timeline, origin, t)
                 + (IF p.kind = "duty" /\ Upto(timeline) < t THEN p.n ELSE 0)
      BY <2>2, Zenon
    <3> QED BY <2>1, <3>1
  <2> QED BY <2>2, <2>3, <2>4
<1>4. Left' = Left /\ Loaded' = Loaded
  BY <1>1 DEF Left, Loaded
<1>5. Now' = Now /\ Now \in Nat /\ Upto(timeline) \in Nat
  BY <1>1, TimelineFacts DEF Now
<1>6. leg \notin Dwells
  BY <1>1, <1>2 DEF CallTimes, LegKind
<1>7. CallTimes'
  <2>1. /\ Left \in Nat /\ Left <= WorkOf(trip, leg) /\ WorkOf(trip, leg) \in Nat
        /\ Upto(timeline) = Now + (WorkOf(trip, leg) - Left) + RestIn(timeline, Len(log))
    BY <1>1, <1>2, <1>6, TripFacts DEF CallTimes
  <2>2. Upto(timeline') = Now' + (WorkOf(trip', leg') - Left') + RestIn(timeline', Len(log'))
    <3>1. /\ p.n \in Nat /\ Upto(timeline') = Upto(timeline) + p.n
          /\ RestIn(timeline, Len(log)) \in Nat
          /\ RestIn(timeline', Len(log')) = RestIn(timeline, Len(log)) + p.n
      BY <1>3
    <3>2. WorkOf(trip', leg') = WorkOf(trip, leg)
      BY <1>1
    <3> QED BY <1>4, <1>5, <2>1, <3>1, <3>2
  <2> QED BY <1>1, <1>2, <1>4, <1>6, <2>1, <2>2 DEF CallTimes
<1>8. TripTimes' /\ WindowsOpen'
  BY <1>1, <1>2, <1>5 DEF TripTimes, WindowsOpen
<1>9. ServedInTime'
  BY <1>1, <1>2, <1>3, <1>4, TripFacts DEF ServedInTime
<1> QED BY <1>1, <1>7, <1>8, <1>9 DEF JourneyInv

\* And the step to the end of the events.
LEMMA JourneyMovesOn ==
  ASSUME TypeOK, LegalSince, TripTypes, JourneyInv, leg \in Legs, NextEvent,
         UNCHANGED tripVars
  PROVE  JourneyInv'
<1>1. /\ running /\ todo # << >> /\ todo[1].n = 0 /\ todo' = Tail(todo)
      /\ UNCHANGED <<log, running, auto, timeline>>
      /\ UNCHANGED <<trip, leg, origin, inserted>>
  BY DEF NextEvent, tripVars
<1>2. CallTimes /\ TripTimes /\ WindowsOpen /\ ServedInTime
  BY DEF JourneyInv
<1>3. todo' = << >>
  BY <1>1, <1>2 DEF CallTimes, TypeOK
<1>4. Left' = Left /\ Loaded' = Loaded
  BY <1>1, <1>3 DEF Left, Loaded
<1>5. Now' = Now
  BY <1>1 DEF Now
<1>6. CallTimes'
  BY <1>1, <1>2, <1>3, <1>4, <1>5 DEF CallTimes
<1>7. TripTimes' /\ WindowsOpen' /\ ServedInTime'
  BY <1>1, <1>2, <1>4, <1>5 DEF TripTimes, WindowsOpen, ServedInTime
<1> QED BY <1>1, <1>6, <1>7 DEF JourneyInv

\* A call that returns: what it took becomes part of the log.
LEMMA JourneyReturns ==
  ASSUME TypeOK, LegalSince, TripTypes, JourneyInv, FinishLeg
  PROVE  JourneyInv' /\ TripTypes'
<1>1. /\ leg \in Legs /\ running /\ todo = << >> /\ running' = FALSE
      /\ log' = timeline /\ timeline' = timeline /\ todo' = todo
      /\ inserted' = [inserted EXCEPT !.rest = @ + RestIn(timeline, Len(log))]
      /\ UNCHANGED <<trip, leg, origin>>
  BY DEF FinishLeg, Return, RestOfCall, RestIn
<1>2. CallTimes /\ TripTimes /\ WindowsOpen /\ ServedInTime
  BY <1>1 DEF JourneyInv
<1>3. /\ Len(log) \in Nat /\ Len(log) \in 0..Len(timeline)
      /\ Now \in Nat /\ Upto(timeline) \in Nat
      /\ origin \in 0..Len(log) /\ origin \in 0..Len(timeline)
      /\ Began(timeline, origin) = Began(log, origin) /\ Began(log, origin) \in Nat
  BY TimelineFacts DEF TripTypes
<1>4. Left = 0 /\ Now' = Upto(timeline)
  BY <1>1 DEF Left, Now
<1> DEFINE r == RestIn(timeline, Len(log))
<1>5. r \in Nat
  BY ServedNat DEF TypeOK
<1>6. /\ inserted.rest \in Nat /\ inserted.dwell \in Nat
      /\ inserted'.rest = inserted.rest + r /\ inserted'.dwell = inserted.dwell
      /\ inserted' \in [rest : Nat, dwell : Nat]
  <2>1. inserted \in [rest : Nat, dwell : Nat]
    BY DEF TripTypes
  <2>2. inserted' = [inserted EXCEPT !.rest = @ + r]
    BY <1>1
  <2> HIDE DEF r
  <2> QED BY <1>5, <2>1, <2>2
<1>7. /\ WorkOf(trip, leg) \in Nat /\ WorkBefore(trip, leg) \in Nat
      /\ Opens(trip, leg) \in Nat
      /\ trip.pickup.earliest \in Nat /\ trip.delivery.earliest \in Nat
  BY TripFacts
<1>8. TripTypes'
  BY <1>1, <1>3, <1>6 DEF TripTypes
<1>9. /\ leg \in Dwells =>
           /\ Now < Opens(trip, leg) /\ r = Opens(trip, leg) - Now
           /\ Upto(timeline) = Now + r
           /\ WorkOf(trip, leg) = 0
      /\ leg \notin Dwells => Upto(timeline) = Now + WorkOf(trip, leg) + r
  BY <1>1, <1>2, <1>3, <1>4, <1>5, <1>7 DEF CallTimes, WorkOf, Dwells
<1> HIDE DEF r
<1>10. TripTimes'
  <2>1. Now' = Began(log', origin') + WorkBefore(trip', leg') + WorkOf(trip', leg')
                 + inserted'.rest
    <3>1. Now = Began(log, origin) + WorkBefore(trip, leg) + inserted.rest
      BY <1>1, <1>2, <1>3, <1>6, <1>7 DEF TripTimes
    <3>2. Upto(timeline) = Now + WorkOf(trip, leg) + r
      BY <1>3, <1>5, <1>7, <1>9
    <3>3. Upto(timeline) = Began(log, origin) + WorkBefore(trip, leg) + WorkOf(trip, leg)
                             + (inserted.rest + r)
      <4>1. /\ Now \in Nat /\ r \in Nat /\ Began(log, origin) \in Nat /\ inserted.rest \in Nat
            /\ WorkOf(trip, leg) \in Nat /\ WorkBefore(trip, leg) \in Nat
        BY <1>3, <1>5, <1>6, <1>7
      <4> QED BY <3>1, <3>2, <4>1
    <3>4. Began(log', origin') = Began(log, origin)
      BY <1>1, <1>3
    <3> QED BY <1>1, <1>4, <1>6, <3>3, <3>4
  <2>2. inserted'.dwell <= inserted'.rest
    BY <1>1, <1>2, <1>3, <1>5, <1>6, <1>7, <1>9 DEF TripTimes
  <2> QED BY <1>1, <1>6, <2>1, <2>2 DEF TripTimes
<1>11. WindowsOpen'
  <2>1. Now' >= Now
    BY <1>3, <1>4, <1>5, <1>7, <1>9
  <2>2. Now' \in Nat
    BY <1>3, <1>4
  <2>3. leg \in Dwells => Now' = Opens(trip, leg)
    BY <1>3, <1>4, <1>5, <1>7, <1>9
  <2>4. leg = "pickup_dwell" => Now' >= trip.pickup.earliest
    BY <1>7, <2>2, <2>3 DEF Dwells, Opens
  <2>5. leg = "delivery_dwell" => Now' >= trip.delivery.earliest
    BY <1>7, <2>2, <2>3 DEF Dwells, Opens
  <2>6. /\ leg \notin {"deadhead", "pickup_dwell"} => Now' >= trip.pickup.earliest
        /\ leg \in {"unloading", "done"} => Now' >= trip.delivery.earliest
    BY <1>2, <1>3, <1>7, <2>1, <2>2 DEF WindowsOpen
  <2> QED BY <1>1, <2>4, <2>5, <2>6 DEF WindowsOpen
<1>12. ServedInTime'
  <2>1. Loaded' = Loaded
    BY <1>1, <1>4, TripFacts DEF Loaded
  <2> QED BY <1>1, <1>2, <2>1 DEF ServedInTime
<1>13. CallTimes'
  BY <1>1 DEF CallTimes
<1> QED BY <1>1, <1>8, <1>10, <1>11, <1>12, <1>13 DEF JourneyInv

\* A leg begins where the last one ended.
LEMMA LegBegins ==
  ASSUME TypeOK, NEW next \in Legs, NEW kind, NEW n \in Nat, BeginLeg(next, kind, n)
  PROVE  /\ running' /\ auto' /\ leg' = next
         /\ todo' # << >> /\ Len(todo') = 1 /\ todo'[1].kind = kind /\ Left' = n
         /\ log' = log /\ timeline' = log
         /\ Now' = Now /\ Upto(timeline') = Now' /\ RestIn(timeline', Len(log')) = 0
         /\ Now \in Nat
<1>1. /\ running' /\ auto' /\ leg' = next
      /\ todo' = <<[kind |-> kind, n |-> n, sleeper |-> FALSE]>>
      /\ timeline' = log /\ log' = log
  BY DEF BeginLeg, StartCall
<1>2. todo' # << >> /\ Len(todo') = 1 /\ todo'[1].kind = kind /\ todo'[1].n = n
  BY <1>1
<1>3. Left' = n
  BY <1>2 DEF Left
<1>4. log \in Seq(Rules!Period)
  BY DEF TypeOK
<1>5. Now' = Now /\ Upto(timeline') = Now' /\ Now \in Nat
  BY <1>1, <1>4, UptoNat DEF Now
<1>6. RestIn(timeline', Len(log')) = 0
  <2>1. RestIn(log, Len(log)) = 0
    BY <1>4, NothingYet
  <2> QED BY <1>1, <2>1
<1> QED BY <1>1, <1>2, <1>3, <1>5, <1>6

\* What the next leg asks of the one before it.
Follows(next) ==
  /\ next \in Legs \ {"deadhead"}
  /\ WorkBefore(trip, next) = WorkBefore(trip, leg) + WorkOf(trip, leg)
  /\ next \in {"pickup_dwell", "loading"} => leg \in {"deadhead", "pickup_dwell"}
  /\ next # "pickup_dwell" => Now >= trip.pickup.earliest
  /\ next = "unloading" => Now >= trip.delivery.earliest

LEMMA JourneyGoesOn ==
  ASSUME TypeOK, TripTypes, JourneyInv, leg \in Legs, ~ running,
         NEW next, Follows(next), NEW n \in Nat,
         BeginLeg(next, LegKind(next), n), UNCHANGED <<trip, origin>>,
         IF next \in Dwells
           THEN /\ Now < Opens(trip, next) /\ n = Opens(trip, next) - Now
                /\ inserted' = [inserted EXCEPT !.dwell = @ + n]
           ELSE n = WorkOf(trip, next) /\ inserted' = inserted
  PROVE  JourneyInv' /\ TripTypes'
<1>1. TripTimes /\ ServedInTime /\ timeline = log
  BY DEF JourneyInv
<1>2. next \in Legs /\ next # "deadhead"
  BY DEF Follows
<1>3. /\ running' /\ auto' /\ leg' = next
      /\ todo' # << >> /\ Len(todo') = 1 /\ todo'[1].kind = LegKind(next) /\ Left' = n
      /\ log' = log /\ timeline' = timeline
      /\ Now' = Now /\ Upto(timeline') = Now' /\ RestIn(timeline', Len(log')) = 0
      /\ Now \in Nat
  BY <1>1, <1>2, LegBegins
<1>4. /\ WorkOf(trip, leg) \in Nat /\ WorkBefore(trip, leg) \in Nat
      /\ WorkOf(trip, next) \in Nat /\ WorkBefore(trip, next) \in Nat
      /\ Opens(trip, next) \in Nat /\ trip.loading \in Nat
      /\ inserted.rest \in Nat /\ inserted.dwell \in Nat
  BY TripFacts
<1>5. /\ inserted' \in [rest : Nat, dwell : Nat] /\ inserted'.rest = inserted.rest
      /\ inserted'.dwell = inserted.dwell + (IF next \in Dwells THEN n ELSE 0)
  <2>1. inserted \in [rest : Nat, dwell : Nat]
    BY DEF TripTypes
  <2>2. CASE next \in Dwells
    <3>1. inserted' = [inserted EXCEPT !.dwell = @ + n]
      BY <2>2
    <3> QED BY <2>1, <2>2, <3>1
  <2>3. CASE next \notin Dwells
    BY <1>4, <2>1, <2>3
  <2> QED BY <2>2, <2>3
<1>6. TripTypes'
  BY <1>2, <1>3, <1>5 DEF TripTypes
<1>7. CallTimes'
  <2>1. CASE next \in Dwells
    <3>1. Now' < Opens(trip', leg') /\ 0 + n = Opens(trip', leg') - Now'
      BY <1>3, <1>4, <2>1
    <3>2. leg' # "done" /\ leg' \in Dwells
      BY <1>3, <2>1 DEF Dwells
    <3>3. Upto(timeline') = Now' + RestIn(timeline', Len(log'))
      BY <1>3
    <3> QED BY <1>3, <3>1, <3>2, <3>3 DEF CallTimes
  <2>2. CASE next \notin Dwells
    <3>1. Left' <= WorkOf(trip', leg') /\ WorkOf(trip', leg') = n
      BY <1>3, <1>4, <2>2
    <3>2. leg' # "done" /\ leg' \notin Dwells
      BY <1>2, <1>3, <2>2 DEF Legs
    <3>3. Upto(timeline') = Now' + (WorkOf(trip', leg') - Left') + RestIn(timeline', Len(log'))
      BY <1>3, <1>4, <2>2, <3>1
    <3> QED BY <1>3, <3>1, <3>2, <3>3 DEF CallTimes
  <2> QED BY <2>1, <2>2
<1>8. TripTimes'
  <2>1. /\ Now = Began(log, origin) + WorkBefore(trip, leg) + WorkOf(trip, leg)
                  + inserted.rest
        /\ inserted.dwell <= inserted.rest
    BY <1>1, <1>4 DEF TripTimes
  <2>2. Began(log, origin) \in Nat
    <3>1. SubSeq(log, 1, origin) \in Seq(Rules!Period)
      BY DEF TypeOK, TripTypes
    <3> QED BY <3>1, UptoNat DEF Began
  <2>3. Now' = Began(log', origin') + WorkBefore(trip', leg') + 0 + inserted'.rest
    BY <1>3, <1>4, <1>5, <2>1, <2>2 DEF Follows
  <2>4. CASE next \in Dwells
    <3>1. inserted'.dwell <= inserted'.rest + (Opens(trip', leg') - Now')
      BY <1>3, <1>4, <1>5, <2>1, <2>4
    <3> QED BY <1>3, <2>3, <2>4, <3>1 DEF TripTimes
  <2>5. CASE next \notin Dwells
    <3>1. inserted'.dwell <= inserted'.rest + 0
      BY <1>3, <1>4, <1>5, <2>1, <2>5
    <3> QED BY <1>3, <2>3, <2>5, <3>1 DEF TripTimes
  <2> QED BY <2>4, <2>5
<1>9. WindowsOpen'
  <2>1. next # "pickup_dwell" => Now' >= trip'.pickup.earliest
    BY <1>3 DEF Follows
  <2>2. next = "unloading" => Now' >= trip'.delivery.earliest
    BY <1>3 DEF Follows
  <2>3. leg' = next /\ running' /\ next # "deadhead" /\ next # "done"
    BY <1>2, <1>3 DEF Legs
  <2> QED BY <2>1, <2>2, <2>3 DEF WindowsOpen
<1>10. ServedInTime'
  <2>1. next \in {"pickup_dwell", "loading"} => Loaded = 0 /\ Loaded' = 0
    BY <1>3, <1>4 DEF Follows, Loaded, WorkOf, Dwells
  <2>2. next \notin {"pickup_dwell", "loading"} => Loaded' = trip.loading
    BY <1>2, <1>3 DEF Loaded
  <2>3. Loaded \in Nat /\ Loaded <= trip.loading
    BY <1>4 DEF Loaded
  <2>4. Served(timeline, origin, trip.delivery.earliest) \in Nat
    <3>1. trip.delivery.earliest \in Nat
      BY TripFacts
    <3> QED BY <3>1, ServedNat DEF TypeOK
  <2> QED BY <1>1, <1>3, <1>4, <2>1, <2>2, <2>3, <2>4 DEF ServedInTime
<1> QED BY <1>3, <1>6, <1>7, <1>8, <1>9, <1>10 DEF JourneyInv

\* An evaluation begins now, with nothing done.
LEMMA JourneyBegins ==
  ASSUME TypeOK, NEW t \in Trips, EvaluateTrip(t)
  PROVE  JourneyInv' /\ TripTypes'
<1>1. /\ trip' = t /\ origin' = Len(log) /\ inserted' = [rest |-> 0, dwell |-> 0]
      /\ BeginLeg("deadhead", "drive", t.deadhead)
  BY DEF EvaluateTrip
<1>2. t \in Trip /\ t.deadhead \in Nat
  BY TripAssumption DEF Trip
<1>3. /\ running' /\ auto' /\ leg' = "deadhead"
      /\ todo' # << >> /\ Len(todo') = 1 /\ todo'[1].kind = "drive" /\ Left' = t.deadhead
      /\ log' = log /\ timeline' = log
      /\ Now' = Now /\ Upto(timeline') = Now' /\ RestIn(timeline', Len(log')) = 0
      /\ Now \in Nat
  BY <1>1, <1>2, LegBegins DEF Legs
<1>4. log \in Seq(Rules!Period) /\ Len(log) \in Nat
  BY DEF TypeOK
<1>5. Began(log, Len(log)) = Now /\ \A x : Served(log, Len(log), x) = 0
  BY <1>4, NothingYet DEF Now
<1>6. inserted'.rest = 0 /\ inserted'.dwell = 0 /\ inserted' \in [rest : Nat, dwell : Nat]
  BY <1>1
<1>7. TripTypes'
  BY <1>1, <1>2, <1>3, <1>4, <1>6 DEF TripTypes, Legs
<1>8. CallTimes'
  <2>1. leg' \notin Dwells /\ leg' # "done" /\ LegKind(leg') = "drive"
    BY <1>3 DEF Dwells, LegKind
  <2>2. WorkOf(trip', leg') = t.deadhead
    BY <1>1, <1>3 DEF WorkOf
  <2>3. /\ Left' \in Nat /\ Left' <= WorkOf(trip', leg')
        /\ Upto(timeline') = Now' + (WorkOf(trip', leg') - Left') + RestIn(timeline', Len(log'))
    BY <1>2, <1>3, <2>2
  <2> QED BY <1>3, <2>1, <2>3 DEF CallTimes
<1>9. TripTimes'
  <2>1. WorkBefore(trip', leg') = 0 /\ leg' \notin Dwells
    BY <1>3 DEF WorkBefore, Dwells
  <2>2. Began(log', origin') = Now'
    BY <1>1, <1>3, <1>5
  <2>3. /\ Now' = Began(log', origin') + WorkBefore(trip', leg') + 0 + inserted'.rest
        /\ inserted'.dwell <= inserted'.rest + 0
    BY <1>3, <1>6, <2>1, <2>2
  <2> QED BY <1>3, <2>1, <2>3 DEF TripTimes
<1>10. WindowsOpen'
  BY <1>3 DEF WindowsOpen
<1>11. ServedInTime'
  <2>1. Loaded' = 0
    BY <1>3 DEF Loaded
  <2>2. timeline' = log /\ origin' = Len(log)
    BY <1>1, <1>3
  <2> QED BY <1>5, <2>1, <2>2 DEF ServedInTime
<1> QED BY <1>3, <1>7, <1>8, <1>9, <1>10, <1>11 DEF JourneyInv

\* Every leg of an evaluation follows its rules.
LEMMA JourneyStep ==
  ASSUME TypeOK, LegalSince, TripTypes, JourneyInv, Journey
  PROVE  JourneyInv' /\ TripTypes'
<1>1. /\ trip.deadhead \in Nat /\ trip.loading \in Nat /\ trip.loaded \in Nat
      /\ trip.unloading \in Nat
      /\ trip.pickup.earliest \in Nat /\ trip.delivery.earliest \in Nat
      /\ Now \in Nat
  BY TripFacts, TimelineFacts
<1>2. ASSUME leg \in Legs, Work, UNCHANGED tripVars
      PROVE  JourneyInv' /\ TripTypes'
  <2>1. running
    BY <1>2 DEF Work, Drive, Duty, Rest, Hold, InsertRequiredReset, AtLimit, At, NextEvent
  <2>2. log' = log
    BY <1>2 DEF Work, Drive, Duty, Rest, Hold, InsertRequiredReset, NextEvent, Spend
  <2>3. TripTypes'
    BY <1>2, <2>2 DEF TripTypes, tripVars
  <2>4. ASSUME NEW p \in Rules!Period, Works(p)
        PROVE  JourneyInv'
    BY <1>2, <2>1, <2>4, JourneyWorks
  <2>5. ASSUME NEW p \in Rules!Period, Inserts(p)
        PROVE  JourneyInv'
    BY <1>2, <2>1, <2>5, JourneyInserts
  <2>6. CASE NextEvent
    BY <1>2, <2>3, <2>6, JourneyMovesOn
  <2> QED BY <1>2, <2>3, <2>4, <2>5, <2>6, WorkIs
<1>3. CASE FinishLeg
  BY <1>3, JourneyReturns
<1>4. ASSUME leg \in Legs, ~ running
      PROVE  WindowsOpen
  BY <1>4 DEF JourneyInv
\* A dwell before the pickup or the delivery.
<1>5. ASSUME NEW next \in Dwells, NEW window, window.earliest = Opens(trip, next),
             leg \in Legs, ~ running, Follows(next), Early(window), Dwell(next, window)
      PROVE  JourneyInv' /\ TripTypes'
  <2> DEFINE n == window.earliest - Now
  <2>1. Now < Opens(trip, next) /\ n = Opens(trip, next) - Now /\ n \in Nat
    <3>1. Opens(trip, next) \in Nat
      BY TripFacts
    <3> QED BY <1>1, <1>5, <3>1 DEF Early
  <2>2. BeginLeg(next, LegKind(next), n) /\ UNCHANGED <<trip, origin>>
    BY <1>5 DEF Dwell, LegKind
  <2>3. inserted' = [inserted EXCEPT !.dwell = @ + n]
    <3>1. inserted' = [inserted EXCEPT !.dwell = @ + window.earliest - Now]
      BY <1>5 DEF Dwell
    <3>2. inserted \in [rest : Nat, dwell : Nat] /\ window.earliest \in Nat
      BY <1>5, TripFacts DEF TripTypes
    <3> QED BY <1>1, <3>1, <3>2
  <2> HIDE DEF n
  <2> QED BY <1>5, <2>1, <2>2, <2>3, JourneyGoesOn
\* Work after a leg.
<1>6. ASSUME NEW next \in Legs \ Dwells, leg \in Legs, ~ running, Follows(next),
             BeginLeg(next, LegKind(next), WorkOf(trip, next)),
             UNCHANGED <<trip, origin, inserted>>
      PROVE  JourneyInv' /\ TripTypes'
  <2>1. WorkOf(trip, next) \in Nat
    BY TripFacts
  <2> QED BY <1>6, <2>1, JourneyGoesOn
<1>7. CASE ArriveAtPickup
  <2>1. leg = "deadhead" /\ leg \in Legs /\ ~ running
    BY <1>7 DEF ArriveAtPickup, Returned, Legs
  <2>2. CASE Early(trip.pickup) /\ Dwell("pickup_dwell", trip.pickup)
    <3>1. Follows("pickup_dwell")
      BY <1>1, <2>1 DEF Follows, WorkBefore, WorkOf, Legs
    <3> QED BY <1>5, <2>1, <2>2, <3>1 DEF Dwells, Opens
  <2>3. CASE ~ Early(trip.pickup) /\ Load /\ UNCHANGED inserted
    <3>1. Follows("loading")
      BY <1>1, <2>1, <2>3 DEF Follows, WorkBefore, WorkOf, Legs, Early
    <3>2. BeginLeg("loading", LegKind("loading"), WorkOf(trip, "loading"))
      BY <2>3 DEF Load, LegKind, WorkOf, Dwells
    <3> QED BY <1>6, <2>1, <2>3, <3>1, <3>2 DEF Dwells, Legs, Load
  <2> QED BY <1>7, <2>2, <2>3 DEF ArriveAtPickup
<1>8. CASE PickupOpens
  <2>1. leg = "pickup_dwell" /\ leg \in Legs /\ ~ running
    BY <1>8 DEF PickupOpens, Returned, Legs
  <2>2. Load /\ UNCHANGED <<trip, origin, inserted>>
    BY <1>8 DEF PickupOpens, Load
  <2>3. Follows("loading")
    BY <1>1, <1>4, <2>1 DEF Follows, WorkBefore, WorkOf, Legs, WindowsOpen
  <2>4. BeginLeg("loading", LegKind("loading"), WorkOf(trip, "loading"))
    BY <2>2 DEF Load, LegKind, WorkOf, Dwells
  <2> QED BY <1>6, <2>1, <2>2, <2>3, <2>4 DEF Dwells, Legs
<1>9. CASE Depart
  <2>1. leg = "loading" /\ leg \in Legs /\ ~ running
    BY <1>9 DEF Depart, Returned, Legs
  <2>2. UNCHANGED <<trip, origin, inserted>>
    BY <1>9 DEF Depart
  <2>3. Follows("linehaul")
    BY <1>1, <1>4, <2>1 DEF Follows, WorkBefore, WorkOf, Legs, WindowsOpen
  <2>4. BeginLeg("linehaul", LegKind("linehaul"), WorkOf(trip, "linehaul"))
    BY <1>9 DEF Depart, LegKind, WorkOf, Dwells
  <2> QED BY <1>6, <2>1, <2>2, <2>3, <2>4 DEF Dwells, Legs
<1>10. CASE ArriveAtDelivery
  <2>1. leg = "linehaul" /\ leg \in Legs /\ ~ running
    BY <1>10 DEF ArriveAtDelivery, Returned, Legs
  <2>2. CASE Early(trip.delivery) /\ Dwell("delivery_dwell", trip.delivery)
    <3>1. Follows("delivery_dwell")
      BY <1>1, <1>4, <2>1 DEF Follows, WorkBefore, WorkOf, Legs, WindowsOpen
    <3> QED BY <1>5, <2>1, <2>2, <3>1 DEF Dwells, Opens
  <2>3. CASE ~ Early(trip.delivery) /\ Unload /\ UNCHANGED inserted
    <3>1. Follows("unloading")
      BY <1>1, <1>4, <2>1, <2>3 DEF Follows, WorkBefore, WorkOf, Legs, Early, WindowsOpen
    <3>2. BeginLeg("unloading", LegKind("unloading"), WorkOf(trip, "unloading"))
      BY <2>3 DEF Unload, LegKind, WorkOf, Dwells
    <3> QED BY <1>6, <2>1, <2>3, <3>1, <3>2 DEF Dwells, Legs, Unload
  <2> QED BY <1>10, <2>2, <2>3 DEF ArriveAtDelivery
<1>11. CASE DeliveryOpens
  <2>1. leg = "delivery_dwell" /\ leg \in Legs /\ ~ running
    BY <1>11 DEF DeliveryOpens, Returned, Legs
  <2>2. Unload /\ UNCHANGED <<trip, origin, inserted>>
    BY <1>11 DEF DeliveryOpens, Unload
  <2>3. Follows("unloading")
    BY <1>1, <1>4, <2>1 DEF Follows, WorkBefore, WorkOf, Legs, WindowsOpen
  <2>4. BeginLeg("unloading", LegKind("unloading"), WorkOf(trip, "unloading"))
    BY <2>2 DEF Unload, LegKind, WorkOf, Dwells
  <2> QED BY <1>6, <2>1, <2>2, <2>3, <2>4 DEF Dwells, Legs
<1>12. CASE Judge
  <2>1. /\ leg = "unloading" /\ leg \in Legs /\ ~ running /\ leg' = "done"
        /\ UNCHANGED <<vars, trip, origin, inserted>>
    BY <1>12 DEF Judge, Returned, Legs
  <2>2. /\ log' = log /\ timeline' = timeline /\ ~ running' /\ Now' = Now
        /\ trip' = trip /\ origin' = origin /\ inserted' = inserted
    BY <2>1 DEF vars, callVars, Now
  <2>3. TripTimes /\ WindowsOpen /\ ServedInTime /\ timeline = log
    BY <2>1 DEF JourneyInv
  <2>4. Loaded' = Loaded /\ CallTimes'
    BY <2>1, <2>2 DEF Loaded, CallTimes
  <2>5. TripTimes'
    <3>1. /\ WorkBefore(trip, "done") = WorkBefore(trip, leg) + WorkOf(trip, leg)
          /\ WorkOf(trip, "done") = 0
          /\ WorkBefore(trip, "done") \in Nat
          /\ inserted.rest \in Nat /\ inserted.dwell \in Nat
          /\ Began(log, origin) \in Nat
      BY <2>1, TripFacts, TimelineFacts DEF WorkBefore, WorkOf, TripTypes
    <3>2. Now = Began(log, origin) + WorkBefore(trip, "done") + 0 + inserted.rest
      BY <1>1, <2>1, <2>3, <3>1, TripFacts DEF TripTimes
    <3>3. inserted.dwell <= inserted.rest + 0
      BY <2>1, <2>3, <3>1 DEF TripTimes
    <3> QED BY <2>1, <2>2, <3>1, <3>2, <3>3 DEF TripTimes
  <2>6. WindowsOpen' /\ ServedInTime'
    BY <2>1, <2>2, <2>3, <2>4 DEF WindowsOpen, ServedInTime
  <2>7. TripTypes'
    BY <2>1, <2>2 DEF TripTypes
  <2> QED BY <2>2, <2>3, <2>4, <2>5, <2>6, <2>7 DEF JourneyInv
<1> QED
  BY <1>2, <1>3, <1>7, <1>8, <1>9, <1>10, <1>11, <1>12 DEF Journey

\* At its end an evaluation adds up.
LEMMA JourneyAddsUp ==
  ASSUME TypeOK, LegalSince, TripTypes, JourneyInv, leg = "done"
  PROVE  /\ Now = Began(log, origin)
                    + (trip.deadhead + trip.loading + trip.loaded + trip.unloading
                         + inserted.rest)
         /\ TripAddsUp
<1>1. TripTimes /\ ServedInTime /\ CallTimes
  BY DEF JourneyInv
<1>2. ~ running /\ timeline = log
  BY <1>1 DEF JourneyInv, CallTimes
<1>3. /\ trip.deadhead \in Nat /\ trip.loading \in Nat /\ trip.loaded \in Nat
      /\ trip.unloading \in Nat /\ inserted.rest \in Nat /\ inserted.dwell \in Nat
      /\ Now \in Nat /\ Began(log, origin) \in Nat
  BY TripFacts, TimelineFacts DEF TripTypes
<1>4. /\ Now = Began(log, origin)
                 + (trip.deadhead + trip.loading + trip.loaded + trip.unloading
                      + inserted.rest)
      /\ inserted.dwell <= inserted.rest
  BY <1>1, <1>2, <1>3 DEF TripTimes, WorkBefore, WorkOf, Dwells
<1>5. TotalTripDuration = Now - Began(log, origin)
  BY DEF TotalTripDuration, Began
<1>6. \A t : ServedBefore(t) = Served(log, origin, t)
  BY DEF ServedBefore, Served
<1>7. Loaded = trip.loading
  BY DEF Loaded
<1>8. /\ TotalTripDuration =
           trip.deadhead + trip.loading + trip.loaded + trip.unloading + inserted.rest
      /\ ServedBefore(trip.pickup.earliest) = 0
      /\ ServedBefore(trip.delivery.earliest) <= trip.loading
  BY <1>1, <1>2, <1>3, <1>4, <1>5, <1>6, <1>7 DEF ServedInTime
<1> QED BY <1>4, <1>8 DEF TripAddsUp

-----------------------------------------------------------------------------
(* Relays: how far a segment is *)

\* The minutes of the first event and of the others.
LEMMA EventsTail ==
  ASSUME NEW l \in Seq(Event), l # << >>
  PROVE  /\ Upto(l) = l[1].n + Upto(Tail(l))
         /\ Tail(l) \in Seq(Event) /\ Upto(Tail(l)) \in Nat
         /\ Rules!Minutes(l, 2..Len(l)) = Upto(Tail(l))
<1> DEFINE t == Tail(l)
           J == 1..Len(t)
           O == 2..Len(l)
           S == 1..Len(l)
           h == [i \in J |-> i + 1]
<1>1. /\ Len(l) \in Nat /\ Len(l) > 0 /\ Len(t) = Len(l) - 1 /\ t \in Seq(Event)
      /\ \A i \in 1..Len(t) : t[i] = l[i + 1]
      /\ \A i \in 1..Len(l) : l[i].n \in Nat
  BY EventFacts
<1>2. Len(t) \in Nat
  BY <1>1
<1>3. IsFiniteSet(J) /\ IsFiniteSet(S)
  BY <1>1, <1>2, FS_Interval
<1>4. \A i \in J : h[i] = i + 1 /\ t[i].n \in Nat /\ l[h[i]].n = t[i].n
  <2> TAKE i \in J
  <2>1. h[i] = i + 1 /\ i \in 1..Len(t) /\ i + 1 \in 1..Len(l)
    BY <1>1
  <2> QED BY <1>1, <2>1
<1>5. \A i, j \in J : h[i] = h[j] => i = j
  BY <1>1
<1>6. {h[i] : i \in J} = O
  <2>1. ASSUME NEW i \in J PROVE h[i] \in O
    BY <1>1
  <2>2. ASSUME NEW i \in O PROVE \E j \in J : i = h[j]
    <3>1. i - 1 \in J /\ h[i - 1] = i
      BY <1>1
    <3> QED BY <3>1
  <2> QED BY <2>1, <2>2
<1>7. S \ {1} = O /\ 1 \in S /\ \A i \in S : l[i].n \in Nat
  BY <1>1
<1>8. Upto(l) = Rules!Minutes(l, S) /\ Upto(t) = Rules!Minutes(t, J)
  BY DEF Upto
<1> HIDE DEF h, J, O, S, t
<1>9. Rules!Minutes(l, {h[i] : i \in J}) = Rules!Minutes(t, J)
  BY <1>3, <1>4, <1>5, MinutesMoved
<1>10. Rules!Minutes(t, J) \in Nat
  BY <1>3, <1>4, MinutesNat
<1>11. Rules!Minutes(l, S) = l[1].n + Rules!Minutes(l, S \ {1})
  BY <1>3, <1>7, MinutesRemove
<1> QED BY <1>1, <1>6, <1>7, <1>8, <1>9, <1>10, <1>11 DEF O, t

LEMMA EventsNat ==
  ASSUME NEW l \in Seq(Event)
  PROVE  Upto(l) \in Nat /\ Upto(<< >>) = 0
<1>1. Upto(<< >>) = 0
  <2>1. 1..Len(<< >>) = {}
    OBVIOUS
  <2> QED BY <2>1, MinutesEmpty DEF Upto
<1>2. CASE l # << >>
  <2>1. l[1] \in Event
    BY <1>2
  <2>2. l[1].n \in Nat
    BY <2>1 DEF Event
  <2> QED BY <1>1, <1>2, <2>2, EventsTail
<1> QED BY <1>1, <1>2

\* k less of the first event.
LEMMA EventsSpent ==
  ASSUME NEW l \in Seq(Event), l # << >>, NEW k \in Nat,
         NEW m \in Seq(Event), m # << >>, Len(m) = Len(l), m[1].n = l[1].n - k,
         \A i \in 2..Len(l) : m[i] = l[i]
  PROVE  Upto(l) = Upto(m) + k
<1> DEFINE O == 2..Len(l)
<1>1. IsFiniteSet(O) /\ \A i \in O : l[i].n \in Nat /\ m[i].n = l[i].n
  <2>1. Len(l) \in Nat /\ \A i \in 1..Len(l) : l[i].n \in Nat
    BY EventFacts
  <2>2. IsFiniteSet(O)
    BY <2>1, FS_Interval
  <2>3. \A i \in O : i \in 1..Len(l) /\ m[i] = l[i]
    BY <2>1
  <2> QED BY <2>1, <2>2, <2>3
<1>2. Rules!Minutes(m, O) = Rules!Minutes(l, O)
  <2> HIDE DEF O
  <2> QED BY <1>1, MinutesSame
<1>3. /\ Upto(l) = l[1].n + Rules!Minutes(l, O) /\ Rules!Minutes(l, O) \in Nat
      /\ Upto(m) = m[1].n + Rules!Minutes(m, O)
  BY EventsTail
<1>4. l[1].n \in Nat
  BY EventFacts
<1> HIDE DEF O
<1> QED BY <1>2, <1>3, <1>4

LEMMA EventsAdd ==
  ASSUME NEW a \in Event, NEW b \in Event, NEW c \in Event, NEW d \in Event
  PROVE  /\ <<a, b, c, d>> \in Seq(Event) /\ <<a, c, d>> \in Seq(Event)
         /\ Upto(<<a, b, c, d>>) = a.n + b.n + c.n + d.n
         /\ Upto(<<a, c, d>>) = a.n + c.n + d.n
<1>1. a.n \in Nat /\ b.n \in Nat /\ c.n \in Nat /\ d.n \in Nat
  BY DEF Event
<1>2. ASSUME NEW l \in Seq(Event), NEW t, l # << >>, Tail(l) = t
      PROVE  Upto(l) = l[1].n + Upto(t)
  BY <1>2, EventsTail
<1> DEFINE l1 == <<d>>
           l2 == <<c, d>>
           l3 == <<b, c, d>>
           l4 == <<a, b, c, d>>
           k3 == <<a, c, d>>
<1>3. /\ l1 \in Seq(Event) /\ l1 # << >> /\ Tail(l1) = << >> /\ l1[1] = d
      /\ l2 \in Seq(Event) /\ l2 # << >> /\ Tail(l2) = l1 /\ l2[1] = c
      /\ l3 \in Seq(Event) /\ l3 # << >> /\ Tail(l3) = l2 /\ l3[1] = b
      /\ l4 \in Seq(Event) /\ l4 # << >> /\ Tail(l4) = l3 /\ l4[1] = a
      /\ k3 \in Seq(Event) /\ k3 # << >> /\ Tail(k3) = l2 /\ k3[1] = a
  OBVIOUS
<1>4. Upto(<< >>) = 0
  <2>1. << >> \in Seq(Event)
    OBVIOUS
  <2> QED BY <2>1, EventsNat
<1> HIDE DEF l1, l2, l3, l4, k3
<1>5. /\ Upto(l1) = d.n + 0 /\ Upto(l2) = c.n + Upto(l1) /\ Upto(l3) = b.n + Upto(l2)
      /\ Upto(l4) = a.n + Upto(l3) /\ Upto(k3) = a.n + Upto(l2)
  BY <1>2, <1>3, <1>4
<1>6. Upto(l4) = a.n + b.n + c.n + d.n /\ Upto(k3) = a.n + c.n + d.n
  BY <1>1, <1>5
<1> QED BY <1>3, <1>6 DEF l4, k3

\* The clocks of a segment and what is left of it end when the segment does.
RelayInv ==
  leg = "relay" =>
    /\ ~ auto
    /\ {relay.end, relay.wait, relay.ahead} \subseteq Int
    /\ Upto(timeline) + Upto(todo) = relay.end - relay.wait - relay.ahead
    /\ ~ running /\ todo = << >> => log = timeline

LEMMA RelayKept ==
  ASSUME TypeOK, LegalSince, RelayInv, leg = "relay", Proceed, UNCHANGED <<leg, relay>>
  PROVE  RelayInv'
<1>1. /\ ~ auto /\ {relay.end, relay.wait, relay.ahead} \subseteq Int
      /\ Upto(timeline) + Upto(todo) = relay.end - relay.wait - relay.ahead
      /\ ~ running /\ todo = << >> => log = timeline
  BY DEF RelayInv
<1>2. /\ todo \in Seq(Event) /\ Upto(todo) \in Nat
      /\ timeline \in Seq(Rules!Period) /\ Upto(timeline) \in Nat
  BY EventsNat, UptoNat DEF TypeOK
<1>3. ASSUME NEW p \in Rules!Period, Works(p)
      PROVE  RelayInv'
  <2>1. /\ todo # << >> /\ p.n <= todo[1].n /\ p.n \in Nat
        /\ todo' = [todo EXCEPT ![1].n = @ - p.n]
        /\ timeline' = Append(timeline, p) /\ auto' = auto
    BY <1>3 DEF Works, Rules!Period
  <2>2. Upto(timeline') = Upto(timeline) + p.n
    <3>1. OneMore(timeline, timeline', p.n)
      BY <1>2, <2>1, AppendIsOneMore
    <3> QED BY <3>1, UptoGrows
  <2>3. /\ todo' # << >> /\ Len(todo') = Len(todo) /\ todo' \in Seq(Event)
        /\ todo'[1].n = todo[1].n - p.n /\ \A i \in 2..Len(todo) : todo'[i] = todo[i]
    BY <2>1, LeftSpent
  <2>4. Upto(todo) = Upto(todo') + p.n /\ Upto(todo') \in Nat
    <3> DEFINE m == todo'
    <3>1. /\ m # << >> /\ Len(m) = Len(todo) /\ m \in Seq(Event)
          /\ m[1].n = todo[1].n - p.n /\ \A i \in 2..Len(todo) : m[i] = todo[i]
      BY <2>3
    <3> HIDE DEF m
    <3>2. Upto(todo) = Upto(m) + p.n /\ Upto(m) \in Nat
      BY <1>2, <2>1, <3>1, EventsSpent, EventsNat
    <3> QED BY <3>2 DEF m
  <2>5. Upto(timeline') + Upto(todo') = relay.end - relay.wait - relay.ahead
    BY <1>1, <1>2, <2>1, <2>2, <2>4
  <2>6. relay' = relay /\ auto' = auto /\ todo' # << >>
    BY <2>1, <2>3
  <2> QED BY <1>1, <2>5, <2>6 DEF RelayInv
<1>4. ASSUME NEW p \in Rules!Period, Inserts(p)
      PROVE  FALSE
  BY <1>1, <1>4 DEF Inserts
<1>5. CASE NextEvent
  <2>1. /\ todo # << >> /\ todo[1].n = 0 /\ todo' = Tail(todo) /\ running'
        /\ timeline' = timeline /\ auto' = auto /\ relay' = relay
    BY <1>5 DEF NextEvent
  <2>2. Upto(todo) = 0 + Upto(Tail(todo)) /\ Upto(Tail(todo)) \in Nat
    BY <1>2, <2>1, EventsTail
  <2>3. Upto(timeline') + Upto(todo') = relay.end - relay.wait - relay.ahead
    BY <1>1, <2>1, <2>2
  <2> QED BY <1>1, <2>1, <2>3 DEF RelayInv
<1>6. CASE Violation
  <2>1. todo # << >> /\ UNCHANGED <<auto, todo, timeline>>
    BY <1>6 DEF Violation, AtLimit, At
  <2> QED BY <1>1, <2>1 DEF RelayInv
<1>7. CASE Return
  <2>1. log' = timeline /\ UNCHANGED <<auto, todo, timeline>>
    BY <1>7 DEF Return
  <2> QED BY <1>1, <2>1 DEF RelayInv
<1> QED BY <1>3, <1>4, <1>5, <1>6, <1>7, WorkIs DEF Proceed

\* The events of a segment take from when its driver starts to its end, but
\* for his wait at the pickup.
LEMMA InboundTakes ==
  ASSUME NEW r \in Relays, NEW now \in Int, NEW e, e = Epochs(r, now, r.startOut)
  PROVE  /\ EventsIn(r) \in Seq(Event)
         /\ e.inboundEnd \in Int /\ e.pickupWait \in Int
         /\ now + Upto(EventsIn(r)) = e.inboundEnd - e.pickupWait
<1>1. /\ r.deadheadIn \in Nat /\ r.toHub \in Nat /\ r.pickup.earliest \in Nat
      /\ PickupDwell \in Nat /\ Interchange \in Nat
  <2>1. r \in Relay
    BY ItineraryAssumption
  <2>2. r.pickup \in Window
    BY <2>1 DEF Relay
  <2> QED BY <2>1, <2>2, ItineraryAssumption DEF Relay, Window
<1> DEFINE a == Stretch("drive", r.deadheadIn)
           b == Stretch("duty", PickupDwell)
           c == Stretch("drive", r.toHub)
           d == Stretch("duty", Interchange)
           atPickup == now + r.deadheadIn
           pickup == Later(atPickup, r.pickup.earliest)
<1>2. /\ a \in Event /\ b \in Event /\ c \in Event /\ d \in Event
      /\ a.n = r.deadheadIn /\ b.n = PickupDwell /\ c.n = r.toHub /\ d.n = Interchange
  BY <1>1 DEF Stretch, Event
<1>3. EventsIn(r) = <<a, b, c, d>>
  BY DEF EventsIn
<1>4. pickup \in Int
  BY <1>1 DEF Later
<1>5. /\ e.inboundEnd = pickup + PickupDwell + r.toHub + Interchange
      /\ e.pickupWait = pickup - atPickup
  BY DEF Epochs
<1>6. e.inboundEnd \in Int /\ e.pickupWait \in Int
  BY <1>1, <1>4, <1>5
<1> HIDE DEF a, b, c, d, pickup
<1>7. /\ <<a, b, c, d>> \in Seq(Event) /\ <<a, c, d>> \in Seq(Event)
      /\ Upto(<<a, b, c, d>>) = a.n + b.n + c.n + d.n
      /\ Upto(<<a, c, d>>) = a.n + c.n + d.n
  BY <1>2, EventsAdd
<1>8. Upto(EventsIn(r)) = r.deadheadIn + PickupDwell + r.toHub + Interchange
  BY <1>2, <1>3, <1>7
<1> QED BY <1>1, <1>3, <1>4, <1>5, <1>6, <1>7, <1>8

LEMMA OutboundTakes ==
  ASSUME NEW r \in Relays, NEW now \in Int, NEW e, e = Epochs(r, r.startIn, now)
  PROVE  /\ EventsOut(r, e.hubWait) \in Seq(Event) /\ e.outboundEnd \in Int
         /\ now + Upto(EventsOut(r, e.hubWait)) = e.outboundEnd - 0
<1>1. /\ r.deadheadIn \in Nat /\ r.toHub \in Nat /\ r.pickup.earliest \in Nat
      /\ r.startIn \in Nat /\ r.deadheadOut \in Nat /\ r.fromHub \in Nat
      /\ PickupDwell \in Nat /\ Interchange \in Nat /\ DeliveryDwell \in Nat
  <2>1. r \in Relay
    BY ItineraryAssumption
  <2>2. r.pickup \in Window
    BY <2>1 DEF Relay
  <2> QED BY <2>1, <2>2, ItineraryAssumption DEF Relay, Window
<1> DEFINE w == e.hubWait
           a == Stretch("drive", r.deadheadOut)
           b == Stretch("hold", w)
           c == Stretch("drive", r.fromHub)
           d == Stretch("duty", DeliveryDwell)
           atPickup == r.startIn + r.deadheadIn
           pickup == Later(atPickup, r.pickup.earliest)
           inboundEnd == pickup + PickupDwell + r.toHub + Interchange
           handoff == Later(inboundEnd, now + r.deadheadOut)
<1>2. /\ w = handoff - (now + r.deadheadOut)
      /\ e.outboundEnd = handoff + r.fromHub + DeliveryDwell
  BY DEF Epochs
<1>3. handoff \in Int /\ handoff >= now + r.deadheadOut
  <2>1. inboundEnd \in Nat
    BY <1>1 DEF Later
  <2> HIDE DEF inboundEnd
  <2> QED BY <1>1, <2>1 DEF Later
<1> HIDE DEF handoff
<1>4. w \in Nat
  BY <1>1, <1>2, <1>3
<1> HIDE DEF w
<1>5. /\ a \in Event /\ b \in Event /\ c \in Event /\ d \in Event
      /\ a.n = r.deadheadOut /\ b.n = w /\ c.n = r.fromHub /\ d.n = DeliveryDwell
  BY <1>1, <1>4 DEF Stretch, Event
<1>6. EventsOut(r, w) = IF w > 0 THEN <<a, b, c, d>> ELSE <<a, c, d>>
  <2>1. EventsOut(r, w) = <<a>> \o (IF w > 0 THEN <<b>> ELSE << >>) \o <<c, d>>
    BY DEF EventsOut
  <2> HIDE DEF a, b, c, d
  <2>2. CASE w > 0
    <3> DEFINE s == (<<a>> \o <<b>>) \o <<c, d>>
               t == <<a, b, c, d>>
    <3>1. /\ s \in Seq(Event) /\ t \in Seq(Event) /\ Len(s) = 4 /\ Len(t) = 4
          /\ s[1] = t[1] /\ s[2] = t[2] /\ s[3] = t[3] /\ s[4] = t[4]
      BY <1>5
    <3> HIDE DEF s, t
    <3>2. s = t
      <4>1. \A i \in 1..Len(s) : s[i] = t[i]
        BY <3>1
      <4> QED BY <3>1, <4>1, SeqEqual
    <3> QED BY <2>1, <2>2, <3>2 DEF s, t
  <2>3. CASE ~ (w > 0)
    <3> DEFINE s == (<<a>> \o << >>) \o <<c, d>>
               t == <<a, c, d>>
    <3>1. /\ s \in Seq(Event) /\ t \in Seq(Event) /\ Len(s) = 3 /\ Len(t) = 3
          /\ s[1] = t[1] /\ s[2] = t[2] /\ s[3] = t[3]
      BY <1>5
    <3> HIDE DEF s, t
    <3>2. s = t
      <4>1. \A i \in 1..Len(s) : s[i] = t[i]
        BY <3>1
      <4> QED BY <3>1, <4>1, SeqEqual
    <3> QED BY <2>1, <2>3, <3>2 DEF s, t
  <2> QED BY <2>2, <2>3
<1> HIDE DEF a, b, c, d
<1>7. /\ <<a, b, c, d>> \in Seq(Event) /\ <<a, c, d>> \in Seq(Event)
      /\ Upto(<<a, b, c, d>>) = a.n + b.n + c.n + d.n
      /\ Upto(<<a, c, d>>) = a.n + c.n + d.n
  BY <1>5, EventsAdd
<1>8. Upto(EventsOut(r, w)) = r.deadheadOut + w + r.fromHub + DeliveryDwell
  <2>1. CASE w > 0
    BY <1>5, <1>6, <1>7, <2>1
  <2>2. CASE ~ (w > 0)
    <3>1. w = 0
      BY <1>4, <2>2
    <3>2. Upto(EventsOut(r, w)) = r.deadheadOut + r.fromHub + DeliveryDwell
      BY <1>5, <1>6, <1>7, <2>2
    <3> QED BY <1>1, <3>1, <3>2
  <2> QED BY <2>1, <2>2
<1>9. EventsOut(r, w) \in Seq(Event)
  BY <1>6, <1>7
<1>10. now + Upto(EventsOut(r, w)) = e.outboundEnd - 0
  BY <1>1, <1>2, <1>3, <1>4, <1>8
<1>11. e.outboundEnd \in Int
  BY <1>1, <1>2, <1>3
<1> QED BY <1>9, <1>10, <1>11 DEF w

LEMMA RelayBegins ==
  ASSUME TypeOK, NEW events \in Seq(Event),
         NEW end \in Int, NEW wait \in Int, NEW ahead \in Int,
         Now + Upto(events) = end - wait - ahead, BeginSegment(events, end, wait, ahead)
  PROVE  RelayInv'
<1>1. /\ running' /\ ~ auto' /\ timeline' = log /\ todo' = events
      /\ relay' = [end |-> end, wait |-> wait, ahead |-> ahead]
  BY DEF BeginSegment, StartCall
<1>2. relay'.end = end /\ relay'.wait = wait /\ relay'.ahead = ahead
  BY <1>1
<1>3. Upto(timeline') + Upto(todo') = relay'.end - relay'.wait - relay'.ahead
  BY <1>1, <1>2 DEF Now
<1> QED BY <1>1, <1>2, <1>3 DEF RelayInv

\* A segment that was simulated to its end tells the time of the plan.
LEMMA RelayEnds ==
  ASSUME TypeOK, RelayInv
  PROVE  RelayTimes
<1> SUFFICES ASSUME leg = "relay", ~ running, todo = << >>
             PROVE  Now = relay.end - relay.wait - relay.ahead
  BY DEF RelayTimes
<1>1. /\ {relay.end, relay.wait, relay.ahead} \subseteq Int
      /\ log = timeline /\ Upto(timeline) + Upto(todo) = relay.end - relay.wait - relay.ahead
  BY DEF RelayInv
<1>2. Upto(todo) = 0 /\ Upto(timeline) \in Nat
  BY EventsNat, UptoNat DEF TypeOK
<1> QED BY <1>1, <1>2 DEF Now

-----------------------------------------------------------------------------
(* Tours: legs without gaps *)

TourStates == {"none", "evaluating", "chaining", "infeasible", "passed over", "cancelled",
               "tour", "refused"}
TourLeg == [kind : {"deadhead", "dwell", "rest", "loaded", "home"}, start : Int, end : Int]
TourTrip == [trip : Trip, dwell : Nat, ahead : Int]
Tour == [trips : Seq(TourTrip), legs : Seq(TourLeg), epoch : Int, at : TourStates]

\* The legs lead from x to y without a gap.
Chain(l, x, y) ==
  IF l = << >> THEN x = y
  ELSE /\ l[1].start = x /\ l[Len(l)].end = y
       /\ \A i \in 2..Len(l) : l[i].start = l[i - 1].end

\* No leg ends before it starts.
Proper(l) == \A i \in 1..Len(l) : l[i].start <= l[i].end

LEMMA ChainLeg ==
  ASSUME NEW kind, NEW x, NEW y
  PROVE  /\ Chain(<<Leg(kind, x, y)>>, x, y)
         /\ Proper(<<Leg(kind, x, y)>>) <=> x <= y
<1> DEFINE g == Leg(kind, x, y)
           l == <<g>>
<1>1. /\ l # << >> /\ Len(l) = 1 /\ l[1] = g
      /\ g.start = x /\ g.end = y
  BY DEF Leg
<1> HIDE DEF g, l
<1>2. 2..Len(l) = {} /\ 1..Len(l) = {1}
  BY <1>1
<1>3. Chain(l, x, y)
  BY <1>1, <1>2 DEF Chain
<1>4. Proper(l) <=> x <= y
  BY <1>1, <1>2 DEF Proper
<1> QED BY <1>3, <1>4 DEF g, l

LEMMA ChainTakingTime ==
  ASSUME NEW kind \in {"deadhead", "dwell", "rest", "loaded", "home"},
         NEW x \in Int, NEW y \in Int, x <= y
  PROVE  /\ TakingTime(kind, x, y) \in Seq(TourLeg)
         /\ Chain(TakingTime(kind, x, y), x, y) /\ Proper(TakingTime(kind, x, y))
<1>1. CASE y > x
  <2>1. Leg(kind, x, y) \in TourLeg
    BY DEF Leg, TourLeg
  <2>2. TakingTime(kind, x, y) = <<Leg(kind, x, y)>>
    BY <1>1 DEF TakingTime
  <2>3. <<Leg(kind, x, y)>> \in Seq(TourLeg)
    <3> DEFINE g == Leg(kind, x, y)
    <3> HIDE DEF g
    <3>1. g \in TourLeg
      BY <2>1 DEF g
    <3>2. <<g>> \in Seq(TourLeg)
      BY <3>1
    <3> QED BY <3>2 DEF g
  <2> QED BY <2>2, <2>3, ChainLeg
<1>2. CASE ~ (y > x)
  <2>1. TakingTime(kind, x, y) = << >> /\ x = y
    BY <1>2 DEF TakingTime
  <2>2. Chain(<< >>, x, y) /\ Proper(<< >>) /\ << >> \in Seq(TourLeg)
    BY <2>1 DEF Chain, Proper
  <2> QED BY <2>1, <2>2
<1> QED BY <1>1, <1>2

\* Legs behind legs.
LEMMA JoinFacts ==
  ASSUME NEW a \in Seq(TourLeg), NEW b \in Seq(TourLeg)
  PROVE  /\ Len(a) \in Nat /\ Len(b) \in Nat /\ Len(a \o b) = Len(a) + Len(b)
         /\ \A i \in 1..Len(a) : (a \o b)[i] = a[i]
         /\ \A i \in 1..Len(b) : (a \o b)[Len(a) + i] = b[i]
<1> DEFINE c == a \o b
<1>1. /\ Len(a) \in Nat /\ Len(b) \in Nat /\ Len(c) = Len(a) + Len(b)
      /\ \A i \in 1..Len(a) : c[i] = a[i]
      /\ \A i \in (Len(a) + 1)..(Len(a) + Len(b)) : c[i] = b[i - Len(a)]
  OBVIOUS
<1> HIDE DEF c
<1>2. ASSUME NEW i \in 1..Len(b) PROVE c[Len(a) + i] = b[i]
  <2>1. /\ Len(a) + i \in (Len(a) + 1)..(Len(a) + Len(b))
        /\ (Len(a) + i) - Len(a) = i
    BY <1>1
  <2> QED BY <1>1, <2>1
<1> QED BY <1>1, <1>2 DEF c

LEMMA ChainJoin ==
  ASSUME NEW a \in Seq(TourLeg), NEW b \in Seq(TourLeg), NEW x, NEW y, NEW z,
         Chain(a, x, y), Chain(b, y, z)
  PROVE  /\ a \o b \in Seq(TourLeg) /\ Chain(a \o b, x, z)
         /\ Proper(a \o b) <=> Proper(a) /\ Proper(b)
<1> DEFINE c == a \o b
           m == Len(a)
           n == Len(b)
<1>1. /\ c \in Seq(TourLeg) /\ m \in Nat /\ n \in Nat /\ Len(c) = m + n
      /\ \A i \in 1..m : c[i] = a[i]
      /\ \A i \in 1..n : c[m + i] = b[i]
      /\ a = << >> <=> m = 0
      /\ b = << >> <=> n = 0
      /\ c = << >> <=> Len(c) = 0
  <2>1. /\ m \in Nat /\ n \in Nat /\ Len(c) = m + n
        /\ \A i \in 1..m : c[i] = a[i]
        /\ \A i \in 1..n : c[m + i] = b[i]
    BY JoinFacts
  <2>2. \A s \in Seq(TourLeg) : s = << >> <=> Len(s) = 0
    BY EmptySeq
  <2>3. c \in Seq(TourLeg)
    OBVIOUS
  <2> QED BY <2>1, <2>2, <2>3
<1> HIDE DEF c, m, n
<1>2. /\ m # 0 => /\ a[1].start = x /\ a[m].end = y
                  /\ \A i \in 2..m : a[i].start = a[i - 1].end
      /\ m = 0 => x = y
  BY <1>1 DEF Chain, m
<1>3. /\ n # 0 => /\ b[1].start = y /\ b[n].end = z
                  /\ \A i \in 2..n : b[i].start = b[i - 1].end
      /\ n = 0 => y = z
  BY <1>1 DEF Chain, n
<1>4. Chain(c, x, z)
  <2>1. CASE m = 0 /\ n = 0
    BY <1>1, <1>2, <1>3, <2>1 DEF Chain
  <2>2. CASE m + n # 0
    <3>1. c[1].start = x
      <4>1. CASE m # 0
        <5>1. 1 \in 1..m
          BY <1>1, <4>1
        <5> QED BY <1>1, <1>2, <4>1, <5>1
      <4>2. CASE m = 0
        <5>1. 1 \in 1..n /\ m + 1 = 1 /\ n # 0
          BY <1>1, <2>2, <4>2
        <5>2. c[1] = b[1]
          BY <1>1, <5>1
        <5> QED BY <1>2, <1>3, <4>2, <5>1, <5>2
      <4> QED BY <4>1, <4>2
    <3>2. c[m + n].end = z
      <4>1. CASE n # 0
        <5>1. n \in 1..n
          BY <1>1, <4>1
        <5> QED BY <1>1, <1>3, <4>1, <5>1
      <4>2. CASE n = 0
        <5>1. m \in 1..m /\ m + n = m /\ m # 0
          BY <1>1, <2>2, <4>2
        <5>2. c[m] = a[m]
          BY <1>1, <5>1
        <5> QED BY <1>2, <1>3, <4>2, <5>1, <5>2
      <4> QED BY <4>1, <4>2
    <3>3. ASSUME NEW i \in 2..(m + n)
          PROVE  c[i].start = c[i - 1].end
      <4>1. CASE i <= m
        <5>1. i \in 1..m /\ i - 1 \in 1..m /\ i \in 2..m
          BY <1>1, <4>1
        <5>2. c[i] = a[i] /\ c[i - 1] = a[i - 1] /\ m # 0
          BY <1>1, <4>1, <5>1
        <5> QED BY <1>2, <5>1, <5>2
      <4>2. CASE i = m + 1
        <5>1. m \in 1..m /\ i - 1 = m /\ m # 0 /\ 1 \in 1..n /\ n # 0
          BY <1>1, <4>2
        <5>2. c[i] = b[1] /\ c[i - 1] = a[m]
          BY <1>1, <4>2, <5>1
        <5> QED BY <1>2, <1>3, <5>1, <5>2
      <4>3. CASE i > m + 1
        <5> DEFINE j == i - m
        <5>1. j \in 2..n /\ j \in 1..n /\ j - 1 \in 1..n /\ n # 0
          BY <1>1, <4>3
        <5>2. m + j = i /\ m + (j - 1) = i - 1
          BY <1>1
        <5>3. c[i] = b[j] /\ c[i - 1] = b[j - 1]
          BY <1>1, <5>1, <5>2
        <5> HIDE DEF j
        <5> QED BY <1>3, <5>1, <5>2, <5>3
      <4> QED BY <1>1, <4>1, <4>2, <4>3
    <3>4. c # << >>
      BY <1>1, <2>2
    <3> QED BY <1>1, <3>1, <3>2, <3>3, <3>4 DEF Chain
  <2> QED BY <1>1, <2>1, <2>2
<1>5. Proper(c) <=> Proper(a) /\ Proper(b)
  <2>1. ASSUME Proper(c) PROVE Proper(a) /\ Proper(b)
    <3>1. \A i \in 1..(m + n) : c[i].start <= c[i].end
      BY <1>1, <2>1 DEF Proper
    <3>2. \A i \in 1..m : i \in 1..(m + n)
      BY <1>1
    <3>3. \A i \in 1..n : m + i \in 1..(m + n)
      BY <1>1
    <3>4. \A i \in 1..m : a[i].start <= a[i].end
      BY <1>1, <3>1, <3>2
    <3>5. \A i \in 1..n : b[i].start <= b[i].end
      BY <1>1, <3>1, <3>3
    <3> QED BY <3>4, <3>5 DEF Proper, m, n
  <2>2. ASSUME Proper(a), Proper(b) PROVE Proper(c)
    <3>1. /\ \A i \in 1..m : a[i].start <= a[i].end
          /\ \A i \in 1..n : b[i].start <= b[i].end
      BY <2>2 DEF Proper, m, n
    <3>2. ASSUME NEW i \in 1..(m + n) PROVE c[i].start <= c[i].end
      <4>1. CASE i <= m
        <5>1. i \in 1..m
          BY <1>1, <4>1
        <5> QED BY <1>1, <3>1, <5>1
      <4>2. CASE i > m
        <5>1. i - m \in 1..n /\ m + (i - m) = i
          BY <1>1, <4>2
        <5>2. c[i] = b[i - m]
          BY <1>1, <5>1
        <5> QED BY <3>1, <5>1, <5>2
      <4> QED BY <1>1, <4>1, <4>2
    <3> QED BY <1>1, <3>2 DEF Proper
  <2> QED BY <2>1, <2>2
<1> QED BY <1>1, <1>4, <1>5 DEF c

-----------------------------------------------------------------------------
(* Tours: how far a tour is *)

Service(t) == t.loading + t.loaded + t.unloading

\* A trip waits for longer than it takes to load, haul and unload, and slips.
Waits(t) == t.dwell > Service(t.trip) + Slip(t)
Delayed(trips) == \E i \in 1..Len(trips) : Waits(trips[i])

\* The legs of a tour lead up to the epoch it has come to, which is that of the
\* clocks unless its first load is under evaluation, and one of them ends before
\* it starts exactly when a trip waits for too long.
TourInv ==
  /\ tour \in Tour
  /\ tour.at = "none" => tour.trips = << >> /\ tour.legs = << >>
  /\ tour.at \in {"evaluating", "chaining"} =>
       /\ \E x \in Int : Chain(tour.legs, x, tour.epoch)
       /\ Proper(tour.legs) <=> ~ Delayed(tour.trips)
  /\ tour.at = "chaining" =>
       /\ leg = "done" /\ tour.epoch = Now
       /\ tour.legs # << >> /\ tour.legs[Len(tour.legs)].kind = "loaded"
  /\ tour.at \in {"tour", "refused"} => leg = "done" /\ TourTimes

\* What ChainLoad appends to the trips of a tour.
Chained == [trip |-> trip, dwell |-> inserted.dwell, ahead |-> tour.epoch - Began(log, origin)]

LEMMA ChainedFacts ==
  ASSUME TypeOK, LegalSince, TripTypes, tour.epoch \in Int
  PROVE  /\ Chained \in TourTrip
         /\ Chained.trip = trip /\ Chained.dwell = inserted.dwell
         /\ Chained.ahead = tour.epoch - Began(log, origin)
<1>1. Began(log, origin) \in Nat /\ trip \in Trip /\ inserted.dwell \in Nat
  BY TripFacts, TimelineFacts DEF TripTypes
<1>2. tour.epoch - Began(log, origin) \in Int
  BY <1>1
<1> QED BY <1>1, <1>2 DEF Chained, TourTrip

LEMMA DeadheadLeg ==
  ASSUME NEW t \in Trip, NEW x \in Int, NEW y, y = x + LegDrive(t),
         NEW l, l = IF t.near THEN << >> ELSE <<Leg("deadhead", x, y)>>
  PROVE  /\ y \in Int /\ x <= y
         /\ l \in Seq(TourLeg) /\ Chain(l, x, y) /\ Proper(l)
<1>1. t.near \in BOOLEAN /\ t.planned \in Nat
  BY DEF Trip
<1>2. y \in Int /\ x <= y
  BY <1>1 DEF LegDrive
<1>3. CASE t.near
  <2>1. l = << >> /\ y = x
    BY <1>3 DEF LegDrive
  <2>2. Chain(<< >>, x, x) /\ Proper(<< >>) /\ << >> \in Seq(TourLeg)
    BY DEF Chain, Proper
  <2> QED BY <1>2, <2>1, <2>2
<1>4. CASE ~ t.near
  <2> DEFINE g == Leg("deadhead", x, y)
  <2>1. g \in TourLeg
    BY <1>2 DEF Leg, TourLeg
  <2>2. Chain(<<g>>, x, y) /\ Proper(<<g>>)
    BY <1>2, ChainLeg
  <2> HIDE DEF g
  <2>3. <<g>> \in Seq(TourLeg)
    BY <2>1
  <2>4. l = <<g>>
    BY <1>4 DEF g
  <2> QED BY <1>2, <2>2, <2>3, <2>4
<1> QED BY <1>3, <1>4

\* The legs of an evaluated trip take from the epoch of the tour to now, and its
\* haul has no time left for when the wait was too long.
LEMMA TripLegsChain ==
  ASSUME TypeOK, LegalSince, TripTypes, JourneyInv, leg = "done", tour.epoch \in Int
  PROVE  /\ TripLegs \in Seq(TourLeg) /\ Chain(TripLegs, tour.epoch, Now)
         /\ Proper(TripLegs) <=> ~ Waits(Chained)
         /\ TripLegs # << >> /\ TripLegs[Len(TripLegs)].kind = "loaded"
<1> DEFINE start == tour.epoch
           atPickup == start + LegDrive(trip)
           waited == atPickup + inserted.dwell
           rested == waited + inserted.rest
           a == IF trip.near THEN << >> ELSE <<Leg("deadhead", start, atPickup)>>
           b == TakingTime("dwell", atPickup, waited)
           c == TakingTime("rest", waited, rested)
           g == Leg("loaded", rested, Now)
           d == <<g>>
<1>1. TripLegs = ((a \o b) \o c) \o d
  BY DEF TripLegs
<1>2. /\ a \in Seq(TourLeg) /\ Chain(a, start, atPickup) /\ Proper(a)
      /\ atPickup \in Int /\ start <= atPickup
  BY TripFacts, DeadheadLeg DEF TripTypes
<1>3. /\ trip.deadhead \in Nat /\ trip.loading \in Nat /\ trip.loaded \in Nat
      /\ trip.unloading \in Nat /\ inserted.rest \in Nat /\ inserted.dwell \in Nat
      /\ Now \in Nat /\ Began(log, origin) \in Nat
  BY TripFacts, TimelineFacts DEF TripTypes
<1>4. Now = Began(log, origin) + (trip.deadhead + trip.loading + trip.loaded + trip.unloading
                                    + inserted.rest)
  BY JourneyAddsUp
<1>5. /\ waited \in Int /\ rested \in Int
      /\ atPickup <= waited /\ waited <= rested
      /\ rested <= Now <=> ~ Waits(Chained)
  <2>1. /\ Chained.trip = trip /\ Chained.dwell = inserted.dwell
        /\ Chained.ahead = start - Began(log, origin)
    BY ChainedFacts
  <2>2. Waits(Chained) <=>
          inserted.dwell > trip.loading + trip.loaded + trip.unloading
                             + (trip.deadhead - LegDrive(trip) - (start - Began(log, origin)))
    BY <2>1 DEF Waits, Slip, Service
  <2> DEFINE drive == LegDrive(trip)
  <2>3. /\ atPickup = start + drive /\ waited = atPickup + inserted.dwell
        /\ rested = waited + inserted.rest
    OBVIOUS
  <2>4. drive \in Int
    BY TripFacts DEF LegDrive, TripTypes, Trip
  <2>5. start \in Int
    OBVIOUS
  <2> HIDE DEF drive, atPickup, waited, rested, start
  <2>6. waited \in Int /\ rested \in Int /\ atPickup <= waited /\ waited <= rested
    BY <1>3, <2>3, <2>4, <2>5
  <2>7. Waits(Chained) <=>
          inserted.dwell > trip.loading + trip.loaded + trip.unloading
                             + (trip.deadhead - drive - (start - Began(log, origin)))
    BY <2>2 DEF drive, start
  <2> QED BY <1>3, <1>4, <2>3, <2>4, <2>5, <2>6, <2>7
<1> HIDE DEF a, start, atPickup, waited, rested
<1>6. /\ b \in Seq(TourLeg) /\ Chain(b, atPickup, waited) /\ Proper(b)
      /\ c \in Seq(TourLeg) /\ Chain(c, waited, rested) /\ Proper(c)
  BY <1>2, <1>5, ChainTakingTime
<1>7. g \in TourLeg /\ g.kind = "loaded"
  BY <1>3, <1>5 DEF Leg, TourLeg
<1>8. Chain(d, rested, Now) /\ (Proper(d) <=> rested <= Now)
  BY ChainLeg
<1> HIDE DEF b, c, g
<1>9. d \in Seq(TourLeg) /\ Len(d) = 1 /\ d[1] = g
  BY <1>7
<1> HIDE DEF d
<1> DEFINE ab == a \o b
           abc == ab \o c
           s == abc \o d
<1>10. ab \in Seq(TourLeg) /\ Chain(ab, start, waited) /\ Proper(ab)
  BY <1>2, <1>6, ChainJoin
<1> HIDE DEF ab
<1>11. abc \in Seq(TourLeg) /\ Chain(abc, start, rested) /\ Proper(abc)
  BY <1>6, <1>10, ChainJoin
<1> HIDE DEF abc
<1>12. s \in Seq(TourLeg) /\ Chain(s, start, Now) /\ (Proper(s) <=> rested <= Now)
  BY <1>8, <1>9, <1>11, ChainJoin
<1>13. s # << >> /\ s[Len(s)] = g
  <2>1. /\ Len(abc) \in Nat /\ Len(s) = Len(abc) + Len(d)
        /\ \A i \in 1..Len(d) : s[Len(abc) + i] = d[i]
    BY <1>9, <1>11, JoinFacts
  <2>2. s[Len(abc) + 1] = d[1]
    BY <1>9, <2>1
  <2> HIDE DEF s
  <2>3. s # << >>
    BY <1>9, <2>1
  <2> QED BY <1>9, <2>1, <2>2, <2>3
<1>14. TripLegs = s
  BY <1>1 DEF s, abc, ab
<1> HIDE DEF s
<1> QED BY <1>5, <1>7, <1>12, <1>13, <1>14 DEF start

\* A trip more that may wait for too long.
LEMMA DelayedAppend ==
  ASSUME NEW trips \in Seq(TourTrip), NEW t \in TourTrip
  PROVE  /\ Append(trips, t) \in Seq(TourTrip)
         /\ Delayed(Append(trips, t)) <=> Delayed(trips) \/ Waits(t)
<1> DEFINE s == Append(trips, t)
<1>1. /\ s \in Seq(TourTrip) /\ Len(trips) \in Nat /\ Len(s) = Len(trips) + 1
      /\ \A i \in 1..Len(trips) : s[i] = trips[i]
      /\ s[Len(trips) + 1] = t
  OBVIOUS
<1> HIDE DEF s
<1>2. \A i \in 1..Len(s) : i \in 1..Len(trips) \/ i = Len(trips) + 1
  BY <1>1
<1>3. Len(trips) + 1 \in 1..Len(s) /\ \A i \in 1..Len(trips) : i \in 1..Len(s)
  BY <1>1
<1>4. Delayed(s) <=> Delayed(trips) \/ Waits(t)
  BY <1>1, <1>2, <1>3 DEF Delayed
<1> QED BY <1>1, <1>4 DEF s

\* A load is chained.
LEMMA TourGrows ==
  ASSUME TypeOK, LegalSince, TripTypes, JourneyInv, TourInv, ChainLoad
  PROVE  TourInv'
<1> DEFINE trips == tour.trips
           legs == tour.legs
           moreTrips == Append(trips, Chained)
           moreLegs == legs \o TripLegs
<1>1. /\ tour.at = "evaluating" /\ leg = "done"
      /\ tour' = [trips |-> moreTrips, legs |-> moreLegs, epoch |-> Now, at |-> "chaining"]
      /\ Now' = Now /\ leg' = leg
  BY DEF ChainLoad, Evaluated, allVars, vars, tripVars, Now, Chained, Began
<1>2. /\ tour.epoch \in Int /\ legs \in Seq(TourLeg) /\ trips \in Seq(TourTrip)
      /\ Proper(legs) <=> ~ Delayed(trips)
  BY <1>1 DEF TourInv, Tour
<1>3. PICK x \in Int : Chain(legs, x, tour.epoch)
  BY <1>1 DEF TourInv
<1>4. /\ TripLegs \in Seq(TourLeg) /\ Chain(TripLegs, tour.epoch, Now)
      /\ Proper(TripLegs) <=> ~ Waits(Chained)
      /\ TripLegs # << >> /\ TripLegs[Len(TripLegs)].kind = "loaded"
  BY <1>1, <1>2, TripLegsChain
<1>5. Chained \in TourTrip /\ Now \in Int
  BY <1>2, ChainedFacts, TimelineFacts
<1>6. /\ tour'.trips = moreTrips /\ tour'.legs = moreLegs /\ tour'.at = "chaining"
      /\ tour'.epoch = Now
  BY <1>1
<1> HIDE DEF trips, legs
<1>7. /\ moreLegs \in Seq(TourLeg) /\ Chain(moreLegs, x, Now)
      /\ Proper(moreLegs) <=> Proper(legs) /\ Proper(TripLegs)
  BY <1>2, <1>3, <1>4, ChainJoin
<1>8. moreLegs # << >> /\ moreLegs[Len(moreLegs)].kind = "loaded"
  <2> DEFINE n == Len(TripLegs)
             k == Len(legs)
  <2>1. k \in Nat /\ n \in Nat \ {0} /\ Len(moreLegs) = k + n
    BY <1>2, <1>4, EmptySeq
  <2>2. moreLegs[k + n] = TripLegs[n]
    BY <1>2, <1>4, <2>1, JoinFacts
  <2>3. moreLegs # << >>
    BY <1>7, <2>1
  <2> QED BY <1>4, <2>1, <2>2, <2>3
<1>9. /\ moreTrips \in Seq(TourTrip)
      /\ Delayed(moreTrips) <=> Delayed(trips) \/ Waits(Chained)
  BY <1>2, <1>5, DelayedAppend
<1> HIDE DEF moreTrips, moreLegs
<1>10. Proper(moreLegs) <=> ~ Delayed(moreTrips)
  BY <1>2, <1>4, <1>7, <1>9
<1>11. tour' \in Tour
  BY <1>1, <1>5, <1>7, <1>9 DEF Tour, TourStates
<1> QED BY <1>1, <1>6, <1>7, <1>8, <1>10, <1>11 DEF TourInv

\* What NewDriverTour validates is what can go wrong with the legs of a tour.
LEMMA TourValidated ==
  ASSUME TypeOK, TourInv, NewDriverTour
  PROVE  TourInv'
<1> DEFINE last == tour.legs
<1>1. PICK h : /\ h = << >> \/ \E home \in HomeDrives : h = HomeLeg(home)
               /\ tour' = [tour EXCEPT !.legs = last \o h,
                                       !.at = IF Temporal(last \o h) THEN "tour" ELSE "refused"]
  <2>1. PICK legs \in {last} \cup {last \o HomeLeg(home) : home \in HomeDrives} :
          tour' = [tour EXCEPT !.legs = legs, !.at = IF Temporal(legs) THEN "tour" ELSE "refused"]
    BY DEF NewDriverTour
  <2>2. last \in Seq(TourLeg)
    BY DEF TourInv, Tour
  <2>3. last \o << >> = last
    <3> HIDE DEF last
    <3> QED BY <2>2
  <2>4. CASE legs = last
    BY <2>1, <2>3, <2>4
  <2>5. CASE legs # last
    BY <2>1, <2>5
  <2> QED BY <2>4, <2>5
<1> DEFINE legs == last \o h
<1>2. /\ tour.at = "chaining" /\ leg = "done" /\ leg' = leg /\ Now' = Now
      /\ last \in Seq(TourLeg) /\ last # << >> /\ last[Len(last)].kind = "loaded"
      /\ Proper(last) <=> ~ Delayed(tour.trips)
  BY DEF NewDriverTour, TourInv, Tour, allVars, vars, tripVars, Now
<1>3. PICK x \in Int : tour.epoch = Now /\ Chain(last, x, Now)
  BY <1>2 DEF TourInv
<1>4. /\ tour'.trips = tour.trips /\ tour'.legs = legs
      /\ tour'.at = IF Temporal(legs) THEN "tour" ELSE "refused"
  <2>1. tour' = [tour EXCEPT !.legs = legs, !.at = IF Temporal(legs) THEN "tour" ELSE "refused"]
    BY <1>1
  <2>2. tour \in Tour
    BY DEF TourInv, Tour
  <2> HIDE DEF legs
  <2> QED BY <2>1, <2>2 DEF Tour
<1>5. Now \in Int
  BY UptoNat DEF Now, TypeOK
<1>6. PICK z : h \in Seq(TourLeg) /\ Chain(h, Now, z) /\ Proper(h)
  <2>1. CASE h = << >>
    <3>1. << >> \in Seq(TourLeg) /\ Chain(<< >>, Now, Now) /\ Proper(<< >>)
      BY DEF Chain, Proper
    <3> QED BY <2>1, <3>1
  <2>2. ASSUME NEW home \in HomeDrives, h = HomeLeg(home)
        PROVE  h \in Seq(TourLeg) /\ Chain(h, Now, Now + home) /\ Proper(h)
    <3> DEFINE g == Leg("home", Now, Now + home)
    <3>1. Now + home \in Int /\ Now <= Now + home
      BY <1>5, ItineraryAssumption
    <3>2. g \in TourLeg /\ Chain(<<g>>, Now, Now + home) /\ Proper(<<g>>)
      BY <1>5, <3>1, ChainLeg DEF Leg, TourLeg
    <3>3. h = <<g>>
      BY <1>3, <2>2 DEF HomeLeg
    <3> HIDE DEF g
    <3>4. <<g>> \in Seq(TourLeg)
      BY <3>2
    <3> QED BY <3>2, <3>3, <3>4
  <2> QED BY <1>1, <2>1, <2>2
<1>7. \/ h = << >>
      \/ Len(h) = 1 /\ h[1].kind = "home"
  BY <1>1 DEF HomeLeg, Leg
<1> HIDE DEF last
<1>8. /\ legs \in Seq(TourLeg) /\ Chain(legs, x, z)
      /\ Proper(legs) <=> Proper(last)
  BY <1>2, <1>3, <1>6, ChainJoin
<1>9. /\ Len(last) \in Nat /\ Len(last) # 0
      /\ last[Len(last)].end = Now
  BY <1>2, <1>3, EmptySeq DEF Chain
<1>10. /\ h = << >> => Len(legs) = Len(last) /\ legs[Len(last)] = last[Len(last)]
       /\ h # << >> => /\ Len(legs) = Len(last) + 1
                       /\ legs[Len(last)] = last[Len(last)]
                       /\ legs[Len(last) + 1].kind = "home"
  <2>1. /\ Len(legs) = Len(last) + Len(h)
        /\ \A i \in 1..Len(last) : legs[i] = last[i]
        /\ \A i \in 1..Len(h) : legs[Len(last) + i] = h[i]
    BY <1>2, <1>6, JoinFacts
  <2>2. h = << >> => Len(h) = 0
    OBVIOUS
  <2> QED BY <1>7, <1>9, <2>1, <2>2
<1> HIDE DEF legs
<1>11. \A i \in 2..Len(legs) : legs[i].start = legs[i - 1].end
  BY <1>8, <1>9, <1>10 DEF Chain
<1>12. Temporal(legs) <=> Proper(legs)
  <2>1. ASSUME NEW i \in 2..Len(legs)
        PROVE  legs[i - 1].end <= legs[i].start
    <3>1. i \in 1..Len(legs) /\ Len(legs) \in Nat
      BY <1>8
    <3>2. legs[i] \in TourLeg
      BY <1>8, <3>1
    <3>3. legs[i].start \in Int
      BY <3>2 DEF TourLeg
    <3> QED BY <1>11, <3>3
  <2> QED BY <2>1 DEF Temporal, Proper
<1>13. TourTimes'
  <2> DEFINE n == Len(legs)
             haul == IF legs[n].kind = "home" THEN n - 1 ELSE n
  <2>1. legs[haul] = last[Len(last)]
    BY <1>2, <1>7, <1>9, <1>10
  <2>2. legs[haul].kind = "loaded" /\ legs[haul].end = Now
    BY <1>2, <1>9, <2>1
  <2>3. Temporal(legs) <=> ~ Delayed(tour.trips)
    BY <1>2, <1>8, <1>12
  <2>4. (tour'.at = "refused") =
          \E i \in 1..Len(tour.trips) :
            tour.trips[i].dwell > tour.trips[i].trip.loading + tour.trips[i].trip.loaded
                                    + tour.trips[i].trip.unloading + Slip(tour.trips[i])
    BY <1>4, <2>3 DEF Delayed, Waits, Service
  <2> HIDE DEF haul
  <2> QED BY <1>2, <1>4, <1>11, <2>2, <2>4 DEF TourTimes, haul
<1>14. /\ tour'.at \in {"tour", "refused"}
       /\ tour' \in Tour
  <2>1. tour' = [tour EXCEPT !.legs = legs, !.at = IF Temporal(legs) THEN "tour" ELSE "refused"]
    BY <1>1 DEF legs, last
  <2>2. tour \in Tour
    BY DEF TourInv
  <2> QED BY <1>4, <1>8, <2>1, <2>2 DEF Tour, TourStates
<1> QED BY <1>2, <1>13, <1>14 DEF TourInv

-----------------------------------------------------------------------------
(* Itineraries *)

PlanInv == TripTypes /\ JourneyInv /\ TourInv /\ RelayInv
ItineraryInv == LogInv /\ PlanInv

\* Whatever a plan asks of the simulator is a call or a step of one.
LEMMA LegIsStep ==
  ASSUME TypeOK, NEW next, NEW kind \in {"drive", "duty", "hold"}, NEW n \in Nat,
         BeginLeg(next, kind, n)
  PROVE  AnyStep
<1> DEFINE e == [kind |-> kind, n |-> n, sleeper |-> FALSE]
           events == <<e>>
<1>1. StartCall(events, TRUE) /\ calls' = calls
  BY DEF BeginLeg
<1>2. events \in Seq(Event)
  <2>1. e \in Event
    BY DEF Event
  <2> HIDE DEF e
  <2> QED BY <2>1
<1>3. calls' \in 0..MaxCalls
  BY <1>1 DEF TypeOK
<1> HIDE DEF events
<1> QED BY <1>1, <1>2, <1>3 DEF AnyStep, AnyCall

LEMMA JourneyIsStep ==
  ASSUME TypeOK, LegalSince, TripTypes, Journey
  PROVE  [AnyStep]_vars
<1>1. /\ trip.loading \in Nat /\ trip.loaded \in Nat /\ trip.unloading \in Nat
      /\ trip.pickup.earliest \in Nat /\ trip.delivery.earliest \in Nat
      /\ Now \in Nat
  BY TripFacts, TimelineFacts
<1>2. CASE leg \in Legs /\ Work
  BY <1>2 DEF AnyStep, Proceed
<1>3. CASE FinishLeg
  BY <1>3 DEF FinishLeg, AnyStep, Proceed
<1>4. ASSUME NEW next, NEW window, window.earliest \in Nat, Early(window), Dwell(next, window)
      PROVE  AnyStep
  <2>1. window.earliest - Now \in Nat
    BY <1>1, <1>4 DEF Early
  <2>2. BeginLeg(next, "hold", window.earliest - Now)
    BY <1>4 DEF Dwell
  <2> QED BY <2>1, <2>2, LegIsStep
<1>5. CASE Load \/ Unload \/ BeginLeg("linehaul", "drive", trip.loaded)
  BY <1>1, <1>5, LegIsStep DEF Load, Unload
<1>6. CASE ArriveAtPickup \/ PickupOpens
  BY <1>1, <1>4, <1>5, <1>6 DEF ArriveAtPickup, PickupOpens
<1>7. CASE Depart
  BY <1>5, <1>7 DEF Depart
<1>8. CASE ArriveAtDelivery \/ DeliveryOpens
  BY <1>1, <1>4, <1>5, <1>8 DEF ArriveAtDelivery, DeliveryOpens
<1>9. CASE Judge
  BY <1>9 DEF Judge
<1> QED BY <1>2, <1>3, <1>6, <1>7, <1>8, <1>9 DEF Journey

LEMMA EvaluationIsStep ==
  ASSUME TypeOK, NEW t \in Trips, EvaluateTrip(t)
  PROVE  AnyStep
<1>1. t.deadhead \in Nat
  BY TripAssumption DEF Trip
<1>2. BeginLeg("deadhead", "drive", t.deadhead)
  BY DEF EvaluateTrip
<1> QED BY <1>1, <1>2, LegIsStep

LEMMA SegmentIsStep ==
  ASSUME TypeOK, NEW events \in Seq(Event), NEW end, NEW wait, NEW ahead,
         BeginSegment(events, end, wait, ahead)
  PROVE  AnyStep
<1>1. StartCall(events, FALSE) /\ calls' = calls
  BY DEF BeginSegment
<1>2. calls' \in 0..MaxCalls
  BY <1>1 DEF TypeOK
<1> QED BY <1>1, <1>2 DEF AnyStep, AnyCall

\* Of a relay, both segments begin alike.
LEMMA SegmentBegins ==
  ASSUME TypeOK, LegalSince, InboundSegment \/ OutboundSegment
  PROVE  /\ RelayInv' /\ AnyStep
         /\ Returned("none") /\ tour.at = "none" /\ leg' = "relay"
         /\ UNCHANGED <<log, trip, origin, inserted, tour>>
<1>1. ASSUME NEW events \in Seq(Event),
             NEW end \in Int, NEW wait \in Int, NEW ahead \in Int,
             Now + Upto(events) = end - wait - ahead, BeginSegment(events, end, wait, ahead)
      PROVE  /\ RelayInv' /\ AnyStep
             /\ Returned("none") /\ tour.at = "none" /\ leg' = "relay"
             /\ UNCHANGED <<log, trip, origin, inserted, tour>>
  <2>1. RelayInv' /\ AnyStep
    BY <1>1, RelayBegins, SegmentIsStep
  <2> QED BY <1>1, <2>1 DEF BeginSegment, StartCall
<1>2. Now \in Nat /\ Availability \subseteq Int
  BY TimelineFacts, ItineraryAssumption
<1>3. CASE InboundSegment
  <2>1. PICK r \in Relays, ahead \in Availability : \E e \in {Epochs(r, Now + ahead, r.startOut)} :
          Possible(r, e) /\ BeginSegment(EventsIn(r), e.inboundEnd, e.pickupWait, ahead)
    BY <1>3 DEF InboundSegment
  <2> DEFINE e == Epochs(r, Now + ahead, r.startOut)
  <2>2. BeginSegment(EventsIn(r), e.inboundEnd, e.pickupWait, ahead)
    BY <2>1
  <2>3. /\ EventsIn(r) \in Seq(Event)
        /\ e.inboundEnd \in Int /\ e.pickupWait \in Int /\ ahead \in Int
        /\ Now + ahead + Upto(EventsIn(r)) = e.inboundEnd - e.pickupWait
    BY <1>2, InboundTakes
  <2> HIDE DEF e
  <2>4. Upto(EventsIn(r)) \in Nat
    BY <2>3, EventsNat
  <2>5. Now + Upto(EventsIn(r)) = e.inboundEnd - e.pickupWait - ahead
    BY <1>2, <2>3, <2>4
  <2> QED BY <1>1, <2>2, <2>3, <2>5
<1>4. CASE OutboundSegment
  <2>1. PICK r \in Relays, ahead \in Availability : \E e \in {Epochs(r, r.startIn, Now + ahead)} :
          Possible(r, e) /\ BeginSegment(EventsOut(r, e.hubWait), e.outboundEnd, 0, ahead)
    BY <1>4 DEF OutboundSegment
  <2> DEFINE e == Epochs(r, r.startIn, Now + ahead)
  <2>2. BeginSegment(EventsOut(r, e.hubWait), e.outboundEnd, 0, ahead)
    BY <2>1
  <2>3. /\ EventsOut(r, e.hubWait) \in Seq(Event)
        /\ e.outboundEnd \in Int /\ 0 \in Int /\ ahead \in Int
        /\ Now + ahead + Upto(EventsOut(r, e.hubWait)) = e.outboundEnd - 0
    BY <1>2, OutboundTakes
  <2> HIDE DEF e
  <2>4. Upto(EventsOut(r, e.hubWait)) \in Nat
    BY <2>3, EventsNat
  <2>5. Now + Upto(EventsOut(r, e.hubWait)) = e.outboundEnd - 0 - ahead
    BY <1>2, <2>3, <2>4
  <2> QED BY <1>1, <2>2, <2>3, <2>5
<1> QED BY <1>3, <1>4

\* The log before a trip stays what it was.
LEMMA LogStays ==
  ASSUME TypeOK, LegalSince, TripTypes, [AnyStep]_vars, origin' = origin
  PROVE  origin' \in 0..Len(log') /\ Began(log', origin') = Began(log, origin)
<1>1. log' = log \/ log' = timeline
  BY DEF AnyStep, AnyCall, StartCall, Proceed, Work, Drive, Duty, Rest, Hold,
         InsertRequiredReset, NextEvent, Spend, Violation, Return, vars, callVars
<1>2. /\ origin \in 0..Len(log) /\ 0..Len(log) \subseteq 0..Len(timeline)
      /\ Began(timeline, origin) = Began(log, origin)
  BY TimelineFacts DEF TripTypes
<1> QED BY <1>1, <1>2

\* The legs of a tour stay while its trip is evaluated.
LEMMA TourStays ==
  ASSUME TourInv, tour' = tour, leg # "done"
  PROVE  TourInv'
<1>1. tour.at \notin {"chaining", "tour", "refused"}
  BY DEF TourInv
<1> QED BY <1>1 DEF TourInv

\* The evaluation of a first load begins an empty tour, and that of a
\* continuation where the legs of the tour end.
LEMMA TourEvaluates ==
  ASSUME TypeOK, TourInv, NEW epoch \in Int,
         \/ tour.at = "none"
         \/ tour.at = "chaining" /\ epoch = tour.epoch,
         tour' = [tour EXCEPT !.at = "evaluating", !.epoch = epoch]
  PROVE  TourInv'
<1>1. /\ tour' \in Tour /\ tour'.at = "evaluating" /\ tour'.epoch = epoch
      /\ tour'.trips = tour.trips /\ tour'.legs = tour.legs
  <2>1. tour \in Tour
    BY DEF TourInv
  <2> QED BY <2>1 DEF Tour, TourStates
<1>2. /\ \E x \in Int : Chain(tour.legs, x, epoch)
      /\ Proper(tour.legs) <=> ~ Delayed(tour.trips)
  <2>1. CASE tour.at = "none"
    <3>1. tour.trips = << >> /\ tour.legs = << >>
      BY <2>1 DEF TourInv
    <3>2. Chain(<< >>, epoch, epoch) /\ Proper(<< >>) /\ ~ Delayed(<< >>)
      BY DEF Chain, Proper, Delayed
    <3> QED BY <3>1, <3>2
  <2>2. CASE tour.at = "chaining"
    BY <2>2 DEF TourInv
  <2> QED BY <2>1, <2>2
<1>3. /\ \E x \in Int : Chain(tour'.legs, x, tour'.epoch)
      /\ Proper(tour'.legs) <=> ~ Delayed(tour'.trips)
  BY <1>1, <1>2
<1> QED BY <1>1, <1>3 DEF TourInv

\* Every step of a plan is one of the simulator, and its times stay those of
\* the clocks.
LEMMA PlanStep ==
  ASSUME TypeOK, LegalSince, PlanInv, [ItineraryNext]_itineraryVars
  PROVE  PlanInv' /\ [AnyStep]_vars
<1>1. TripTypes /\ JourneyInv /\ TourInv /\ RelayInv
  BY DEF PlanInv
<1>2. CASE History /\ UNCHANGED planVars
  <2>1. leg = "none" /\ leg' = "none" /\ UNCHANGED <<trip, origin, inserted, tour>>
    BY <1>2 DEF History, tripVars, planVars
  <2>2. [AnyStep]_vars
    BY <1>2, NextIsStep DEF History
  <2>3. TripTypes'
    BY <1>1, <2>1, <2>2, LogStays DEF TripTypes
  <2>4. TourInv'
    BY <1>1, <2>1, TourStays
  <2>5. JourneyInv' /\ RelayInv'
    BY <2>1 DEF JourneyInv, RelayInv, Legs
  <2> QED BY <2>2, <2>3, <2>4, <2>5 DEF PlanInv
<1>3. CASE Journey /\ UNCHANGED planVars
  <2>1. /\ leg \in Legs /\ leg' \in Legs \cup {"done"}
        /\ UNCHANGED <<origin, tour>>
    BY <1>3 DEF Journey, FinishLeg, ArriveAtPickup, PickupOpens, Depart, ArriveAtDelivery,
                DeliveryOpens, Judge, Returned, Dwell, Load, Unload, BeginLeg, Legs,
                tripVars, planVars
  <2>2. [AnyStep]_vars
    BY <1>1, <1>3, JourneyIsStep
  <2>3. JourneyInv' /\ TripTypes'
    BY <1>1, <1>3, JourneyStep
  <2>4. TourInv'
    BY <1>1, <2>1, TourStays DEF Legs
  <2>5. RelayInv'
    BY <2>1 DEF RelayInv, Legs
  <2> QED BY <2>2, <2>3, <2>4, <2>5 DEF PlanInv
<1>4. CASE StartTour \/ Continue
  <2>1. PICK t \in Trips : EvaluateTrip(t)
    BY <1>4 DEF StartTour, Evaluate, Continue
  <2>2. \E epoch \in Int :
          /\ tour.at = "none" \/ (tour.at = "chaining" /\ epoch = tour.epoch)
          /\ tour' = [tour EXCEPT !.at = "evaluating", !.epoch = epoch]
    <3>1. tour \in Tour /\ Now \in Nat
      BY <1>1, TimelineFacts DEF TourInv
    <3>2. CASE StartTour
      <4>1. PICK ahead \in Availability :
              tour' = [tour EXCEPT !.at = "evaluating", !.epoch = Now + ahead]
        BY <3>2 DEF StartTour
      <4>2. Now + ahead \in Int
        BY <3>1, ItineraryAssumption
      <4> QED BY <3>2, <4>1, <4>2 DEF StartTour
    <3>3. CASE Continue
      <4>1. tour.at = "chaining" /\ tour' = [tour EXCEPT !.at = "evaluating"]
        BY <3>3 DEF Continue
      <4>2. /\ tour.epoch \in Int
            /\ tour' = [tour EXCEPT !.at = "evaluating", !.epoch = tour.epoch]
        BY <3>1, <4>1 DEF Tour
      <4> QED BY <4>1, <4>2
    <3> QED BY <1>4, <3>2, <3>3
  <2>3. JourneyInv' /\ TripTypes' /\ TourInv' /\ AnyStep
    BY <1>1, <2>1, <2>2, JourneyBegins, TourEvaluates, EvaluationIsStep
  <2>4. leg' = "deadhead"
    BY <2>1 DEF EvaluateTrip, BeginLeg
  <2> QED BY <2>3, <2>4 DEF PlanInv, RelayInv
<1>5. ASSUME UNCHANGED allVars
      PROVE  /\ TripTypes' /\ JourneyInv' /\ leg' = leg /\ [AnyStep]_vars
             /\ leg # "relay" => RelayInv'
  <2>1. /\ UNCHANGED <<trip, leg, origin, inserted, log, timeline, todo, running, auto>>
        /\ UNCHANGED vars
    BY <1>5 DEF allVars, vars, callVars, tripVars
  <2>2. Now' = Now /\ Left' = Left
    BY <2>1 DEF Now, Left
  <2>3. TripTypes'
    BY <1>1, <2>1 DEF TripTypes
  <2>4. JourneyInv'
    <3>1. Loaded' = Loaded
      BY <2>1, <2>2 DEF Loaded
    <3>2. /\ CallTimes' <=> CallTimes
          /\ TripTimes' <=> TripTimes
          /\ WindowsOpen' <=> WindowsOpen
          /\ ServedInTime' <=> ServedInTime
      BY <2>1, <2>2, <3>1 DEF CallTimes, TripTimes, WindowsOpen, ServedInTime
    <3> QED BY <1>1, <2>1, <3>2 DEF JourneyInv
  <2> QED BY <2>1, <2>3, <2>4 DEF RelayInv
<1>6. CASE ChainLoad
  <2>1. UNCHANGED allVars /\ leg = "done"
    BY <1>6 DEF ChainLoad, Evaluated
  <2>2. TourInv'
    BY <1>1, <1>6, TourGrows
  <2> QED BY <1>5, <2>1, <2>2 DEF PlanInv
<1>7. CASE PassOver \/ CancelTour
  <2>1. UNCHANGED allVars /\ leg = "done"
    BY <1>1, <1>7 DEF PassOver, Evaluated, CancelTour, TourInv
  <2>2. /\ tour' \in Tour
        /\ tour'.at \in {"infeasible", "passed over", "cancelled"}
    <3>1. tour \in Tour
      BY <1>1 DEF TourInv
    <3> QED BY <1>7, <3>1 DEF PassOver, CancelTour, Tour, TourStates
  <2>3. TourInv'
    BY <2>2 DEF TourInv
  <2> QED BY <1>5, <2>1, <2>3 DEF PlanInv
<1>8. CASE NewDriverTour
  <2>1. UNCHANGED allVars /\ leg = "done"
    BY <1>1, <1>8 DEF NewDriverTour, TourInv
  <2>2. TourInv'
    BY <1>1, <1>8, TourValidated
  <2> QED BY <1>5, <2>1, <2>2 DEF PlanInv
<1>9. CASE InboundSegment \/ OutboundSegment
  <2>1. /\ RelayInv' /\ AnyStep
        /\ leg = "none" /\ leg' = "relay"
        /\ UNCHANGED <<log, trip, origin, inserted, tour>>
    BY <1>9, SegmentBegins DEF Returned
  <2>2. TripTypes' /\ JourneyInv'
    BY <1>1, <2>1 DEF TripTypes, JourneyInv, Legs
  <2>3. TourInv'
    BY <1>1, <2>1, TourStays
  <2> QED BY <2>1, <2>2, <2>3 DEF PlanInv
<1>10. CASE SimulateSegment
  <2>1. /\ leg = "relay" /\ leg' = "relay" /\ Proceed
        /\ UNCHANGED <<trip, origin, inserted, tour, relay>>
    BY <1>10 DEF SimulateSegment, tripVars, planVars
  <2>2. AnyStep
    BY <2>1 DEF AnyStep
  <2>3. RelayInv'
    BY <1>1, <2>1, RelayKept
  <2>4. TripTypes'
    BY <1>1, <2>1, <2>2, LogStays DEF TripTypes
  <2>5. TourInv'
    BY <1>1, <2>1, TourStays
  <2>6. JourneyInv'
    BY <2>1 DEF JourneyInv, Legs
  <2> QED BY <2>2, <2>3, <2>4, <2>5, <2>6 DEF PlanInv
<1>11. CASE UNCHANGED itineraryVars
  <2>1. UNCHANGED allVars /\ tour' = tour /\ relay' = relay
    BY <1>11 DEF itineraryVars, planVars
  <2>2. UNCHANGED <<leg, log, origin, running, auto, timeline, todo>>
    BY <2>1 DEF allVars, vars, callVars, tripVars
  <2>3. Now' = Now
    BY <2>2 DEF Now
  <2>4. TourInv'
    BY <1>1, <2>1, <2>2, <2>3 DEF TourInv, TourTimes
  <2>5. RelayInv'
    BY <1>1, <2>1, <2>2 DEF RelayInv
  <2> QED BY <1>5, <2>1, <2>4, <2>5 DEF PlanInv
<1> QED
  BY <1>2, <1>3, <1>4, <1>6, <1>7, <1>8, <1>9, <1>10, <1>11 DEF ItineraryNext

LEMMA ItineraryBegins ==
  ASSUME ItineraryInit
  PROVE  ItineraryInv
<1>1. Init /\ trip = NoTrip /\ leg = "none" /\ origin = 0
  BY DEF ItineraryInit, TripInit
<1>2. LogInv
  BY <1>1, InitLog
<1>3. TripTypes
  <2>1. inserted = [rest |-> 0, dwell |-> 0]
    BY DEF ItineraryInit, TripInit
  <2>2. NoTrip \in Trip
    BY DEF NoTrip, Trip, Window
  <2>3. origin \in 0..Len(log)
    BY <1>1, <1>2 DEF LogInv, TypeOK
  <2> QED BY <1>1, <2>1, <2>2, <2>3 DEF TripTypes
<1>4. TourInv
  <2>1. tour = [trips |-> << >>, legs |-> << >>, epoch |-> 0, at |-> "none"]
    BY DEF ItineraryInit
  <2>2. << >> \in Seq(TourTrip) /\ << >> \in Seq(TourLeg)
    OBVIOUS
  <2>3. /\ tour \in Tour
        /\ tour.at = "none" /\ tour.trips = << >> /\ tour.legs = << >>
    BY <2>1, <2>2 DEF Tour, TourStates
  <2> QED BY <2>3 DEF TourInv
<1> QED BY <1>1, <1>2, <1>3, <1>4 DEF ItineraryInv, PlanInv, JourneyInv, RelayInv, Legs

LEMMA ItineraryGoesOn ==
  ASSUME ItineraryInv, [ItineraryNext]_itineraryVars
  PROVE  ItineraryInv' /\ [AnyStep]_vars
<1>1. LogInv /\ TypeOK /\ LegalSince /\ PlanInv
  BY DEF ItineraryInv, LogInv
<1>2. PlanInv' /\ [AnyStep]_vars
  BY <1>1, PlanStep
<1>3. LogInv'
  BY <1>1, <1>2, StepLog
<1> QED BY <1>2, <1>3 DEF ItineraryInv

\* The epochs of every trip, tour and relay tell the time of the clocks that
\* prove it legal, up to what PlanTimes says of starts, waits and minutes rounded
\* down, whatever the drivers did before and whatever rests fall into the plan.
THEOREM PlansTellTheTime == ItinerarySpec => []PlanTimes
<1>1. ItineraryInit => ItineraryInv
  BY ItineraryBegins
<1>2. ItineraryInv /\ [ItineraryNext]_itineraryVars => ItineraryInv'
  BY ItineraryGoesOn
<1>3. ItineraryInv => PlanTimes
  <2> SUFFICES ASSUME ItineraryInv PROVE PlanTimes
    OBVIOUS
  <2>1. TypeOK /\ LegalSince /\ TripTypes /\ JourneyInv /\ TourInv /\ RelayInv
    BY DEF ItineraryInv, LogInv, PlanInv
  <2>2. TripAddsUp
    BY <2>1, JourneyAddsUp DEF TripAddsUp
  <2>3. TourTimes
    BY <2>1 DEF TourInv, TourTimes
  <2>4. RelayTimes
    BY <2>1, RelayEnds
  <2> QED BY <2>2, <2>3, <2>4 DEF PlanTimes
<1> QED BY <1>1, <1>2, <1>3, PTL DEF ItinerarySpec

\* Planning keeps every driver's clocks natural numbers and coupled, whatever
\* calls it makes.
THEOREM PlanningKeepsCoupling == ItinerarySpec => [](TypeOK /\ ClocksCoupled)
<1>1. ItineraryInit => ItineraryInv
  BY ItineraryBegins
<1>2. ItineraryInv /\ [ItineraryNext]_itineraryVars => ItineraryInv'
  BY ItineraryGoesOn
<1>3. ItineraryInv => TypeOK /\ ClocksCoupled
  BY DEF ItineraryInv, LogInv
<1> QED BY <1>1, <1>2, <1>3, PTL DEF ItinerarySpec

\* The clocks a plan is proved legal by say what the rules say of the whole log
\* it would leave.
THEOREM PlanningMatchesLog == ItinerarySpec => []ClocksMatchLog
<1>1. ItineraryInit => ItineraryInv
  BY ItineraryBegins
<1>2. ItineraryInv /\ [ItineraryNext]_itineraryVars => ItineraryInv'
  BY ItineraryGoesOn
<1>3. ItineraryInv => ClocksMatchLog
  BY DEF ItineraryInv, LogInv, MirrorInv, Mirrors, ClocksMatchLog, Faithful
<1> QED BY <1>1, <1>2, <1>3, PTL DEF ItinerarySpec

\* No leg of a plan loses or repeats a minute of its work.
THEOREM PlanningLosesNoWork == ItinerarySpec => []WorkConserved
<1>1. ItineraryInit => ItineraryInv /\ WorkConserved
  BY ItineraryBegins DEF ItineraryInit, TripInit, Init, WorkConserved
<1>2. ItineraryInv /\ WorkConserved /\ [ItineraryNext]_itineraryVars
        => (ItineraryInv /\ WorkConserved)'
  <2> SUFFICES ASSUME ItineraryInv, WorkConserved, [ItineraryNext]_itineraryVars
               PROVE  ItineraryInv' /\ WorkConserved'
    OBVIOUS
  <2>1. ItineraryInv' /\ [AnyStep]_vars /\ LogInv
    BY ItineraryGoesOn DEF ItineraryInv
  <2> QED BY <2>1, StepConserves
<1> QED BY <1>1, <1>2, PTL DEF ItinerarySpec

\* What planning appends to a driver's log is legal, period after period: trips,
\* tours and relays implement the log of DutyLog.
THEOREM PlanningImplementsLog == ItinerarySpec => ImplementsLog
<1>1. ItineraryInit => ItineraryInv
  BY ItineraryBegins
<1>2. ItineraryInv /\ [ItineraryNext]_itineraryVars => ItineraryInv'
  BY ItineraryGoesOn
<1>3. ItineraryInit => Rules!LogInit
  <2> SUFFICES ASSUME ItineraryInit PROVE Rules!LogInit
    OBVIOUS
  <2>1. Init
    BY DEF ItineraryInit, TripInit
  <2>2. Validate(specs) /\ log = << >>
    BY <2>1, SimulatorAssumption DEF Init
  <2> QED BY <2>2, SameOperators DEF Rules!LogInit
<1>4. ItineraryInv /\ [ItineraryNext]_itineraryVars => [Rules!Extend]_<<log, specs>>
  BY ItineraryGoesOn, StepExtends DEF ItineraryInv
<1> QED BY <1>1, <1>2, <1>3, <1>4, PTL DEF ItinerarySpec, ImplementsLog, Rules!LogSpec

=============================================================================
