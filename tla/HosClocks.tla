----------------------------- MODULE HosClocks -----------------------------
(***************************************************************************)
(* The Hours of Service clocks of a driver: PolicySpecs and DriverClocks   *)
(* of internal/domain/model/hos.  A clocks value is immutable, each        *)
(* operation returns the next one.  Times are minutes, or any other unit.  *)
(*                                                                         *)
(* Left out: the wall clock and the duty status, which no rule reads; the  *)
(* minutes per day, which are written and never read; the adverse          *)
(* conditions extension, which nothing sets.                               *)
(***************************************************************************)
EXTENDS Integers

\* Rest durations, then the limits they reset, then the two parts of a split.
PolicySpecs == [rest : Nat, daily : Nat, weekly : Nat,
                maxHygiene : Nat, maxDriving : Nat, maxShift : Nat, maxCycle : Nat,
                splitBreak : Nat, splitSleeper : Nat]

Validate(s) ==
  /\ s.rest > 0 /\ s.daily > 0 /\ s.weekly > 0
  /\ s.maxHygiene > 0 /\ s.maxDriving > 0 /\ s.maxShift > 0 /\ s.maxCycle > 0
  /\ s.maxDriving <= s.maxShift

\* split is the minutes of the pending split period, 0 when there is none.
DriverClocks == [hygiene : Nat, driving : Nat, shift : Nat, cycle : Nat,
                 offDuty : Nat, driven : Nat, split : Nat, inSleeper : BOOLEAN]

NewDriverClocks(s) ==
  [hygiene |-> s.maxHygiene, driving |-> s.maxDriving, shift |-> s.maxShift,
   cycle |-> s.maxCycle, offDuty |-> s.daily, driven |-> 0,
   split |-> 0, inSleeper |-> FALSE]

Least(m, n) == IF m <= n THEN m ELSE n

\* Mutant: the shift window does not limit driving.
MaxDriveOffShift(c) == Least(Least(c.hygiene, c.driving), c.cycle)

MaxImmediateDrive(c) == Least(Least(c.hygiene, c.driving), Least(c.shift, c.cycle))
MaxImmediateDuty(c) == Least(c.shift, c.cycle)

-----------------------------------------------------------------------------
\* Callers stay within MaxImmediateDrive, which ApplyDrive checks once more.
ApplyDrive(c, n) ==
  [c EXCEPT !.offDuty = 0, !.driven = @ + n, !.hygiene = @ - n,
            !.driving = @ - n, !.shift = @ - n, !.cycle = @ - n]

ApplyOnDutyNotDriving(c, n) ==
  [c EXCEPT !.offDuty = 0, !.shift = @ - n, !.cycle = @ - n]

\* Mutant: the count of minutes driven survives the break.
BreakUncounted(c, s) == [c EXCEPT !.hygiene = s.maxHygiene]

\* What each kind of rest restores.
TakeBreak(c, s) == [c EXCEPT !.hygiene = s.maxHygiene, !.driven = 0]
ResetShift(c, s) ==
  [TakeBreak(c, s) EXCEPT !.driving = s.maxDriving, !.shift = s.maxShift]

Anchor(c, n, sleeper) == [c EXCEPT !.split = n, !.inSleeper = sleeper]

\* A rest of n minutes may be one part of a sleeper berth split.
LongSleeper(n, sleeper, s) == sleeper /\ n >= s.splitSleeper
SplitPart(n, sleeper, s) == LongSleeper(n, sleeper, s) \/ n >= s.splitBreak

\* It completes a split with the pending part.
CompletesSplit(c, n, sleeper, s) ==
  /\ c.split > 0
  /\ LongSleeper(c.split, c.inSleeper, s) \/ LongSleeper(n, sleeper, s)
  /\ c.split >= s.splitBreak /\ n >= s.splitBreak
  /\ c.split + n >= s.daily

\* Mutant: a daily reset keeps the pending split part.
OffDutyKeepingSplit(c, n, sleeper, s) ==
  LET r == [c EXCEPT !.offDuty = @ + n]
  IN IF r.offDuty >= s.weekly
       THEN [ResetShift(Anchor(r, 0, FALSE), s) EXCEPT !.cycle = s.maxCycle]
     ELSE IF r.offDuty >= s.daily
       THEN ResetShift(r, s)
     ELSE IF SplitPart(n, sleeper, s)
       THEN Anchor(IF CompletesSplit(c, n, sleeper, s)
                     THEN ResetShift(r, s) ELSE TakeBreak(r, s), n, sleeper)
     ELSE [(IF n >= s.rest THEN TakeBreak(r, s) ELSE r)
             EXCEPT !.shift = IF @ > n THEN @ - n ELSE 0]

\* Weekly restart, daily reset, split part, short rest, in this order; the
\* first two count the unbroken streak, the others this period alone.
ApplyOffDuty(c, n, sleeper, s) ==
  LET r == [c EXCEPT !.offDuty = @ + n]
  IN IF r.offDuty >= s.weekly
       THEN [ResetShift(Anchor(r, 0, FALSE), s) EXCEPT !.cycle = s.maxCycle]
     ELSE IF r.offDuty >= s.daily
       THEN ResetShift(Anchor(r, 0, FALSE), s)
     ELSE IF SplitPart(n, sleeper, s)
       THEN Anchor(IF CompletesSplit(c, n, sleeper, s)
                     THEN ResetShift(r, s) ELSE TakeBreak(r, s), n, sleeper)
     ELSE [(IF n >= s.rest THEN TakeBreak(r, s) ELSE r)
             EXCEPT !.shift = IF @ > n THEN @ - n ELSE 0]

\* insertRequiredReset: which rest it takes when a limit has been reached.
RequiredReset(c, s) ==
  IF c.cycle = 0 THEN [n |-> s.weekly, sleeper |-> FALSE]
  ELSE IF c.driving = 0 \/ c.shift = 0 THEN [n |-> s.daily, sleeper |-> TRUE]
  ELSE IF c.hygiene = 0 THEN [n |-> s.rest, sleeper |-> FALSE]
  ELSE [n |-> s.daily, sleeper |-> TRUE]
=============================================================================
