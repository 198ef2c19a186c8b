------------------------------ MODULE DutyLog ------------------------------
(***************************************************************************)
(* The rules the comments of internal/domain/model/hos/clocks.go and       *)
(* policy.go give, stated over a driver's whole duty log instead of by     *)
(* running clocks.  A log is a sequence of periods of driving, other work  *)
(* and rest.  Its owner starts rested: a daily reset precedes the log.     *)
(***************************************************************************)
EXTENDS HosClocks, Sequences, FiniteSetsExt

Period == [kind : {"drive", "duty", "rest"}, n : Nat, sleeper : BOOLEAN]

Upto(log) == 1..Len(log)
Minutes(log, I) == MapThenSumSet(LAMBDA i : log[i].n, I)
After(log, kinds, k) == {i \in Upto(log) : i > k /\ log[i].kind \in kinds}
LastOf(I) == Max(I \cup {0})

-----------------------------------------------------------------------------
Resting(log, i) == log[i].kind = "rest"

\* The unbroken rest that ends with period i.
Streak(log, i, s) ==
  LET work == LastOf({j \in 1..i : ~ Resting(log, j)})
  IN Minutes(log, (work + 1)..i) + IF work = 0 THEN s.daily ELSE 0

Restart(log, i, s) == Resting(log, i) /\ Streak(log, i, s) >= s.weekly
FullReset(log, i, s) ==
  Resting(log, i) /\ Streak(log, i, s) >= Least(s.daily, s.weekly)

\* A rest that pauses the shift and may be one part of a split.
Part(log, i, s) ==
  /\ Resting(log, i) /\ ~ FullReset(log, i, s)
  /\ SplitPart(log[i].n, log[i].sleeper, s)

\* The two parts of a split: one long, in the sleeper berth, the other at
\* least a short break, and together as long as a daily reset.
SplitPair(log, i, j, s) ==
  LET long(k) == log[k].sleeper /\ log[k].n >= s.splitSleeper
      short(k) == log[k].n >= s.splitBreak
  IN ((long(i) /\ short(j)) \/ (short(i) /\ long(j))) /\ log[i].n + log[j].n >= s.daily

\* Part i is the second of a split with the part before it, if no full reset
\* came between them.
SplitReset(log, i, s) ==
  LET before == LastOf({j \in 1..(i-1) : Part(log, j, s)})
      reset == LastOf({j \in 1..(i-1) : FullReset(log, j, s)})
  IN Part(log, i, s) /\ before > reset /\ SplitPair(log, before, i, s)

\* The last period that restored the shift, the last break from driving, and
\* the last restart of the cycle.
ShiftStart(log, s) ==
  LastOf({i \in Upto(log) : FullReset(log, i, s) \/ SplitReset(log, i, s)})
LastBreak(log, s) ==
  LastOf({i \in Upto(log) : Resting(log, i)
            /\ (FullReset(log, i, s) \/ Part(log, i, s) \/ log[i].n >= s.rest)})
CycleStart(log, s) == LastOf({i \in Upto(log) : Restart(log, i, s)})

-----------------------------------------------------------------------------
\* What is left of each limit.  All time counts against the shift but the
\* rests that may be part of a split.
HygieneLeft(log, s) == s.maxHygiene - Minutes(log, After(log, {"drive"}, LastBreak(log, s)))
DrivingLeft(log, s) == s.maxDriving - Minutes(log, After(log, {"drive"}, ShiftStart(log, s)))
CycleLeft(log, s) == s.maxCycle - Minutes(log, After(log, {"drive", "duty"}, CycleStart(log, s)))
ShiftLeft(log, s) ==
  LET counted == {i \in After(log, {"drive", "duty", "rest"}, ShiftStart(log, s)) :
                    ~ Part(log, i, s)}
      left == s.maxShift - Minutes(log, counted)
  IN IF left > 0 THEN left ELSE 0

\* Period p may follow the log.
Legal(log, p, s) ==
  /\ p.kind # "rest" => p.n <= ShiftLeft(log, s) /\ p.n <= CycleLeft(log, s)
  /\ p.kind = "drive" => p.n <= DrivingLeft(log, s) /\ p.n <= HygieneLeft(log, s)

-----------------------------------------------------------------------------
\* The abstract machine: a log under one policy, to which legal periods are
\* added, any number at a time.
VARIABLES log, specs

LogInit == log = << >> /\ Validate(specs)

Extend ==
  /\ SubSeq(log', 1, Len(log)) = log
  /\ \A i \in (Len(log) + 1)..Len(log') : Legal(SubSeq(log', 1, i - 1), log'[i], specs)
  /\ specs' = specs

LogSpec == LogInit /\ [][Extend]_<<log, specs>>
=============================================================================
