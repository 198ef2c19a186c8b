-------------------------- MODULE TournamentProofs --------------------------
(***************************************************************************)
(* Proofs about Tournament and the episodes it plays.                      *)
(***************************************************************************)
EXTENDS Tournament, FiniteSetTheorems, SequenceTheorems, NaturalsInduction,
        WellFoundedInduction, TLAPS

-----------------------------------------------------------------------------
(* Numbers and sequences *)

LEMMA LeastOf ==
  ASSUME NEW T \in SUBSET Nat, T # {}
  PROVE  \E k \in T : \A i \in T : k <= i
<1> DEFINE R == OpToRel(<, Nat)
<1>1. IsWellFoundedOn(R, Nat)
  BY NatLessThanWellFounded
<1>2. \A x, y \in Nat : <<x, y>> \in R <=> x < y
  BY DEF OpToRel
<1> HIDE DEF R
<1>3. PICK k \in T : \A i \in T : ~ (<<i, k>> \in R)
  BY <1>1, WFMin
<1>4. ASSUME NEW i \in T PROVE k <= i
  <2>1. i \in Nat /\ k \in Nat
    OBVIOUS
  <2>2. ~ (i < k)
    BY <1>2, <1>3, <2>1, Zenon
  <2> QED BY <2>1, <2>2
<1> QED BY <1>4

\* A set that has 0 and with each number up to n the next one.
LEMMA UpTo ==
  ASSUME NEW n \in Nat, NEW T, 0 \in T, \A k \in 1..n : k - 1 \in T => k \in T
  PROVE  \A k \in 0..n : k \in T
<1> DEFINE missing == {k \in 0..n : k \notin T}
<1> SUFFICES ASSUME missing # {} PROVE FALSE
  OBVIOUS
<1>1. PICK k \in missing : \A i \in missing : k <= i
  <2>1. missing \in SUBSET Nat
    OBVIOUS
  <2> HIDE DEF missing
  <2> QED BY <2>1, LeastOf
<1>2. k \in 1..n /\ k - 1 \in 0..n /\ ~ (k <= k - 1)
  BY <1>1
<1>3. k - 1 \in T
  BY <1>1, <1>2
<1> QED BY <1>1, <1>2, <1>3

\* The sequence of the first numbers of a function, one longer.
LEMMA OneLonger ==
  ASSUME NEW g, NEW n \in Nat
  PROVE  Append([i \in 1..n |-> g[i]], g[n + 1]) = [i \in 1..(n + 1) |-> g[i]]
<1> DEFINE s == [i \in 1..n |-> g[i]]
           t == [i \in 1..(n + 1) |-> g[i]]
           S == {g[i] : i \in 1..(n + 1)}
<1>1. /\ s \in Seq(S) /\ Len(s) = n /\ \A i \in 1..n : s[i] = g[i]
      /\ t \in Seq(S) /\ Len(t) = n + 1 /\ \A i \in 1..(n + 1) : t[i] = g[i]
      /\ g[n + 1] \in S
  OBVIOUS
<1> HIDE DEF s, t, S
<1>2. /\ Append(s, g[n + 1]) \in Seq(S) /\ Len(Append(s, g[n + 1])) = n + 1
      /\ \A i \in 1..n : Append(s, g[n + 1])[i] = s[i]
      /\ Append(s, g[n + 1])[n + 1] = g[n + 1]
  BY <1>1
<1>3. \A i \in 1..(n + 1) : Append(s, g[n + 1])[i] = t[i]
  BY <1>1, <1>2
<1>4. Append(s, g[n + 1]) = t
  BY <1>1, <1>2, <1>3, SeqEqual
<1> QED BY <1>4 DEF s, t

-----------------------------------------------------------------------------
(* The course of an episode: what an arm does is determined by its seed. *)

Advance(s, seed) == Settle(s, Decide(s), StepMarket(s, Decide(s), seed), seed)

\* The course of the first n steps.
Follows(g, n, name, seed) ==
  g = [k \in 0..n |-> IF k = 0 THEN StartEpisode(name, seed) ELSE Advance(g[k-1], seed)]

Course(name, seed) == CHOOSE g : Follows(g, Steps, name, seed)

LEMMA CourseExists ==
  ASSUME NEW name, NEW seed, NEW n \in Nat
  PROVE  \E g : Follows(g, n, name, seed)
<1> DEFINE T == {k \in Nat : \E g : Follows(g, k, name, seed)}
<1>1. 0 \in T
  <2>1. Follows([i \in 0..0 |-> StartEpisode(name, seed)], 0, name, seed)
    <3>1. \A i \in 0..0 : i = 0
      OBVIOUS
    <3> QED BY <3>1 DEF Follows
  <2> QED BY <2>1
<1>2. ASSUME NEW k \in 1..n, k - 1 \in T PROVE k \in T
  <2>1. k - 1 \in Nat /\ k \in Nat
    OBVIOUS
  <2>2. PICK g : Follows(g, k - 1, name, seed)
    BY <1>2
  <2> DEFINE step(f, i) == IF i = 0 THEN StartEpisode(name, seed) ELSE Advance(f[i-1], seed)
             h == [i \in 0..k |-> step(g, i)]
  <2>3. \A i \in 0..(k - 1) : g[i] = step(g, i)
    BY <2>2 DEF Follows
  <2>4. \A i \in 0..k : i # 0 => i - 1 \in 0..(k - 1) /\ i - 1 \in 0..k
    BY <2>1
  <2>5. \A i \in 0..k : h[i] = step(g, i)
    OBVIOUS
  <2>6. \A i \in 0..(k - 1) : h[i] = g[i]
    <3> HIDE DEF h, step
    <3>1. \A i \in 0..(k - 1) : i \in 0..k
      BY <2>1
    <3> QED BY <2>3, <2>5, <3>1
  <2>7. \A i \in 0..k : step(g, i) = step(h, i)
    <3> HIDE DEF h
    <3> QED BY <2>4, <2>6
  <2>8. h = [i \in 0..k |-> step(h, i)]
    <3> HIDE DEF step
    <3>1. h = [i \in 0..k |-> step(g, i)]
      BY DEF h
    <3> HIDE DEF h
    <3> QED BY <2>7, <3>1, Zenon
  <2>9. Follows(h, k, name, seed)
    <3> HIDE DEF h
    <3> QED BY <2>8 DEF Follows
  <2> QED BY <2>1, <2>9
<1> HIDE DEF T
<1>3. \A k \in 0..n : k \in T
  BY <1>1, <1>2, UpTo
<1> QED BY <1>3 DEF T

LEMMA CourseSteps ==
  ASSUME NEW name, NEW seed
  PROVE  /\ Course(name, seed)[0] = StartEpisode(name, seed)
         /\ \A k \in 1..Steps : Course(name, seed)[k] = Advance(Course(name, seed)[k-1], seed)
<1> DEFINE c == Course(name, seed)
<1>1. Steps \in Nat
  BY EpisodeAssumption
<1>2. Follows(c, Steps, name, seed)
  <2>1. \E g : Follows(g, Steps, name, seed)
    BY <1>1, CourseExists
  <2> QED BY <2>1, Zenon DEF Course
<1> HIDE DEF c
<1>3. c[0] = StartEpisode(name, seed)
  BY <1>1, <1>2 DEF Follows
<1>4. ASSUME NEW k \in 1..Steps PROVE c[k] = Advance(c[k-1], seed)
  <2>1. k \in 0..Steps /\ k # 0
    BY <1>1
  <2> QED BY <1>2, <2>1 DEF Follows
<1> QED BY <1>3, <1>4 DEF c

-----------------------------------------------------------------------------
(* A step of an episode *)

Fields == {"arm", "step", "posture", "pos", "drawn", "belief", "loads", "clocks",
           "revenue", "cost", "won", "lost", "log"}

Incoming(s, seed) == GenerateStochasticLoads(seed.arrivals, s.drawn, s.step + 1)

\* What a step leaves in the log.
Entry(s, seed) ==
  LET action == Decide(s)
      market == StepMarket(s, action, seed)
  IN  [offered |-> s.loads, action |-> action, posture |-> market.posture,
       won |-> market.won, lost |-> market.lost, feedback |-> market.feedback,
       belief |-> s.belief, incoming |-> Incoming(s, seed)]

LEMMA Started ==
  ASSUME NEW name, NEW seed
  PROVE  LET s == StartEpisode(name, seed) IN
           /\ DOMAIN s = Fields
           /\ s.arm = name /\ s.step = 0 /\ s.posture = InitialPosture /\ s.pos = 0
           /\ s.drawn = LoadsPerEpoch
           /\ s.loads = GenerateStochasticLoads(seed.arrivals, 0, 0)
           /\ s.revenue = 0 /\ s.cost = 0 /\ s.won = {} /\ s.log = << >>
BY DEF StartEpisode, Fields

LEMMA Settled ==
  ASSUME NEW s, DOMAIN s = Fields, NEW action, NEW market, NEW seed
  PROVE  LET r == Settle(s, action, market, seed) IN
           /\ DOMAIN r = Fields
           /\ r.arm = s.arm /\ r.step = s.step + 1
           /\ r.posture = market.posture /\ r.pos = market.pos
           /\ r.drawn = s.drawn + LoadsPerEpoch
           /\ r.loads = (s.loads \ market.won) \cup Incoming(s, seed)
           /\ r.won = s.won \cup market.won
           /\ r.log = Append(s.log, [offered |-> s.loads, action |-> action,
                posture |-> market.posture, won |-> market.won, lost |-> market.lost,
                feedback |-> market.feedback, belief |-> s.belief,
                incoming |-> Incoming(s, seed)])
BY DEF Settle, Fields, Incoming, NextDraw, Drive

\* r is one step after s.
After(r, s, seed) ==
  /\ DOMAIN r = Fields
  /\ r.arm = s.arm /\ r.step = s.step + 1
  /\ r.drawn = s.drawn + LoadsPerEpoch
  /\ r.loads \subseteq s.loads \cup Incoming(s, seed)
  /\ r.log = Append(s.log, Entry(s, seed))
  /\ r.posture = NextPosture(s.posture, seed.market[s.pos + 1])
  /\ r.pos = s.pos + 1 + Cardinality(s.loads)
  /\ Entry(s, seed).posture = NextPosture(s.posture, seed.market[s.pos + 1])
  /\ Entry(s, seed).offered = s.loads
  /\ Entry(s, seed).incoming = Incoming(s, seed)

LEMMA Advanced ==
  ASSUME NEW s, DOMAIN s = Fields, NEW seed
  PROVE  After(Advance(s, seed), s, seed)
<1> DEFINE action == Decide(s)
           market == StepMarket(s, action, seed)
<1>1. /\ market.posture = NextPosture(s.posture, seed.market[s.pos + 1])
      /\ market.pos = s.pos + 1 + Cardinality(s.loads)
  BY DEF StepMarket, MarketStep
<1>2. /\ Entry(s, seed) = [offered |-> s.loads, action |-> action,
                posture |-> market.posture, won |-> market.won, lost |-> market.lost,
                feedback |-> market.feedback, belief |-> s.belief,
                incoming |-> Incoming(s, seed)]
      /\ Advance(s, seed) = Settle(s, action, market, seed)
  BY DEF Entry, Advance
<1> HIDE DEF action, market
<1> QED BY <1>1, <1>2, Settled DEF After

\* What the first k steps leave in the log.
Story(name, seed, k) == [i \in 1..k |-> Entry(Course(name, seed)[i-1], seed)]

\* Where an episode is after k steps and what its log says of them.
LEMMA CourseFacts ==
  ASSUME NEW name, NEW seed
  PROVE  \A k \in 0..Steps :
           /\ DOMAIN Course(name, seed)[k] = Fields
           /\ Course(name, seed)[k].arm = name /\ Course(name, seed)[k].step = k
           /\ Course(name, seed)[k].log = Story(name, seed, k)
<1> DEFINE c == Course(name, seed)
<1> DEFINE Fine(k) == /\ DOMAIN c[k] = Fields /\ c[k].arm = name /\ c[k].step = k
                      /\ c[k].log = [i \in 1..k |-> Entry(c[i-1], seed)]
           T == {k \in 0..Steps : Fine(k)}
<1>0. Steps \in Nat
  BY EpisodeAssumption
<1>1. 0 \in T
  <2>1. c[0] = StartEpisode(name, seed)
    BY CourseSteps
  <2>2. [i \in 1..0 |-> Entry(c[i-1], seed)] = << >>
    OBVIOUS
  <2>3. /\ DOMAIN c[0] = Fields /\ c[0].arm = name /\ c[0].step = 0
        /\ c[0].log = << >>
    BY <2>1, Started
  <2>4. Fine(0)
    BY <2>2, <2>3
  <2> QED BY <1>0, <2>4
<1>2. ASSUME NEW k \in 1..Steps, k - 1 \in T PROVE k \in T
  <2>1. c[k] = Advance(c[k-1], seed)
    BY CourseSteps
  <2>2. Fine(k - 1) /\ k - 1 \in Nat /\ (k - 1) + 1 = k
    BY <1>0, <1>2
  <2>3. /\ DOMAIN c[k] = Fields /\ c[k].arm = name /\ c[k].step = k
        /\ c[k].log = Append(c[k-1].log, Entry(c[k-1], seed))
    <3>1. After(c[k], c[k-1], seed)
      BY <2>1, <2>2, Advanced
    <3> QED BY <2>2, <3>1 DEF After
  <2> DEFINE g == [i \in 1..k |-> Entry(c[i-1], seed)]
  <2>4. /\ g[k] = Entry(c[k-1], seed)
        /\ [i \in 1..(k - 1) |-> Entry(c[i-1], seed)] = [i \in 1..(k - 1) |-> g[i]]
        /\ [i \in 1..k |-> g[i]] = g
    BY <1>0
  <2>5. Append([i \in 1..(k - 1) |-> g[i]], g[k]) = [i \in 1..k |-> g[i]]
    <3> HIDE DEF g
    <3> QED BY <2>2, OneLonger
  <2>6. c[k].log = g
    BY <2>2, <2>3, <2>4, <2>5
  <2> QED BY <1>0, <2>3, <2>6
<1> HIDE DEF T
<1>3. \A k \in 0..Steps : k \in T
  BY <1>0, <1>1, <1>2, UpTo
<1> QED BY <1>3 DEF T, Story

LEMMA CourseFields ==
  ASSUME NEW name, NEW seed, NEW k \in 0..Steps
  PROVE  /\ DOMAIN Course(name, seed)[k] = Fields
         /\ Course(name, seed)[k].arm = name /\ Course(name, seed)[k].step = k
BY CourseFacts

\* An entry of the log is made at its step and stays.
LEMMA LogFacts ==
  ASSUME NEW name, NEW seed, NEW k \in 0..Steps
  PROVE  /\ DOMAIN Course(name, seed)[k].log = 1..k
         /\ \A i \in 1..k :
              /\ i - 1 \in 0..Steps
              /\ Course(name, seed)[k].log[i] = Entry(Course(name, seed)[i-1], seed)
<1>1. Course(name, seed)[k].log = [i \in 1..k |-> Entry(Course(name, seed)[i-1], seed)]
  BY CourseFacts DEF Story
<1>2. k \in Nat /\ k <= Steps /\ Steps \in Nat
  BY EpisodeAssumption
<1> QED BY <1>1, <1>2

\* Two arms of an episode.
Pair(x, y, seed, a, b) == a = Course(x, seed) /\ b = Course(y, seed)

\* The arms of an episode share the generators of its seed.
LEMMA SameDraws ==
  ASSUME NEW x, NEW y, NEW seed, NEW a, NEW b, Pair(x, y, seed, a, b)
  PROVE  \A k \in 0..Steps : a[k].drawn = b[k].drawn
<1>c. a = Course(x, seed) /\ b = Course(y, seed)
  BY DEF Pair
<1>f. \A k \in 0..Steps : DOMAIN a[k] = Fields /\ DOMAIN b[k] = Fields
  <2>1. \A k \in 0..Steps : DOMAIN Course(x, seed)[k] = Fields
    BY CourseFields
  <2>2. \A k \in 0..Steps : DOMAIN Course(y, seed)[k] = Fields
    BY CourseFields
  <2> QED BY <1>c, <2>1, <2>2
<1> DEFINE T == {k \in 0..Steps : a[k].drawn = b[k].drawn}
<1>0. Steps \in Nat
  BY EpisodeAssumption
<1>1. 0 \in T
  <2>0. a[0] = StartEpisode(x, seed) /\ b[0] = StartEpisode(y, seed)
    BY <1>c, CourseSteps
  <2>1. a[0].drawn = b[0].drawn
    BY <2>0, Started
  <2> QED BY <1>0, <2>1
<1>2. ASSUME NEW k \in 1..Steps, k - 1 \in T PROVE k \in T
  <2>1. a[k] = Advance(a[k-1], seed) /\ b[k] = Advance(b[k-1], seed)
    BY <1>c, CourseSteps
  <2>2. k - 1 \in 0..Steps /\ k \in 0..Steps
    BY <1>0
  <2>3. DOMAIN a[k-1] = Fields /\ DOMAIN b[k-1] = Fields
    BY <1>f, <2>2
  <2>4. After(a[k], a[k-1], seed) /\ After(b[k], b[k-1], seed)
    BY <2>1, <2>3, Advanced
  <2>5. a[k].drawn = b[k].drawn
    BY <1>2, <2>4 DEF After
  <2> QED BY <2>2, <2>5
<1> HIDE DEF T
<1>3. \A k \in 0..Steps : k \in T
  BY <1>0, <1>1, <1>2, UpTo
<1> QED BY <1>3 DEF T

\* As long as equally many loads were on offer, so were the draws of the market.
LEMMA SameMarket ==
  ASSUME NEW x, NEW y, NEW seed, NEW a, NEW b, Pair(x, y, seed, a, b),
         NEW n \in 0..Steps,
         \A k \in 1..n : Cardinality(a[k-1].loads) = Cardinality(b[k-1].loads)
  PROVE  a[n].posture = b[n].posture /\ a[n].pos = b[n].pos
<1>c. a = Course(x, seed) /\ b = Course(y, seed)
  BY DEF Pair
<1>f. \A k \in 0..Steps : DOMAIN a[k] = Fields /\ DOMAIN b[k] = Fields
  <2>1. \A k \in 0..Steps : DOMAIN Course(x, seed)[k] = Fields
    BY CourseFields
  <2>2. \A k \in 0..Steps : DOMAIN Course(y, seed)[k] = Fields
    BY CourseFields
  <2> QED BY <1>c, <2>1, <2>2
<1> DEFINE T == {k \in 0..n : a[k].posture = b[k].posture /\ a[k].pos = b[k].pos}
<1>0. Steps \in Nat /\ n \in Nat /\ n <= Steps
  BY EpisodeAssumption
<1>1. 0 \in T
  <2>0. a[0] = StartEpisode(x, seed) /\ b[0] = StartEpisode(y, seed)
    BY <1>c, CourseSteps
  <2>1. a[0].posture = b[0].posture /\ a[0].pos = b[0].pos
    BY <2>0, Started
  <2> QED BY <1>0, <2>1
<1>2. ASSUME NEW k \in 1..n, k - 1 \in T PROVE k \in T
  <2>0. k \in 1..Steps /\ k - 1 \in 0..Steps /\ k \in 0..n
    BY <1>0
  <2>1. a[k] = Advance(a[k-1], seed) /\ b[k] = Advance(b[k-1], seed)
    BY <1>c, <2>0, CourseSteps
  <2>2. DOMAIN a[k-1] = Fields /\ DOMAIN b[k-1] = Fields
    BY <1>f, <2>0
  <2>3. Cardinality(a[k-1].loads) = Cardinality(b[k-1].loads)
    OBVIOUS
  <2>4. After(a[k], a[k-1], seed) /\ After(b[k], b[k-1], seed)
    BY <2>1, <2>2, Advanced
  <2>5. a[k].posture = b[k].posture /\ a[k].pos = b[k].pos
    BY <1>2, <2>3, <2>4 DEF After
  <2> QED BY <2>0, <2>5
<1> HIDE DEF T
<1>3. \A k \in 0..n : k \in T
  BY <1>0, <1>1, <1>2, UpTo
<1>4. n \in T
  BY <1>0, <1>3
<1> QED BY <1>4 DEF T

-----------------------------------------------------------------------------
(* What the goroutines hold *)

Final(name, seed) == Course(name, seed)[Steps]

ArmNames == {"N0", "N0Informed", "N1Blind", "N1", "PFA", "CFA", "VFA", "DLA"}
Draws == UNION {{s[e] : e \in Eps} : s \in SeedTables}
Sim == {NotStarted} \cup {Course(c[1], c[2])[c[3]] : c \in ArmNames \X Draws \X (0..Steps)}

Goroutine == [pc : PC, ep : 0..Episodes, todo : Seq(ArmNames), sim : Sim, played : Seq(Sim)]
Result == [ep : Eps, ok : {FALSE}] \cup [ep : Eps, ok : {TRUE}, played : Seq(Sim)]

\* Every arm was played to its end on a seed.
AllPlayed(p, arms, seed) ==
  /\ Len(p) = Len(arms)
  /\ \A i \in 1..Len(arms) : p[i] = Final(arms[i], seed)

\* Somewhere in an episode: the first arms were played, the next one may be
\* under way and the others are to do.
ThreadOK(th, arms, table0) ==
  /\ th.pc \in {"play", "played"} =>
       /\ th.ep \in Eps
       /\ Len(th.played) + Len(th.todo) = Len(arms)
       /\ \A i \in 1..Len(th.todo) : th.todo[i] = arms[Len(th.played) + i]
       /\ \A i \in 1..Len(th.played) : th.played[i] = Final(arms[i], table0[th.ep])
       /\ th.pc = "played" <=> Len(th.todo) = 0
  /\ th.sim # NotStarted =>
       /\ th.pc = "play"
       /\ \E k \in 0..Steps : th.sim = Course(Head(th.todo), table0[th.ep])[k]

LEMMA Episode0 ==
  /\ Steps \in Nat /\ Steps > 0 /\ 0 \in 0..Steps /\ Steps \in 0..Steps
  /\ Episodes \in Nat /\ Episodes >= 2 /\ 1 \in Eps /\ Episodes \in Eps
BY EpisodeAssumption, TournamentAssumption DEF Eps

LEMMA InDraws ==
  ASSUME NEW sds \in SeedTables, NEW e \in Eps
  PROVE  sds[e] \in Draws
BY DEF Draws

LEMMA CourseIsSim ==
  ASSUME NEW name \in ArmNames, NEW seed \in Draws, NEW k \in 0..Steps
  PROVE  Course(name, seed)[k] \in Sim /\ Course(name, seed)[k] # NotStarted
<1>1. Course(name, seed)[k] \in Sim
  <2>1. <<name, seed, k>> \in ArmNames \X Draws \X (0..Steps)
    OBVIOUS
  <2> QED BY <2>1 DEF Sim
<1>2. DOMAIN Course(name, seed)[k] # DOMAIN NotStarted
  <2>1. DOMAIN Course(name, seed)[k] = Fields
    BY CourseFields
  <2>2. "arm" \in Fields /\ DOMAIN NotStarted = {}
    BY DEF Fields, NotStarted
  <2> QED BY <2>1, <2>2
<1> QED BY <1>1, <1>2

LEMMA ArmsAreNamed ==
  ASSUME NEW m \in Modes
  PROVE  /\ ArmsOf[m] \in Seq(ArmNames) /\ Len(ArmsOf[m]) > 0
         /\ m = "run" => Len(ArmsOf[m]) = 2
<1>1. CASE m = "run"
  BY <1>1 DEF ArmsOf, ArmNames
<1>2. CASE m = "tripartite"
  BY <1>2 DEF ArmsOf, ArmNames
<1>3. CASE m = "factorial"
  BY <1>3 DEF ArmsOf, ArmNames
<1>4. CASE m = "fourway"
  BY <1>4 DEF ArmsOf, ArmNames
<1> QED BY <1>1, <1>2, <1>3, <1>4 DEF Modes

\* A goroutine that plays no episode.
LEMMA IdleOK ==
  ASSUME NEW label \in PC \ {"play", "played"}, NEW arms, NEW sds
  PROVE  Idle(label) \in Goroutine /\ ThreadOK(Idle(label), arms, sds)
<1>1. 0 \in 0..Episodes
  BY Episode0
<1>2. << >> \in Seq(ArmNames) /\ << >> \in Seq(Sim) /\ NotStarted \in Sim
  BY DEF Sim
<1> QED BY <1>1, <1>2 DEF Idle, Goroutine, ThreadOK, NotPlayed

Beginning(e, arms) ==
  [pc |-> "play", ep |-> e, todo |-> arms, sim |-> NotStarted, played |-> NotPlayed]

LEMMA BeginOK ==
  ASSUME NEW e \in Eps, NEW arms \in Seq(ArmNames), Len(arms) > 0, NEW sds
  PROVE  Beginning(e, arms) \in Goroutine /\ ThreadOK(Beginning(e, arms), arms, sds)
<1>1. e \in 0..Episodes
  BY Episode0 DEF Eps
<1>2. << >> \in Seq(Sim) /\ NotStarted \in Sim /\ Len(<< >>) = 0
  BY DEF Sim
<1>3. Beginning(e, arms) \in Goroutine
  BY <1>1, <1>2 DEF Beginning, Goroutine, NotPlayed, PC
<1>4. Len(arms) \in Nat /\ \A i \in 1..Len(arms) : 0 + i = i
  OBVIOUS
<1>5. ThreadOK(Beginning(e, arms), arms, sds)
  BY <1>2, <1>4 DEF Beginning, ThreadOK, NotPlayed
<1> QED BY <1>3, <1>5

\* What a goroutine holds, and of which arms and seeds.
Holds(th, arms, sds) ==
  /\ sds \in SeedTables /\ arms \in Seq(ArmNames)
  /\ th \in Goroutine /\ ThreadOK(th, arms, sds)

LEMMA StartOK ==
  ASSUME NEW th, NEW arms, NEW sds, Holds(th, arms, sds),
         th.pc = "play", th.sim = NotStarted
  PROVE  Holds([th EXCEPT !.sim = StartEpisode(Head(th.todo), sds[th.ep])], arms, sds)
<1> DEFINE name == Head(th.todo)
           seed == sds[th.ep]
           n == [th EXCEPT !.sim = StartEpisode(name, seed)]
<1>1. th.todo \in Seq(ArmNames) /\ th.todo # << >> /\ th.ep \in Eps
  BY DEF Holds, ThreadOK, Goroutine
<1>2. name \in ArmNames /\ seed \in Draws
  BY <1>1, InDraws DEF Holds
<1>3. StartEpisode(name, seed) = Course(name, seed)[0]
  BY CourseSteps
<1>4. StartEpisode(name, seed) \in Sim
  BY <1>2, <1>3, CourseIsSim, Episode0
<1>5. n \in Goroutine
  BY <1>4 DEF Holds, Goroutine
<1>6. /\ n.pc = "play" /\ n.ep = th.ep /\ n.todo = th.todo /\ n.played = th.played
      /\ n.sim = Course(name, seed)[0]
  BY <1>3 DEF Holds, Goroutine
<1> HIDE DEF n
<1>7. ThreadOK(n, arms, sds)
  BY <1>6, Episode0 DEF Holds, ThreadOK
<1> QED BY <1>5, <1>7 DEF Holds, n

LEMMA StepOK ==
  ASSUME NEW th, NEW arms, NEW sds, Holds(th, arms, sds),
         th.pc = "play", th.sim # NotStarted, ~ Over(th.sim)
  PROVE  Holds([th EXCEPT !.sim = Advance(@, sds[th.ep])], arms, sds)
<1> DEFINE name == Head(th.todo)
           seed == sds[th.ep]
           n == [th EXCEPT !.sim = Advance(@, seed)]
<1>1. th.todo \in Seq(ArmNames) /\ th.todo # << >> /\ th.ep \in Eps
  BY DEF Holds, ThreadOK, Goroutine
<1>2. name \in ArmNames /\ seed \in Draws
  BY <1>1, InDraws DEF Holds
<1>3. PICK k \in 0..Steps : th.sim = Course(name, seed)[k]
  BY DEF Holds, ThreadOK
<1>4. k # Steps
  BY <1>3, CourseFields DEF Over
<1>5. k + 1 \in 1..Steps /\ k + 1 \in 0..Steps /\ (k + 1) - 1 = k
  BY <1>4, Episode0
<1>6. Advance(th.sim, seed) = Course(name, seed)[k + 1]
  BY <1>3, <1>5, CourseSteps
<1>7. Advance(th.sim, seed) \in Sim
  BY <1>2, <1>5, <1>6, CourseIsSim
<1>8. n \in Goroutine
  BY <1>7 DEF Holds, Goroutine
<1>9. /\ n.pc = "play" /\ n.ep = th.ep /\ n.todo = th.todo /\ n.played = th.played
      /\ n.sim = Course(name, seed)[k + 1]
  BY <1>6 DEF Holds, Goroutine
<1> HIDE DEF n
<1>10. ThreadOK(n, arms, sds)
  BY <1>5, <1>9 DEF Holds, ThreadOK
<1> QED BY <1>8, <1>10 DEF Holds, n

Ended(th) ==
  [th EXCEPT !.pc = IF Len(th.todo) > 1 THEN "play" ELSE "played",
             !.todo = Tail(@), !.sim = NotStarted, !.played = Append(@, th.sim)]

LEMMA EndOK ==
  ASSUME NEW th, NEW arms, NEW sds, Holds(th, arms, sds),
         th.pc = "play", th.sim # NotStarted, Over(th.sim)
  PROVE  Holds(Ended(th), arms, sds)
<1> DEFINE name == Head(th.todo)
           seed == sds[th.ep]
           n == Ended(th)
           p == Len(th.played)
           q == Len(th.todo)
<1>1. /\ th.todo \in Seq(ArmNames) /\ th.todo # << >> /\ th.ep \in Eps
      /\ th.played \in Seq(Sim) /\ th.sim \in Sim /\ p \in Nat /\ q \in Nat /\ q > 0
      /\ p + q = Len(arms)
      /\ \A i \in 1..q : th.todo[i] = arms[p + i]
      /\ \A i \in 1..p : th.played[i] = Final(arms[i], seed)
  BY DEF Holds, ThreadOK, Goroutine
<1>2. name = arms[p + 1]
  <2>1. 1 \in 1..q /\ name = th.todo[1]
    BY <1>1
  <2> HIDE DEF name, q
  <2> QED BY <1>1, <2>1
<1>3. PICK k \in 0..Steps : th.sim = Course(name, seed)[k]
  BY DEF Holds, ThreadOK
<1>4. k = Steps
  BY <1>3, CourseFields DEF Over
<1>5. th.sim = Final(arms[p + 1], seed)
  BY <1>2, <1>3, <1>4 DEF Final
<1>6. /\ Tail(th.todo) \in Seq(ArmNames) /\ Len(Tail(th.todo)) = q - 1
      /\ \A i \in 1..(q - 1) : Tail(th.todo)[i] = th.todo[i + 1]
  BY <1>1
<1>7. /\ Append(th.played, th.sim) \in Seq(Sim) /\ Len(Append(th.played, th.sim)) = p + 1
      /\ \A i \in 1..p : Append(th.played, th.sim)[i] = th.played[i]
      /\ Append(th.played, th.sim)[p + 1] = th.sim
  BY <1>1
<1>8. n \in Goroutine
  BY <1>6, <1>7 DEF Holds, Goroutine, Ended, PC, Sim
<1>9. /\ n.pc = (IF q > 1 THEN "play" ELSE "played") /\ n.ep = th.ep
      /\ n.todo = Tail(th.todo) /\ n.sim = NotStarted
      /\ n.played = Append(th.played, th.sim)
  BY DEF Holds, Goroutine, Ended
<1> HIDE DEF n
<1>10. /\ Len(n.played) + Len(n.todo) = Len(arms)
       /\ n.pc = "played" <=> Len(n.todo) = 0
  <2>1. Len(n.played) = p + 1 /\ Len(n.todo) = q - 1
    BY <1>6, <1>7, <1>9
  <2>2. p + q = Len(arms) /\ p \in Nat /\ q \in Nat /\ q > 0
    BY <1>1
  <2>3. n.pc = (IF q > 1 THEN "play" ELSE "played")
    BY <1>9
  <2> HIDE DEF p, q
  <2> QED BY <2>1, <2>2, <2>3
<1>11. ASSUME NEW i \in 1..Len(n.todo) PROVE n.todo[i] = arms[Len(n.played) + i]
  <2>1. i \in 1..(q - 1) /\ i + 1 \in 1..q /\ p + (i + 1) = (p + 1) + i
    <3>1. Len(n.todo) = q - 1 /\ q \in Nat /\ p \in Nat
      BY <1>1, <1>6, <1>9
    <3> HIDE DEF p, q
    <3> QED BY <3>1
  <2> QED BY <1>1, <1>6, <1>7, <1>9, <2>1
<1>12. ASSUME NEW i \in 1..Len(n.played) PROVE n.played[i] = Final(arms[i], seed)
  <2>1. i \in 1..p \/ i = p + 1
    BY <1>1, <1>7, <1>9
  <2> QED BY <1>1, <1>5, <1>7, <1>9, <2>1
<1>13. ThreadOK(n, arms, sds)
  BY <1>1, <1>9, <1>10, <1>11, <1>12 DEF ThreadOK
<1> QED BY <1>8, <1>13 DEF Holds, n

-----------------------------------------------------------------------------
(* The inductive invariant *)

Held == [Threads -> Goroutine]
Arms(t) == IF t = Runner /\ Twins THEN <<"N0", "N0">> ELSE ArmsOf[mode]
Playing(t) == thread[t].pc \in {"play", "played"}
Filled(e) == table[e] # NotPlayed

TypeInv ==
  /\ mode \in Modes /\ seeds \in SeedTables /\ marketOK \in BOOLEAN
  /\ cancelled \in BOOLEAN /\ jobsClosed \in BOOLEAN /\ resultsClosed \in BOOLEAN
  /\ jobs \in Seq(Eps) /\ results \in Seq(Result)
  /\ thread \in Held /\ table \in [Eps -> Seq(Sim)]
  /\ parity \in BOOLEAN /\ outcome \in {"none", "report", "error"}

PlayOK == \A t \in Threads : ThreadOK(thread[t], Arms(t), seeds)

\* What was entered, and what is sent, are the arms of the episode.
TableOK ==
  \A e \in Eps : Filled(e) => AllPlayed(table[e], ArmsOf[mode], seeds[e])
ResultOK(r) ==
  IF r.ok THEN AllPlayed(r.played, ArmsOf[mode], seeds[r.ep]) ELSE cancelled \/ ~ marketOK
ResultsOK == \A i \in 1..Len(results) : ResultOK(results[i])

\* One goroutine: the episodes are entered in their order.
SequentialOK ==
  mode # "factorial" =>
    /\ results = << >> /\ jobs = << >>
    /\ \A w \in Workers : thread[w].pc = "off"
    /\ thread[Runner].pc # "collect"
    /\ thread[Runner].pc = "next" => \A e \in Eps : Filled(e) <=> e <= thread[Runner].ep
    /\ Playing(Runner) =>
         \A e \in Eps : Filled(e) <=> (Twins \/ e < thread[Runner].ep)
    /\ outcome = "report" => \A e \in Eps : Filled(e)

\* The pool: until something fails, an episode is still to be sent, waiting,
\* played, sent back or entered.
Failing == outcome = "error" \/ \E i \in 1..Len(results) : ~ results[i].ok
Somewhere(e) ==
  \/ thread[Runner].pc = "next" /\ e > thread[Runner].ep
  \/ \E i \in 1..Len(jobs) : jobs[i] = e
  \/ \E w \in Workers : Playing(w) /\ thread[w].ep = e
  \/ \E i \in 1..Len(results) : results[i].ok /\ results[i].ep = e
  \/ Filled(e)
ParallelOK ==
  mode = "factorial" =>
    /\ thread[Runner].pc \in {"next", "collect", "ended"}
    /\ \A w \in Workers : thread[w].pc \in {"next", "play", "played", "ended"}
    /\ Failing \/ \A e \in Eps : Somewhere(e)
    /\ jobsClosed <=> thread[Runner].pc # "next"
    /\ \/ Failing
       \/ \A w \in Workers : thread[w].pc # "ended"
       \/ jobs = << >> /\ jobsClosed
    /\ resultsClosed => \A w \in Workers : thread[w].pc = "ended"
    /\ outcome = "report" => \A e \in Eps : Filled(e)

\* A market that is refused is never played.
MarketOK ==
  \/ marketOK
  \/ /\ \A t \in Threads : thread[t].sim = NotStarted /\ thread[t].pc # "played"
     /\ mode = "run" => \A e \in Eps : ~ Filled(e)

OutcomeOK ==
  /\ outcome = "error" => cancelled \/ ~ marketOK
  /\ mode = "run" /\ outcome = "report" => parity \/ cancelled
  /\ outcome # "none" => thread[Runner].pc = "ended"

Inv ==
  /\ TypeInv /\ PlayOK /\ TableOK /\ ResultsOK
  /\ SequentialOK /\ ParallelOK /\ MarketOK /\ OutcomeOK

LEMMA Goroutines ==
  /\ Runner \in Threads /\ \A w \in Workers : w \in Threads /\ w # Runner
  /\ \A t \in Threads : t \in Workers \/ t = Runner
  /\ \E w \in Workers : TRUE
BY TournamentAssumption, RunnerAssumption DEF Threads

LEMMA ArmsOK ==
  ASSUME TypeInv, NEW t \in Threads
  PROVE  Arms(t) \in Seq(ArmNames) /\ Len(Arms(t)) > 0
<1>1. ArmsOf[mode] \in Seq(ArmNames) /\ Len(ArmsOf[mode]) > 0
  BY ArmsAreNamed DEF TypeInv
<1>2. <<"N0", "N0">> \in Seq(ArmNames) /\ Len(<<"N0", "N0">>) = 2
  BY DEF ArmNames
<1> QED BY <1>1, <1>2 DEF Arms

LEMMA HoldsNow ==
  ASSUME TypeInv, PlayOK, NEW t \in Threads
  PROVE  Holds(thread[t], Arms(t), seeds)
BY ArmsOK DEF TypeInv, PlayOK, Holds, Held

\* One goroutine moves.
Moves(t, n) ==
  /\ thread' = [thread EXCEPT ![t] = n] /\ n \in Goroutine
  /\ seeds' = seeds /\ ThreadOK(n, Arms(t)', seeds)
  /\ \A u \in Threads : u # t => Arms(u)' = Arms(u)

LEMMA Moved ==
  ASSUME TypeInv, PlayOK, NEW t \in Threads, NEW n, Moves(t, n)
  PROVE  /\ thread' \in Held /\ PlayOK'
         /\ thread'[t] = n /\ \A u \in Threads : u # t => thread'[u] = thread[u]
<1>1. /\ thread' \in Held /\ thread'[t] = n
      /\ \A u \in Threads : u # t => thread'[u] = thread[u]
  BY DEF Moves, TypeInv, Held
<1>2. ASSUME NEW u \in Threads PROVE ThreadOK(thread'[u], Arms(u)', seeds')
  <2>1. CASE u = t
    BY <1>1, <2>1 DEF Moves
  <2>2. CASE u # t
    BY <1>1, <2>2 DEF Moves, PlayOK
  <2> QED BY <2>1, <2>2
<1> QED BY <1>1, <1>2 DEF PlayOK

-----------------------------------------------------------------------------
(* An episode is played *)

PlaysOn(t, n) ==
  /\ thread[t].pc = "play" /\ thread' = [thread EXCEPT ![t] = n]
  /\ Holds(n, Arms(t), seeds)
  /\ n.ep = thread[t].ep /\ n.pc \in {"play", "played"} /\ marketOK
  /\ UNCHANGED <<static, cancelled, channels, table, parity, outcome>>

GivesUp(t) ==
  /\ thread[t].pc = "play" /\ Abort(t) /\ (cancelled \/ ~ marketOK)
  /\ UNCHANGED <<static, cancelled, jobs, jobsClosed, resultsClosed, table, parity>>

LEMMA PlayCases ==
  ASSUME TypeInv, PlayOK, MarketOK, NEW t \in Threads, Play(t)
  PROVE  (\E n : PlaysOn(t, n)) \/ GivesUp(t)
<1> DEFINE th == thread[t]
<1>1. Holds(th, Arms(t), seeds) /\ thread \in Held /\ th \in Goroutine
  BY HoldsNow DEF Holds, TypeInv
<1>2. CASE StartArm(t) /\ marketOK
  <2> DEFINE n == [th EXCEPT !.sim = StartEpisode(Head(th.todo), seeds[th.ep])]
  <2>1. Holds(n, Arms(t), seeds)
    BY <1>1, <1>2, StartOK DEF StartArm
  <2>2. n.ep = th.ep /\ n.pc = th.pc
    BY <1>1 DEF Goroutine
  <2>3. thread' = [thread EXCEPT ![t] = n]
    BY <1>1, <1>2 DEF StartArm, Seed, Held
  <2>4. PlaysOn(t, n)
    <3> HIDE DEF n
    <3> QED BY <1>2, <2>1, <2>2, <2>3 DEF PlaysOn, StartArm, channels
  <2> QED BY <2>4
<1>3. CASE StartArm(t) /\ ~ marketOK
  BY <1>3 DEF StartArm, GivesUp
<1>4. CASE StepArm(t) /\ ~ (cancelled /\ thread[t].sim.loads # {})
  <2> DEFINE n == [th EXCEPT !.sim = Advance(@, seeds[th.ep])]
  <2>1. Holds(n, Arms(t), seeds)
    BY <1>1, <1>4, StepOK DEF StepArm
  <2>2. n.ep = th.ep /\ n.pc = th.pc
    BY <1>1 DEF Goroutine
  <2>3. thread' = [thread EXCEPT ![t] = n]
    BY <1>1, <1>4 DEF StepArm, Seed, Held, Advance
  <2>4. PlaysOn(t, n)
    <3> HIDE DEF n
    <3> QED BY <1>4, <2>1, <2>2, <2>3 DEF PlaysOn, StepArm, channels, MarketOK
  <2> QED BY <2>4
<1>5. CASE StepArm(t) /\ cancelled /\ thread[t].sim.loads # {}
  BY <1>5 DEF StepArm, GivesUp
<1>6. CASE EndArm(t)
  <2> DEFINE n == Ended(th)
  <2>1. Holds(n, Arms(t), seeds)
    BY <1>1, <1>6, EndOK DEF EndArm
  <2>2. n.ep = th.ep /\ n.pc \in {"play", "played"}
    BY <1>1 DEF Goroutine, Ended
  <2>3. thread' = [thread EXCEPT ![t] = n]
    BY <1>1, <1>6 DEF EndArm, Held, Ended, Goroutine
  <2>4. PlaysOn(t, n)
    <3> HIDE DEF n
    <3> QED BY <1>6, <2>1, <2>2, <2>3 DEF PlaysOn, EndArm, channels, MarketOK
  <2> QED BY <2>4
<1> QED BY <1>2, <1>3, <1>4, <1>5, <1>6 DEF Play

LEMMA PlaysOnInv ==
  ASSUME Inv, NEW t \in Threads, NEW n, PlaysOn(t, n)
  PROVE  Inv'
<1> USE DEF Inv
<1>u. /\ mode' = mode /\ seeds' = seeds /\ marketOK' = marketOK /\ cancelled' = cancelled
      /\ jobs' = jobs /\ jobsClosed' = jobsClosed /\ results' = results
      /\ resultsClosed' = resultsClosed /\ table' = table /\ parity' = parity
      /\ outcome' = outcome
  BY DEF PlaysOn, static, channels
<1>a. Twins' = Twins /\ \A u \in Threads : Arms(u)' = Arms(u)
  BY <1>u DEF Twins, Arms
<1>b. Moves(t, n)
  BY <1>u, <1>a DEF PlaysOn, Moves, Holds
<1>m. /\ thread' \in Held /\ PlayOK'
      /\ thread'[t] = n /\ \A u \in Threads : u # t => thread'[u] = thread[u]
  BY <1>b, Moved
<1>n. /\ thread[t].pc = "play" /\ thread'[t].pc \in {"play", "played"}
      /\ thread'[t].ep = thread[t].ep /\ marketOK
  BY <1>m DEF PlaysOn
<1>1. TypeInv'
  BY <1>u, <1>m DEF TypeInv
<1>3. TableOK' /\ ResultsOK'
  BY <1>u DEF TableOK, ResultsOK, ResultOK, Filled
<1>5. SequentialOK'
  BY <1>u, <1>a, <1>m, <1>n, Goroutines DEF SequentialOK, Filled, Playing
<1>6. ParallelOK'
  <2> SUFFICES ASSUME mode = "factorial" PROVE ParallelOK'
    BY <1>u DEF ParallelOK
  <2>1. t \in Workers /\ t # Runner /\ thread'[Runner] = thread[Runner]
    BY <1>m, <1>n, Goroutines DEF ParallelOK
  <2>2. \A w \in Workers : w # t => thread'[w] = thread[w]
    BY <1>m, Goroutines
  <2>3. ASSUME NEW e \in Eps, Somewhere(e) PROVE Somewhere(e)'
    <3>1. \A w \in Workers : Playing(w) => Playing(w)' /\ thread'[w].ep = thread[w].ep
      BY <1>n, <2>2 DEF Playing
    <3> QED BY <1>u, <2>1, <2>3, <3>1 DEF Somewhere, Filled
  <2>4. Failing' = Failing
    BY <1>u DEF Failing
  <2>5. \A w \in Workers : thread'[w].pc = "ended" => thread[w].pc = "ended"
    BY <1>n, <2>2
  <2>6. \A w \in Workers : thread'[w].pc \in {"next", "play", "played", "ended"}
    BY <1>n, <2>2 DEF ParallelOK
  <2>7. resultsClosed = FALSE
    BY <1>n, <2>1 DEF ParallelOK, TypeInv
  <2> QED BY <1>u, <2>1, <2>3, <2>4, <2>5, <2>6, <2>7 DEF ParallelOK, Filled
<1>7. MarketOK'
  BY <1>u, <1>n DEF MarketOK
<1>8. OutcomeOK'
  BY <1>u, <1>m, <1>n, Goroutines DEF OutcomeOK
<1> QED BY <1>1, <1>m, <1>3, <1>5, <1>6, <1>7, <1>8

Sends(r) == results' = Append(results, r) /\ r \in Result

LEMMA Sent ==
  ASSUME TypeInv, NEW r, Sends(r)
  PROVE  /\ results' \in Seq(Result) /\ Len(results) \in Nat
         /\ \A i \in 1..Len(results) : i \in 1..Len(results') /\ results'[i] = results[i]
         /\ Len(results) + 1 \in 1..Len(results') /\ results'[Len(results) + 1] = r
         /\ \A i \in 1..Len(results') : i \in 1..Len(results) \/ i = Len(results) + 1
BY DEF TypeInv, Sends

LEMMA GivesUpInv ==
  ASSUME Inv, NEW t \in Threads, GivesUp(t)
  PROVE  Inv'
<1> USE DEF Inv
<1> DEFINE r == [ep |-> thread[t].ep, ok |-> FALSE]
<1>u. /\ mode' = mode /\ seeds' = seeds /\ marketOK' = marketOK /\ cancelled' = cancelled
      /\ jobs' = jobs /\ jobsClosed' = jobsClosed /\ resultsClosed' = resultsClosed
      /\ table' = table /\ parity' = parity
      /\ thread[t].pc = "play" /\ (cancelled \/ ~ marketOK)
      /\ thread' = [thread EXCEPT ![t] = Idle("ended")]
      /\ IF t = Runner
         THEN outcome' = (IF Twins THEN "report" ELSE "error") /\ results' = results
         ELSE outcome' = outcome /\ results' = Append(results, r)
  BY DEF GivesUp, Abort, static
<1>a. Twins' = Twins /\ \A u \in Threads : Arms(u)' = Arms(u)
  BY <1>u DEF Twins, Arms
<1>b. Moves(t, Idle("ended"))
  BY <1>u, <1>a, IdleOK DEF Moves, PC
<1>m. /\ thread' \in Held /\ PlayOK'
      /\ thread'[t] = Idle("ended")
      /\ \A u \in Threads : u # t => thread'[u] = thread[u]
  BY <1>b, Moved
<1>n. thread'[t].pc = "ended" /\ thread'[t].sim = NotStarted
  BY <1>m DEF Idle
<1>r. r \in Result
  BY <1>u DEF Result, PlayOK, ThreadOK
<1>s. t # Runner => Sends(r)
  BY <1>u, <1>r DEF Sends
<1> HIDE DEF r
<1>1. TypeInv'
  <2>1. results' \in Seq(Result)
    BY <1>u, <1>s, Sent DEF TypeInv
  <2> QED BY <1>u, <1>m, <2>1 DEF TypeInv
<1>2. TableOK'
  BY <1>u DEF TableOK, Filled
<1>3. ResultsOK'
  <2>1. \A x : ResultOK(x)' = ResultOK(x)
    BY <1>u DEF ResultOK
  <2>2. CASE t = Runner
    BY <1>u, <2>1, <2>2 DEF ResultsOK
  <2>3. CASE t # Runner
    <3>1. ResultOK(r)
      BY <1>u DEF ResultOK, r
    <3> QED BY <1>s, <2>1, <2>3, <3>1, Sent DEF ResultsOK
  <2> QED BY <2>2, <2>3
<1>5. SequentialOK'
  <2> SUFFICES ASSUME mode # "factorial" PROVE SequentialOK'
    BY <1>u DEF SequentialOK
  <2>1. t = Runner
    BY <1>u, Goroutines DEF SequentialOK
  <2>2. Twins => \A e \in Eps : Filled(e)
    BY <1>u, <2>1 DEF SequentialOK, Playing
  <2>3. \A w \in Workers : thread'[w] = thread[w]
    BY <1>m, <2>1, Goroutines
  <2> QED BY <1>u, <1>n, <2>1, <2>2, <2>3 DEF SequentialOK, Filled, Playing
<1>6. ParallelOK'
  <2> SUFFICES ASSUME mode = "factorial" PROVE ParallelOK'
    BY <1>u DEF ParallelOK
  <2>1. t \in Workers /\ t # Runner /\ thread'[Runner] = thread[Runner]
    BY <1>u, <1>m, Goroutines DEF ParallelOK
  <2>2. \A w \in Workers : w # t => thread'[w] = thread[w]
    BY <1>m, Goroutines
  <2>3. Failing'
    <3>1. results'[Len(results) + 1] = r /\ Len(results) + 1 \in 1..Len(results')
      BY <1>s, <2>1, Sent
    <3> QED BY <3>1 DEF Failing, r
  <2>4. \A w \in Workers : thread'[w].pc \in {"next", "play", "played", "ended"}
    BY <1>n, <2>2 DEF ParallelOK
  <2>5. resultsClosed = FALSE
    BY <1>u, <2>1 DEF ParallelOK, TypeInv
  <2> QED BY <1>u, <2>1, <2>3, <2>4, <2>5 DEF ParallelOK, Filled
<1>7. MarketOK'
  BY <1>u, <1>m, <1>n DEF MarketOK, Filled
<1>8. OutcomeOK'
  <2>1. CASE t = Runner
    <3>1. Twins => cancelled
      BY <1>u, Episode0 DEF Twins, MarketOK, Filled
    <3> QED BY <1>u, <1>n, <2>1, <3>1 DEF OutcomeOK
  <2>2. CASE t # Runner
    BY <1>u, <1>m, <2>2, Goroutines DEF OutcomeOK
  <2> QED BY <2>1, <2>2
<1> QED BY <1>1, <1>m, <1>2, <1>3, <1>5, <1>6, <1>7, <1>8

-----------------------------------------------------------------------------
(* The pool *)

LEMMA CancelInv ==
  ASSUME Inv, Cancel
  PROVE  Inv'
<1> USE DEF Inv
<1>u. /\ mode' = mode /\ seeds' = seeds /\ marketOK' = marketOK /\ cancelled' = TRUE
      /\ jobs' = jobs /\ jobsClosed' = jobsClosed /\ results' = results
      /\ resultsClosed' = resultsClosed /\ table' = table /\ parity' = parity
      /\ thread' = thread /\ outcome' = outcome
  BY DEF Cancel, static, channels
<1>a. Twins' = Twins /\ \A u \in Threads : Arms(u)' = Arms(u)
  BY <1>u DEF Twins, Arms
<1>1. TypeInv' /\ PlayOK' /\ TableOK'
  BY <1>u, <1>a DEF TypeInv, PlayOK, TableOK, Filled
<1>2. ResultsOK'
  BY <1>u DEF ResultsOK, ResultOK
<1>3. SequentialOK'
  BY <1>u, <1>a DEF SequentialOK, Filled, Playing
<1>4. ParallelOK'
  BY <1>u DEF ParallelOK, Filled, Playing, Failing, Somewhere
<1>5. MarketOK' /\ OutcomeOK'
  BY <1>u DEF MarketOK, OutcomeOK, Filled
<1> QED BY <1>1, <1>2, <1>3, <1>4, <1>5

LEMMA EnqueueInv ==
  ASSUME Inv, Enqueue
  PROVE  Inv'
<1> USE DEF Inv
<1> DEFINE th == thread[Runner]
           n == [th EXCEPT !.ep = @ + 1]
<1>t. /\ thread \in Held /\ th \in Goroutine /\ Runner \in Threads /\ th.ep \in 0..Episodes
      /\ jobs \in Seq(Eps) /\ Episodes \in Nat
  BY Goroutines, Episode0 DEF TypeInv, Held, Goroutine
<1>u. /\ mode = "factorial" /\ mode' = mode /\ seeds' = seeds /\ marketOK' = marketOK
      /\ cancelled' = cancelled /\ jobsClosed' = jobsClosed /\ results' = results
      /\ resultsClosed' = resultsClosed /\ table' = table /\ parity' = parity
      /\ outcome' = outcome
      /\ th.pc = "next" /\ th.ep < Episodes /\ jobs' = Append(jobs, th.ep + 1)
  BY DEF Enqueue, static
<1>v. thread' = [thread EXCEPT ![Runner] = n]
  BY <1>t DEF Enqueue, Held
<1>j. /\ th.ep + 1 \in Eps /\ th.ep + 1 \in 0..Episodes /\ jobs' \in Seq(Eps)
      /\ \A i \in 1..Len(jobs) : i \in 1..Len(jobs') /\ jobs'[i] = jobs[i]
      /\ Len(jobs) + 1 \in 1..Len(jobs') /\ jobs'[Len(jobs) + 1] = th.ep + 1
  BY <1>t, <1>u DEF Eps
<1>n. n \in Goroutine /\ n.pc = "next" /\ n.ep = th.ep + 1 /\ n.sim = th.sim
  BY <1>t, <1>u, <1>j DEF Goroutine
<1>a. Twins' = Twins /\ \A u \in Threads : Arms(u)' = Arms(u)
  BY <1>u DEF Twins, Arms
<1> HIDE DEF n
<1>b. Moves(Runner, n)
  <2>1. th.sim = NotStarted
    BY <1>t, <1>u DEF PlayOK, ThreadOK
  <2>2. ThreadOK(n, Arms(Runner)', seeds)
    BY <1>n, <2>1 DEF ThreadOK
  <2> QED BY <1>u, <1>v, <1>n, <1>a, <2>2 DEF Moves
<1>m. /\ thread' \in Held /\ PlayOK' /\ thread'[Runner] = n
      /\ \A u \in Threads : u # Runner => thread'[u] = thread[u]
  BY <1>t, <1>b, Moved
<1>w. \A w \in Workers : thread'[w] = thread[w]
  BY <1>m, Goroutines
<1>1. TypeInv'
  BY <1>u, <1>j, <1>m DEF TypeInv
<1>2. TableOK' /\ ResultsOK' /\ SequentialOK'
  BY <1>u DEF TableOK, ResultsOK, ResultOK, Filled, SequentialOK
<1>6. ParallelOK'
  <2>1. ASSUME NEW e \in Eps, Somewhere(e) PROVE Somewhere(e)'
    <3>1. CASE e > th.ep
      <4>1. e = th.ep + 1 \/ e > th.ep + 1
        <5>1. e \in Int /\ th.ep \in Int
          BY <1>t DEF Eps
        <5>2. \A i, j \in Int : i > j => i = j + 1 \/ i > j + 1
          OBVIOUS
        <5> HIDE DEF th
        <5> QED BY <3>1, <5>1, <5>2
      <4> QED BY <1>j, <1>m, <1>n, <4>1 DEF Somewhere
    <3>2. CASE \E i \in 1..Len(jobs) : jobs[i] = e
      BY <1>j, <3>2 DEF Somewhere
    <3>3. CASE \E w \in Workers : Playing(w) /\ thread[w].ep = e
      BY <1>w, <3>3 DEF Somewhere, Playing
    <3>4. CASE \/ \E i \in 1..Len(results) : results[i].ok /\ results[i].ep = e
               \/ Filled(e)
      BY <1>u, <3>4 DEF Somewhere, Filled
    <3> QED BY <2>1, <3>1, <3>2, <3>3, <3>4 DEF Somewhere
  <2>2. Failing' = Failing
    BY <1>u DEF Failing
  <2>3. jobsClosed = FALSE
    BY <1>u DEF ParallelOK, TypeInv
  <2> QED BY <1>u, <1>m, <1>n, <1>w, <2>1, <2>2, <2>3 DEF ParallelOK, Filled
<1>7. MarketOK'
  BY <1>u, <1>m, <1>n DEF MarketOK
<1>8. OutcomeOK'
  BY <1>u DEF OutcomeOK
<1> QED BY <1>1, <1>m, <1>2, <1>6, <1>7, <1>8

LEMMA CloseJobsInv ==
  ASSUME Inv, CloseJobs
  PROVE  Inv'
<1> USE DEF Inv
<1> DEFINE th == thread[Runner]
           n == [th EXCEPT !.pc = "collect"]
<1>t. /\ thread \in Held /\ th \in Goroutine /\ Runner \in Threads /\ th.ep \in 0..Episodes
  BY Goroutines DEF TypeInv, Held, Goroutine
<1>u. /\ mode = "factorial" /\ mode' = mode /\ seeds' = seeds /\ marketOK' = marketOK
      /\ cancelled' = cancelled /\ jobs' = jobs /\ jobsClosed' = TRUE /\ results' = results
      /\ resultsClosed' = resultsClosed /\ table' = table /\ parity' = parity
      /\ outcome' = outcome
      /\ th.pc = "next" /\ th.ep = Episodes
  BY DEF CloseJobs, static
<1>v. thread' = [thread EXCEPT ![Runner] = n]
  BY <1>t DEF CloseJobs, Held
<1>n. n \in Goroutine /\ n.pc = "collect" /\ n.sim = th.sim
  BY <1>t DEF Goroutine, PC
<1>a. Twins' = Twins /\ \A u \in Threads : Arms(u)' = Arms(u)
  BY <1>u DEF Twins, Arms
<1> HIDE DEF n
<1>b. Moves(Runner, n)
  <2>1. th.sim = NotStarted
    BY <1>t, <1>u DEF PlayOK, ThreadOK
  <2>2. ThreadOK(n, Arms(Runner)', seeds)
    BY <1>n, <2>1 DEF ThreadOK
  <2> QED BY <1>u, <1>v, <1>n, <1>a, <2>2 DEF Moves
<1>m. /\ thread' \in Held /\ PlayOK' /\ thread'[Runner] = n
      /\ \A u \in Threads : u # Runner => thread'[u] = thread[u]
  BY <1>t, <1>b, Moved
<1>w. \A w \in Workers : thread'[w] = thread[w]
  BY <1>m, Goroutines
<1>1. TypeInv'
  BY <1>u, <1>m DEF TypeInv
<1>2. TableOK' /\ ResultsOK' /\ SequentialOK'
  BY <1>u DEF TableOK, ResultsOK, ResultOK, Filled, SequentialOK
<1>6. ParallelOK'
  <2>1. ASSUME NEW e \in Eps, Somewhere(e) PROVE Somewhere(e)'
    <3>1. ~ (e > th.ep)
      BY <1>u, Episode0 DEF Eps
    <3> QED BY <1>u, <1>w, <2>1, <3>1 DEF Somewhere, Filled, Playing
  <2>2. Failing' = Failing
    BY <1>u DEF Failing
  <2>3. jobsClosed = FALSE
    BY <1>u DEF ParallelOK, TypeInv
  <2> QED BY <1>u, <1>m, <1>n, <1>w, <2>1, <2>2, <2>3 DEF ParallelOK, Filled
<1>7. MarketOK'
  BY <1>u, <1>m, <1>n DEF MarketOK
<1>8. OutcomeOK'
  BY <1>u DEF OutcomeOK
<1> QED BY <1>1, <1>m, <1>2, <1>6, <1>7, <1>8

\* The first of a channel is taken.
LEMMA Taken ==
  ASSUME NEW S, NEW q \in Seq(S), q # << >>
  PROVE  /\ Tail(q) \in Seq(S) /\ Head(q) \in S /\ Head(q) = q[1] /\ 1 \in 1..Len(q)
         /\ \A i \in 1..Len(q) : i = 1 \/ \E j \in 1..Len(Tail(q)) : Tail(q)[j] = q[i]
         /\ \A j \in 1..Len(Tail(q)) : \E i \in 1..Len(q) : q[i] = Tail(q)[j]
<1>1. /\ Len(q) \in Nat /\ Len(q) > 0 /\ Tail(q) \in Seq(S) /\ Len(Tail(q)) = Len(q) - 1
      /\ \A j \in 1..(Len(q) - 1) : Tail(q)[j] = q[j + 1]
  OBVIOUS
<1>2. ASSUME NEW i \in 1..Len(q), i # 1
      PROVE  \E j \in 1..Len(Tail(q)) : Tail(q)[j] = q[i]
  <2>1. i - 1 \in 1..(Len(q) - 1) /\ (i - 1) + 1 = i
    BY <1>1, <1>2
  <2> QED BY <1>1, <2>1
<1>3. ASSUME NEW j \in 1..Len(Tail(q)) PROVE \E i \in 1..Len(q) : q[i] = Tail(q)[j]
  <2>1. j \in 1..(Len(q) - 1) /\ j + 1 \in 1..Len(q)
    BY <1>1
  <2> QED BY <1>1, <2>1
<1> QED BY <1>1, <1>2, <1>3

\* A worker is at work in the pool, which is not closed before he ends.
LEMMA AtWork ==
  ASSUME Inv, NEW w \in Workers, thread[w].pc \in {"next", "play", "played"}
  PROVE  /\ w \in Threads /\ w # Runner /\ mode = "factorial" /\ ~ Twins
         /\ resultsClosed = FALSE /\ Arms(w) = ArmsOf[mode]
BY Goroutines DEF Inv, SequentialOK, ParallelOK, TypeInv, Twins, Arms

LEMMA TakeJobInv ==
  ASSUME Inv, NEW w \in Workers, TakeJob(w)
  PROVE  Inv'
<1> USE DEF Inv
<1> DEFINE e0 == Head(jobs)
           r == [ep |-> e0, ok |-> FALSE]
           n == IF cancelled THEN Idle("ended") ELSE Beginning(e0, ArmsOf[mode])
<1>u. /\ mode' = mode /\ seeds' = seeds /\ marketOK' = marketOK
      /\ cancelled' = cancelled /\ jobsClosed' = jobsClosed
      /\ resultsClosed' = resultsClosed /\ table' = table /\ parity' = parity
      /\ outcome' = outcome
      /\ thread[w].pc = "next" /\ jobs # << >> /\ jobs' = Tail(jobs)
      /\ thread' = [thread EXCEPT ![w] = n]
      /\ IF cancelled THEN results' = Append(results, r) ELSE results' = results
  BY DEF TakeJob, static, Begin, Beginning
<1>w. /\ w \in Threads /\ w # Runner /\ mode = "factorial"
      /\ resultsClosed = FALSE /\ Arms(w) = ArmsOf[mode]
  BY <1>u, AtWork
<1>j. /\ jobs' \in Seq(Eps) /\ e0 \in Eps
      /\ \A i \in 1..Len(jobs) : jobs[i] = e0 \/ \E j \in 1..Len(jobs') : jobs'[j] = jobs[i]
  BY <1>u, Taken DEF TypeInv
<1>a. Twins' = Twins /\ \A u \in Threads : Arms(u)' = Arms(u)
  BY <1>u DEF Twins, Arms
<1>n. /\ n \in Goroutine /\ ThreadOK(n, ArmsOf[mode], seeds)
      /\ n.sim = NotStarted
      /\ IF cancelled THEN n.pc = "ended" ELSE n.pc = "play" /\ n.ep = e0
  <2>1. ArmsOf[mode] \in Seq(ArmNames) /\ Len(ArmsOf[mode]) > 0
    BY ArmsAreNamed DEF TypeInv
  <2>2. CASE cancelled
    BY <2>2, IdleOK DEF PC, Idle
  <2>3. CASE ~ cancelled
    BY <1>j, <2>1, <2>3, BeginOK DEF Beginning
  <2> QED BY <2>2, <2>3
<1>r. r \in Result
  BY <1>j DEF Result
<1>s. cancelled => Sends(r)
  BY <1>u, <1>r DEF Sends
<1> HIDE DEF n, r, e0
<1>b. Moves(w, n)
  BY <1>u, <1>w, <1>n, <1>a DEF Moves
<1>m. /\ thread' \in Held /\ PlayOK' /\ thread'[w] = n
      /\ \A u \in Threads : u # w => thread'[u] = thread[u]
  BY <1>w, <1>b, Moved
<1>o. thread'[Runner] = thread[Runner] /\ \A x \in Workers : x # w => thread'[x] = thread[x]
  BY <1>m, <1>w, Goroutines
<1>1. TypeInv'
  <2>1. results' \in Seq(Result)
    BY <1>u, <1>s, Sent DEF TypeInv
  <2> QED BY <1>u, <1>j, <1>m, <2>1 DEF TypeInv
<1>2. TableOK' /\ SequentialOK'
  BY <1>u, <1>w DEF TableOK, Filled, SequentialOK
<1>3. ResultsOK'
  <2>1. \A x : ResultOK(x)' = ResultOK(x)
    BY <1>u DEF ResultOK
  <2>2. CASE ~ cancelled
    BY <1>u, <2>1, <2>2 DEF ResultsOK
  <2>3. CASE cancelled
    <3>1. ResultOK(r)
      BY <2>3 DEF ResultOK, r
    <3> QED BY <1>s, <2>1, <2>3, <3>1, Sent DEF ResultsOK
  <2> QED BY <2>2, <2>3
<1>6. ParallelOK'
  <2>1. \A x \in Workers : thread'[x].pc \in {"next", "play", "played", "ended"}
    BY <1>n, <1>m, <1>o, <1>w DEF ParallelOK
  <2>2. CASE cancelled
    <3>1. results'[Len(results) + 1] = r /\ Len(results) + 1 \in 1..Len(results')
      BY <1>s, <2>2, Sent
    <3>2. Failing'
      BY <3>1 DEF Failing, r
    <3> QED BY <1>u, <1>w, <1>o, <2>1, <3>2 DEF ParallelOK, Filled
  <2>3. CASE ~ cancelled
    <3>1. Failing' = Failing
      BY <1>u, <2>3 DEF Failing
    <3>2. ASSUME NEW e \in Eps, Somewhere(e) PROVE Somewhere(e)'
      <4>1. CASE \E i \in 1..Len(jobs) : jobs[i] = e
        <5>1. e = e0 \/ \E j \in 1..Len(jobs') : jobs'[j] = e
          BY <1>j, <4>1
        <5>2. e = e0 => Playing(w)' /\ thread'[w].ep = e
          BY <1>n, <1>m, <2>3 DEF Playing
        <5> QED BY <5>1, <5>2 DEF Somewhere
      <4>2. CASE \E x \in Workers : Playing(x) /\ thread[x].ep = e
        <5>1. PICK x \in Workers : Playing(x) /\ thread[x].ep = e
          BY <4>2
        <5>2. x # w
          BY <1>u, <5>1 DEF Playing
        <5>3. Playing(x)' /\ thread'[x].ep = e
          BY <1>o, <5>1, <5>2 DEF Playing
        <5> QED BY <5>3 DEF Somewhere
      <4>3. CASE \/ thread[Runner].pc = "next" /\ e > thread[Runner].ep
                 \/ \E i \in 1..Len(results) : results[i].ok /\ results[i].ep = e
                 \/ Filled(e)
        BY <1>u, <1>o, <2>3, <4>3 DEF Somewhere, Filled
      <4> QED BY <3>2, <4>1, <4>2, <4>3 DEF Somewhere
    <3>3. Failing \/ \A x \in Workers : thread'[x].pc # "ended"
      BY <1>u, <1>w, <1>n, <1>m, <1>o, <2>3 DEF ParallelOK
    <3> QED BY <1>u, <1>w, <1>o, <2>1, <3>1, <3>2, <3>3 DEF ParallelOK, Filled
  <2> QED BY <2>2, <2>3
<1>7. MarketOK'
  BY <1>u, <1>m, <1>n DEF MarketOK, Filled
<1>8. OutcomeOK'
  BY <1>u, <1>o DEF OutcomeOK
<1> QED BY <1>1, <1>m, <1>2, <1>3, <1>6, <1>7, <1>8

LEMMA NoMoreJobsInv ==
  ASSUME Inv, NEW w \in Workers, NoMoreJobs(w)
  PROVE  Inv'
<1> USE DEF Inv
<1>u. /\ mode' = mode /\ seeds' = seeds /\ marketOK' = marketOK
      /\ cancelled' = cancelled /\ jobsClosed' = jobsClosed /\ jobs' = jobs
      /\ results' = results /\ resultsClosed' = resultsClosed /\ table' = table
      /\ parity' = parity /\ outcome' = outcome
      /\ thread[w].pc = "next" /\ jobs = << >> /\ jobsClosed
      /\ thread' = [thread EXCEPT ![w] = Idle("ended")]
  BY DEF NoMoreJobs, static, channels
<1>w. /\ w \in Threads /\ w # Runner /\ mode = "factorial"
      /\ resultsClosed = FALSE /\ Arms(w) = ArmsOf[mode]
  BY <1>u, AtWork
<1>a. Twins' = Twins /\ \A u \in Threads : Arms(u)' = Arms(u)
  BY <1>u DEF Twins, Arms
<1>b. Moves(w, Idle("ended"))
  BY <1>u, <1>a, IdleOK DEF Moves, PC
<1>m. /\ thread' \in Held /\ PlayOK' /\ thread'[w] = Idle("ended")
      /\ \A u \in Threads : u # w => thread'[u] = thread[u]
  BY <1>w, <1>b, Moved
<1>n. thread'[w].pc = "ended" /\ thread'[w].sim = NotStarted
  BY <1>m DEF Idle
<1>o. thread'[Runner] = thread[Runner] /\ \A x \in Workers : x # w => thread'[x] = thread[x]
  BY <1>m, <1>w, Goroutines
<1>1. TypeInv'
  BY <1>u, <1>m DEF TypeInv
<1>2. TableOK' /\ ResultsOK' /\ SequentialOK'
  BY <1>u, <1>w DEF TableOK, ResultsOK, ResultOK, Filled, SequentialOK
<1>6. ParallelOK'
  <2>1. \A x \in Workers : thread'[x].pc \in {"next", "play", "played", "ended"}
    BY <1>n, <1>o, <1>w DEF ParallelOK
  <2>2. Failing' = Failing
    BY <1>u DEF Failing
  <2>3. \A x \in Workers : Playing(x) => Playing(x)' /\ thread'[x].ep = thread[x].ep
    BY <1>u, <1>o DEF Playing
  <2>4. ASSUME NEW e \in Eps, Somewhere(e) PROVE Somewhere(e)'
    BY <1>u, <1>o, <2>3, <2>4 DEF Somewhere, Filled
  <2> QED BY <1>u, <1>w, <1>o, <2>1, <2>2, <2>4 DEF ParallelOK, Filled
<1>7. MarketOK'
  BY <1>u, <1>m, <1>n DEF MarketOK, Filled
<1>8. OutcomeOK'
  BY <1>u, <1>o DEF OutcomeOK
<1> QED BY <1>1, <1>m, <1>2, <1>6, <1>7, <1>8

LEMMA SendResultInv ==
  ASSUME Inv, NEW w \in Workers, SendResult(w)
  PROVE  Inv'
<1> USE DEF Inv
<1> DEFINE th == thread[w]
           r == [ep |-> th.ep, ok |-> TRUE, played |-> th.played]
<1>u. /\ mode' = mode /\ seeds' = seeds /\ marketOK' = marketOK
      /\ cancelled' = cancelled /\ jobsClosed' = jobsClosed /\ jobs' = jobs
      /\ resultsClosed' = resultsClosed /\ table' = table /\ parity' = parity
      /\ outcome' = outcome /\ results' = Append(results, r)
      /\ th.pc = "played" /\ thread' = [thread EXCEPT ![w] = Idle("next")]
  BY DEF SendResult, static
<1>w. /\ w \in Threads /\ w # Runner /\ mode = "factorial"
      /\ resultsClosed = FALSE /\ Arms(w) = ArmsOf[mode]
  BY <1>u, AtWork
<1>p. th.ep \in Eps /\ th.played \in Seq(Sim) /\ AllPlayed(th.played, ArmsOf[mode], seeds[th.ep])
  <2>1. ThreadOK(th, ArmsOf[mode], seeds) /\ th \in Goroutine
    BY <1>w DEF PlayOK, TypeInv, Held
  <2>a. th.pc = "played"
    BY <1>u
  <2> HIDE DEF th
  <2>b. th.played \in Seq(Sim) /\ Len(th.played) \in Nat
    BY <2>1 DEF Goroutine
  <2>2. /\ th.ep \in Eps /\ Len(th.todo) = 0 /\ Len(th.played) + Len(th.todo) = Len(ArmsOf[mode])
        /\ \A i \in 1..Len(th.played) : th.played[i] = Final(ArmsOf[mode][i], seeds[th.ep])
    BY <2>1, <2>a, Zenon DEF ThreadOK
  <2>3. Len(th.played) = Len(ArmsOf[mode])
    BY <2>b, <2>2
  <2> QED BY <2>b, <2>2, <2>3 DEF AllPlayed
<1>a. Twins' = Twins /\ \A u \in Threads : Arms(u)' = Arms(u)
  BY <1>u DEF Twins, Arms
<1>b. Moves(w, Idle("next"))
  BY <1>u, <1>a, IdleOK DEF Moves, PC
<1>m. /\ thread' \in Held /\ PlayOK' /\ thread'[w] = Idle("next")
      /\ \A u \in Threads : u # w => thread'[u] = thread[u]
  BY <1>w, <1>b, Moved
<1>n. thread'[w].pc = "next" /\ thread'[w].sim = NotStarted
  BY <1>m DEF Idle
<1>o. thread'[Runner] = thread[Runner] /\ \A x \in Workers : x # w => thread'[x] = thread[x]
  BY <1>m, <1>w, Goroutines
<1>r. Sends(r)
  BY <1>u, <1>p DEF Result, Sends
<1>f. r.ok = TRUE /\ r.ep = th.ep /\ r.played = th.played
  OBVIOUS
<1> HIDE DEF r
<1>s. /\ results' \in Seq(Result)
      /\ \A i \in 1..Len(results) : i \in 1..Len(results') /\ results'[i] = results[i]
      /\ Len(results) + 1 \in 1..Len(results') /\ results'[Len(results) + 1] = r
      /\ \A i \in 1..Len(results') : i \in 1..Len(results) \/ i = Len(results) + 1
  BY <1>r, Sent
<1>1. TypeInv'
  BY <1>u, <1>s, <1>m DEF TypeInv
<1>2. TableOK' /\ SequentialOK'
  BY <1>u, <1>w DEF TableOK, Filled, SequentialOK
<1>3. ResultsOK'
  <2>1. \A x : ResultOK(x)' = ResultOK(x)
    BY <1>u DEF ResultOK
  <2>2. ResultOK(r)
    BY <1>p, <1>f DEF ResultOK
  <2> QED BY <1>s, <2>1, <2>2 DEF ResultsOK
<1>6. ParallelOK'
  <2>1. \A x \in Workers : thread'[x].pc \in {"next", "play", "played", "ended"}
    BY <1>n, <1>o, <1>w DEF ParallelOK
  <2>2. Failing => Failing'
    BY <1>u, <1>s DEF Failing
  <2>3. ASSUME NEW e \in Eps, Somewhere(e) PROVE Somewhere(e)'
    <3>1. CASE \E x \in Workers : Playing(x) /\ thread[x].ep = e
      <4>1. PICK x \in Workers : Playing(x) /\ thread[x].ep = e
        BY <3>1
      <4>2. CASE x = w
        BY <1>f, <1>s, <4>1, <4>2 DEF Somewhere
      <4>3. CASE x # w
        <5>1. Playing(x)' /\ thread'[x].ep = e
          BY <1>o, <4>1, <4>3 DEF Playing
        <5> QED BY <5>1 DEF Somewhere
      <4> QED BY <4>2, <4>3
    <3>2. CASE \E i \in 1..Len(results) : results[i].ok /\ results[i].ep = e
      BY <1>s, <3>2 DEF Somewhere
    <3>3. CASE \/ thread[Runner].pc = "next" /\ e > thread[Runner].ep
               \/ \E i \in 1..Len(jobs) : jobs[i] = e
               \/ Filled(e)
      BY <1>u, <1>o, <3>3 DEF Somewhere, Filled
    <3> QED BY <2>3, <3>1, <3>2, <3>3 DEF Somewhere
  <2>4. \A x \in Workers : thread'[x].pc = "ended" => thread[x].pc = "ended"
    BY <1>n, <1>o
  <2> QED BY <1>u, <1>w, <1>o, <2>1, <2>2, <2>3, <2>4 DEF ParallelOK, Filled
<1>7. MarketOK'
  BY <1>u, <1>m, <1>n DEF MarketOK, Filled
<1>8. OutcomeOK'
  BY <1>u, <1>o DEF OutcomeOK
<1> QED BY <1>1, <1>m, <1>2, <1>3, <1>6, <1>7, <1>8

LEMMA CloseResultsInv ==
  ASSUME Inv, CloseResults
  PROVE  Inv'
<1> USE DEF Inv
<1>u. /\ mode' = mode /\ seeds' = seeds /\ marketOK' = marketOK
      /\ cancelled' = cancelled /\ jobs' = jobs /\ jobsClosed' = jobsClosed
      /\ results' = results /\ resultsClosed' = TRUE /\ table' = table
      /\ parity' = parity /\ thread' = thread /\ outcome' = outcome
      /\ mode = "factorial" /\ \A w \in Workers : thread[w].pc = "ended"
  BY DEF CloseResults, static
<1>a. Twins' = Twins /\ \A u \in Threads : Arms(u)' = Arms(u)
  BY <1>u DEF Twins, Arms
<1>1. TypeInv' /\ PlayOK' /\ TableOK' /\ ResultsOK'
  BY <1>u, <1>a DEF TypeInv, PlayOK, TableOK, Filled, ResultsOK, ResultOK
<1>2. SequentialOK'
  BY <1>u DEF SequentialOK
<1>3. ParallelOK'
  BY <1>u DEF ParallelOK, Filled, Playing, Failing, Somewhere
<1>4. MarketOK' /\ OutcomeOK'
  BY <1>u DEF MarketOK, OutcomeOK, Filled
<1> QED BY <1>1, <1>2, <1>3, <1>4

\* The first error.
LEMMA CollectErrorInv ==
  ASSUME Inv, Collect, ~ results[1].ok
  PROVE  Inv'
<1> USE DEF Inv
<1>q. /\ results # << >> /\ Head(results) = results[1] /\ 1 \in 1..Len(results)
      /\ Tail(results) \in Seq(Result)
      /\ \A j \in 1..Len(Tail(results)) : \E i \in 1..Len(results) : results[i] = Tail(results)[j]
  BY Taken DEF Collect, TypeInv
<1>u. /\ mode' = mode /\ seeds' = seeds /\ marketOK' = marketOK
      /\ cancelled' = cancelled /\ jobs' = jobs /\ jobsClosed' = jobsClosed
      /\ resultsClosed' = resultsClosed /\ parity' = parity
      /\ thread[Runner].pc = "collect" /\ results' = Tail(results) /\ table' = table
      /\ outcome' = "error" /\ thread' = [thread EXCEPT ![Runner] = Idle("ended")]
  BY <1>q DEF Collect, static
<1>f. mode = "factorial"
  BY <1>u DEF SequentialOK
<1>a. Twins' = Twins /\ \A u \in Threads : Arms(u)' = Arms(u)
  BY <1>u DEF Twins, Arms
<1>b. Moves(Runner, Idle("ended"))
  BY <1>u, <1>a, IdleOK DEF Moves, PC
<1>m. /\ thread' \in Held /\ PlayOK' /\ thread'[Runner] = Idle("ended")
      /\ \A u \in Threads : u # Runner => thread'[u] = thread[u]
  BY <1>b, Moved, Goroutines
<1>n. thread'[Runner].pc = "ended" /\ thread'[Runner].sim = NotStarted
  BY <1>m DEF Idle
<1>w. \A x \in Workers : thread'[x] = thread[x]
  BY <1>m, Goroutines
<1>1. TypeInv'
  BY <1>u, <1>q, <1>m DEF TypeInv
<1>2. TableOK' /\ SequentialOK'
  BY <1>u, <1>f DEF TableOK, Filled, SequentialOK
<1>3. ResultsOK'
  <2>1. \A x : ResultOK(x)' = ResultOK(x)
    BY <1>u DEF ResultOK
  <2> QED BY <1>u, <1>q, <2>1 DEF ResultsOK
<1>4. ParallelOK'
  BY <1>u, <1>f, <1>n, <1>w DEF ParallelOK, Failing
<1>5. MarketOK'
  BY <1>u, <1>m, <1>n DEF MarketOK, Filled
<1>6. OutcomeOK'
  <2>1. cancelled \/ ~ marketOK
    BY <1>q DEF ResultsOK, ResultOK
  <2> QED BY <1>u, <1>n, <2>1 DEF OutcomeOK
<1> QED BY <1>1, <1>m, <1>2, <1>3, <1>4, <1>5, <1>6

LEMMA CollectInv ==
  ASSUME Inv, Collect, results[1].ok
  PROVE  Inv'
<1> USE DEF Inv
<1> DEFINE r == results[1]
<1>q. /\ results # << >> /\ Head(results) = r /\ 1 \in 1..Len(results) /\ r \in Result
      /\ Tail(results) \in Seq(Result)
      /\ \A i \in 1..Len(results) :
           i = 1 \/ \E j \in 1..Len(Tail(results)) : Tail(results)[j] = results[i]
      /\ \A j \in 1..Len(Tail(results)) : \E i \in 1..Len(results) : results[i] = Tail(results)[j]
  BY Taken DEF Collect, TypeInv
<1>u. /\ mode' = mode /\ seeds' = seeds /\ marketOK' = marketOK
      /\ cancelled' = cancelled /\ jobs' = jobs /\ jobsClosed' = jobsClosed
      /\ resultsClosed' = resultsClosed /\ parity' = parity
      /\ thread[Runner].pc = "collect" /\ results' = Tail(results)
      /\ table' = [table EXCEPT ![r.ep] = r.played]
      /\ outcome' = outcome /\ thread' = thread
  BY <1>q DEF Collect, static
<1>f. mode = "factorial" /\ outcome = "none"
  BY <1>u DEF SequentialOK, OutcomeOK, TypeInv
<1>r. /\ r.ep \in Eps /\ r.played \in Seq(Sim)
      /\ AllPlayed(r.played, ArmsOf[mode], seeds[r.ep])
  BY <1>q DEF Result, ResultsOK, ResultOK
<1>p. r.played # NotPlayed
  <2>1. Len(r.played) > 0
    BY <1>r, ArmsAreNamed DEF TypeInv, AllPlayed
  <2> HIDE DEF r
  <2> QED BY <2>1 DEF NotPlayed
<1>t. /\ table' \in [Eps -> Seq(Sim)] /\ table'[r.ep] = r.played
      /\ \A e \in Eps : e # r.ep => table'[e] = table[e]
  BY <1>u, <1>r DEF TypeInv
<1>a. Twins' = Twins /\ \A u \in Threads : Arms(u)' = Arms(u)
  BY <1>u, <1>f DEF Twins, Arms
<1>k. r.ok
  OBVIOUS
<1> HIDE DEF r
<1>1. TypeInv' /\ PlayOK'
  BY <1>u, <1>q, <1>t, <1>a DEF TypeInv, PlayOK
<1>2. TableOK'
  <2>1. ASSUME NEW e \in Eps, table'[e] # NotPlayed
        PROVE  AllPlayed(table'[e], ArmsOf[mode], seeds[e])
    BY <1>r, <1>t, <2>1 DEF TableOK, Filled
  <2> QED BY <1>u, <2>1 DEF TableOK, Filled
<1>3. ResultsOK'
  <2>1. \A x : ResultOK(x)' = ResultOK(x)
    BY <1>u DEF ResultOK
  <2> QED BY <1>u, <1>q, <2>1 DEF ResultsOK
<1>4. SequentialOK'
  BY <1>u, <1>f DEF SequentialOK
<1>5. ParallelOK'
  <2>1. Failing => Failing'
    <3>1. ASSUME NEW i \in 1..Len(results), ~ results[i].ok PROVE Failing'
      <4>1. i # 1
        BY <1>k, <3>1 DEF r
      <4>2. PICK j \in 1..Len(results') : results'[j] = results[i]
        BY <1>q, <1>u, <4>1
      <4> QED BY <3>1, <4>2 DEF Failing
    <3> QED BY <1>f, <3>1 DEF Failing
  <2>2. ASSUME NEW e \in Eps, Somewhere(e) PROVE Somewhere(e)'
    <3>1. Filled(e) => Filled(e)'
      BY <1>p, <1>t DEF Filled
    <3>2. e = r.ep => Filled(e)'
      BY <1>p, <1>t DEF Filled
    <3>3. CASE \E i \in 1..Len(results) : results[i].ok /\ results[i].ep = e
      <4>1. PICK i \in 1..Len(results) : results[i].ok /\ results[i].ep = e
        BY <3>3
      <4>2. CASE i = 1
        BY <3>2, <4>1, <4>2 DEF Somewhere, r
      <4>3. CASE i # 1
        <5>1. PICK j \in 1..Len(results') : results'[j] = results[i]
          BY <1>q, <1>u, <4>3
        <5> QED BY <4>1, <5>1 DEF Somewhere
      <4> QED BY <4>2, <4>3
    <3>4. CASE \/ thread[Runner].pc = "next" /\ e > thread[Runner].ep
               \/ \E i \in 1..Len(jobs) : jobs[i] = e
               \/ \E w \in Workers : Playing(w) /\ thread[w].ep = e
               \/ Filled(e)
      BY <1>u, <3>1, <3>4 DEF Somewhere, Playing
    <3> QED BY <2>2, <3>3, <3>4 DEF Somewhere
  <2> QED BY <1>u, <1>f, <2>1, <2>2 DEF ParallelOK
<1>6. MarketOK' /\ OutcomeOK'
  BY <1>u, <1>f DEF MarketOK, OutcomeOK
<1> QED BY <1>1, <1>2, <1>3, <1>4, <1>5, <1>6

LEMMA ReportFactorialInv ==
  ASSUME Inv, ReportFactorial
  PROVE  Inv'
<1> USE DEF Inv
<1>u. /\ mode' = mode /\ seeds' = seeds /\ marketOK' = marketOK
      /\ cancelled' = cancelled /\ jobs' = jobs /\ jobsClosed' = jobsClosed
      /\ results' = results /\ resultsClosed' = resultsClosed /\ table' = table
      /\ parity' = parity
      /\ thread[Runner].pc = "collect" /\ results = << >> /\ resultsClosed
      /\ outcome' = "report" /\ thread' = [thread EXCEPT ![Runner] = Idle("ended")]
  BY DEF ReportFactorial, static, channels
<1>f. mode = "factorial" /\ outcome = "none"
  BY <1>u DEF SequentialOK, OutcomeOK, TypeInv
<1>a. Twins' = Twins /\ \A u \in Threads : Arms(u)' = Arms(u)
  BY <1>u DEF Twins, Arms
<1>b. Moves(Runner, Idle("ended"))
  BY <1>u, <1>a, IdleOK DEF Moves, PC
<1>m. /\ thread' \in Held /\ PlayOK' /\ thread'[Runner] = Idle("ended")
      /\ \A u \in Threads : u # Runner => thread'[u] = thread[u]
  BY <1>b, Moved, Goroutines
<1>n. thread'[Runner].pc = "ended" /\ thread'[Runner].sim = NotStarted
  BY <1>m DEF Idle
<1>w. \A x \in Workers : thread'[x] = thread[x]
  BY <1>m, Goroutines
<1>1. TypeInv'
  BY <1>u, <1>m DEF TypeInv
<1>2. TableOK' /\ ResultsOK' /\ SequentialOK'
  BY <1>u, <1>f DEF TableOK, Filled, SequentialOK, ResultsOK, ResultOK
<1>4. ParallelOK'
  <2>1. ~ Failing
    BY <1>u, <1>f DEF Failing
  <2>2. \A w \in Workers : thread[w].pc = "ended"
    BY <1>u, <1>f DEF ParallelOK
  <2>3. jobs = << >>
    BY <1>f, <2>1, <2>2, Goroutines DEF ParallelOK
  <2>4. \A e \in Eps : Filled(e)
    BY <1>u, <1>f, <2>1, <2>2, <2>3 DEF ParallelOK, Somewhere, Playing
  <2> QED BY <1>u, <1>f, <1>n, <1>w, <2>1, <2>2, <2>3, <2>4 DEF ParallelOK, Filled, Somewhere
<1>5. MarketOK'
  BY <1>u, <1>m, <1>n DEF MarketOK, Filled
<1>6. OutcomeOK'
  BY <1>u, <1>f, <1>n DEF OutcomeOK
<1> QED BY <1>1, <1>m, <1>2, <1>4, <1>5, <1>6

-----------------------------------------------------------------------------
(* One goroutine *)

LEMMA NextEpisodeInv ==
  ASSUME Inv, NextEpisode
  PROVE  Inv'
<1> USE DEF Inv
<1> DEFINE th == thread[Runner]
           n == IF cancelled THEN Idle("ended") ELSE Beginning(th.ep + 1, ArmsOf[mode])
<1>u. /\ mode # "factorial" /\ mode' = mode /\ seeds' = seeds /\ marketOK' = marketOK
      /\ cancelled' = cancelled /\ jobs' = jobs /\ jobsClosed' = jobsClosed
      /\ results' = results /\ resultsClosed' = resultsClosed /\ table' = table
      /\ parity' = parity
      /\ th.pc = "next" /\ th.ep < Episodes
      /\ thread' = [thread EXCEPT ![Runner] = n]
      /\ IF cancelled THEN outcome' = "error" ELSE outcome' = outcome
  BY DEF NextEpisode, static, channels, Begin, Beginning
<1>t. th.ep \in Nat /\ th.ep + 1 \in Eps /\ th.ep \in 0..Episodes
  BY <1>u, Episode0, Goroutines DEF TypeInv, Held, Goroutine, Eps
<1>a. Twins' = Twins /\ ~ Twins /\ \A u \in Threads : Arms(u)' = ArmsOf[mode] /\ Arms(u) = ArmsOf[mode]
  <2>1. ~ Twins
    <3>1. ~ (Episodes <= th.ep) /\ Episodes \in Eps
      BY <1>u, <1>t, Episode0
    <3> QED BY <1>u, <3>1 DEF SequentialOK, Twins, Filled
  <2> QED BY <1>u, <2>1 DEF Twins, Arms
<1>n. /\ n \in Goroutine /\ ThreadOK(n, ArmsOf[mode], seeds)
      /\ n.sim = NotStarted
      /\ IF cancelled THEN n.pc = "ended" ELSE n.pc = "play" /\ n.ep = th.ep + 1
  <2>1. ArmsOf[mode] \in Seq(ArmNames) /\ Len(ArmsOf[mode]) > 0
    BY ArmsAreNamed DEF TypeInv
  <2>2. CASE cancelled
    BY <2>2, IdleOK DEF PC, Idle
  <2>3. CASE ~ cancelled
    BY <1>t, <2>1, <2>3, BeginOK DEF Beginning
  <2> QED BY <2>2, <2>3
<1> HIDE DEF n
<1>b. Moves(Runner, n)
  BY <1>u, <1>n, <1>a, Goroutines DEF Moves
<1>m. /\ thread' \in Held /\ PlayOK' /\ thread'[Runner] = n
      /\ \A u \in Threads : u # Runner => thread'[u] = thread[u]
  BY <1>b, Moved, Goroutines
<1>w. \A x \in Workers : thread'[x] = thread[x]
  BY <1>m, Goroutines
<1>1. TypeInv'
  BY <1>u, <1>m DEF TypeInv
<1>2. TableOK' /\ ResultsOK' /\ ParallelOK'
  BY <1>u DEF TableOK, Filled, ParallelOK, ResultsOK, ResultOK
<1>4. SequentialOK'
  <2>1. \A e \in Eps : Filled(e) <=> e < th.ep + 1
    <3>1. \A e \in Eps : e <= th.ep <=> e < th.ep + 1
      BY <1>t DEF Eps
    <3> QED BY <1>u, <3>1 DEF SequentialOK
  <2>2. outcome # "report"
    BY <1>u DEF OutcomeOK
  <2> QED BY <1>u, <1>a, <1>m, <1>n, <1>w, <2>1, <2>2 DEF SequentialOK, Filled, Playing
<1>5. MarketOK'
  BY <1>u, <1>m, <1>n DEF MarketOK, Filled
<1>6. OutcomeOK'
  BY <1>u, <1>m, <1>n DEF OutcomeOK
<1> QED BY <1>1, <1>m, <1>2, <1>4, <1>5, <1>6

LEMMA EnterEpisodeInv ==
  ASSUME Inv, EnterEpisode
  PROVE  Inv'
<1> USE DEF Inv
<1> DEFINE th == thread[Runner]
           n == [th EXCEPT !.pc = "next"]
<1>u. /\ mode' = mode /\ seeds' = seeds /\ marketOK' = marketOK
      /\ cancelled' = cancelled /\ jobs' = jobs /\ jobsClosed' = jobsClosed
      /\ results' = results /\ resultsClosed' = resultsClosed
      /\ parity' = parity /\ outcome' = outcome
      /\ th.pc = "played" /\ ~ Twins
      /\ table' = [table EXCEPT ![th.ep] = th.played]
  BY DEF EnterEpisode, static, channels
<1>t. thread \in Held /\ th \in Goroutine /\ Runner \in Threads
  BY Goroutines DEF TypeInv, Held
<1>f. mode # "factorial" /\ outcome = "none" /\ marketOK
  BY <1>u, <1>t DEF ParallelOK, OutcomeOK, MarketOK, TypeInv
<1>v. thread' = [thread EXCEPT ![Runner] = n]
  BY <1>t DEF EnterEpisode, Held
<1>n. n \in Goroutine /\ n.pc = "next" /\ n.ep = th.ep /\ n.sim = th.sim
  BY <1>t DEF Goroutine, PC
<1>h. ThreadOK(th, ArmsOf[mode], seeds)
  BY <1>u, <1>t DEF PlayOK, Arms
<1> HIDE DEF n
<1>p. /\ th.ep \in Eps /\ th.played \in Seq(Sim)
      /\ AllPlayed(th.played, ArmsOf[mode], seeds[th.ep]) /\ th.sim = NotStarted
  <2>a. th.pc = "played"
    BY <1>u
  <2> HIDE DEF th
  <2>b. th.played \in Seq(Sim) /\ Len(th.played) \in Nat
    BY <1>t DEF Goroutine
  <2>2. /\ th.ep \in Eps /\ Len(th.todo) = 0 /\ Len(th.played) + Len(th.todo) = Len(ArmsOf[mode])
        /\ \A i \in 1..Len(th.played) : th.played[i] = Final(ArmsOf[mode][i], seeds[th.ep])
    BY <1>h, <2>a, Zenon DEF ThreadOK
  <2>3. Len(th.played) = Len(ArmsOf[mode])
    BY <2>b, <2>2
  <2>4. th.sim = NotStarted
    BY <1>h, <2>a DEF ThreadOK
  <2> QED BY <2>b, <2>2, <2>3, <2>4 DEF AllPlayed
<1>e. th.played # NotPlayed
  <2>1. Len(th.played) > 0
    BY <1>p, ArmsAreNamed DEF TypeInv, AllPlayed
  <2> HIDE DEF th
  <2> QED BY <2>1 DEF NotPlayed
<1>x. /\ table' \in [Eps -> Seq(Sim)] /\ table'[th.ep] = th.played
      /\ \A e \in Eps : e # th.ep => table'[e] = table[e]
  BY <1>u, <1>p DEF TypeInv
<1>b. Moves(Runner, n)
  <2>1. ThreadOK(n, Arms(Runner)', seeds)
    BY <1>n, <1>p DEF ThreadOK
  <2>2. \A u \in Threads : u # Runner => Arms(u)' = Arms(u)
    BY <1>u DEF Arms
  <2> QED BY <1>u, <1>v, <1>n, <2>1, <2>2 DEF Moves
<1>m. /\ thread' \in Held /\ PlayOK' /\ thread'[Runner] = n
      /\ \A u \in Threads : u # Runner => thread'[u] = thread[u]
  BY <1>b, Moved, Goroutines
<1>w. \A x \in Workers : thread'[x] = thread[x]
  BY <1>m, Goroutines
<1>1. TypeInv'
  BY <1>u, <1>x, <1>m DEF TypeInv
<1>2. TableOK'
  <2>1. ASSUME NEW e \in Eps, table'[e] # NotPlayed
        PROVE  AllPlayed(table'[e], ArmsOf[mode], seeds[e])
    BY <1>p, <1>x, <2>1 DEF TableOK, Filled
  <2> QED BY <1>u, <2>1 DEF TableOK, Filled
<1>3. ResultsOK' /\ ParallelOK'
  BY <1>u, <1>f DEF ParallelOK, ResultsOK, ResultOK
<1>4. SequentialOK'
  <2>1. \A e \in Eps : table[e] # NotPlayed <=> e < th.ep
    BY <1>u, <1>f DEF SequentialOK, Playing, Filled
  <2>2. \A e \in Eps : table'[e] # NotPlayed <=> e <= th.ep
    <3>1. th.ep \in Nat /\ \A e \in Eps : e \in Nat
      BY <1>p DEF Eps
    <3>2. ASSUME NEW e \in Eps PROVE table'[e] # NotPlayed <=> e <= th.ep
      <4>1. CASE e = th.ep
        BY <1>e, <1>x, <3>1, <4>1
      <4>2. CASE e # th.ep
        <5>1. table'[e] = table[e] /\ (table[e] # NotPlayed <=> e < th.ep)
          BY <1>x, <2>1, <4>2
        <5>2. e <= th.ep <=> e < th.ep
          BY <3>1, <4>2
        <5> QED BY <5>1, <5>2
      <4> QED BY <4>1, <4>2
    <3> QED BY <3>2
  <2> QED BY <1>u, <1>f, <1>m, <1>n, <1>w, <2>2 DEF SequentialOK, Filled, Playing
<1>5. MarketOK' /\ OutcomeOK'
  BY <1>u, <1>f DEF MarketOK, OutcomeOK
<1> QED BY <1>1, <1>m, <1>2, <1>3, <1>4, <1>5

LEMMA PlayTwinsInv ==
  ASSUME Inv, PlayTwins
  PROVE  Inv'
<1> USE DEF Inv
<1> DEFINE n == Beginning(1, <<"N0", "N0">>)
<1>u. /\ mode = "run" /\ mode' = mode /\ seeds' = seeds /\ marketOK' = marketOK
      /\ cancelled' = cancelled /\ jobs' = jobs /\ jobsClosed' = jobsClosed
      /\ results' = results /\ resultsClosed' = resultsClosed /\ table' = table
      /\ parity' = parity /\ outcome' = outcome
      /\ thread[Runner].pc = "next" /\ thread[Runner].ep = Episodes
      /\ thread' = [thread EXCEPT ![Runner] = n]
  BY DEF PlayTwins, static, channels, Begin, Beginning
<1>e. \A e \in Eps : Filled(e)
  BY <1>u, Episode0 DEF SequentialOK, Eps
<1>a. /\ Twins' = Twins /\ Twins /\ \A u \in Threads : Arms(u)' = Arms(u)
      /\ Arms(Runner) = <<"N0", "N0">>
  BY <1>u, <1>e, Episode0 DEF Twins, Arms, Filled
<1>n. /\ n \in Goroutine /\ ThreadOK(n, Arms(Runner), seeds)
      /\ n.sim = NotStarted /\ n.pc = "play"
  <2>1. <<"N0", "N0">> \in Seq(ArmNames) /\ Len(<<"N0", "N0">>) > 0
    BY DEF ArmNames
  <2>2. n \in Goroutine /\ ThreadOK(n, <<"N0", "N0">>, seeds)
    BY <2>1, BeginOK, Episode0
  <2> QED BY <1>a, <2>2 DEF Beginning
<1> HIDE DEF n
<1>b. Moves(Runner, n)
  BY <1>u, <1>n, <1>a, Goroutines DEF Moves
<1>m. /\ thread' \in Held /\ PlayOK' /\ thread'[Runner] = n
      /\ \A u \in Threads : u # Runner => thread'[u] = thread[u]
  BY <1>b, Moved, Goroutines
<1>w. \A x \in Workers : thread'[x] = thread[x]
  BY <1>m, Goroutines
<1>1. TypeInv'
  BY <1>u, <1>m DEF TypeInv
<1>2. TableOK' /\ ResultsOK' /\ ParallelOK'
  BY <1>u DEF TableOK, Filled, ParallelOK, ResultsOK, ResultOK
<1>4. SequentialOK'
  BY <1>u, <1>e, <1>a, <1>m, <1>n, <1>w DEF SequentialOK, Filled, Playing
<1>5. MarketOK'
  BY <1>u, <1>m, <1>n DEF MarketOK, Filled
<1>6. OutcomeOK'
  BY <1>u DEF OutcomeOK
<1> QED BY <1>1, <1>m, <1>2, <1>4, <1>5, <1>6

\* The twins had the same seed.
LEMMA CompareTwinsInv ==
  ASSUME Inv, CompareTwins
  PROVE  Inv'
<1> USE DEF Inv
<1> DEFINE th == thread[Runner]
<1>u. /\ mode = "run" /\ mode' = mode /\ seeds' = seeds /\ marketOK' = marketOK
      /\ cancelled' = cancelled /\ jobs' = jobs /\ jobsClosed' = jobsClosed
      /\ results' = results /\ resultsClosed' = resultsClosed /\ table' = table
      /\ outcome' = "report" /\ th.pc = "played" /\ Twins
      /\ thread' = [thread EXCEPT ![Runner] = Idle("ended")]
      /\ parity' = (Score(th.played[1]).net = Score(th.played[2]).net)
  BY DEF CompareTwins, static, channels, Twins
<1>a. Twins' = Twins /\ \A u \in Threads : Arms(u)' = Arms(u)
  BY <1>u DEF Twins, Arms
<1>p. parity' = TRUE
  <2>1. ThreadOK(th, <<"N0", "N0">>, seeds) /\ th \in Goroutine
    BY <1>u, Goroutines DEF PlayOK, Arms, TypeInv, Held
  <2>2. th.pc = "played"
    BY <1>u
  <2>3. th.played[1] = th.played[2]
    <3> HIDE DEF th
    <3> DEFINE two == <<"N0", "N0">>
    <3>0. Len(two) = 2 /\ two[1] = two[2]
      OBVIOUS
    <3> HIDE DEF two
    <3>1. Len(th.played) \in Nat
      BY <2>1 DEF Goroutine
    <3>2. /\ Len(th.todo) = 0 /\ Len(th.played) + Len(th.todo) = Len(two)
          /\ \A i \in 1..Len(th.played) : th.played[i] = Final(two[i], seeds[th.ep])
      BY <2>1, <2>2, Zenon DEF ThreadOK, two
    <3>3. Len(th.played) = 2
      BY <3>0, <3>1, <3>2
    <3>4. 1 \in 1..Len(th.played) /\ 2 \in 1..Len(th.played)
      BY <3>3
    <3> QED BY <3>0, <3>2, <3>4
  <2> HIDE DEF th
  <2> QED BY <1>u, <2>3
<1>e. \A e \in Eps : Filled(e)
  BY <1>u DEF SequentialOK, Playing
<1>b. Moves(Runner, Idle("ended"))
  BY <1>u, <1>a, IdleOK DEF Moves, PC
<1>m. /\ thread' \in Held /\ PlayOK' /\ thread'[Runner] = Idle("ended")
      /\ \A u \in Threads : u # Runner => thread'[u] = thread[u]
  BY <1>b, Moved, Goroutines
<1>n. thread'[Runner].pc = "ended" /\ thread'[Runner].sim = NotStarted
  BY <1>m DEF Idle
<1>w. \A x \in Workers : thread'[x] = thread[x]
  BY <1>m, Goroutines
<1>1. TypeInv'
  BY <1>u, <1>m, <1>p DEF TypeInv
<1>2. TableOK' /\ ResultsOK' /\ ParallelOK'
  BY <1>u DEF TableOK, Filled, ParallelOK, ResultsOK, ResultOK
<1>4. SequentialOK'
  BY <1>u, <1>e, <1>n, <1>w DEF SequentialOK, Filled, Playing
<1>5. MarketOK'
  BY <1>u, <1>m, <1>n DEF MarketOK, Filled
<1>6. OutcomeOK'
  BY <1>u, <1>n, <1>p DEF OutcomeOK
<1> QED BY <1>1, <1>m, <1>2, <1>4, <1>5, <1>6

LEMMA ReportInv ==
  ASSUME Inv, Report
  PROVE  Inv'
<1> USE DEF Inv
<1>u. /\ mode \in {"tripartite", "fourway"} /\ mode' = mode /\ seeds' = seeds
      /\ marketOK' = marketOK
      /\ cancelled' = cancelled /\ jobs' = jobs /\ jobsClosed' = jobsClosed
      /\ results' = results /\ resultsClosed' = resultsClosed /\ table' = table
      /\ parity' = parity /\ outcome' = "report"
      /\ thread[Runner].pc = "next" /\ thread[Runner].ep = Episodes
      /\ thread' = [thread EXCEPT ![Runner] = Idle("ended")]
  BY DEF Report, static, channels
<1>a. Twins' = Twins /\ \A u \in Threads : Arms(u)' = Arms(u)
  BY <1>u DEF Twins, Arms
<1>e. \A e \in Eps : Filled(e)
  BY <1>u, Episode0 DEF SequentialOK, Eps
<1>b. Moves(Runner, Idle("ended"))
  BY <1>u, <1>a, IdleOK DEF Moves, PC
<1>m. /\ thread' \in Held /\ PlayOK' /\ thread'[Runner] = Idle("ended")
      /\ \A u \in Threads : u # Runner => thread'[u] = thread[u]
  BY <1>b, Moved, Goroutines
<1>n. thread'[Runner].pc = "ended" /\ thread'[Runner].sim = NotStarted
  BY <1>m DEF Idle
<1>w. \A x \in Workers : thread'[x] = thread[x]
  BY <1>m, Goroutines
<1>1. TypeInv'
  BY <1>u, <1>m DEF TypeInv
<1>2. TableOK' /\ ResultsOK' /\ ParallelOK'
  BY <1>u DEF TableOK, Filled, ParallelOK, ResultsOK, ResultOK
<1>4. SequentialOK'
  BY <1>u, <1>e, <1>n, <1>w DEF SequentialOK, Filled, Playing
<1>5. MarketOK'
  BY <1>u, <1>m, <1>n DEF MarketOK, Filled
<1>6. OutcomeOK'
  BY <1>u, <1>n DEF OutcomeOK
<1> QED BY <1>1, <1>m, <1>2, <1>4, <1>5, <1>6

-----------------------------------------------------------------------------
(* The theorems *)

LEMMA InvStarts ==
  ASSUME Init
  PROVE  Inv
<1>t. thread = [t \in Threads |-> Idle(IF t = Runner \/ mode = "factorial" THEN "next" ELSE "off")]
  BY DEF Init
<1>1. \A t \in Threads : \A arms :
        /\ thread[t] \in Goroutine /\ ThreadOK(thread[t], arms, seeds)
        /\ thread[t].sim = NotStarted /\ thread[t].ep = 0
        /\ thread[t].pc = IF t = Runner \/ mode = "factorial" THEN "next" ELSE "off"
  <2>1. ASSUME NEW label \in {"next", "off"}, NEW arms
        PROVE  /\ Idle(label) \in Goroutine /\ ThreadOK(Idle(label), arms, seeds)
               /\ Idle(label).sim = NotStarted /\ Idle(label).ep = 0 /\ Idle(label).pc = label
    <3>1. label \in PC \ {"play", "played"}
      BY DEF PC
    <3>2. Idle(label).sim = NotStarted /\ Idle(label).ep = 0 /\ Idle(label).pc = label
      BY DEF Idle
    <3> QED BY <3>1, <3>2, IdleOK
  <2> QED BY <1>t, <2>1
<1>2. TypeInv
  <2>1. NotPlayed \in Seq(Sim)
    BY DEF NotPlayed
  <2>2. thread \in Held
    BY <1>t, <1>1 DEF Held
  <2>3. table \in [Eps -> Seq(Sim)]
    BY <2>1 DEF Init
  <2>4. jobs \in Seq(Eps) /\ results \in Seq(Result)
    BY DEF Init
  <2>5. /\ mode \in Modes /\ seeds \in SeedTables /\ marketOK \in BOOLEAN
        /\ cancelled = FALSE /\ jobsClosed = FALSE /\ resultsClosed = FALSE
        /\ parity = FALSE /\ outcome = "none"
    BY DEF Init
  <2> QED BY <2>2, <2>3, <2>4, <2>5 DEF TypeInv
<1>3. PlayOK
  BY <1>1 DEF PlayOK
<1>4. TableOK /\ ResultsOK /\ \A e \in Eps : ~ Filled(e)
  BY DEF Init, TableOK, ResultsOK, Filled
<1>5. SequentialOK
  <2>1. \A e \in Eps : ~ (e <= 0)
    BY DEF Eps
  <2> QED BY <1>1, <1>4, <2>1, Goroutines DEF Init, SequentialOK, Playing
<1>6. ParallelOK
  <2>1. \A e \in Eps : e > 0
    BY DEF Eps
  <2>2. \A e \in Eps : thread[Runner].pc = "next" => Somewhere(e)
    BY <1>1, <2>1, Goroutines DEF Somewhere
  <2> QED BY <1>1, <1>4, <2>2, Goroutines DEF Init, ParallelOK
<1>7. MarketOK
  BY <1>1, <1>4 DEF MarketOK
<1>8. OutcomeOK
  BY DEF Init, OutcomeOK
<1> QED BY <1>2, <1>3, <1>4, <1>5, <1>6, <1>7, <1>8 DEF Inv

LEMMA PlayInv ==
  ASSUME Inv, NEW t \in Threads, Play(t)
  PROVE  Inv'
<1>1. (\E n : PlaysOn(t, n)) \/ GivesUp(t)
  BY PlayCases DEF Inv
<1>2. ASSUME NEW n, PlaysOn(t, n) PROVE Inv'
  BY <1>2, PlaysOnInv
<1>3. CASE GivesUp(t)
  BY <1>3, GivesUpInv
<1> QED BY <1>1, <1>2, <1>3

LEMMA InvSteps ==
  ASSUME Inv, [Next]_vars
  PROVE  Inv'
<1>1. CASE Cancel
  BY <1>1, CancelInv
<1>2. CASE Main
  <2>1. CASE Play(Runner)
    BY <2>1, PlayInv, Goroutines
  <2>2. CASE Enqueue
    BY <2>2, EnqueueInv
  <2>3. CASE CloseJobs
    BY <2>3, CloseJobsInv
  <2>4. CASE Collect
    BY <2>4, CollectInv, CollectErrorInv
  <2>5. CASE ReportFactorial
    BY <2>5, ReportFactorialInv
  <2>6. CASE NextEpisode
    BY <2>6, NextEpisodeInv
  <2>7. CASE EnterEpisode
    BY <2>7, EnterEpisodeInv
  <2>8. CASE PlayTwins
    BY <2>8, PlayTwinsInv
  <2>9. CASE CompareTwins
    BY <2>9, CompareTwinsInv
  <2>10. CASE Report
    BY <2>10, ReportInv
  <2> QED BY <1>2, <2>1, <2>2, <2>3, <2>4, <2>5, <2>6, <2>7, <2>8, <2>9, <2>10 DEF Main
<1>3. CASE CloseResults
  BY <1>3, CloseResultsInv
<1>4. ASSUME NEW w \in Workers, Work(w) PROVE Inv'
  <2>1. CASE Play(w)
    BY <2>1, PlayInv, Goroutines
  <2>2. CASE TakeJob(w)
    BY <2>2, TakeJobInv
  <2>3. CASE NoMoreJobs(w)
    BY <2>3, NoMoreJobsInv
  <2>4. CASE SendResult(w)
    BY <2>4, SendResultInv
  <2> QED BY <1>4, <2>1, <2>2, <2>3, <2>4 DEF Work
<1>5. CASE UNCHANGED vars
  <2>1. /\ mode' = mode /\ seeds' = seeds /\ marketOK' = marketOK /\ cancelled' = cancelled
        /\ jobs' = jobs /\ jobsClosed' = jobsClosed /\ results' = results
        /\ resultsClosed' = resultsClosed /\ table' = table /\ parity' = parity
        /\ thread' = thread /\ outcome' = outcome
    BY <1>5 DEF vars, static, channels
  <2>2. Twins' = Twins /\ \A u \in Threads : Arms(u)' = Arms(u)
    BY <2>1 DEF Twins, Arms
  <2>3. (TypeInv /\ PlayOK /\ TableOK /\ ResultsOK)'
    BY <2>1, <2>2 DEF Inv, TypeInv, PlayOK, TableOK, Filled, ResultsOK, ResultOK
  <2>4. SequentialOK'
    BY <2>1, <2>2 DEF Inv, SequentialOK, Filled, Playing
  <2>5. ParallelOK'
    BY <2>1 DEF Inv, ParallelOK, Filled, Playing, Failing, Somewhere
  <2>6. (MarketOK /\ OutcomeOK)'
    BY <2>1 DEF Inv, MarketOK, OutcomeOK, Filled
  <2> QED BY <2>3, <2>4, <2>5, <2>6 DEF Inv
<1> QED BY <1>1, <1>2, <1>3, <1>4, <1>5 DEF Next

\* Whatever the workers do and whenever the context is cancelled: what a
\* goroutine holds is the course of an arm on the seed of its episode, what
\* was entered is the arms of that episode, and until something fails no
\* episode is lost between the channels and the goroutines.
THEOREM TournamentInv == Spec => []Inv
<1>1. Init => Inv
  BY InvStarts
<1>2. Inv /\ [Next]_vars => Inv'
  BY InvSteps
<1> QED BY <1>1, <1>2, PTL DEF Spec

LEMMA FinalFacts ==
  ASSUME NEW name, NEW seed
  PROVE  /\ Final(name, seed).arm = name /\ Over(Final(name, seed))
         /\ Final(name, seed).log[1].offered = GenerateStochasticLoads(seed.arrivals, 0, 0)
<1>1. Final(name, seed).arm = name /\ Over(Final(name, seed))
  BY CourseFields, Episode0 DEF Final, Over
<1>2. Final(name, seed).log[1] = Entry(Course(name, seed)[0], seed)
  <2>1. 1 \in 1..Steps /\ 1 - 1 = 0
    BY Episode0
  <2> QED BY <2>1, LogFacts, Episode0 DEF Final
<1>3. Entry(Course(name, seed)[0], seed).offered = Course(name, seed)[0].loads
  BY DEF Entry
<1>4. Course(name, seed)[0].loads = GenerateStochasticLoads(seed.arrivals, 0, 0)
  BY CourseSteps, Started
<1> QED BY <1>1, <1>2, <1>3, <1>4

\* A report has every arm of every episode, played to its last step on the
\* seed of that episode; an error was caused by the context or the market's
\* configuration, and the twins of Run agree unless they were cancelled.
THEOREM ReportIsComplete == Spec => []ReportComplete
<1>1. Inv => ReportComplete
  <2> SUFFICES ASSUME Inv PROVE ReportComplete
    OBVIOUS
  <2> USE DEF Inv
  <2>1. ASSUME outcome = "report", NEW e \in Eps, NEW i \in 1..Len(ArmsOf[mode])
        PROVE  /\ Len(table[e]) = Len(ArmsOf[mode])
               /\ table[e][i].arm = ArmsOf[mode][i]
               /\ Over(table[e][i])
               /\ table[e][i].log[1].offered = GenerateStochasticLoads(seeds[e].arrivals, 0, 0)
    <3>1. Filled(e)
      BY <2>1 DEF SequentialOK, ParallelOK
    <3>2. /\ Len(table[e]) = Len(ArmsOf[mode])
          /\ table[e][i] = Final(ArmsOf[mode][i], seeds[e])
      BY <3>1 DEF TableOK, AllPlayed
    <3> QED BY <3>2, FinalFacts
  <2> QED BY <2>1 DEF ReportComplete, OutcomeOK
<1> QED BY <1>1, TournamentInv, PTL

\* The n-th entries of two arms of an episode.
Entries(x, y, seed, n, a, b) ==
  a = Entry(Course(x, seed)[n-1], seed) /\ b = Entry(Course(y, seed)[n-1], seed)

\* Equally many loads were on offer in each step before the n-th.
EquallyMany(x, y, seed, n) ==
  \A k \in 1..(n - 1) :
    Cardinality(Entry(Course(x, seed)[k-1], seed).offered)
      = Cardinality(Entry(Course(y, seed)[k-1], seed).offered)

LEMMA EntryFacts ==
  ASSUME NEW name, NEW seed, NEW k \in 0..Steps
  PROVE  LET c == Course(name, seed)[k] IN
           /\ Entry(c, seed).posture = NextPosture(c.posture, seed.market[c.pos + 1])
           /\ Entry(c, seed).offered = c.loads
           /\ Entry(c, seed).incoming = GenerateStochasticLoads(seed.arrivals, c.drawn, k + 1)
<1>1. DOMAIN Course(name, seed)[k] = Fields /\ Course(name, seed)[k].step = k
  BY CourseFields
<1>2. After(Advance(Course(name, seed)[k], seed), Course(name, seed)[k], seed)
  BY <1>1, Advanced
<1> QED BY <1>1, <1>2 DEF After, Incoming

LEMMA CommonEntries ==
  ASSUME NEW x, NEW y, NEW seed, NEW n \in 1..Steps, NEW a, NEW b,
         Entries(x, y, seed, n, a, b)
  PROVE  /\ a.incoming = b.incoming
         /\ EquallyMany(x, y, seed, n) => a.posture = b.posture
<1>0. n - 1 \in 0..Steps /\ \A k \in 1..(n - 1) : k - 1 \in 0..Steps
  BY Episode0
<1>1. Course(x, seed)[n-1].drawn = Course(y, seed)[n-1].drawn
  BY <1>0, SameDraws DEF Pair
<1>2. a.incoming = b.incoming
  BY <1>0, <1>1, EntryFacts DEF Entries
<1>3. ASSUME EquallyMany(x, y, seed, n) PROVE a.posture = b.posture
  <2>1. \A k \in 1..(n - 1) :
          Cardinality(Course(x, seed)[k-1].loads) = Cardinality(Course(y, seed)[k-1].loads)
    BY <1>0, <1>3, EntryFacts DEF EquallyMany
  <2>2. /\ Course(x, seed)[n-1].posture = Course(y, seed)[n-1].posture
        /\ Course(x, seed)[n-1].pos = Course(y, seed)[n-1].pos
    BY <1>0, <2>1, SameMarket DEF Pair
  <2> QED BY <1>0, <2>2, EntryFacts DEF Entries
<1> QED BY <1>2, <1>3

\* The arms of an episode are offered the same loads at a step and meet the
\* same posture as long as equally many were on offer before: a comparison of
\* arms is paired, whatever the arms decide.
THEOREM NumbersAreCommon == Spec => []CommonNumbers
<1>1. Inv => CommonNumbers
  <2> SUFFICES ASSUME Inv, NEW t \in Threads, thread[t].pc = "played",
                      NEW i \in DOMAIN thread[t].played, NEW j \in DOMAIN thread[t].played,
                      NEW n \in 1..Steps
               PROVE  LET a == thread[t].played[i].log
                          b == thread[t].played[j].log
                          offers(log, m) == [k \in 1..m |-> Cardinality(log[k].offered)]
                      IN  /\ a[n].incoming = b[n].incoming
                          /\ offers(a, n - 1) = offers(b, n - 1) => a[n].posture = b[n].posture
    BY DEF CommonNumbers
  <2> DEFINE p == thread[t].played
             seed == seeds[thread[t].ep]
             x == Arms(t)[i]
             y == Arms(t)[j]
             a == p[i].log
             b == p[j].log
             offers(log, m) == [k \in 1..m |-> Cardinality(log[k].offered)]
  <2>1. p[i] = Final(x, seed) /\ p[j] = Final(y, seed)
    <3>1. ThreadOK(thread[t], Arms(t), seeds) /\ p \in Seq(Sim)
      BY DEF Inv, PlayOK, TypeInv, Held, Goroutine
    <3>2. i \in 1..Len(p) /\ j \in 1..Len(p)
      BY <3>1
    <3> QED BY <3>1, <3>2 DEF ThreadOK
  <2>2. \A k \in 1..Steps : /\ a[k] = Entry(Course(x, seed)[k-1], seed)
                            /\ b[k] = Entry(Course(y, seed)[k-1], seed)
    BY <2>1, LogFacts, Episode0 DEF Final
  <2> HIDE DEF p, seed, x, y, a, b
  <2>3. Entries(x, y, seed, n, a[n], b[n])
    BY <2>2 DEF Entries
  <2>4. ASSUME offers(a, n - 1) = offers(b, n - 1)
        PROVE  EquallyMany(x, y, seed, n)
    <3>1. ASSUME NEW k \in 1..(n - 1)
          PROVE  Cardinality(a[k].offered) = Cardinality(b[k].offered)
      <4>1. offers(a, n - 1)[k] = offers(b, n - 1)[k]
        BY <2>4
      <4> QED BY <4>1
    <3>2. \A k \in 1..(n - 1) : k \in 1..Steps
      BY Episode0
    <3> QED BY <2>2, <3>1, <3>2 DEF EquallyMany
  <2>5. /\ a[n].incoming = b[n].incoming
        /\ offers(a, n - 1) = offers(b, n - 1) => a[n].posture = b[n].posture
    <3>1. a[n].incoming = b[n].incoming /\ (EquallyMany(x, y, seed, n) => a[n].posture = b[n].posture)
      BY <2>3, CommonEntries
    <3> HIDE DEF offers
    <3> QED BY <2>4, <3>1
  <2> QED BY <2>5 DEF a, b, p
<1> QED BY <1>1, TournamentInv, PTL

-----------------------------------------------------------------------------
(* Prices *)

Iterates(g, n, base, f) == g = [k \in 0..n |-> IF k = 0 THEN base ELSE f[g[k-1]]]

LEMMA IterationExists ==
  ASSUME NEW base, NEW f, NEW n \in Nat
  PROVE  \E g : Iterates(g, n, base, f)
<1> DEFINE T == {k \in Nat : \E g : Iterates(g, k, base, f)}
<1>1. 0 \in T
  <2>1. Iterates([i \in 0..0 |-> base], 0, base, f)
    <3>1. \A i \in 0..0 : i = 0
      OBVIOUS
    <3> QED BY <3>1 DEF Iterates
  <2> QED BY <2>1
<1>2. ASSUME NEW k \in 1..n, k - 1 \in T PROVE k \in T
  <2>1. k - 1 \in Nat /\ k \in Nat
    OBVIOUS
  <2>2. PICK g : Iterates(g, k - 1, base, f)
    BY <1>2
  <2> DEFINE step(x, i) == IF i = 0 THEN base ELSE f[x[i-1]]
             h == [i \in 0..k |-> step(g, i)]
  <2>3. \A i \in 0..(k - 1) : g[i] = step(g, i)
    BY <2>2 DEF Iterates
  <2>4. \A i \in 0..k : i # 0 => i - 1 \in 0..(k - 1) /\ i - 1 \in 0..k
    BY <2>1
  <2>5. \A i \in 0..k : h[i] = step(g, i)
    OBVIOUS
  <2>6. \A i \in 0..(k - 1) : h[i] = g[i]
    <3> HIDE DEF h, step
    <3>1. \A i \in 0..(k - 1) : i \in 0..k
      BY <2>1
    <3> QED BY <2>3, <2>5, <3>1
  <2>7. \A i \in 0..k : step(g, i) = step(h, i)
    <3> HIDE DEF h
    <3> QED BY <2>4, <2>6
  <2>8. h = [i \in 0..k |-> step(h, i)]
    <3> HIDE DEF step
    <3>1. h = [i \in 0..k |-> step(g, i)]
      BY DEF h
    <3> HIDE DEF h
    <3> QED BY <2>7, <3>1, Zenon
  <2>9. Iterates(h, k, base, f)
    <3> HIDE DEF h
    <3> QED BY <2>8 DEF Iterates
  <2> QED BY <2>1, <2>9
<1> HIDE DEF T
<1>3. \A k \in 0..n : k \in T
  BY <1>1, <1>2, UpTo
<1> QED BY <1>3 DEF T

LEMMA IterationStays ==
  ASSUME NEW S, NEW base \in S, NEW f, \A x \in S : f[x] \in S,
         NEW n \in Nat, NEW g, Iterates(g, n, base, f)
  PROVE  \A k \in 0..n : g[k] \in S
<1> DEFINE T == {k \in 0..n : g[k] \in S}
<1>1. 0 \in T
  BY DEF Iterates
<1>2. ASSUME NEW k \in 1..n, k - 1 \in T PROVE k \in T
  <2>1. k \in 0..n /\ k # 0 /\ g[k-1] \in S
    BY <1>2
  <2>2. g[k] = f[g[k-1]]
    BY <2>1 DEF Iterates
  <2> QED BY <2>1, <2>2
<1> HIDE DEF T
<1>3. \A k \in 0..n : k \in T
  BY <1>1, <1>2, UpTo
<1> QED BY <1>3 DEF T

LEMMA BestAreLoads ==
  ASSUME NEW loads, NEW clocks, NEW score
  PROVE  BestLoads(loads, clocks, score) \in SUBSET loads
<1> DEFINE better(l, k) == score[l] > score[k] \/ (score[l] = score[k] /\ l.id <= k.id)
           more == [S \in SUBSET loads |->
             {l \in loads \ S : score[l] > 0 /\ Matchable(S \cup {l}, clocks)}]
           best == [M \in SUBSET loads |-> {l \in M : \A k \in M : better(l, k)}]
           add == [S \in SUBSET loads |-> S \cup best[more[S]]]
           pick == CHOOSE g :
             g = [n \in 0..DriverCount |-> IF n = 0 THEN {} ELSE add[g[n - 1]]]
<1>1. BestLoads(loads, clocks, score) = pick[DriverCount]
  BY Zenon DEF BestLoads
<1>2. \A S \in SUBSET loads : add[S] \in SUBSET loads
  <2>1. \A S \in SUBSET loads : more[S] \in SUBSET loads
    OBVIOUS
  <2> HIDE DEF more
  <2>2. \A S \in SUBSET loads : best[S] \in SUBSET loads
    OBVIOUS
  <2> HIDE DEF best
  <2> QED BY <2>1, <2>2
<1>3. DriverCount \in Nat
  BY DriverAssumption
<1> HIDE DEF add
<1>4. pick = CHOOSE g : Iterates(g, DriverCount, {}, add)
  BY Zenon DEF Iterates
<1> HIDE DEF pick
<1>5. Iterates(pick, DriverCount, {}, add)
  <2>1. \E g : Iterates(g, DriverCount, {}, add)
    BY <1>3, IterationExists
  <2> QED BY <1>4, <2>1, Zenon
<1>6. \A k \in 0..DriverCount : pick[k] \in SUBSET loads
  <2> DEFINE P == SUBSET loads
  <2>1. {} \in P /\ \A S \in P : add[S] \in P
    BY <1>2
  <2> HIDE DEF P
  <2>2. \A k \in 0..DriverCount : pick[k] \in P
    BY <1>3, <1>5, <2>1, IterationStays
  <2> QED BY <2>2 DEF P
<1>7. DriverCount \in 0..DriverCount
  BY <1>3
<1> QED BY <1>1, <1>6, <1>7

\* Loads that their numbers tell apart.
Numbered(loads) == loads \subseteq Load /\ \A l, m \in loads : l.id = m.id => l = m

\* Every match has a bid above the cost and the base hurdle.
PricedBy(action, loads) ==
  /\ DOMAIN action.bids = action.matches
  /\ \A l \in loads : l.id \in action.matches =>
       action.bids[l.id] \in Int /\ action.bids[l.id] >= l.cost + 7500

LEMMA BidCovers ==
  ASSUME NEW l \in Load, NEW belief
  PROVE  BidPrice(l, belief) \in Int /\ BidPrice(l, belief) >= l.cost + 7500
<1> DEFINE a == l.miles * TargetRate(belief)
           b == l.cost + MinHurdle(belief)
<1>1. a \in Int
  BY DEF Load, TargetRate
<1>2. b \in Int /\ b >= l.cost + 7500
  BY DEF Load, MinHurdle, AggressivePercent
<1>3. BidPrice(l, belief) = Max({a, b})
  BY DEF BidPrice
<1> HIDE DEF a, b
<1>4. Max({a, b}) \in {a, b} /\ Max({a, b}) >= b
  <2>1. \E x \in {a, b} : \A y \in {a, b} : x >= y
    <3>1. CASE a >= b
      BY <1>1, <1>2, <3>1
    <3>2. CASE ~ (a >= b)
      BY <1>1, <1>2, <3>2
    <3> QED BY <3>1, <3>2
  <2> QED BY <2>1, Zenon DEF Max
<1>5. l.cost \in Int
  BY DEF Load
<1> QED BY <1>1, <1>2, <1>3, <1>4, <1>5

LEMMA EvaluatePrices ==
  ASSUME NEW arm, arm.prices, NEW loads, Numbered(loads), NEW clocks, NEW belief
  PROVE  PricedBy(Evaluate(arm, loads, clocks, belief), loads)
<1> DEFINE score == [l \in loads |->
             l.revenue - l.cost - (IF arm.risk THEN RiskPremium(l, belief) ELSE 0)]
           S == BestLoads(loads, clocks, score)
           load(i) == CHOOSE l \in loads : l.id = i
           ids == {l.id : l \in S}
           act == Evaluate(arm, loads, clocks, belief)
<1>1. S \in SUBSET loads
  BY BestAreLoads
<1>2. /\ act.matches = ids
      /\ act.bids = [i \in ids |-> BidPrice(load(i), belief)]
  <2> HIDE DEF S
  <2> QED BY <1>1 DEF Evaluate, S
<1>3. \A l \in loads : load(l.id) = l
  BY DEF Numbered
<1> HIDE DEF act, ids, load
<1>4. ASSUME NEW l \in loads, l.id \in ids
      PROVE  act.bids[l.id] \in Int /\ act.bids[l.id] >= l.cost + 7500
  <2>1. act.bids[l.id] = BidPrice(l, belief)
    BY <1>2, <1>3, <1>4
  <2>2. l \in Load
    BY DEF Numbered
  <2> QED BY <2>1, <2>2, BidCovers
<1>5. DOMAIN act.bids = act.matches
  BY <1>2
<1> QED BY <1>2, <1>4, <1>5 DEF PricedBy, act

\* What PricedArmsSound says of an entry of the log.
SoundEntry(e) ==
  /\ \A l \in e.won : CarrierPrice(l, e.action.bids) >= l.cost + 7500
  /\ \A f \in e.feedback : f.won <=> \E l \in e.won : l.id = f.id

LEMMA EntrySound ==
  ASSUME NEW s, NEW seed, Numbered(s.loads), Arm[s.arm].prices
  PROVE  SoundEntry(Entry(s, seed))
<1> DEFINE action == Decide(s)
           p == NextPosture(s.posture, seed.market[s.pos + 1])
           comp == [l \in s.loads |->
             CompetitorBid(l, p, seed.market[s.pos + 1 + Rank(l, s.loads)])]
           offered == {l \in s.loads : l.id \in action.matches}
           won == {l \in offered : Wins(CarrierPrice(l, action.bids), comp[l])}
           told(l) == [id |-> l.id,
                       won |-> Wins(FeedbackPrice(l, action.bids), comp[l]),
                       rate |-> RatePerMile(l, comp[l])]
           e == Entry(s, seed)
<1>1. PricedBy(action, s.loads)
  BY EvaluatePrices DEF Decide
<1>2. /\ e.won = won /\ e.action = action
      /\ e.feedback = {told(l) : l \in offered}
  BY DEF Entry, StepMarket, MarketStep
<1> HIDE DEF action, comp, e
<1>3. ASSUME NEW l \in offered
      PROVE  /\ CarrierPrice(l, action.bids) = action.bids[l.id]
             /\ FeedbackPrice(l, action.bids) = action.bids[l.id]
             /\ action.bids[l.id] >= l.cost + 7500
  <2>1. /\ l.id \in DOMAIN action.bids /\ action.bids[l.id] \in Int
        /\ action.bids[l.id] >= l.cost + 7500 /\ l.cost \in Nat
    BY <1>1 DEF PricedBy, Numbered, Load
  <2>2. action.bids[l.id] > 0
    BY <2>1
  <2> QED BY <2>1, <2>2 DEF CarrierPrice, FeedbackPrice
<1>4. ASSUME NEW l \in offered PROVE told(l).won <=> \E m \in won : m.id = told(l).id
  <2>1. told(l).won <=> Wins(action.bids[l.id], comp[l])
    BY <1>3
  <2>2. told(l).id = l.id
    OBVIOUS
  <2>3. \A m \in won : m.id = l.id => m = l
    BY DEF Numbered
  <2>4. l \in won <=> Wins(action.bids[l.id], comp[l])
    BY <1>3
  <2> HIDE DEF told, won, offered
  <2> QED BY <2>1, <2>2, <2>3, <2>4
<1> HIDE DEF told
<1>5. \A l \in won : CarrierPrice(l, action.bids) >= l.cost + 7500
  BY <1>3
<1>6. \A f \in {told(l) : l \in offered} : f.won <=> \E m \in won : m.id = f.id
  BY <1>4
<1> QED BY <1>2, <1>5, <1>6 DEF SoundEntry, e

LEMMA Positions ==
  ASSUME NEW k \in 0..Steps
  PROVE  /\ LoadsPerEpoch * (k + 1) \in Nat
         /\ LoadsPerEpoch * (k + 1) = LoadsPerEpoch * k + LoadsPerEpoch
         /\ LoadsPerEpoch * k \in Nat
         /\ LoadsPerEpoch * (k + 1) <= LoadsPerEpoch * (Steps + 1)
<1>1. LoadsPerEpoch \in Nat /\ Steps \in Nat /\ k \in Nat /\ Steps - k \in Nat
  BY EpisodeAssumption
<1>2. \A a, b \in Nat : a * b \in Nat /\ a * (b + 1) = a * b + a
  OBVIOUS
<1>3. \A a, b, c \in Nat : a * (b + c) = a * b + a * c
  OBVIOUS
<1>4. LoadsPerEpoch * ((k + 1) + (Steps - k))
        = LoadsPerEpoch * (k + 1) + LoadsPerEpoch * (Steps - k)
  BY <1>1, <1>3
<1>5. (k + 1) + (Steps - k) = Steps + 1
  BY <1>1
<1>6. /\ LoadsPerEpoch * (Steps - k) \in Nat /\ LoadsPerEpoch * (k + 1) \in Nat
      /\ LoadsPerEpoch * k \in Nat
      /\ LoadsPerEpoch * (k + 1) = LoadsPerEpoch * k + LoadsPerEpoch
  BY <1>1, <1>2
<1> QED BY <1>4, <1>5, <1>6

\* The loads that arrive at a step are numbered on from those before.
LEMMA Arrivals ==
  ASSUME NEW seed \in Draws, NEW k \in 0..Steps
  PROVE  LET G == GenerateStochasticLoads(seed.arrivals, LoadsPerEpoch * k, k) IN
           /\ Numbered(G)
           /\ \A l \in G : l.id > LoadsPerEpoch * k /\ l.id <= LoadsPerEpoch * (k + 1)
<1> DEFINE pos == LoadsPerEpoch * k
           a(i) == seed.arrivals[pos + i]
           l0(i) == [id |-> pos + i, born |-> k, miles |-> a(i).miles,
                     revenue |-> a(i).revenue, cost |-> a(i).cost, empty |-> a(i).empty]
           G == GenerateStochasticLoads(seed.arrivals, pos, k)
<1>1. G = {l0(i) : i \in 1..LoadsPerEpoch}
  BY DEF GenerateStochasticLoads
<1>2. /\ pos \in Nat /\ LoadsPerEpoch \in Nat /\ k \in Nat
      /\ LoadsPerEpoch * (k + 1) = pos + LoadsPerEpoch
      /\ pos + LoadsPerEpoch <= LoadsPerEpoch * (Steps + 1)
      /\ LoadsPerEpoch * (Steps + 1) \in Nat
  <2>1. LoadsPerEpoch * (Steps + 1) \in Nat
    BY Positions, Episode0
  <2> QED BY <2>1, Positions, EpisodeAssumption
<1>3. ASSUME NEW i \in 1..LoadsPerEpoch PROVE a(i) \in Kinds
  <2>1. PICK s \in SeedTables, e \in Eps : seed = s[e]
    BY DEF Draws
  <2> DEFINE last == LoadsPerEpoch * (Steps + 1)
  <2>2. pos + i \in 1..last
    <3> HIDE DEF pos, last
    <3> QED BY <1>2 DEF last
  <2> QED BY <2>1, <2>2, SeedAssumption DEF Eps
<1> HIDE DEF pos, G
<1>4. ASSUME NEW i \in 1..LoadsPerEpoch
      PROVE  l0(i) \in Load /\ l0(i).id = pos + i /\ pos + i \in Nat
  <2>1. a(i) \in [miles : Nat, revenue : Nat, cost : Nat, empty : Nat]
    BY <1>3, EpisodeAssumption
  <2>2. pos + i \in Nat
    BY <1>2
  <2> HIDE DEF a
  <2> QED BY <1>2, <2>1, <2>2 DEF Load
<1>5. ASSUME NEW l \in G PROVE \E i \in 1..LoadsPerEpoch : l = l0(i)
  BY <1>1
<1> HIDE DEF l0
<1>6. \A l \in G : l \in Load /\ l.id > pos /\ l.id <= pos + LoadsPerEpoch
  BY <1>2, <1>4, <1>5
<1>7. ASSUME NEW l \in G, NEW m \in G, l.id = m.id PROVE l = m
  <2>1. PICK i \in 1..LoadsPerEpoch : l = l0(i)
    BY <1>5
  <2>2. PICK j \in 1..LoadsPerEpoch : m = l0(j)
    BY <1>5
  <2>3. pos + i = pos + j
    BY <1>4, <1>7, <2>1, <2>2
  <2>4. i = j
    BY <1>2, <2>3
  <2> QED BY <2>1, <2>2, <2>4
<1> QED BY <1>2, <1>6, <1>7 DEF Numbered, G, pos

\* What is on offer after k steps.
OnOffer(s, k) ==
  /\ s.drawn = LoadsPerEpoch * (k + 1) /\ Numbered(s.loads)
  /\ \A l \in s.loads : l.id <= LoadsPerEpoch * (k + 1)

LEMMA CourseOffers ==
  ASSUME NEW name, NEW seed \in Draws
  PROVE  \A k \in 0..Steps : OnOffer(Course(name, seed)[k], k)
<1> DEFINE c == Course(name, seed)
           T == {k \in 0..Steps : OnOffer(c[k], k)}
<1>1. 0 \in T
  <2>1. c[0].drawn = LoadsPerEpoch /\ c[0].loads = GenerateStochasticLoads(seed.arrivals, 0, 0)
    BY CourseSteps, Started
  <2>2. LoadsPerEpoch * (0 + 1) = LoadsPerEpoch /\ LoadsPerEpoch * 0 = 0
    BY EpisodeAssumption
  <2> DEFINE G == GenerateStochasticLoads(seed.arrivals, LoadsPerEpoch * 0, 0)
  <2>3. Numbered(G) /\ \A l \in G : l.id <= LoadsPerEpoch * (0 + 1)
    BY Arrivals, Episode0
  <2> HIDE DEF c
  <2>4. OnOffer(c[0], 0)
    BY <2>1, <2>2, <2>3 DEF OnOffer
  <2> QED BY <2>4, Episode0
<1>2. ASSUME NEW k \in 1..Steps, k - 1 \in T PROVE k \in T
  <2> DEFINE s == c[k-1]
             G == GenerateStochasticLoads(seed.arrivals, LoadsPerEpoch * k, k)
  <2>1. /\ k \in 0..Steps /\ k - 1 \in 0..Steps /\ (k - 1) + 1 = k /\ k \in Nat
        /\ c[k] = Advance(s, seed)
    BY CourseSteps, Episode0
  <2>2. DOMAIN s = Fields /\ s.step = k - 1
    BY <2>1, CourseFields
  <2>3. s.drawn = LoadsPerEpoch * k /\ Numbered(s.loads) /\ \A l \in s.loads : l.id <= LoadsPerEpoch * k
    BY <1>2, <2>1 DEF OnOffer
  <2>4. c[k].drawn = s.drawn + LoadsPerEpoch /\ c[k].loads \subseteq s.loads \cup Incoming(s, seed)
    <3>1. After(c[k], s, seed)
      BY <2>1, <2>2, Advanced
    <3> QED BY <3>1 DEF After
  <2>5. Incoming(s, seed) = G
    BY <2>1, <2>2, <2>3 DEF Incoming
  <2>6. /\ Numbered(G)
        /\ \A l \in G : l.id > LoadsPerEpoch * k /\ l.id <= LoadsPerEpoch * (k + 1)
    BY <2>1, Arrivals
  <2>7. /\ LoadsPerEpoch * (k + 1) = LoadsPerEpoch * k + LoadsPerEpoch
        /\ LoadsPerEpoch * k \in Nat /\ LoadsPerEpoch \in Nat
    BY <2>1, Positions, EpisodeAssumption
  <2> DEFINE low == LoadsPerEpoch * k
             high == LoadsPerEpoch * (k + 1)
             old == s.loads
             new == c[k].loads
  <2>8. /\ new \subseteq old \cup G /\ c[k].drawn = high
    BY <2>3, <2>4, <2>5, <2>7
  <2>9. /\ Numbered(old) /\ Numbered(G) /\ low \in Nat /\ high \in Nat /\ low <= high
        /\ \A l \in old : l.id <= low
        /\ \A l \in G : l.id > low /\ l.id <= high
    BY <2>3, <2>6, <2>7
  <2>10. OnOffer(c[k], k)
    <3>1. c[k].drawn = high /\ new = c[k].loads
      BY <2>8
    <3>2. Numbered(new) /\ \A l \in new : l.id <= high
      <4> HIDE DEF new, old, G, low, high
      <4>1. \A l \in new : l \in Load /\ l.id \in Nat
        BY <2>8, <2>9 DEF Numbered, Load
      <4>2. \A l, m \in new : l.id = m.id => l = m
        BY <2>8, <2>9, <4>1 DEF Numbered
      <4> QED BY <2>8, <2>9, <4>1, <4>2 DEF Numbered
    <3> QED BY <3>1, <3>2 DEF OnOffer
  <2> QED BY <2>1, <2>10
<1> HIDE DEF T
<1>3. \A k \in 0..Steps : k \in T
  BY <1>1, <1>2, UpTo, Episode0
<1> QED BY <1>3 DEF T

\* An arm that prices never wins a load below its cost and the base hurdle,
\* however the auctions went, and is told the truth of its bids.
THEOREM PricedArmsAreSound == Spec => []PricedArmsSound
<1>1. Inv => PricedArmsSound
  <2> SUFFICES ASSUME Inv, NEW s \in Sims, Arm[s.arm].prices, NEW i \in DOMAIN s.log
               PROVE  SoundEntry(s.log[i])
    BY DEF PricedArmsSound, SoundEntry
  <2>1. PICK t \in Threads : s = thread[t].sim /\ thread[t].sim # NotStarted
    BY DEF Sims
  <2> DEFINE name == Head(thread[t].todo)
             seed == seeds[thread[t].ep]
             c == Course(name, seed)
  <2>2. /\ ThreadOK(thread[t], Arms(t), seeds) /\ seeds \in SeedTables
    BY DEF Inv, PlayOK, TypeInv
  <2>3. thread[t].pc = "play" /\ thread[t].ep \in Eps
    BY <2>1, <2>2 DEF ThreadOK
  <2>4. seed \in Draws
    BY <2>2, <2>3, InDraws
  <2>5. PICK k \in 0..Steps : s = c[k]
    BY <2>1, <2>2 DEF ThreadOK
  <2>6. s.arm = name /\ DOMAIN s.log = 1..k /\ s.log[i] = Entry(c[i-1], seed) /\ i - 1 \in 0..Steps
    BY <2>5, CourseFields, LogFacts
  <2>7. c[i-1].arm = name /\ OnOffer(c[i-1], i - 1)
    BY <2>4, <2>6, CourseFields, CourseOffers
  <2> QED BY <2>6, <2>7, EntrySound DEF OnOffer
<1> QED BY <1>1, TournamentInv, PTL

-----------------------------------------------------------------------------
(* Sums over sets: shown on a smallest counterexample among the subsets *)

\* A set of subsets of a finite set has a member no other one is part of.
LEMMA MinimalSet ==
  ASSUME NEW S, IsFiniteSet(S), NEW F \in SUBSET (SUBSET S), F # {}
  PROVE  \E T \in F : \A U \in F : U \subseteq T => U = T
<1>1. IsWellFoundedOn(StrictSubsetOrdering(S), FiniteSubsetsOf(S))
  BY FS_StrictSubsetOrderingWellFounded
<1>2. F \subseteq FiniteSubsetsOf(S)
  <2>1. \A T \in SUBSET S : IsFiniteSet(T)
    BY FS_Subset
  <2> QED BY <2>1 DEF FiniteSubsetsOf
<1>3. PICK T \in F : \A U \in F : ~ (<<U, T>> \in StrictSubsetOrdering(S))
  BY <1>1, <1>2, WFMin
<1> QED BY <1>3 DEF StrictSubsetOrdering

\* What a function adds up to over a set.
Total(f, S) == MapThenSumSet(LAMBDA x : f[x], S)

\* What the recursion of MapThenSumSet asks of the sums over the parts of S.
Sums(g, f, S) ==
  g = [s \in SUBSET S |->
        IF s = {} THEN 0 ELSE f[CHOOSE x \in s : TRUE] + g[s \ {CHOOSE x \in s : TRUE}]]

LEMMA TotalIs ==
  ASSUME NEW f, NEW S
  PROVE  Total(f, S) = (CHOOSE g : Sums(g, f, S))[S]
BY Zenon DEF Total, MapThenSumSet, MapThenFoldSet, Sums

LEMMA SumsStep ==
  ASSUME NEW f, NEW S, NEW g, Sums(g, f, S), NEW s \in SUBSET S
  PROVE  /\ s = {} => g[s] = 0
         /\ s # {} => \E x \in s : /\ x = CHOOSE y \in s : TRUE
                                   /\ g[s] = f[x] + g[s \ {x}]
<1>1. g = [t \in SUBSET S |->
        IF t = {} THEN 0 ELSE f[CHOOSE x \in t : TRUE] + g[t \ {CHOOSE x \in t : TRUE}]]
  BY DEF Sums
<1>2. g[s] = IF s = {} THEN 0 ELSE f[CHOOSE x \in s : TRUE] + g[s \ {CHOOSE x \in s : TRUE}]
  BY <1>1, Zenon
<1> QED BY <1>2

LEMMA SumsAgree ==
  ASSUME NEW f, NEW S, IsFiniteSet(S), NEW T \in SUBSET S,
         NEW g, Sums(g, f, S), NEW h, Sums(h, f, T)
  PROVE  g[T] = h[T]
<1> DEFINE F == {a \in SUBSET T : g[a] # h[a]}
<1>1. F = {}
  <2> SUFFICES ASSUME F # {} PROVE FALSE
    OBVIOUS
  <2>1. IsFiniteSet(T) /\ F \in SUBSET (SUBSET T)
    BY FS_Subset
  <2>2. PICK a \in F : \A b \in F : b \subseteq a => b = a
    <3> HIDE DEF F
    <3> QED BY <2>1, MinimalSet
  <2>3. a \in SUBSET T /\ a \in SUBSET S /\ g[a] # h[a]
    OBVIOUS
  <2>4. a # {}
    BY <2>3, SumsStep
  <2>5. PICK x \in a : x = (CHOOSE y \in a : TRUE) /\ g[a] = f[x] + g[a \ {x}]
    BY <2>3, <2>4, SumsStep
  <2>6. h[a] = f[x] + h[a \ {x}]
    <3>1. \E y \in a : y = (CHOOSE z \in a : TRUE) /\ h[a] = f[y] + h[a \ {y}]
      BY <2>3, <2>4, SumsStep
    <3> QED BY <2>5, <3>1
  <2>7. g[a \ {x}] = h[a \ {x}]
    BY <2>2, <2>3, <2>5
  <2> QED BY <2>3, <2>5, <2>6, <2>7
<1> QED BY <1>1

LEMMA SumsExist ==
  ASSUME NEW f, NEW S, IsFiniteSet(S)
  PROVE  \E g : Sums(g, f, S)
<1> DEFINE F == {a \in SUBSET S : ~ \E g : Sums(g, f, a)}
<1>1. F = {}
  <2> SUFFICES ASSUME F # {} PROVE FALSE
    OBVIOUS
  <2>1. PICK a \in F : \A b \in F : b \subseteq a => b = a
    <3>1. F \in SUBSET (SUBSET S)
      OBVIOUS
    <3> HIDE DEF F
    <3> QED BY <3>1, MinimalSet
  <2>2. a \in SUBSET S /\ IsFiniteSet(a) /\ ~ \E g : Sums(g, f, a)
    BY FS_Subset
  <2> DEFINE below(b) == CHOOSE g : Sums(g, f, b)
             pick(b) == CHOOSE y \in b : TRUE
             g == [b \in SUBSET a |-> IF b = {} THEN 0
                                      ELSE f[pick(b)] + below(b \ {pick(b)})[b \ {pick(b)}]]
  <2>3. \A b \in SUBSET a : b # a => IsFiniteSet(b) /\ Sums(below(b), f, b)
    <3> SUFFICES ASSUME NEW b \in SUBSET a, b # a PROVE IsFiniteSet(b) /\ Sums(below(b), f, b)
      OBVIOUS
    <3>1. IsFiniteSet(b)
      BY <2>2, FS_Subset
    <3>2. b \in SUBSET S /\ b \notin F
      BY <2>1, <2>2
    <3>3. \E k : Sums(k, f, b)
      BY <3>2
    <3>4. Sums(below(b), f, b)
      BY <3>3, Zenon
    <3> QED BY <3>1, <3>4
  <2>4. \A b \in SUBSET a : b # {} => pick(b) \in b
    OBVIOUS
  <2>5. \A b \in SUBSET a : b # a => g[b] = below(b)[b]
    <3> SUFFICES ASSUME NEW b \in SUBSET a, b # a PROVE g[b] = below(b)[b]
      OBVIOUS
    <3>1. Sums(below(b), f, b) /\ IsFiniteSet(b)
      BY <2>3
    <3>2. CASE b = {}
      <4>1. below(b)[b] = 0
        BY <3>1, <3>2, SumsStep
      <4>2. g[b] = 0
        BY <3>2, Zenon
      <4> QED BY <4>1, <4>2
    <3>3. CASE b # {}
      <4> DEFINE x == pick(b)
                 r == b \ {x}
      <4>1. x \in b /\ r \in SUBSET b /\ r \in SUBSET a /\ r # a
        BY <2>4, <3>3
      <4>2. g[b] = f[x] + below(r)[r]
        BY <3>3, Zenon
      <4>3. below(b)[b] = f[x] + below(b)[r]
        <5> HIDE DEF below
        <5>1. \E y \in b : y = pick(b) /\ below(b)[b] = f[y] + below(b)[b \ {y}]
          BY <3>1, <3>3, SumsStep
        <5> QED BY <5>1
      <4>4. Sums(below(r), f, r)
        BY <2>3, <4>1
      <4> HIDE DEF below, r, x
      <4>5. below(b)[r] = below(r)[r]
        BY <3>1, <4>1, <4>4, SumsAgree
      <4> QED BY <4>2, <4>3, <4>5
    <3> QED BY <3>2, <3>3
  <2>6. \A b \in SUBSET a : b # {} => g[b] = f[pick(b)] + g[b \ {pick(b)}]
    <3> SUFFICES ASSUME NEW b \in SUBSET a, b # {}
                 PROVE  g[b] = f[pick(b)] + g[b \ {pick(b)}]
      OBVIOUS
    <3> DEFINE r == b \ {pick(b)}
    <3>1. g[b] = f[pick(b)] + below(r)[r]
      BY Zenon
    <3>2. r \in SUBSET a /\ r # a
      BY <2>4
    <3>3. g[r] = below(r)[r]
      BY <2>5, <3>2
    <3> QED BY <3>1, <3>3
  <2>7. g[{}] = 0
    BY Zenon
  <2>8. Sums(g, f, a)
    <3> DEFINE q == [b \in SUBSET a |->
          IF b = {} THEN 0 ELSE f[pick(b)] + g[b \ {pick(b)}]]
    <3>1. \A b \in SUBSET a : g[b] = q[b]
      <4> SUFFICES ASSUME NEW b \in SUBSET a PROVE g[b] = q[b]
        OBVIOUS
      <4>1. q[b] = IF b = {} THEN 0 ELSE f[pick(b)] + g[b \ {pick(b)}]
        BY Zenon
      <4> HIDE DEF g, q
      <4> QED BY <2>6, <2>7, <4>1
    <3>2. g = q
      <4>1. g = [b \in SUBSET a |-> g[b]]
        OBVIOUS
      <4>2. q = [b \in SUBSET a |-> q[b]]
        OBVIOUS
      <4> HIDE DEF g, q
      <4> QED BY <3>1, <4>1, <4>2
    <3> HIDE DEF g
    <3> QED BY <3>2, Zenon DEF Sums
  <2> QED BY <2>2, <2>8
<1> QED BY <1>1

\* The total over no element is 0, that over a set is that of an element and of
\* the others.
LEMMA TotalEmpty ==
  ASSUME NEW f
  PROVE  Total(f, {}) = 0
<1>1. IsFiniteSet({}) /\ {} \in SUBSET {}
  BY FS_EmptySet
<1>2. Sums(CHOOSE g : Sums(g, f, {}), f, {})
  BY <1>1, SumsExist
<1> QED BY <1>1, <1>2, TotalIs, SumsStep

LEMMA TotalPick ==
  ASSUME NEW f, NEW S, IsFiniteSet(S), S # {}
  PROVE  \E x \in S : Total(f, S) = f[x] + Total(f, S \ {x})
<1> DEFINE q(T) == CHOOSE g : Sums(g, f, T)
<1>1. \A T \in SUBSET S : IsFiniteSet(T)
  BY FS_Subset
<1>2. \A T \in SUBSET S : Sums(q(T), f, T)
  <2> SUFFICES ASSUME NEW T \in SUBSET S PROVE Sums(q(T), f, T)
    OBVIOUS
  <2>1. \E g : Sums(g, f, T)
    BY <1>1, SumsExist
  <2> QED BY <2>1, Zenon
<1>3. \A T \in SUBSET S : Total(f, T) = q(T)[T]
  BY TotalIs
<1> HIDE DEF q
<1>4. PICK x \in S : q(S)[S] = f[x] + q(S)[S \ {x}]
  BY <1>2, SumsStep
<1>5. q(S)[S \ {x}] = q(S \ {x})[S \ {x}]
  BY <1>2, SumsAgree
<1> QED BY <1>3, <1>4, <1>5

LEMMA TotalInt ==
  ASSUME NEW f, NEW S, IsFiniteSet(S), \A e \in S : f[e] \in Int
  PROVE  Total(f, S) \in Int
<1> DEFINE F == {a \in SUBSET S : Total(f, a) \notin Int}
<1>1. F = {}
  <2> SUFFICES ASSUME F # {} PROVE FALSE
    OBVIOUS
  <2>1. F \in SUBSET (SUBSET S) /\ \A a \in F : Total(f, a) \notin Int
    OBVIOUS
  <2>2. \A a \in SUBSET S : a \notin F => Total(f, a) \in Int
    OBVIOUS
  <2> HIDE DEF F
  <2>3. PICK a \in F : \A b \in F : b \subseteq a => b = a
    BY <2>1, MinimalSet
  <2>4. a # {}
    <3> SUFFICES ASSUME a = {} PROVE FALSE
      OBVIOUS
    <3>1. Total(f, a) = 0
      BY TotalEmpty
    <3>2. Total(f, a) \notin Int
      BY <2>1
    <3> QED BY <3>1, <3>2
  <2>5. IsFiniteSet(a)
    BY <2>1, FS_Subset
  <2>6. PICK x \in a : Total(f, a) = f[x] + Total(f, a \ {x})
    BY <2>4, <2>5, TotalPick
  <2>7. a \ {x} \in SUBSET S /\ a \ {x} \notin F /\ f[x] \in Int
    BY <2>1, <2>3
  <2>8. Total(f, a \ {x}) \in Int
    BY <2>2, <2>7
  <2> QED BY <2>1, <2>6, <2>7, <2>8
<1> QED BY <1>1

LEMMA TotalRemove ==
  ASSUME NEW f, NEW S, IsFiniteSet(S), \A e \in S : f[e] \in Int, NEW x \in S
  PROVE  Total(f, S) = f[x] + Total(f, S \ {x})
<1> DEFINE Splits(a, y) == Total(f, a) = f[y] + Total(f, a \ {y})
           F == {a \in SUBSET S : \E y \in a : ~ Splits(a, y)}
<1>1. F = {}
  <2> SUFFICES ASSUME F # {} PROVE FALSE
    OBVIOUS
  <2>1. F \in SUBSET (SUBSET S) /\ \A a \in F : \E y \in a : ~ Splits(a, y)
    OBVIOUS
  <2>2. \A a \in SUBSET S : a \notin F => \A y \in a : Splits(a, y)
    OBVIOUS
  <2> HIDE DEF F
  <2>3. PICK a \in F : \A b \in F : b \subseteq a => b = a
    BY <2>1, MinimalSet
  <2>4. PICK y \in a : ~ Splits(a, y)
    BY <2>1
  <2>5. PICK z \in a : Splits(a, z)
    <3>1. IsFiniteSet(a)
      BY <2>1, FS_Subset
    <3> QED BY <2>4, <3>1, TotalPick
  <2>6. y # z
    BY <2>4, <2>5
  <2>7. a \ {y} \notin F /\ a \ {z} \notin F /\ a \in SUBSET S
    BY <2>1, <2>3
  <2>8. Splits(a \ {y}, z) /\ Splits(a \ {z}, y)
    BY <2>2, <2>6, <2>7
  <2>9. (a \ {y}) \ {z} = (a \ {z}) \ {y}
    OBVIOUS
  <2>10. f[y] \in Int /\ f[z] \in Int /\ Total(f, (a \ {z}) \ {y}) \in Int
    <3>1. IsFiniteSet((a \ {z}) \ {y}) /\ (a \ {z}) \ {y} \subseteq S
      BY <2>7, FS_Subset
    <3> QED BY <2>7, <3>1, TotalInt
  <2> HIDE DEF Splits
  <2>11. /\ Total(f, a) = f[z] + Total(f, a \ {z})
         /\ Total(f, a \ {z}) = f[y] + Total(f, (a \ {z}) \ {y})
         /\ Total(f, a \ {y}) = f[z] + Total(f, (a \ {z}) \ {y})
    BY <2>5, <2>8, <2>9 DEF Splits
  <2>12. Total(f, a) = f[y] + Total(f, a \ {y})
    BY <2>10, <2>11
  <2> QED BY <2>4, <2>12 DEF Splits
<1>2. S \notin F
  BY <1>1
<1> QED BY <1>2

\* Functions that agree on a set have one total over it.
LEMMA TotalSame ==
  ASSUME NEW f, NEW g, NEW S, IsFiniteSet(S), \A x \in S : f[x] = g[x] /\ f[x] \in Int
  PROVE  Total(f, S) = Total(g, S)
<1> DEFINE F == {a \in SUBSET S : Total(f, a) # Total(g, a)}
<1>1. F = {}
  <2> SUFFICES ASSUME F # {} PROVE FALSE
    OBVIOUS
  <2>1. /\ F \in SUBSET (SUBSET S) /\ \A a \in F : Total(f, a) # Total(g, a)
        /\ \A a \in SUBSET S : a \notin F => Total(f, a) = Total(g, a)
    OBVIOUS
  <2> HIDE DEF F
  <2>2. PICK a \in F : \A b \in F : b \subseteq a => b = a
    BY <2>1, MinimalSet
  <2>3. a \in SUBSET S /\ IsFiniteSet(a)
    BY <2>1, FS_Subset
  <2>4. a # {}
    <3>1. Total(f, {}) = 0 /\ Total(g, {}) = 0
      BY TotalEmpty
    <3> QED BY <2>1, <3>1
  <2>5. PICK x \in a : TRUE
    BY <2>4
  <2>6. /\ Total(f, a) = f[x] + Total(f, a \ {x})
        /\ Total(g, a) = g[x] + Total(g, a \ {x})
    <3>1. \A y \in a : f[y] \in Int /\ g[y] \in Int
      BY <2>3
    <3> QED BY <2>3, <3>1, TotalRemove
  <2>7. Total(f, a \ {x}) = Total(g, a \ {x})
    BY <2>1, <2>2, <2>3
  <2>8. f[x] = g[x]
    BY <2>3
  <2> QED BY <2>1, <2>5, <2>6, <2>7, <2>8
<1> QED BY <1>1

\* What two sets without a common element make up together.
LEMMA TotalUnion ==
  ASSUME NEW f, NEW S, NEW T, IsFiniteSet(S), IsFiniteSet(T), S \cap T = {},
         \A x \in S \cup T : f[x] \in Int
  PROVE  Total(f, S \cup T) = Total(f, S) + Total(f, T)
<1> DEFINE F == {a \in SUBSET T : Total(f, S \cup a) # Total(f, S) + Total(f, a)}
<1>1. F = {}
  <2> SUFFICES ASSUME F # {} PROVE FALSE
    OBVIOUS
  <2>1. /\ F \in SUBSET (SUBSET T) /\ \A a \in F : Total(f, S \cup a) # Total(f, S) + Total(f, a)
        /\ \A a \in SUBSET T : a \notin F => Total(f, S \cup a) = Total(f, S) + Total(f, a)
    OBVIOUS
  <2> HIDE DEF F
  <2>2. PICK a \in F : \A b \in F : b \subseteq a => b = a
    BY <2>1, MinimalSet
  <2>3. Total(f, S) \in Int
    BY TotalInt
  <2>4. a \in SUBSET T /\ IsFiniteSet(a) /\ IsFiniteSet(S \cup a)
    BY <2>1, FS_Subset, FS_Union
  <2>5. a # {}
    <3> SUFFICES ASSUME a = {} PROVE FALSE
      OBVIOUS
    <3>1. Total(f, a) = 0 /\ S \cup a = S
      BY TotalEmpty
    <3> QED BY <2>1, <2>3, <3>1
  <2>6. PICK x \in a : TRUE
    BY <2>5
  <2>7. x \in T /\ x \notin S /\ f[x] \in Int /\ a \ {x} \in SUBSET T
    BY <2>4
  <2>8. Total(f, a) = f[x] + Total(f, a \ {x})
    BY <2>4, TotalRemove
  <2>9. Total(f, S \cup a) = f[x] + Total(f, (S \cup a) \ {x})
    <3>1. x \in S \cup a /\ \A y \in S \cup a : f[y] \in Int
      BY <2>4
    <3> QED BY <2>4, <3>1, TotalRemove
  <2>10. (S \cup a) \ {x} = S \cup (a \ {x})
    BY <2>7
  <2>11. Total(f, S \cup (a \ {x})) = Total(f, S) + Total(f, a \ {x})
    <3>1. a \ {x} \notin F
      BY <2>2, <2>6
    <3> QED BY <2>1, <2>7, <3>1
  <2>12. Total(f, a \ {x}) \in Int
    <3>1. IsFiniteSet(a \ {x}) /\ \A y \in a \ {x} : f[y] \in Int
      BY <2>4, <2>7, FS_Subset
    <3> QED BY <3>1, TotalInt
  <2>13. Total(f, S \cup a) = Total(f, S) + Total(f, a)
    <3> DEFINE u == Total(f, S \cup (a \ {x}))
               v == Total(f, a \ {x})
               w == Total(f, S)
    <3>1. Total(f, S \cup a) = f[x] + u /\ u = w + v /\ Total(f, a) = f[x] + v
      BY <2>8, <2>9, <2>10, <2>11
    <3> HIDE DEF u, v, w
    <3>2. f[x] \in Int /\ v \in Int /\ w \in Int
      BY <2>3, <2>7, <2>12 DEF v, w
    <3> QED BY <3>1, <3>2 DEF w
  <2> QED BY <2>1, <2>13
<1>2. T \notin F
  BY <1>1
<1> QED BY <1>2

\* Whatever adds up like a total is the total.
LEMMA SumIs ==
  ASSUME NEW f, NEW S, IsFiniteSet(S), NEW h, Sums(h, f, S)
  PROVE  h[S] = Total(f, S)
<1>1. \E g : Sums(g, f, S)
  BY SumsExist
<1>2. Sums(CHOOSE g : Sums(g, f, S), f, S)
  BY <1>1, Zenon
<1> QED BY <1>2, TotalIs, SumsAgree

\* The sums LoadsConserved speaks of, and each as the total of a function.
CostOf(S) == MapThenSumSet(LAMBDA l : l.cost, S)
PricesOf(bids, S) == MapThenSumSet(LAMBDA l : CarrierPrice(l, bids), S)
CarriedIn(story, S) == MapThenSumSet(LAMBDA i : Cardinality(story[i].won), S)
EarnedIn(story, S) ==
  MapThenSumSet(LAMBDA i : PricesOf(story[i].action.bids, story[i].won), S)

LEMMA CostSum ==
  ASSUME NEW S, IsFiniteSet(S)
  PROVE  CostOf(S) = Total([l \in S |-> l.cost], S)
<1> DEFINE f == [l \in S |-> l.cost]
           pick(s) == CHOOSE x \in s : TRUE
           P(g) == g = [s \in SUBSET S |->
                         IF s = {} THEN 0 ELSE pick(s).cost + g[s \ {pick(s)}]]
<1>1. CostOf(S) = (CHOOSE g : P(g))[S]
  BY Zenon DEF CostOf, MapThenSumSet, MapThenFoldSet
<1>2. ASSUME NEW g PROVE P(g) <=> Sums(g, f, S)
  <2>1. \A s \in SUBSET S : s # {} => f[pick(s)] = pick(s).cost
    <3>1. \A s \in SUBSET S : s # {} => pick(s) \in S
      OBVIOUS
    <3> HIDE DEF pick
    <3> QED BY <3>1
  <2> DEFINE A == [s \in SUBSET S |-> IF s = {} THEN 0 ELSE pick(s).cost + g[s \ {pick(s)}]]
             B == [s \in SUBSET S |-> IF s = {} THEN 0 ELSE f[pick(s)] + g[s \ {pick(s)}]]
  <2>2. A = B
    <3> HIDE DEF f, pick
    <3> QED BY <2>1
  <2>3. Sums(g, f, S) <=> g = B
    BY Zenon DEF Sums
  <2>4. P(g) <=> g = A
    BY Zenon
  <2> QED BY <2>2, <2>3, <2>4
<1> HIDE DEF P, f
<1>3. Sums(CHOOSE g : P(g), f, S)
  <2>1. \E g : Sums(g, f, S)
    BY SumsExist
  <2>2. P(CHOOSE g : P(g))
    BY <1>2, <2>1, Zenon
  <2> QED BY <1>2, <2>2
<1>4. (CHOOSE g : P(g))[S] = Total(f, S)
  BY <1>3, SumIs
<1> QED BY <1>1, <1>4 DEF f

LEMMA PriceSum ==
  ASSUME NEW bids, NEW S, IsFiniteSet(S)
  PROVE  PricesOf(bids, S) = Total([l \in S |-> CarrierPrice(l, bids)], S)
<1> DEFINE f == [l \in S |-> CarrierPrice(l, bids)]
           pick(s) == CHOOSE x \in s : TRUE
           P(g) == g = [s \in SUBSET S |->
                         IF s = {} THEN 0 ELSE CarrierPrice(pick(s), bids) + g[s \ {pick(s)}]]
<1>1. PricesOf(bids, S) = (CHOOSE g : P(g))[S]
  BY Zenon DEF PricesOf, MapThenSumSet, MapThenFoldSet
<1>2. ASSUME NEW g PROVE P(g) <=> Sums(g, f, S)
  <2>1. \A s \in SUBSET S : s # {} => f[pick(s)] = CarrierPrice(pick(s), bids)
    <3>1. \A s \in SUBSET S : s # {} => pick(s) \in S
      OBVIOUS
    <3> HIDE DEF pick
    <3> QED BY <3>1
  <2> DEFINE A == [s \in SUBSET S |-> IF s = {} THEN 0 ELSE CarrierPrice(pick(s), bids) + g[s \ {pick(s)}]]
             B == [s \in SUBSET S |-> IF s = {} THEN 0 ELSE f[pick(s)] + g[s \ {pick(s)}]]
  <2>2. A = B
    <3> HIDE DEF f, pick
    <3> QED BY <2>1
  <2>3. Sums(g, f, S) <=> g = B
    BY Zenon DEF Sums
  <2>4. P(g) <=> g = A
    BY Zenon
  <2> QED BY <2>2, <2>3, <2>4
<1> HIDE DEF P, f
<1>3. Sums(CHOOSE g : P(g), f, S)
  <2>1. \E g : Sums(g, f, S)
    BY SumsExist
  <2>2. P(CHOOSE g : P(g))
    BY <1>2, <2>1, Zenon
  <2> QED BY <1>2, <2>2
<1>4. (CHOOSE g : P(g))[S] = Total(f, S)
  BY <1>3, SumIs
<1> QED BY <1>1, <1>4 DEF f

LEMMA CarriedSum ==
  ASSUME NEW story, NEW S, IsFiniteSet(S)
  PROVE  CarriedIn(story, S) = Total([i \in S |-> Cardinality(story[i].won)], S)
<1> DEFINE f == [i \in S |-> Cardinality(story[i].won)]
           pick(s) == CHOOSE x \in s : TRUE
           P(g) == g = [s \in SUBSET S |->
                         IF s = {} THEN 0 ELSE Cardinality(story[pick(s)].won) + g[s \ {pick(s)}]]
<1>1. CarriedIn(story, S) = (CHOOSE g : P(g))[S]
  BY Zenon DEF CarriedIn, MapThenSumSet, MapThenFoldSet
<1>2. ASSUME NEW g PROVE P(g) <=> Sums(g, f, S)
  <2>1. \A s \in SUBSET S : s # {} => f[pick(s)] = Cardinality(story[pick(s)].won)
    <3>1. \A s \in SUBSET S : s # {} => pick(s) \in S
      OBVIOUS
    <3> HIDE DEF pick
    <3> QED BY <3>1
  <2> DEFINE A == [s \in SUBSET S |-> IF s = {} THEN 0 ELSE Cardinality(story[pick(s)].won) + g[s \ {pick(s)}]]
             B == [s \in SUBSET S |-> IF s = {} THEN 0 ELSE f[pick(s)] + g[s \ {pick(s)}]]
  <2>2. A = B
    <3> HIDE DEF f, pick
    <3> QED BY <2>1
  <2>3. Sums(g, f, S) <=> g = B
    BY Zenon DEF Sums
  <2>4. P(g) <=> g = A
    BY Zenon
  <2> QED BY <2>2, <2>3, <2>4
<1> HIDE DEF P, f
<1>3. Sums(CHOOSE g : P(g), f, S)
  <2>1. \E g : Sums(g, f, S)
    BY SumsExist
  <2>2. P(CHOOSE g : P(g))
    BY <1>2, <2>1, Zenon
  <2> QED BY <1>2, <2>2
<1>4. (CHOOSE g : P(g))[S] = Total(f, S)
  BY <1>3, SumIs
<1> QED BY <1>1, <1>4 DEF f

LEMMA EarnedSum ==
  ASSUME NEW story, NEW S, IsFiniteSet(S)
  PROVE  EarnedIn(story, S) = Total([i \in S |-> PricesOf(story[i].action.bids, story[i].won)], S)
<1> DEFINE f == [i \in S |-> PricesOf(story[i].action.bids, story[i].won)]
           pick(s) == CHOOSE x \in s : TRUE
           P(g) == g = [s \in SUBSET S |->
                         IF s = {} THEN 0 ELSE PricesOf(story[pick(s)].action.bids, story[pick(s)].won) + g[s \ {pick(s)}]]
<1>1. EarnedIn(story, S) = (CHOOSE g : P(g))[S]
  BY Zenon DEF EarnedIn, MapThenSumSet, MapThenFoldSet
<1>2. ASSUME NEW g PROVE P(g) <=> Sums(g, f, S)
  <2>1. \A s \in SUBSET S : s # {} => f[pick(s)] = PricesOf(story[pick(s)].action.bids, story[pick(s)].won)
    <3>1. \A s \in SUBSET S : s # {} => pick(s) \in S
      OBVIOUS
    <3> HIDE DEF pick
    <3> QED BY <3>1
  <2> DEFINE A == [s \in SUBSET S |-> IF s = {} THEN 0 ELSE PricesOf(story[pick(s)].action.bids, story[pick(s)].won) + g[s \ {pick(s)}]]
             B == [s \in SUBSET S |-> IF s = {} THEN 0 ELSE f[pick(s)] + g[s \ {pick(s)}]]
  <2>2. A = B
    <3> HIDE DEF f, pick
    <3> QED BY <2>1
  <2>3. Sums(g, f, S) <=> g = B
    BY Zenon DEF Sums
  <2>4. P(g) <=> g = A
    BY Zenon
  <2> QED BY <2>2, <2>3, <2>4
<1> HIDE DEF P, f
<1>3. Sums(CHOOSE g : P(g), f, S)
  <2>1. \E g : Sums(g, f, S)
    BY SumsExist
  <2>2. P(CHOOSE g : P(g))
    BY <1>2, <2>1, Zenon
  <2> QED BY <1>2, <2>2
<1>4. (CHOOSE g : P(g))[S] = Total(f, S)
  BY <1>3, SumIs
<1> QED BY <1>1, <1>4 DEF f

-----------------------------------------------------------------------------
(* What is won, earned and paid *)

LEMMA UnpricedBids ==
  ASSUME NEW arm, ~ arm.prices, NEW loads, NEW clocks, NEW belief
  PROVE  Evaluate(arm, loads, clocks, belief).bids = << >>
<1> DEFINE score == [l \in loads |->
             l.revenue - l.cost - (IF arm.risk THEN RiskPremium(l, belief) ELSE 0)]
           S == BestLoads(loads, clocks, score)
<1>1. S \in SUBSET loads
  BY BestAreLoads
<1> HIDE DEF S
<1> QED BY <1>1 DEF Evaluate, S

\* The carrier's price of a load.
PriceOf(e) == [l \in e.won |-> CarrierPrice(l, e.action.bids)]

LEMMA PricesAreNumbers ==
  ASSUME NEW s, NEW seed, Numbered(s.loads)
  PROVE  LET e == Entry(s, seed) IN
           /\ e.won \subseteq s.loads
           /\ \A l \in e.won : CarrierPrice(l, e.action.bids) \in Int
<1> DEFINE action == Decide(s)
           e == Entry(s, seed)
           offered == {l \in s.loads : l.id \in action.matches}
<1>1. e.won \subseteq offered /\ e.action = action
  BY DEF Entry, StepMarket, MarketStep
<1> HIDE DEF e, action
<1>2. ASSUME NEW l \in offered PROVE CarrierPrice(l, action.bids) \in Int
  <2>1. l.revenue \in Int
    BY DEF Numbered, Load
  <2>2. CASE Arm[s.arm].prices
    <3>1. PricedBy(action, s.loads)
      BY <2>2, EvaluatePrices DEF Decide, action
    <3>2. action.bids[l.id] \in Int
      BY <3>1 DEF PricedBy
    <3> QED BY <2>1, <3>2 DEF CarrierPrice
  <2>3. CASE ~ Arm[s.arm].prices
    <3>1. action.bids = << >>
      BY <2>3, UnpricedBids DEF Decide, action
    <3>2. DOMAIN action.bids = {}
      BY <3>1
    <3> QED BY <2>1, <3>2 DEF CarrierPrice
  <2> QED BY <2>2, <2>3
<1> QED BY <1>1, <1>2 DEF e

\* The accounts after a step.
Booked(r, s, e, seed) ==
  /\ e.won \subseteq s.loads
  /\ \A l \in e.won : CarrierPrice(l, e.action.bids) \in Int
  /\ r.loads = (s.loads \ e.won) \cup Incoming(s, seed)
  /\ r.won = s.won \cup e.won
  /\ r.revenue = s.revenue + Total(PriceOf(e), e.won)
  /\ r.cost = s.cost + CostOf(e.won)

LEMMA Accounted ==
  ASSUME NEW s, DOMAIN s = Fields, Numbered(s.loads), NEW seed
  PROVE  Booked(Advance(s, seed), s, Entry(s, seed), seed)
<1> DEFINE action == Decide(s)
           market == StepMarket(s, action, seed)
           r == Advance(s, seed)
           e == Entry(s, seed)
<1>1. /\ e.won = market.won /\ e.action = action
      /\ r = Settle(s, action, market, seed)
  BY DEF Entry, Advance
<1>2. market.revenues = [l \in market.won |-> CarrierPrice(l, action.bids)]
  BY DEF StepMarket, MarketStep
<1> HIDE DEF action, market, r, e
<1>3. /\ r.loads = (s.loads \ market.won) \cup Incoming(s, seed)
      /\ r.won = s.won \cup market.won
  <2>1. r = Settle(s, action, market, seed) /\ DOMAIN s = Fields
    BY <1>1
  <2> QED BY <2>1 DEF Settle, Fields, Incoming, Drive
<1>4. /\ r.revenue = s.revenue + Total(market.revenues, market.won)
      /\ r.cost = s.cost + CostOf(market.won)
  <2>1. r = Settle(s, action, market, seed) /\ DOMAIN s = Fields
    BY <1>1
  <2> QED BY <2>1 DEF Settle, Fields, Total, CostOf
<1>5. /\ e.won \subseteq s.loads
      /\ \A l \in e.won : CarrierPrice(l, e.action.bids) \in Int
  BY PricesAreNumbers DEF e
<1> QED BY <1>1, <1>2, <1>3, <1>4, <1>5 DEF Booked, PriceOf, r, e

LEMMA TotalStep ==
  ASSUME NEW f, NEW k \in Nat, k > 0, \A i \in 1..k : f[i] \in Int
  PROVE  Total(f, 1..k) = Total(f, 1..(k - 1)) + f[k]
<1>1. IsFiniteSet(1..k) /\ k \in 1..k /\ (1..k) \ {k} = 1..(k - 1)
  BY FS_Interval
<1>2. Total(f, 1..k) = f[k] + Total(f, (1..k) \ {k})
  BY <1>1, TotalRemove
<1>3. Total(f, 1..(k - 1)) \in Int
  <2>1. IsFiniteSet(1..(k - 1)) /\ \A i \in 1..(k - 1) : f[i] \in Int
    BY FS_Interval
  <2> QED BY <2>1, TotalInt
<1> DEFINE u == Total(f, 1..(k - 1))
<1>4. f[k] \in Int /\ u \in Int /\ Total(f, 1..k) = f[k] + u
  BY <1>1, <1>2, <1>3
<1> HIDE DEF u
<1>5. Total(f, 1..k) = u + f[k]
  BY <1>4
<1> QED BY <1>5 DEF u

LEMMA CostUnion ==
  ASSUME NEW S, NEW T, IsFiniteSet(S), IsFiniteSet(T), S \cap T = {}, S \subseteq Load,
         T \subseteq Load
  PROVE  CostOf(S \cup T) = CostOf(S) + CostOf(T)
<1> DEFINE f == [l \in S \cup T |-> l.cost]
<1>1. IsFiniteSet(S \cup T)
  BY FS_Union
<1>2. \A l \in S \cup T : f[l] = l.cost /\ f[l] \in Int
  BY DEF Load
<1>3. CostOf(S \cup T) = Total(f, S \cup T)
  BY <1>1, CostSum
<1>4. ASSUME NEW U \in SUBSET (S \cup T), IsFiniteSet(U) PROVE CostOf(U) = Total(f, U)
  <2> DEFINE g == [l \in U |-> l.cost]
  <2>1. CostOf(U) = Total(g, U)
    BY <1>4, CostSum
  <2>2. \A l \in U : g[l] = f[l] /\ g[l] \in Int
    BY <1>2
  <2> HIDE DEF f, g
  <2> QED BY <1>4, <2>1, <2>2, TotalSame
<1> HIDE DEF f
<1>5. CostOf(S) = Total(f, S) /\ CostOf(T) = Total(f, T)
  <2>1. S \in SUBSET (S \cup T) /\ T \in SUBSET (S \cup T)
    OBVIOUS
  <2> QED BY <1>4, <2>1
<1>6. Total(f, S \cup T) = Total(f, S) + Total(f, T)
  BY <1>2, TotalUnion
<1> QED BY <1>3, <1>5, <1>6

LEMMA FiniteLoads ==
  ASSUME NEW name, NEW seed
  PROVE  \A k \in 0..Steps : IsFiniteSet(Course(name, seed)[k].loads)
<1> DEFINE c == Course(name, seed)
           T == {k \in 0..Steps : IsFiniteSet(c[k].loads)}
<1>1. ASSUME NEW a, NEW p, NEW n PROVE IsFiniteSet(GenerateStochasticLoads(a, p, n))
  <2> DEFINE G == GenerateStochasticLoads(a, p, n)
             g == [i \in 1..LoadsPerEpoch |->
                    [id |-> p + i, born |-> n, miles |-> a[p + i].miles,
                     revenue |-> a[p + i].revenue, cost |-> a[p + i].cost,
                     empty |-> a[p + i].empty]]
  <2>1. g \in Surjection(1..LoadsPerEpoch, G)
    BY DEF GenerateStochasticLoads, Surjection
  <2>2. IsFiniteSet(1..LoadsPerEpoch)
    BY EpisodeAssumption, FS_Interval
  <2> HIDE DEF G, g
  <2>3. IsFiniteSet(G)
    BY <2>1, <2>2, FS_Surjection
  <2> QED BY <2>3 DEF G
<1>2. 0 \in T
  <2>1. c[0].loads = GenerateStochasticLoads(seed.arrivals, 0, 0)
    BY CourseSteps, Started
  <2> HIDE DEF c
  <2> QED BY <1>1, <2>1, Episode0
<1>3. ASSUME NEW k \in 1..Steps, k - 1 \in T PROVE k \in T
  <2>1. k \in 0..Steps /\ k - 1 \in 0..Steps /\ c[k] = Advance(c[k-1], seed)
    BY CourseSteps, Episode0
  <2>2. DOMAIN c[k-1] = Fields
    BY <2>1, CourseFields
  <2>3. After(c[k], c[k-1], seed)
    BY <2>1, <2>2, Advanced
  <2> HIDE DEF c
  <2>4. c[k].loads \subseteq c[k-1].loads \cup Incoming(c[k-1], seed)
    BY <2>3 DEF After
  <2>5. IsFiniteSet(c[k-1].loads) /\ IsFiniteSet(Incoming(c[k-1], seed))
    BY <1>1, <1>3 DEF Incoming
  <2>6. IsFiniteSet(c[k-1].loads \cup Incoming(c[k-1], seed))
    BY <2>5, FS_Union
  <2>7. IsFiniteSet(c[k].loads)
    BY <2>4, <2>6, FS_Subset
  <2> QED BY <2>1, <2>7
<1> HIDE DEF T
<1>4. \A k \in 0..Steps : k \in T
  BY <1>2, <1>3, UpTo, Episode0
<1> QED BY <1>4 DEF T

-----------------------------------------------------------------------------
(* The accounts of an episode *)

Came(name, seed, k) ==
  Course(name, seed)[0].loads \cup UNION {Incoming(Course(name, seed)[i-1], seed) : i \in 1..k}

Carried(name, seed) ==
  [i \in 1..Steps |-> Cardinality(Entry(Course(name, seed)[i-1], seed).won)]

Earning(e) == Total(PriceOf(e), e.won)
Earned(name, seed) == [i \in 1..Steps |-> Earning(Entry(Course(name, seed)[i-1], seed))]

\* What arrived is on offer or won, and the accounts are the sums of the log.
Conserved(s, name, seed, k) ==
  /\ IsFiniteSet(s.won) /\ s.loads \cap s.won = {} /\ s.won \subseteq Load
  /\ \A l \in s.won : l.id <= LoadsPerEpoch * (k + 1)
  /\ s.loads \cup s.won = Came(name, seed, k)
  /\ Cardinality(s.won) = Total(Carried(name, seed), 1..k)
  /\ s.revenue = Total(Earned(name, seed), 1..k)
  /\ s.cost = CostOf(s.won)

LEMMA SumsAreNumbers ==
  ASSUME NEW name, NEW seed \in Draws, NEW i \in 1..Steps
  PROVE  Carried(name, seed)[i] \in Int /\ Earned(name, seed)[i] \in Int
<1> DEFINE s == Course(name, seed)[i-1]
           e == Entry(s, seed)
<1>1. i - 1 \in 0..Steps
  BY Episode0
<1>2. IsFiniteSet(s.loads) /\ Numbered(s.loads)
  BY <1>1, FiniteLoads, CourseOffers DEF OnOffer
<1> HIDE DEF s
<1>3. e.won \subseteq s.loads /\ \A l \in e.won : CarrierPrice(l, e.action.bids) \in Int
  BY <1>2, PricesAreNumbers
<1>4. Carried(name, seed)[i] = Cardinality(e.won) /\ Earned(name, seed)[i] = Earning(e)
  BY DEF Carried, Earned, s
<1> HIDE DEF e
<1>5. IsFiniteSet(e.won)
  BY <1>2, <1>3, FS_Subset
<1>6. Cardinality(e.won) \in Int
  BY <1>5, FS_CardinalityType
<1>7. Earning(e) \in Int
  <2>1. \A l \in e.won : PriceOf(e)[l] \in Int
    BY <1>3 DEF PriceOf
  <2> QED BY <1>5, <2>1, TotalInt DEF Earning
<1> QED BY <1>4, <1>6, <1>7

LEMMA NothingYet ==
  ASSUME NEW name, NEW seed
  PROVE  Conserved(Course(name, seed)[0], name, seed, 0)
<1> DEFINE s == Course(name, seed)[0]
<1>1. s.won = {} /\ s.revenue = 0 /\ s.cost = 0
  BY CourseSteps, Started
<1>2. Came(name, seed, 0) = s.loads
  BY DEF Came
<1> HIDE DEF s
<1>3. IsFiniteSet({}) /\ Cardinality({}) = 0
  BY FS_EmptySet
<1>4. CostOf({}) = 0
  <2>1. CostOf({}) = Total([l \in {} |-> l.cost], {})
    BY <1>3, CostSum
  <2> QED BY <2>1, TotalEmpty
<1>5. 1..0 = {}
  OBVIOUS
<1>6. Total(Carried(name, seed), 1..0) = 0 /\ Total(Earned(name, seed), 1..0) = 0
  BY <1>5, TotalEmpty
<1> QED BY <1>1, <1>2, <1>3, <1>4, <1>6 DEF Conserved, s

LEMMA KeepsAccounts ==
  ASSUME NEW name, NEW seed \in Draws, NEW k \in 1..Steps,
         Conserved(Course(name, seed)[k-1], name, seed, k - 1)
  PROVE  Conserved(Course(name, seed)[k], name, seed, k)
<1> DEFINE c == Course(name, seed)
           s == c[k-1]
           r == c[k]
           e == Entry(s, seed)
           G == Incoming(s, seed)
           low == LoadsPerEpoch * k
           high == LoadsPerEpoch * (k + 1)
<1>1. k \in 0..Steps /\ k - 1 \in 0..Steps /\ (k - 1) + 1 = k /\ k \in Nat /\ k > 0
  BY Episode0
<1>2. r = Advance(s, seed)
  BY CourseSteps
<1>3. DOMAIN s = Fields /\ s.step = k - 1 /\ IsFiniteSet(s.loads)
  BY <1>1, CourseFields, FiniteLoads
<1>4. /\ s.drawn = low /\ Numbered(s.loads) /\ \A l \in s.loads : l.id <= low
  BY <1>1, CourseOffers DEF OnOffer
<1>5. Booked(r, s, e, seed)
  BY <1>2, <1>3, <1>4, Accounted
<1>6. \A l \in G : l \in Load /\ l.id > low /\ l.id <= high
  <2>1. G = GenerateStochasticLoads(seed.arrivals, LoadsPerEpoch * k, k)
    BY <1>1, <1>3, <1>4 DEF Incoming
  <2> HIDE DEF G
  <2> QED BY <1>1, <2>1, Arrivals DEF Numbered
<1>7. low \in Nat /\ high \in Nat /\ low <= high
  <2>1. low \in Nat /\ LoadsPerEpoch \in Nat /\ high = low + LoadsPerEpoch
    BY <1>1, Positions, EpisodeAssumption
  <2> HIDE DEF low, high
  <2> QED BY <2>1
<1>8. /\ IsFiniteSet(s.won) /\ s.loads \cap s.won = {} /\ s.won \subseteq Load
      /\ \A l \in s.won : l.id <= low
      /\ s.loads \cup s.won = Came(name, seed, k - 1)
      /\ Cardinality(s.won) = Total(Carried(name, seed), 1..(k - 1))
      /\ s.revenue = Total(Earned(name, seed), 1..(k - 1))
      /\ s.cost = CostOf(s.won)
  BY <1>1 DEF Conserved
<1>9. Came(name, seed, k) = Came(name, seed, k - 1) \cup G
  <2> DEFINE at(i) == Incoming(Course(name, seed)[i-1], seed)
  <2>1. at(k) = G
    OBVIOUS
  <2>2. 1..k = 1..(k - 1) \cup {k}
    BY <1>1
  <2> HIDE DEF at, G, c
  <2>3. UNION {at(i) : i \in 1..k} = (UNION {at(i) : i \in 1..(k - 1)}) \cup at(k)
    <3> DEFINE I == 1..(k - 1)
    <3>1. 1..k = I \cup {k}
      BY <2>2
    <3> HIDE DEF I
    <3>2. {at(i) : i \in I \cup {k}} = {at(i) : i \in I} \cup {at(k)}
      OBVIOUS
    <3>3. UNION ({at(i) : i \in I} \cup {at(k)}) = (UNION {at(i) : i \in I}) \cup at(k)
      <4> DEFINE M == {at(i) : i \in I}
      <4> HIDE DEF M
      <4> QED OBVIOUS
    <3> QED BY <3>1, <3>2, <3>3 DEF I
  <2> QED BY <2>1, <2>3 DEF Came, at
<1>10. Carried(name, seed)[k] = Cardinality(e.won) /\ Earned(name, seed)[k] = Earning(e)
  BY DEF Carried, Earned
<1>11. \A i \in 1..k : Carried(name, seed)[i] \in Int /\ Earned(name, seed)[i] \in Int
  <2>1. \A i \in 1..k : i \in 1..Steps
    BY Episode0
  <2> QED BY <2>1, SumsAreNumbers
<1>12. /\ Total(Carried(name, seed), 1..k)
            = Total(Carried(name, seed), 1..(k - 1)) + Carried(name, seed)[k]
       /\ Total(Earned(name, seed), 1..k)
            = Total(Earned(name, seed), 1..(k - 1)) + Earned(name, seed)[k]
  BY <1>1, <1>11, TotalStep
<1> HIDE DEF c, s, r, e, G, low, high
<1>13. /\ e.won \subseteq s.loads
       /\ r.loads = (s.loads \ e.won) \cup G
       /\ r.won = s.won \cup e.won
       /\ r.revenue = s.revenue + Earning(e)
       /\ r.cost = s.cost + CostOf(e.won)
  BY <1>5 DEF Booked, Earning, G
<1>14. /\ IsFiniteSet(e.won) /\ s.won \cap e.won = {} /\ e.won \subseteq Load
       /\ IsFiniteSet(r.won)
  <2>1. IsFiniteSet(e.won)
    BY <1>3, <1>13, FS_Subset
  <2>2. s.won \cap e.won = {}
    BY <1>8, <1>13
  <2>3. e.won \subseteq Load
    BY <1>4, <1>13 DEF Numbered
  <2>4. IsFiniteSet(s.won \cup e.won)
    BY <1>8, <2>1, FS_Union
  <2> QED BY <1>13, <2>1, <2>2, <2>3, <2>4
<1>15. \A l \in G : l \notin s.loads /\ l \notin s.won
  <2>1. \A l \in s.loads \cup s.won : l.id \in Nat /\ l.id <= low
    BY <1>4, <1>8 DEF Numbered, Load
  <2>2. \A l \in G : l.id \in Nat /\ l.id > low
    BY <1>6 DEF Load
  <2> QED BY <1>7, <2>1, <2>2
<1>16. r.loads \cap r.won = {} /\ r.loads \cup r.won = (s.loads \cup s.won) \cup G
  BY <1>8, <1>13, <1>15
<1>17. r.won \subseteq Load /\ \A l \in r.won : l.id <= high
  <2>1. \A l \in r.won : l \in Load /\ l.id <= low
    BY <1>4, <1>8, <1>13, <1>14
  <2> QED BY <1>7, <2>1 DEF Load
<1>18. Cardinality(r.won) = Cardinality(s.won) + Cardinality(e.won)
  <2>1. Cardinality({}) = 0
    BY FS_EmptySet
  <2>2. /\ Cardinality(s.won \cup e.won)
             = Cardinality(s.won) + Cardinality(e.won) - Cardinality(s.won \cap e.won)
        /\ Cardinality(s.won) \in Nat /\ Cardinality(e.won) \in Nat
    BY <1>8, <1>14, FS_Union, FS_CardinalityType
  <2>3. s.won \cap e.won = {} /\ r.won = s.won \cup e.won
    BY <1>13, <1>14
  <2> DEFINE m == Cardinality(s.won)
             n == Cardinality(e.won)
  <2>4. Cardinality(r.won) = m + n - 0 /\ m \in Nat /\ n \in Nat
    BY <2>1, <2>2, <2>3
  <2> HIDE DEF m, n
  <2>5. Cardinality(r.won) = m + n
    BY <2>4
  <2> QED BY <2>5 DEF m, n
<1>19. r.cost = CostOf(r.won)
  BY <1>8, <1>13, <1>14, CostUnion
<1>20. Conserved(r, name, seed, k)
  BY <1>8, <1>9, <1>10, <1>12, <1>13, <1>14, <1>16, <1>17, <1>18, <1>19 DEF Conserved, high
<1> QED BY <1>20 DEF r, c

LEMMA CourseConserves ==
  ASSUME NEW name, NEW seed \in Draws
  PROVE  \A k \in 0..Steps : Conserved(Course(name, seed)[k], name, seed, k)
<1> DEFINE T == {k \in 0..Steps : Conserved(Course(name, seed)[k], name, seed, k)}
<1>1. 0 \in T
  BY NothingYet, Episode0
<1>2. ASSUME NEW k \in 1..Steps, k - 1 \in T PROVE k \in T
  BY <1>2, KeepsAccounts, Episode0
<1> HIDE DEF T
<1>3. \A k \in 0..Steps : k \in T
  BY <1>1, <1>2, UpTo, Episode0
<1> QED BY <1>3 DEF T

\* No load is won twice or lost sight of over an episode, although what was
\* lost is offered again, and the accounts are what the log adds up to.
THEOREM LoadsAreConserved == Spec => []LoadsConserved
<1>1. Inv => LoadsConserved
  <2> SUFFICES ASSUME Inv, NEW s \in Sims, s.log # << >>
               PROVE  LET arrived == s.log[1].offered \cup UNION {s.log[i].incoming : i \in DOMAIN s.log}
                      IN  /\ arrived = s.loads \cup s.won /\ s.loads \cap s.won = {}
                          /\ Cardinality(s.won) = CarriedIn(s.log, DOMAIN s.log)
                          /\ s.revenue = EarnedIn(s.log, DOMAIN s.log)
                          /\ s.cost = CostOf(s.won)
    BY Zenon DEF LoadsConserved, CarriedIn, EarnedIn, CostOf, PricesOf
  <2>1. PICK t \in Threads : s = thread[t].sim /\ thread[t].sim # NotStarted
    BY DEF Sims
  <2> DEFINE name == Head(thread[t].todo)
             seed == seeds[thread[t].ep]
             c == Course(name, seed)
  <2>2. /\ ThreadOK(thread[t], Arms(t), seeds) /\ seeds \in SeedTables
    BY DEF Inv, PlayOK, TypeInv
  <2>3. thread[t].pc = "play" /\ thread[t].ep \in Eps
    BY <2>1, <2>2 DEF ThreadOK
  <2>4. seed \in Draws
    BY <2>2, <2>3, InDraws
  <2>5. PICK k \in 0..Steps : s = c[k]
    BY <2>1, <2>2 DEF ThreadOK
  <2> HIDE DEF name, seed
  <2>6. /\ DOMAIN s.log = 1..k
        /\ \A i \in 1..k : i - 1 \in 0..Steps /\ s.log[i] = Entry(c[i-1], seed)
    BY <2>5, LogFacts
  <2>7. k \in Nat /\ k > 0 /\ k <= Steps
    <3>1. k # 0
      <4> SUFFICES ASSUME k = 0 PROVE FALSE
        OBVIOUS
      <4>1. s.log = << >>
        BY <2>5, CourseSteps, Started
      <4> QED BY <4>1
    <3> QED BY <3>1, Episode0
  <2>8. Conserved(s, name, seed, k)
    BY <2>4, <2>5, CourseConserves
  <2>9. s.log[1].offered \cup UNION {s.log[i].incoming : i \in DOMAIN s.log} = Came(name, seed, k)
    <3>1. 1 \in 1..k /\ 1 - 1 = 0
      BY <2>7
    <3>2. s.log[1] = Entry(c[0], seed)
      BY <2>6, <3>1
    <3>3. s.log[1].offered = c[0].loads
      BY <3>2 DEF Entry
    <3>4. ASSUME NEW i \in 1..k PROVE s.log[i].incoming = Incoming(c[i-1], seed)
      <4>1. Entry(c[i-1], seed).incoming = Incoming(c[i-1], seed)
        BY DEF Entry
      <4> QED BY <2>6, <4>1
    <3>5. {s.log[i].incoming : i \in 1..k} = {Incoming(c[i-1], seed) : i \in 1..k}
      BY <3>4
    <3> QED BY <2>6, <3>3, <3>5 DEF Came
  <2>10. IsFiniteSet(1..k) /\ \A i \in 1..k : i \in 1..Steps
    BY <2>7, FS_Interval, Episode0
  <2>11. CarriedIn(s.log, 1..k) = Total(Carried(name, seed), 1..k)
    <3> DEFINE f == [i \in 1..k |-> Cardinality(s.log[i].won)]
    <3>1. CarriedIn(s.log, 1..k) = Total(f, 1..k)
      BY <2>10, CarriedSum
    <3>2. \A i \in 1..k : f[i] = Carried(name, seed)[i] /\ f[i] \in Int
      <4>1. \A i \in 1..k : f[i] = Carried(name, seed)[i]
        BY <2>6, <2>10 DEF Carried
      <4> QED BY <2>4, <2>10, <4>1, SumsAreNumbers
    <3> HIDE DEF f
    <3> QED BY <2>10, <3>1, <3>2, TotalSame
  <2>12. EarnedIn(s.log, 1..k) = Total(Earned(name, seed), 1..k)
    <3> DEFINE f == [i \in 1..k |-> PricesOf(s.log[i].action.bids, s.log[i].won)]
    <3>1. EarnedIn(s.log, 1..k) = Total(f, 1..k)
      BY <2>10, EarnedSum
    <3>2. ASSUME NEW i \in 1..k PROVE f[i] = Earned(name, seed)[i] /\ f[i] \in Int
      <4> DEFINE e == Entry(c[i-1], seed)
      <4>1. i - 1 \in 0..Steps /\ i \in 1..Steps /\ s.log[i] = e
        BY <2>6, <2>10
      <4>2. IsFiniteSet(c[i-1].loads) /\ Numbered(c[i-1].loads)
        BY <2>4, <4>1, FiniteLoads, CourseOffers DEF OnOffer
      <4>3. e.won \subseteq c[i-1].loads
        BY <4>2, PricesAreNumbers
      <4> HIDE DEF e
      <4>4. IsFiniteSet(e.won)
        BY <4>2, <4>3, FS_Subset
      <4>5. PricesOf(e.action.bids, e.won) = Earning(e)
        BY <4>4, PriceSum DEF Earning, PriceOf
      <4>6. f[i] = Earning(e) /\ Earned(name, seed)[i] = Earning(e)
        BY <4>1, <4>5 DEF Earned, e
      <4> QED BY <2>4, <4>1, <4>6, SumsAreNumbers
    <3> HIDE DEF f
    <3> QED BY <2>10, <3>1, <3>2, TotalSame
  <2> QED BY <2>6, <2>8, <2>9, <2>11, <2>12 DEF Conserved
<1> QED BY <1>1, TournamentInv, PTL

=============================================================================
