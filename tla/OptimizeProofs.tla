--------------------------- MODULE OptimizeProofs ---------------------------
(***************************************************************************)
(* Proofs about OptimizeService and about the decision endpoints over it,  *)
(* for any number of concurrent calls, policies and epochs: the runs it    *)
(* writes are runs of ChainLog, in the order of their batch sequences,     *)
(* with every record in the semantic journal; a call is refused only for a *)
(* race; the integrity report of an answered run counts its answers; an    *)
(* answered id leads to its own record; and a replay vouches only for what *)
(* the record says.                                                        *)
(***************************************************************************)
EXTENDS DecisionApi, SequenceTheorems, FiniteSetTheorems, TLAPS

\* How far a call has come.
Recorded(c) == pc[c] = "append" \/ result[c] \in {"ok", "rejected"}
Sealed(c)   == pc[c] \in {"sealed", "swap"} \/ Recorded(c)
Linked(c)   == pc[c] = "linked" \/ Sealed(c)
Numbered(c) == pc[c] = "numbered" \/ Linked(c)

\* A call's variables are those of its record.
CallOK(c) ==
  /\ pc[c] = "done" <=> result[c] # "none"
  /\ ~Linked(c) => prev[c] = Genesis
  /\ Sealed(c) => rec[c] = Seal(prev[c], [run |-> id[c].policy, seq |-> rec[c].body.seq,
                                          id |-> id[c], state |-> c])

\* Numbers are read from the length of the journal before it grows.
Behind(c) == Len(journal) + (IF Recorded(c) THEN 0 ELSE 1)
CountOK(c) ==
  /\ Sealed(c) => rec[c].body.seq <= Behind(c)
  /\ Numbered(c) => id[c].num <= Behind(c)

\* The digest at a position of a run.
HashAt(run, k) == IF k = 0 THEN Genesis ELSE run[k].hash

\* What a call read of its run is still there, and what was added to the run
\* since was added by calls that overlap it.
LinkOK(c) ==
  LET run == chain[id[c].policy]
      k   == Len(prev[c])
  IN  /\ k <= Len(run) /\ prev[c] = HashAt(run, k)
      /\ Linked(c) /\ Running(c) =>
           \A i \in (k + 1)..Len(run) : run[i].body.state \in overlap[c]
      /\ Sealed(c) /\ Running(c) /\ k = Len(run) =>
           \A i \in 1..k : run[i].body.seq < rec[c].body.seq

\* Calls that run together know of each other; one whose record was there
\* before another began has a smaller number.
OverlapOK(c, d) ==
  /\ Running(c) /\ Running(d) => d \in overlap[c]
  /\ Running(c) /\ Numbered(c) /\ Recorded(d) /\ d \notin overlap[c] =>
       id[d].num < id[c].num

CallsInv ==
  /\ \A c \in Calls : CallOK(c) /\ CountOK(c) /\ LinkOK(c)
  /\ \A c, d \in Calls : c # d => OverlapOK(c, d)

\* The journal holds the record of each call past Record, once.
JournalInv ==
  /\ \A i \in 1..Len(journal) :
       Recorded(journal[i].body.state) /\ journal[i] = rec[journal[i].body.state]
  /\ \A i, j \in 1..Len(journal) : journal[i].body.state = journal[j].body.state => i = j
  /\ \A c \in Calls : Recorded(c) => \E i \in 1..Len(journal) : journal[i] = rec[c]

\* The record at a position of a run is that of an answered call and names the
\* digest before it.
Placed(p, i) ==
  LET r == chain[p][i]
      c == r.body.state
  IN  /\ r = rec[c] /\ result[c] = "ok" /\ id[c].policy = p
      /\ Len(r.hash) = i /\ r.prev = HashAt(chain[p], i - 1)

\* A run is a verified chain of the records of its answered calls.
ChainInv == \A p \in Policies :
  /\ \A i \in 1..Len(chain[p]) : Placed(p, i)
  /\ \A c \in Calls : result[c] = "ok" /\ id[c].policy = p =>
       \E i \in 1..Len(chain[p]) : chain[p][i] = rec[c]

ServiceInv ==
  TypeOK /\ CallsInv /\ JournalInv /\ ChainInv /\ SeqIncreases /\ RejectedOnlyByRace

-----------------------------------------------------------------------------
(* Types *)

LEMMA SealType ==
  ASSUME NEW h \in Hashes, NEW b \in Body
  PROVE  /\ Seal(h, b) \in Record /\ VerifyIntegrity(Seal(h, b))
         /\ Seal(h, b).prev = h /\ Seal(h, b).body = b
         /\ Seal(h, b).hash \in Seq(Body) /\ Len(Seal(h, b).hash) = Len(h) + 1
BY DEF Seal, RecordHash, VerifyIntegrity, Record, Hashes

LEMMA UnsetTypes ==
  /\ NoID \in DecisionID /\ NoID.policy \in Policies /\ Genesis \in Hashes
  /\ NoRecord \in Record
<1>1. /\ (CHOOSE p \in Policies : TRUE) \in Policies
      /\ (CHOOSE e \in Epochs : TRUE) \in Epochs
      /\ (CHOOSE c \in Calls : TRUE) \in Calls
  BY ServiceAssumption
<1>2. NoID \in DecisionID /\ NoID.policy \in Policies /\ Genesis \in Hashes
  BY <1>1 DEF NoID, DecisionID, Genesis, Hashes
<1>3. [run |-> NoID.policy, seq |-> 0, id |-> NoID,
       state |-> CHOOSE c \in Calls : TRUE] \in Body
  BY <1>1, <1>2 DEF Body
<1> QED BY <1>2, <1>3, SealType DEF NoRecord

LEMMA HeadType ==
  ASSUME NEW run \in Seq(Record)
  PROVE  HeadHash(run) \in Hashes /\ HeadHash(run) = HashAt(run, Len(run))
<1>1. CASE run = << >>
  BY <1>1 DEF HeadHash, HashAt, Genesis, Hashes
<1>2. CASE run # << >>
  <2>1. Len(run) \in 1..Len(run)
    BY <1>2, EmptySeq, LenProperties
  <2>2. run[Len(run)] \in Record
    BY <2>1, ElementOfSeq
  <2> QED BY <1>2, <2>1, <2>2 DEF HeadHash, HashAt, Record
<1> QED BY <1>1, <1>2

LEMMA TypeInit == Init => TypeOK
BY UnsetTypes DEF Init, TypeOK, PC, Results

LEMMA TypeNext == TypeOK /\ [Next]_vars => TypeOK'
<1> SUFFICES ASSUME TypeOK, [Next]_vars PROVE TypeOK'
  OBVIOUS
<1> USE DEF TypeOK
<1>1. ASSUME NEW c \in Calls, NEW q \in Requests, Call(c, q) PROVE TypeOK'
  <2>1. q.policy \in Policies /\ q.epoch \in Epochs
    BY ServiceAssumption
  <2>2. [policy |-> q.policy, epoch |-> q.epoch, num |-> 0] \in DecisionID
    BY <2>1 DEF DecisionID
  <2>3. overlap' \in [Calls -> SUBSET Calls]
    BY <1>1 DEF Call
  <2> QED BY <1>1, <2>2, <2>3 DEF Call, Goto, PC
<1>2. ASSUME NEW c \in Calls, Fail(c) PROVE TypeOK'
  BY <1>2, UnsetTypes DEF Fail, Goto, PC, Results
<1>3. ASSUME NEW c \in Calls, NumberDecision(c) PROVE TypeOK'
  <2>1. Len(journal) + 1 \in Nat /\ id[c] \in DecisionID
    OBVIOUS
  <2>2. [id[c] EXCEPT !.num = Len(journal) + 1] \in DecisionID
    BY <2>1 DEF DecisionID
  <2> QED BY <1>3, <2>2 DEF NumberDecision, Goto, PC
<1>4. ASSUME NEW c \in Calls, ReadHead(c) PROVE TypeOK'
  <2>1. HeadHash(chain[id[c].policy]) \in Hashes
    BY HeadType DEF DecisionID
  <2> QED BY <1>4, <2>1 DEF ReadHead, Goto, PC
<1>5. ASSUME NEW c \in Calls, SealRecord(c) PROVE TypeOK'
  <2> DEFINE b == [run |-> id[c].policy, seq |-> Len(journal) + 1,
                   id |-> id[c], state |-> c]
  <2>1. b \in Body
    BY DEF DecisionID, Body
  <2>2. Seal(prev[c], b) \in Record
    BY <2>1, SealType
  <2> QED BY <1>5, <2>2 DEF SealRecord, Goto, PC
<1>6. ASSUME NEW c \in Calls, LoadEntries(c) PROVE TypeOK'
  BY <1>6 DEF LoadEntries, Goto, PC
<1>7. ASSUME NEW c \in Calls, SwapEntries(c) PROVE TypeOK'
  <2>1. Append(snap[c], rec[c]) \in Seq(Record) /\ << >> \in Seq(Record)
    OBVIOUS
  <2> QED BY <1>7, <2>1 DEF SwapEntries, Goto, PC
<1>8. ASSUME NEW c \in Calls, AppendRecord(c) PROVE TypeOK'
  <2>1. chain' \in [Policies -> Seq(Record)]
    <3>1. \A p \in Policies : Append(chain[p], rec[c]) \in Seq(Record)
      OBVIOUS
    <3>2. CASE chain' = chain
      BY <3>2
    <3>3. CASE chain' = [chain EXCEPT ![rec[c].body.run] = Append(@, rec[c])]
      <4>1. chain' = [p \in Policies |-> IF p = rec[c].body.run
                                         THEN Append(chain[p], rec[c]) ELSE chain[p]]
        BY <3>3
      <4> QED BY <3>1, <4>1
    <3> QED BY <1>8, <3>2, <3>3 DEF AppendRecord
  <2> QED BY <1>8, <2>1 DEF AppendRecord, Goto, PC, Results
<1>9. CASE UNCHANGED vars
  BY <1>9 DEF vars
<1> QED BY <1>1, <1>2, <1>3, <1>4, <1>5, <1>6, <1>7, <1>8, <1>9 DEF Next, Start, Proceed


-----------------------------------------------------------------------------
(* Steps of a call that write neither the journal nor the chain *)

Same(d) ==
  /\ pc'[d] = pc[d] /\ id'[d] = id[d] /\ prev'[d] = prev[d]
  /\ rec'[d] = rec[d] /\ result'[d] = result[d]

LEMMA SameStage ==
  ASSUME NEW d, Same(d)
  PROVE  /\ Recorded(d)' <=> Recorded(d)
         /\ Sealed(d)' <=> Sealed(d)
         /\ Linked(d)' <=> Linked(d)
         /\ Numbered(d)' <=> Numbered(d)
         /\ Running(d)' <=> Running(d)
BY DEF Same, Recorded, Sealed, Linked, Numbered, Running

\* What the records of a run are about does not change with a call that is not
\* recorded.
LEMMA QuietChain ==
  ASSUME ServiceInv, TypeOK', chain' = chain, NEW c \in Calls,
         \A d \in Calls \ {c} : Same(d),
         \A d \in Calls \ {c} : overlap[d] \subseteq overlap'[d],
         result[c] # "ok", result'[c] # "ok"
  PROVE  /\ ChainInv' /\ SeqIncreases'
         /\ \A d \in Calls \ {c} : result'[d] = "rejected" =>
              \E e \in overlap'[d] : result'[e] = "ok" /\ id'[e].policy = id'[d].policy
<1> USE DEF ServiceInv
<1>1. ASSUME NEW d \in Calls, result[d] = "ok" \/ result'[d] = "ok"
      PROVE  d # c /\ Same(d) /\ result[d] = "ok"
  <2>1. d # c
    BY <1>1
  <2> QED BY <1>1, <2>1 DEF Same
<1>2. ASSUME NEW p \in Policies, NEW i \in 1..Len(chain[p])
      PROVE  /\ chain[p][i] \in Record /\ chain[p][i].body.state \in Calls
  <2>1. chain[p][i] \in Record
    BY ElementOfSeq DEF TypeOK
  <2> QED BY <2>1 DEF Record, Body
<1>3. ASSUME NEW p \in Policies, NEW i \in 1..Len(chain[p]) PROVE Placed(p, i)'
  <2>1. Placed(p, i)
    BY DEF ChainInv
  <2>2. PICK d \in Calls : d = chain[p][i].body.state
    BY <1>2
  <2>3. Same(d) /\ result[d] = "ok"
    BY <1>1, <2>1, <2>2 DEF Placed
  <2> QED BY <2>1, <2>2, <2>3 DEF Placed, Same, HashAt
<1>4. ASSUME NEW p \in Policies, NEW d \in Calls, result'[d] = "ok", id'[d].policy = p
      PROVE  \E i \in 1..Len(chain[p]) : chain[p][i] = rec'[d]
  <2>1. Same(d) /\ result[d] = "ok"
    BY <1>1, <1>4
  <2>2. id[d].policy = p /\ rec'[d] = rec[d]
    BY <1>4, <2>1 DEF Same
  <2> QED BY <2>1, <2>2 DEF ChainInv
<1>5. ChainInv'
  BY <1>3, <1>4 DEF ChainInv
<1>6. SeqIncreases'
  BY DEF SeqIncreases
<1>7. ASSUME NEW d \in Calls \ {c}, result'[d] = "rejected"
      PROVE  \E e \in overlap'[d] : result'[e] = "ok" /\ id'[e].policy = id'[d].policy
  <2>1. PICK e \in overlap[d] : result[e] = "ok" /\ id[e].policy = id[d].policy
    BY <1>7 DEF RejectedOnlyByRace, Same
  <2>2. e \in Calls
    BY <2>1 DEF TypeOK
  <2>3. Same(e)
    BY <1>1, <2>1, <2>2
  <2> QED BY <1>7, <2>1, <2>2, <2>3 DEF Same
<1> QED BY <1>5, <1>6, <1>7

\* The call that takes the step answers for itself.
LEMMA Quiet ==
  ASSUME ServiceInv, TypeOK', NEW c \in Calls, UNCHANGED <<chain, journal>>,
         \A d \in Calls \ {c} : Same(d),
         \A d \in Calls \ {c} : overlap[d] \subseteq overlap'[d],
         ~Recorded(c), ~Recorded(c)',
         CallOK(c)', CountOK(c)', LinkOK(c)',
         \A d \in Calls \ {c} : OverlapOK(c, d)' /\ OverlapOK(d, c)'
  PROVE  ServiceInv'
<1> USE DEF ServiceInv
<1>1. \A d \in Calls \ {c} :
        /\ Recorded(d)' <=> Recorded(d)
        /\ Sealed(d)' <=> Sealed(d)
        /\ Linked(d)' <=> Linked(d)
        /\ Numbered(d)' <=> Numbered(d)
        /\ Running(d)' <=> Running(d)
  BY SameStage
<1>2. ASSUME NEW d \in Calls, d # c PROVE CallOK(d)'
  <2>1. CallOK(d)
    BY DEF CallsInv
  <2> QED BY <1>1, <1>2, <2>1 DEF CallOK, Same
<1>3. ASSUME NEW d \in Calls, d # c PROVE CountOK(d)'
  <2>1. CountOK(d)
    BY DEF CallsInv
  <2>2. Behind(d)' = Behind(d)
    BY <1>1, <1>3 DEF Behind
  <2> QED BY <1>1, <1>3, <2>1, <2>2 DEF CountOK, Same
<1>4. ASSUME NEW d \in Calls, d # c PROVE LinkOK(d)'
  <2>1. LinkOK(d)
    BY DEF CallsInv
  <2>2. id'[d] = id[d] /\ prev'[d] = prev[d] /\ rec'[d] = rec[d] /\ chain' = chain
        /\ overlap[d] \subseteq overlap'[d]
    BY <1>4 DEF Same
  <2> QED BY <1>1, <1>4, <2>1, <2>2 DEF LinkOK, HashAt
<1>5. ASSUME NEW x \in Calls, NEW d \in Calls, x # d PROVE OverlapOK(x, d)'
  <2>1. CASE x # c /\ d # c
    <3>1. OverlapOK(x, d)
      BY <1>5 DEF CallsInv
    <3> QED BY <1>1, <2>1, <3>1 DEF OverlapOK, Same
  <2> QED BY <1>5, <2>1
<1>6. CallsInv'
  BY <1>2, <1>3, <1>4, <1>5 DEF CallsInv
<1>7. \A i \in 1..Len(journal) : journal[i] \in Record /\ journal[i].body.state \in Calls
  <2>1. \A i \in 1..Len(journal) : journal[i] \in Record
    BY ElementOfSeq DEF TypeOK
  <2> QED BY <2>1 DEF Record, Body
<1>8. JournalInv'
  <2>1. ASSUME NEW i \in 1..Len(journal)
        PROVE  Recorded(journal[i].body.state)' /\ journal[i] = rec'[journal[i].body.state]
    <3>1. PICK d \in Calls : d = journal[i].body.state
      BY <1>7
    <3>2. Recorded(d) /\ journal[i] = rec[d]
      BY <3>1 DEF JournalInv
    <3>3. d # c
      BY <3>2
    <3>4. Recorded(d)' /\ rec'[d] = rec[d]
      BY <1>1, <3>2, <3>3 DEF Same
    <3>5. Recorded(journal[i].body.state)' <=> Recorded(d)'
      BY <3>1 DEF Recorded
    <3> QED BY <3>1, <3>2, <3>4, <3>5
  <2>2. ASSUME NEW d \in Calls, Recorded(d)'
        PROVE  \E i \in 1..Len(journal) : journal[i] = rec'[d]
    <3>1. d # c
      BY <2>2
    <3>2. Recorded(d) /\ rec'[d] = rec[d]
      BY <1>1, <2>2, <3>1 DEF Same
    <3> QED BY <3>2 DEF JournalInv
  <2>3. \A i, j \in 1..Len(journal) : journal[i].body.state = journal[j].body.state => i = j
    BY DEF JournalInv
  <2> QED BY <2>1, <2>2, <2>3 DEF JournalInv
<1>9. /\ ChainInv' /\ SeqIncreases'
      /\ \A d \in Calls \ {c} : result'[d] = "rejected" =>
           \E e \in overlap'[d] : result'[e] = "ok" /\ id'[e].policy = id'[d].policy
  BY QuietChain DEF Recorded
<1>10. RejectedOnlyByRace'
  BY <1>9 DEF RejectedOnlyByRace, Recorded
<1> QED BY <1>6, <1>8, <1>9, <1>10


\* Records in a run are in the journal: their batch sequences are behind it.
LEMMA RunBehind ==
  ASSUME ServiceInv, NEW p \in Policies, NEW i \in 1..Len(chain[p])
  PROVE  /\ chain[p][i] \in Record /\ chain[p][i].body.state \in Calls
         /\ chain[p][i].body.seq <= Len(journal)
<1> USE DEF ServiceInv
<1>1. chain[p][i] \in Record
  BY ElementOfSeq DEF TypeOK
<1>2. chain[p][i].body.state \in Calls
  BY <1>1 DEF Record, Body
<1>3. PICK d \in Calls : d = chain[p][i].body.state
  BY <1>2
<1>4. chain[p][i] = rec[d] /\ result[d] = "ok"
  BY <1>3 DEF ChainInv, Placed
<1>5. Recorded(d) /\ Sealed(d)
  BY <1>4 DEF Recorded, Sealed
<1>6. rec[d].body.seq <= Len(journal) + 0
  BY <1>5 DEF CallsInv, CountOK, Behind
<1> QED BY <1>1, <1>2, <1>4, <1>6 DEF TypeOK

LEMMA InvCall ==
  ASSUME ServiceInv, TypeOK', NEW c \in Calls, NEW q \in Requests, Call(c, q)
  PROVE  ServiceInv'
<1> USE DEF ServiceInv
<1>1. /\ chain' = chain /\ journal' = journal /\ \A d \in Calls \ {c} : Same(d)
      /\ pc[c] = "idle" /\ pc'[c] = "evaluate" /\ result'[c] = result[c]
      /\ prev'[c] = prev[c] /\ overlap'[c] = {x \in Calls : Running(x)}
      /\ \A d \in Calls \ {c} :
           overlap'[d] = IF Running(d) THEN overlap[d] \cup {c} ELSE overlap[d]
  BY DEF Call, Goto, Same, TypeOK
<1>2. CallOK(c)
  BY DEF CallsInv
<1>3. result[c] = "none" /\ prev[c] = Genesis
  <2>1. result[c] = "none"
    BY <1>1, <1>2 DEF CallOK
  <2>2. ~Linked(c)
    BY <1>1, <2>1 DEF Linked, Sealed, Recorded
  <2> QED BY <1>2, <2>1, <2>2 DEF CallOK
<1>4. /\ ~Recorded(c) /\ ~Recorded(c)' /\ ~Sealed(c)' /\ ~Linked(c)' /\ ~Numbered(c)'
      /\ ~Running(c) /\ Running(c)'
  BY <1>1, <1>3 DEF Recorded, Sealed, Linked, Numbered, Running
<1>5. CallOK(c)'
  BY <1>1, <1>3, <1>4 DEF CallOK
<1>6. CountOK(c)'
  BY <1>4 DEF CountOK
<1>7. LinkOK(c)'
  <2>1. Len(prev'[c]) = 0
    BY <1>1, <1>3 DEF Genesis
  <2>2. 0 <= Len(chain[id'[c].policy])
    <3>1. id'[c].policy \in Policies
      BY DEF TypeOK, DecisionID
    <3> QED BY <3>1 DEF TypeOK
  <2> QED BY <1>1, <1>3, <1>4, <2>1, <2>2 DEF LinkOK, HashAt
<1>8. ASSUME NEW d \in Calls, d # c PROVE OverlapOK(c, d)' /\ OverlapOK(d, c)'
  <2>1. Running(d)' <=> Running(d)
    BY <1>1, <1>8, SameStage
  <2>2. OverlapOK(c, d)'
    BY <1>1, <1>4, <2>1 DEF OverlapOK
  <2>3. OverlapOK(d, c)'
    BY <1>1, <1>4, <1>8, <2>1 DEF OverlapOK
  <2> QED BY <2>2, <2>3
<1>9. \A d \in Calls \ {c} : overlap[d] \subseteq overlap'[d]
  BY <1>1
<1> QED BY <1>1, <1>4, <1>5, <1>6, <1>7, <1>8, <1>9, Quiet


\* What a step of a call that is not recorded leaves to show when it keeps the
\* call running or ends it.
LEMMA QuietStep ==
  ASSUME ServiceInv, TypeOK', NEW c \in Calls,
         UNCHANGED <<chain, journal, overlap>>,
         \A d \in Calls \ {c} : Same(d),
         ~Recorded(c), ~Recorded(c)', Running(c)' => Running(c),
         CallOK(c)', CountOK(c)', LinkOK(c)',
         \A d \in Calls \ {c} :
           Running(c)' /\ Numbered(c)' /\ Recorded(d) /\ d \notin overlap[c] =>
             id[d].num < id'[c].num
  PROVE  ServiceInv'
<1>1. ASSUME NEW d \in Calls, d # c PROVE OverlapOK(c, d)' /\ OverlapOK(d, c)'
  <2>1. OverlapOK(c, d) /\ OverlapOK(d, c)
    BY <1>1 DEF ServiceInv, CallsInv
  <2>2. /\ Running(d)' <=> Running(d)
        /\ Recorded(d)' <=> Recorded(d)
        /\ id'[d] = id[d]
    BY <1>1, SameStage DEF Same
  <2>3. OverlapOK(c, d)'
    BY <1>1, <2>1, <2>2 DEF OverlapOK
  <2>4. OverlapOK(d, c)'
    BY <1>1, <2>1, <2>2 DEF OverlapOK
  <2> QED BY <2>3, <2>4
<1>2. \A d \in Calls \ {c} : overlap[d] \subseteq overlap'[d]
  OBVIOUS
<1> QED BY <1>1, <1>2, Quiet

LEMMA InvFail ==
  ASSUME ServiceInv, TypeOK', NEW c \in Calls, Fail(c)
  PROVE  ServiceInv'
<1> USE DEF ServiceInv
<1>1. /\ UNCHANGED <<chain, journal, overlap>> /\ \A d \in Calls \ {c} : Same(d)
      /\ pc[c] \in {"evaluate", "numbered", "linked"} /\ pc'[c] = "done"
      /\ result'[c] = "failed" /\ prev'[c] = Genesis
  BY DEF Fail, Goto, Same, TypeOK
<1>2. result[c] = "none"
  BY <1>1 DEF CallsInv, CallOK
<1>3. /\ ~Recorded(c) /\ ~Recorded(c)' /\ ~Sealed(c)' /\ ~Linked(c)' /\ ~Numbered(c)'
      /\ ~Running(c)'
  BY <1>1, <1>2 DEF Recorded, Sealed, Linked, Numbered, Running
<1>4. CallOK(c)' /\ CountOK(c)'
  BY <1>1, <1>3 DEF CallOK, CountOK
<1>5. LinkOK(c)'
  <2>1. Len(prev'[c]) = 0
    BY <1>1 DEF Genesis
  <2>2. 0 <= Len(chain[id'[c].policy])
    <3>1. id'[c].policy \in Policies
      BY DEF TypeOK, DecisionID
    <3> QED BY <3>1 DEF TypeOK
  <2> QED BY <1>1, <1>3, <2>1, <2>2 DEF LinkOK, HashAt
<1> QED BY <1>1, <1>3, <1>4, <1>5, QuietStep

LEMMA InvNumberDecision ==
  ASSUME ServiceInv, TypeOK', NEW c \in Calls, NumberDecision(c)
  PROVE  ServiceInv'
<1> USE DEF ServiceInv
<1>1. /\ UNCHANGED <<chain, journal, overlap>> /\ \A d \in Calls \ {c} : Same(d)
      /\ pc[c] = "evaluate" /\ pc'[c] = "numbered"
      /\ result'[c] = result[c] /\ prev'[c] = prev[c]
      /\ id'[c].num = Len(journal) + 1 /\ id'[c].policy = id[c].policy
  BY DEF NumberDecision, Goto, Same, TypeOK, DecisionID
<1>2. CallOK(c) /\ LinkOK(c) /\ result[c] = "none"
  BY <1>1 DEF CallsInv, CallOK
<1>3. /\ ~Recorded(c) /\ ~Recorded(c)' /\ ~Sealed(c)' /\ ~Linked(c)' /\ ~Linked(c)
      /\ Running(c)
  BY <1>1, <1>2 DEF Recorded, Sealed, Linked, Running
<1>4. CallOK(c)'
  BY <1>1, <1>2, <1>3 DEF CallOK
<1>5. CountOK(c)'
  BY <1>1, <1>3 DEF CountOK, Behind, TypeOK
<1>6. LinkOK(c)'
  BY <1>1, <1>2, <1>3 DEF LinkOK, HashAt
<1>7. ASSUME NEW d \in Calls, Recorded(d) PROVE id[d].num < id'[c].num
  <2>1. id[d].num <= Len(journal) + 0
    BY <1>7 DEF CallsInv, CountOK, Behind, Numbered, Linked, Sealed
  <2>2. id[d].num \in Nat /\ Len(journal) \in Nat
    BY DEF TypeOK, DecisionID
  <2> QED BY <1>1, <2>1, <2>2
<1> QED BY <1>1, <1>3, <1>4, <1>5, <1>6, <1>7, QuietStep

LEMMA InvReadHead ==
  ASSUME ServiceInv, TypeOK', NEW c \in Calls, ReadHead(c)
  PROVE  ServiceInv'
<1> USE DEF ServiceInv
<1> DEFINE run == chain[id[c].policy]
<1>1. /\ UNCHANGED <<chain, journal, overlap, id>> /\ \A d \in Calls \ {c} : Same(d)
      /\ pc[c] = "numbered" /\ pc'[c] = "linked"
      /\ result'[c] = result[c] /\ prev'[c] = HeadHash(run)
  BY DEF ReadHead, Goto, Same, TypeOK
<1>2. CallOK(c) /\ CountOK(c) /\ result[c] = "none"
  BY <1>1 DEF CallsInv, CallOK
<1>3. /\ ~Recorded(c) /\ ~Recorded(c)' /\ ~Sealed(c)' /\ Linked(c)' /\ Numbered(c)
      /\ Running(c)
  BY <1>1, <1>2 DEF Recorded, Sealed, Linked, Numbered, Running
<1>4. CallOK(c)'
  BY <1>1, <1>2, <1>3 DEF CallOK
<1>5. CountOK(c)'
  BY <1>1, <1>2, <1>3 DEF CountOK, Behind
<1>6. LinkOK(c)'
  <2>1. id[c].policy \in Policies /\ run \in Seq(Record) /\ Len(run) \in Nat
    BY DEF TypeOK, DecisionID
  <2>2. prev'[c] = HashAt(run, Len(run))
    BY <1>1, <2>1, HeadType
  <2>3. Len(prev'[c]) = Len(run)
    <3>1. CASE Len(run) = 0
      BY <2>2, <3>1 DEF HashAt, Genesis
    <3>2. CASE Len(run) # 0
      <4>1. Len(run) \in 1..Len(run)
        BY <2>1, <3>2
      <4>2. Placed(id[c].policy, Len(run))
        BY <2>1, <4>1 DEF ChainInv
      <4> QED BY <2>2, <3>2, <4>2 DEF HashAt, Placed
    <3> QED BY <3>1, <3>2
  <2>4. (Len(run) + 1)..Len(run) = {}
    BY <2>1
  <2> QED BY <1>1, <1>3, <2>1, <2>2, <2>3, <2>4 DEF LinkOK, HashAt
<1>7. \A d \in Calls \ {c} : Recorded(d) /\ d \notin overlap[c] => id[d].num < id'[c].num
  BY <1>1, <1>3 DEF CallsInv, OverlapOK
<1> QED BY <1>1, <1>3, <1>4, <1>5, <1>6, <1>7, QuietStep

LEMMA InvSealRecord ==
  ASSUME ServiceInv, TypeOK', NEW c \in Calls, SealRecord(c)
  PROVE  ServiceInv'
<1> USE DEF ServiceInv
<1> DEFINE run == chain[id[c].policy]
           b == [run |-> id[c].policy, seq |-> Len(journal) + 1,
                 id |-> id[c], state |-> c]
<1>1. /\ UNCHANGED <<chain, journal, overlap, id, prev>>
      /\ \A d \in Calls \ {c} : Same(d)
      /\ pc[c] = "linked" /\ pc'[c] = "sealed"
      /\ result'[c] = result[c] /\ rec'[c] = Seal(prev[c], b)
  BY DEF SealRecord, Goto, Same, TypeOK
<1>2. CallOK(c) /\ CountOK(c) /\ LinkOK(c) /\ result[c] = "none"
  BY <1>1 DEF CallsInv, CallOK
<1>3. /\ ~Recorded(c) /\ ~Recorded(c)' /\ Sealed(c)' /\ Linked(c)' /\ Linked(c)
      /\ Numbered(c) /\ Running(c)
  BY <1>1, <1>2 DEF Recorded, Sealed, Linked, Numbered, Running
<1>4. rec'[c].body = b
  <2>1. b \in Body /\ prev[c] \in Hashes
    BY DEF TypeOK, DecisionID, Body
  <2> HIDE DEF b
  <2> QED BY <1>1, <2>1, SealType
<1>5. CallOK(c)'
  BY <1>1, <1>2, <1>3, <1>4 DEF CallOK
<1>6. CountOK(c)'
  BY <1>1, <1>2, <1>3, <1>4 DEF CountOK, Behind, TypeOK
<1>7. LinkOK(c)'
  <2>1. id[c].policy \in Policies
    BY DEF TypeOK, DecisionID
  <2>2. ASSUME NEW i \in 1..Len(run) PROVE run[i].body.seq < rec'[c].body.seq
    <3>1. run[i] \in Record /\ run[i].body.seq <= Len(journal)
      BY <2>1, RunBehind
    <3>2. run[i].body.seq \in Nat
      BY <3>1 DEF Record, Body
    <3>3. Len(journal) \in Nat
      BY DEF TypeOK
    <3> QED BY <1>4, <3>1, <3>2, <3>3
  <2> HIDE DEF b
  <2> QED BY <1>1, <1>2, <1>3, <2>2 DEF LinkOK, HashAt
<1>8. \A d \in Calls \ {c} : Recorded(d) /\ d \notin overlap[c] => id[d].num < id'[c].num
  BY <1>1, <1>3 DEF CallsInv, OverlapOK
<1> HIDE DEF b
<1> QED BY <1>1, <1>3, <1>5, <1>6, <1>7, <1>8, QuietStep

\* Loading the entries, and a swap that comes too late.
LEMMA InvRetry ==
  ASSUME ServiceInv, TypeOK', NEW c \in Calls,
         LoadEntries(c) \/ (SwapEntries(c) /\ journal # snap[c])
  PROVE  ServiceInv'
<1> USE DEF ServiceInv
<1>1. /\ UNCHANGED <<chain, journal, overlap, id, prev, rec>>
      /\ \A d \in Calls \ {c} : Same(d)
      /\ pc[c] \in {"sealed", "swap"} /\ pc'[c] \in {"sealed", "swap"}
      /\ result'[c] = result[c]
  BY DEF LoadEntries, SwapEntries, Goto, Same, TypeOK
<1>2. CallOK(c) /\ CountOK(c) /\ LinkOK(c) /\ result[c] = "none"
  BY <1>1 DEF CallsInv, CallOK
<1>3. /\ ~Recorded(c) /\ ~Recorded(c)' /\ Sealed(c)' /\ Sealed(c)
      /\ Linked(c)' /\ Linked(c) /\ Numbered(c) /\ Numbered(c)'
      /\ Running(c) /\ Running(c)'
  BY <1>1, <1>2 DEF Recorded, Sealed, Linked, Numbered, Running
<1>4. CallOK(c)' /\ CountOK(c)'
  BY <1>1, <1>2, <1>3 DEF CallOK, CountOK, Behind
<1>5. LinkOK(c)'
  BY <1>1, <1>2, <1>3 DEF LinkOK, HashAt
<1>6. \A d \in Calls \ {c} : Recorded(d) /\ d \notin overlap[c] => id[d].num < id'[c].num
  BY <1>1, <1>3 DEF CallsInv, OverlapOK
<1> QED BY <1>1, <1>3, <1>4, <1>5, <1>6, QuietStep


-----------------------------------------------------------------------------
(* The swap that puts an entry into the journal *)

LEMMA EntryState ==
  ASSUME TypeOK, NEW i \in 1..Len(journal)
  PROVE  journal[i] \in Record /\ journal[i].body.state \in Calls
<1>1. journal[i] \in Record
  BY ElementOfSeq DEF TypeOK
<1> QED BY <1>1 DEF Record, Body

LEMMA InvSwap ==
  ASSUME ServiceInv, TypeOK', NEW c \in Calls, SwapEntries(c), journal = snap[c]
  PROVE  ServiceInv'
<1> USE DEF ServiceInv
<1>1. /\ UNCHANGED <<chain, overlap, id, prev, rec, result>>
      /\ \A d \in Calls \ {c} : Same(d)
      /\ pc[c] = "swap" /\ pc'[c] = "append" /\ journal' = Append(journal, rec[c])
  BY DEF SwapEntries, Goto, Same, TypeOK
<1>2. CallOK(c) /\ CountOK(c) /\ LinkOK(c) /\ result[c] = "none"
  BY <1>1 DEF CallsInv, CallOK
<1>3. /\ ~Recorded(c) /\ Recorded(c)' /\ Sealed(c)' /\ Sealed(c)
      /\ Linked(c)' /\ Linked(c) /\ Numbered(c) /\ Numbered(c)'
      /\ Running(c) /\ Running(c)'
  BY <1>1, <1>2 DEF Recorded, Sealed, Linked, Numbered, Running
<1>4. \A d \in Calls \ {c} :
        /\ Recorded(d)' <=> Recorded(d)
        /\ Sealed(d)' <=> Sealed(d)
        /\ Linked(d)' <=> Linked(d)
        /\ Numbered(d)' <=> Numbered(d)
        /\ Running(d)' <=> Running(d)
  BY <1>1, SameStage
<1>5. journal \in Seq(Record) /\ rec[c] \in Record /\ Len(journal) \in Nat
  BY DEF TypeOK
<1>6. /\ Len(journal') = Len(journal) + 1 /\ journal'[Len(journal) + 1] = rec[c]
      /\ \A i \in 1..Len(journal) : journal'[i] = journal[i]
  BY <1>1, <1>5
<1>7. rec[c].body.state = c
  <2>1. rec[c] = Seal(prev[c], [run |-> id[c].policy, seq |-> rec[c].body.seq,
                                id |-> id[c], state |-> c])
    BY <1>2, <1>3 DEF CallOK
  <2> QED BY <2>1 DEF Seal
<1>8. ASSUME NEW d \in Calls PROVE CallOK(d)' /\ CountOK(d)' /\ LinkOK(d)'
  <2>1. CallOK(d) /\ CountOK(d) /\ LinkOK(d)
    BY DEF CallsInv
  <2>2. /\ Sealed(d)' <=> Sealed(d)
        /\ Linked(d)' <=> Linked(d)
        /\ Numbered(d)' <=> Numbered(d)
        /\ Running(d)' <=> Running(d)
        /\ pc'[d] = "done" <=> pc[d] = "done"
    BY <1>1, <1>3, <1>4 DEF Same
  <2>3. Behind(d)' >= Behind(d)
    <3>1. CASE d = c
      BY <1>3, <1>5, <1>6, <3>1 DEF Behind
    <3>2. CASE d # c
      <4>1. CASE Recorded(d)
        <5>1. Recorded(d)'
          BY <1>4, <3>2, <4>1
        <5> QED BY <1>5, <1>6, <4>1, <5>1 DEF Behind
      <4>2. CASE ~Recorded(d)
        <5>1. ~Recorded(d)'
          BY <1>4, <3>2, <4>2
        <5> QED BY <1>5, <1>6, <4>2, <5>1 DEF Behind
      <4> QED BY <4>1, <4>2
    <3> QED BY <3>1, <3>2
  <2>4. CallOK(d)'
    BY <1>1, <2>1, <2>2 DEF CallOK
  <2>5. CountOK(d)'
    <3>1. Behind(d) \in Int /\ Behind(d)' \in Int
      BY <1>5, <1>6 DEF Behind
    <3>2. rec[d].body.seq \in Int /\ id[d].num \in Int
      BY DEF TypeOK, Record, Body, DecisionID
    <3> QED BY <1>1, <2>1, <2>2, <2>3, <3>1, <3>2 DEF CountOK
  <2>6. LinkOK(d)'
    BY <1>1, <2>1, <2>2 DEF LinkOK, HashAt
  <2> QED BY <2>4, <2>5, <2>6
<1>9. ASSUME NEW x \in Calls, NEW d \in Calls, x # d PROVE OverlapOK(x, d)'
  <2>1. OverlapOK(x, d)
    BY <1>9 DEF CallsInv
  <2>2. CASE d = c
    BY <1>1, <1>3, <1>4, <1>9, <2>1, <2>2 DEF OverlapOK
  <2>3. CASE d # c
    BY <1>1, <1>3, <1>4, <2>1, <2>3 DEF OverlapOK
  <2> QED BY <2>2, <2>3
<1>10. CallsInv'
  BY <1>8, <1>9 DEF CallsInv
<1>11. JournalInv'
  <2>1. ASSUME NEW i \in 1..Len(journal)
        PROVE  \E d \in Calls \ {c} :
                 d = journal[i].body.state /\ Recorded(d)' /\ journal[i] = rec[d]
    <3>1. PICK d \in Calls : d = journal[i].body.state
      BY EntryState
    <3>2. Recorded(d) /\ journal[i] = rec[d]
      BY <3>1 DEF JournalInv
    <3>3. d # c
      BY <1>3, <3>2
    <3> QED BY <1>4, <3>1, <3>2, <3>3
  <2>2. ASSUME NEW i \in 1..Len(journal')
        PROVE  \E d \in Calls : /\ d = journal'[i].body.state
                                /\ Recorded(d)' /\ journal'[i] = rec'[d]
                                /\ d = c => i = Len(journal) + 1
    <3>1. CASE i \in 1..Len(journal)
      BY <1>1, <1>6, <2>1, <3>1
    <3>2. CASE i = Len(journal) + 1
      BY <1>1, <1>3, <1>6, <1>7, <3>2
    <3> QED BY <1>5, <1>6, <3>1, <3>2
  <2>3. ASSUME NEW i \in 1..Len(journal')
        PROVE  /\ Recorded(journal[i].body.state)'
               /\ journal'[i] = rec'[journal'[i].body.state]
    <3>1. PICK d \in Calls : /\ d = journal'[i].body.state
                             /\ Recorded(d)' /\ journal'[i] = rec'[d]
      BY <2>2
    <3> QED BY <3>1 DEF Recorded
  <2>4. ASSUME NEW i \in 1..Len(journal'), NEW j \in 1..Len(journal'),
               journal'[i].body.state = journal'[j].body.state
        PROVE  i = j
    <3>1. CASE i \in 1..Len(journal) /\ j \in 1..Len(journal)
      BY <1>6, <2>4, <3>1 DEF JournalInv
    <3>2. CASE i = Len(journal) + 1
      <4>1. journal'[j].body.state = c
        BY <1>6, <1>7, <2>4, <3>2
      <4> QED BY <1>5, <2>2, <3>2, <4>1
    <3>3. CASE j = Len(journal) + 1
      <4>1. journal'[i].body.state = c
        BY <1>6, <1>7, <2>4, <3>3
      <4> QED BY <1>5, <2>2, <3>3, <4>1
    <3> QED BY <1>5, <1>6, <3>1, <3>2, <3>3
  <2>5. ASSUME NEW d \in Calls, Recorded(d)'
        PROVE  \E i \in 1..Len(journal') : journal'[i] = rec'[d]
    <3>1. CASE d = c
      BY <1>1, <1>5, <1>6, <3>1
    <3>2. CASE d # c
      <4>1. PICK i \in 1..Len(journal) : journal[i] = rec[d]
        BY <1>4, <2>5, <3>2 DEF JournalInv
      <4> QED BY <1>1, <1>5, <1>6, <4>1
    <3> QED BY <3>1, <3>2
  <2> QED BY <2>3, <2>4, <2>5 DEF JournalInv
<1>12. /\ ChainInv' /\ SeqIncreases'
       /\ \A d \in Calls \ {c} : result'[d] = "rejected" =>
            \E e \in overlap'[d] : result'[e] = "ok" /\ id'[e].policy = id'[d].policy
  BY <1>1, <1>2, QuietChain
<1>13. RejectedOnlyByRace'
  BY <1>1, <1>2, <1>12 DEF RejectedOnlyByRace
<1> QED BY <1>10, <1>11, <1>12, <1>13


-----------------------------------------------------------------------------
(* Append to the store *)

LEMMA HeadLength ==
  ASSUME ServiceInv, NEW p \in Policies
  PROVE  /\ chain[p] \in Seq(Record) /\ Len(chain[p]) \in Nat
         /\ HeadHash(chain[p]) = HashAt(chain[p], Len(chain[p]))
         /\ Len(HeadHash(chain[p])) = Len(chain[p])
<1> USE DEF ServiceInv
<1> DEFINE run == chain[p]
<1>1. run \in Seq(Record) /\ Len(run) \in Nat
  BY DEF TypeOK
<1>2. HeadHash(run) = HashAt(run, Len(run))
  BY <1>1, HeadType
<1>3. CASE Len(run) = 0
  BY <1>1, <1>2, <1>3 DEF HashAt, Genesis
<1>4. CASE Len(run) # 0
  <2>1. Len(run) \in 1..Len(run)
    BY <1>1, <1>4
  <2>2. Placed(p, Len(run))
    BY <2>1 DEF ChainInv
  <2> QED BY <1>1, <1>2, <1>4, <2>2 DEF HashAt, Placed
<1> QED BY <1>3, <1>4

\* What every answer to a call at the store has in common.
LEMMA Returned ==
  ASSUME ServiceInv, TypeOK', NEW c \in Calls, AppendRecord(c)
  PROVE  /\ UNCHANGED <<journal, id, prev, rec, overlap>>
         /\ \A d \in Calls \ {c} : Same(d)
         /\ pc[c] = "append" /\ pc'[c] = "done"
         /\ result[c] = "none" /\ result'[c] \in {"ok", "rejected"}
         /\ \A d \in Calls : /\ Recorded(d)' <=> Recorded(d)
                             /\ Sealed(d)' <=> Sealed(d)
                             /\ Linked(d)' <=> Linked(d)
                             /\ Numbered(d)' <=> Numbered(d)
                             /\ Running(d)' <=> Running(d) /\ d # c
         /\ \A d \in Calls : CallOK(d)' /\ CountOK(d)'
         /\ \A x, d \in Calls : x # d => OverlapOK(x, d)'
         /\ JournalInv'
<1> USE DEF ServiceInv
<1>1. /\ UNCHANGED <<journal, id, prev, rec, overlap>>
      /\ \A d \in Calls \ {c} : Same(d)
      /\ pc[c] = "append" /\ pc'[c] = "done" /\ result'[c] \in {"ok", "rejected"}
  BY DEF AppendRecord, Goto, Same, TypeOK
<1>2. result[c] = "none"
  BY <1>1 DEF CallsInv, CallOK
<1>3. ASSUME NEW d \in Calls
      PROVE  /\ Recorded(d)' <=> Recorded(d)
             /\ Sealed(d)' <=> Sealed(d)
             /\ Linked(d)' <=> Linked(d)
             /\ Numbered(d)' <=> Numbered(d)
             /\ Running(d)' <=> Running(d) /\ d # c
  <2>1. CASE d = c
    BY <1>1, <2>1 DEF Recorded, Sealed, Linked, Numbered, Running
  <2>2. CASE d # c
    BY <1>1, <2>2, SameStage
  <2> QED BY <2>1, <2>2
<1>4. ASSUME NEW d \in Calls PROVE CallOK(d)' /\ CountOK(d)'
  <2>1. CallOK(d) /\ CountOK(d)
    BY DEF CallsInv
  <2>2. Behind(d)' = Behind(d)
    BY <1>1, <1>3 DEF Behind
  <2>3. CountOK(d)'
    BY <1>1, <1>3, <2>1, <2>2 DEF CountOK
  <2>4. pc'[d] = "done" <=> result'[d] # "none"
    <3>1. CASE d = c
      BY <1>1, <3>1
    <3>2. CASE d # c
      BY <1>1, <2>1, <3>2 DEF Same, CallOK
    <3> QED BY <3>1, <3>2
  <2>5. CallOK(d)'
    BY <1>1, <1>3, <2>1, <2>4 DEF CallOK
  <2> QED BY <2>3, <2>5
<1>5. ASSUME NEW x \in Calls, NEW d \in Calls, x # d PROVE OverlapOK(x, d)'
  <2>1. OverlapOK(x, d)
    BY <1>5 DEF CallsInv
  <2> QED BY <1>1, <1>3, <2>1 DEF OverlapOK
<1>6. JournalInv'
  <2>1. ASSUME NEW i \in 1..Len(journal)
        PROVE  Recorded(journal[i].body.state)' /\ journal[i] = rec[journal[i].body.state]
    <3>1. PICK d \in Calls : d = journal[i].body.state
      BY EntryState
    <3>2. Recorded(d)' /\ journal[i] = rec[d]
      BY <1>3, <3>1 DEF JournalInv
    <3> QED BY <1>1, <3>1, <3>2 DEF Recorded
  <2>2. ASSUME NEW d \in Calls, Recorded(d)'
        PROVE  \E i \in 1..Len(journal) : journal[i] = rec[d]
    <3>1. Recorded(d)
      BY <1>3, <2>2
    <3> QED BY <3>1 DEF JournalInv
  <2>3. \A i, j \in 1..Len(journal) : journal[i].body.state = journal[j].body.state => i = j
    BY DEF JournalInv
  <2> QED BY <1>1, <2>1, <2>2, <2>3 DEF JournalInv
<1> QED BY <1>1, <1>2, <1>3, <1>4, <1>5, <1>6

\* The record a call comes to the store with.
LEMMA AtStore ==
  ASSUME ServiceInv, NEW c \in Calls, pc[c] = "append"
  PROVE  /\ rec[c] \in Record /\ id[c].policy \in Policies
         /\ rec[c].prev = prev[c] /\ rec[c].body.run = id[c].policy
         /\ rec[c].body.id = id[c] /\ rec[c].body.state = c
         /\ VerifyIntegrity(rec[c]) /\ Len(rec[c].hash) = Len(prev[c]) + 1
         /\ Recorded(c) /\ Sealed(c) /\ Linked(c) /\ Numbered(c) /\ Running(c)
<1> USE DEF ServiceInv
<1>1. Recorded(c) /\ Sealed(c) /\ Linked(c) /\ Numbered(c) /\ Running(c)
  BY DEF Recorded, Sealed, Linked, Numbered, Running
<1>2. rec[c] \in Record /\ id[c] \in DecisionID /\ prev[c] \in Hashes
  BY DEF TypeOK
<1> DEFINE b == [run |-> id[c].policy, seq |-> rec[c].body.seq, id |-> id[c], state |-> c]
<1>3. b \in Body
  BY <1>2 DEF Record, Body, DecisionID
<1>4. rec[c] = Seal(prev[c], b)
  BY <1>1 DEF CallsInv, CallOK
<1>5. /\ rec[c].prev = prev[c] /\ rec[c].body = b
      /\ VerifyIntegrity(rec[c]) /\ Len(rec[c].hash) = Len(prev[c]) + 1
  <2> HIDE DEF b
  <2> QED BY <1>2, <1>3, <1>4, SealType
<1>6. /\ rec[c].body.run = id[c].policy /\ rec[c].body.id = id[c]
      /\ rec[c].body.state = c
  BY <1>5
<1> QED BY <1>1, <1>2, <1>5, <1>6 DEF DecisionID

LEMMA InvReject ==
  ASSUME ServiceInv, TypeOK', NEW c \in Calls, AppendRecord(c), ~Log!Admissible(rec[c])
  PROVE  ServiceInv'
<1> USE DEF ServiceInv
<1>1. chain' = chain /\ result'[c] = "rejected" /\ pc[c] = "append"
  BY DEF AppendRecord, TypeOK
<1> DEFINE p == id[c].policy
           run == chain[p]
           k == Len(prev[c])
<1>2. ASSUME NEW d \in Calls PROVE LinkOK(d)'
  <2>1. LinkOK(d)
    BY DEF CallsInv
  <2> QED BY <1>1, <2>1, Returned DEF LinkOK, HashAt
<1>3. /\ ChainInv' /\ SeqIncreases'
      /\ \A d \in Calls \ {c} : result'[d] = "rejected" =>
           \E e \in overlap'[d] : result'[e] = "ok" /\ id'[e].policy = id'[d].policy
  BY <1>1, Returned, QuietChain
<1>4. \E e \in overlap[c] : result[e] = "ok" /\ id[e].policy = p
  <2>1. /\ p \in Policies /\ rec[c].prev = prev[c] /\ rec[c].body.run = p
        /\ rec[c].body.id = id[c] /\ VerifyIntegrity(rec[c])
        /\ Linked(c) /\ Numbered(c) /\ Running(c)
    BY <1>1, AtStore
  <2>2. \/ prev[c] # HeadHash(run)
        \/ \E q \in Policies : \E i \in 1..Len(chain[q]) : chain[q][i].body.id = id[c]
    BY <2>1 DEF Log!Admissible, VerifyIntegrity, RecordHash, Log!VerifyIntegrity,
                Log!RecordHash, HeadHash, Log!HeadHash, Genesis, Log!Genesis
  <2>3. CASE prev[c] # HeadHash(run)
    <3>1. LinkOK(c)
      BY DEF CallsInv
    <3>2. k \in Nat /\ k <= Len(run) /\ prev[c] = HashAt(run, k)
      BY <3>1 DEF LinkOK, TypeOK, Hashes
    <3>3. Len(run) \in Nat /\ HeadHash(run) = HashAt(run, Len(run))
      BY <2>1, HeadLength
    <3>4. Len(run) \in (k + 1)..Len(run) /\ Len(run) \in 1..Len(run)
      <4>1. k # Len(run)
        BY <2>3, <3>2, <3>3
      <4> QED BY <3>2, <3>3, <4>1
    <3>5. run[Len(run)].body.state \in overlap[c]
      BY <2>1, <3>1, <3>4 DEF LinkOK
    <3>6. Placed(p, Len(run))
      BY <2>1, <3>4 DEF ChainInv
    <3> QED BY <3>5, <3>6 DEF Placed
  <2>4. CASE \E q \in Policies : \E i \in 1..Len(chain[q]) : chain[q][i].body.id = id[c]
    <3>0. PICK q \in Policies : \E i \in 1..Len(chain[q]) : chain[q][i].body.id = id[c]
      BY <2>4
    <3>1. PICK i \in 1..Len(chain[q]) : chain[q][i].body.id = id[c]
      BY <3>0
    <3>2. PICK d \in Calls : d = chain[q][i].body.state
      BY RunBehind
    <3>3. chain[q][i] = rec[d] /\ result[d] = "ok"
      BY <3>2 DEF ChainInv, Placed
    <3>4. Recorded(d) /\ Sealed(d)
      BY <3>3 DEF Recorded, Sealed
    <3>5. id[d] = id[c]
      <4>1. rec[d] = Seal(prev[d], [run |-> id[d].policy, seq |-> rec[d].body.seq,
                                    id |-> id[d], state |-> d])
        BY <3>4 DEF CallsInv, CallOK
      <4>2. rec[d].body.id = id[d]
        BY <4>1 DEF Seal
      <4> QED BY <3>1, <3>3, <4>2
    <3>6. d # c
      BY <3>3, Returned
    <3>7. d \in overlap[c]
      <4>1. OverlapOK(c, d)
        BY <3>6 DEF CallsInv
      <4>2. ~(id[d].num < id[c].num)
        <5>1. id[c].num \in Nat
          BY DEF TypeOK, DecisionID
        <5> QED BY <3>5, <5>1
      <4> QED BY <2>1, <3>4, <4>1, <4>2 DEF OverlapOK
    <3> QED BY <3>3, <3>5, <3>7
  <2> QED BY <2>2, <2>3, <2>4
<1>5. RejectedOnlyByRace'
  <2> SUFFICES ASSUME NEW d \in Calls, result'[d] = "rejected"
               PROVE  \E e \in overlap'[d] : result'[e] = "ok" /\ id'[e].policy = id'[d].policy
    BY DEF RejectedOnlyByRace
  <2>1. CASE d = c
    <3>1. PICK e \in overlap[c] : result[e] = "ok" /\ id[e].policy = p
      BY <1>4
    <3>2. e \in Calls \ {c}
      BY <3>1, Returned DEF TypeOK
    <3>3. Same(e)
      BY <3>2, Returned
    <3> QED BY <2>1, <3>1, <3>3, Returned DEF Same
  <2>2. CASE d # c
    BY <1>3, <2>2
  <2> QED BY <2>1, <2>2
<1> QED BY <1>2, <1>3, <1>5, Returned DEF CallsInv


LEMMA InvAccept ==
  ASSUME ServiceInv, TypeOK', NEW c \in Calls, AppendRecord(c), Log!Admissible(rec[c])
  PROVE  ServiceInv'
<1> USE DEF ServiceInv
<1> DEFINE p == id[c].policy
           run == chain[p]
<1>1. /\ chain' = [chain EXCEPT ![rec[c].body.run] = Append(@, rec[c])]
      /\ result'[c] = "ok" /\ pc[c] = "append"
  BY DEF AppendRecord, TypeOK
<1>2. /\ rec[c] \in Record /\ p \in Policies /\ rec[c].prev = prev[c]
      /\ rec[c].body.run = p /\ rec[c].body.state = c
      /\ Len(rec[c].hash) = Len(prev[c]) + 1 /\ Sealed(c) /\ Running(c)
  BY <1>1, AtStore
<1>3. /\ run \in Seq(Record) /\ Len(run) \in Nat
      /\ HeadHash(run) = HashAt(run, Len(run)) /\ Len(HeadHash(run)) = Len(run)
  BY <1>2, HeadLength
<1>4. /\ chain'[p] = Append(run, rec[c]) /\ Len(chain'[p]) = Len(run) + 1
      /\ chain'[p][Len(run) + 1] = rec[c]
      /\ \A i \in 1..Len(run) : chain'[p][i] = run[i]
      /\ \A q \in Policies : q # p => chain'[q] = chain[q]
  <2>1. chain'[p] = Append(run, rec[c]) /\ \A q \in Policies : q # p => chain'[q] = chain[q]
    BY <1>1, <1>2 DEF TypeOK
  <2> HIDE DEF run
  <2> QED BY <1>2, <1>3, <2>1
<1>5. prev[c] = HeadHash(run) /\ Len(prev[c]) = Len(run)
  <2>1. rec[c].prev = HeadHash(run)
    BY <1>2 DEF Log!Admissible, HeadHash, Log!HeadHash, Genesis, Log!Genesis
  <2> QED BY <1>2, <1>3, <2>1
<1>6. \A q \in Policies : /\ Len(chain[q]) \in Nat /\ Len(chain[q]) <= Len(chain'[q])
                          /\ \A i \in 1..Len(chain[q]) : chain'[q][i] = chain[q][i]
  <2>1. \A q \in Policies : Len(chain[q]) \in Nat
    BY HeadLength
  <2> QED BY <1>2, <1>3, <1>4, <2>1
<1>7. ASSUME NEW d \in Calls PROVE LinkOK(d)'
  <2> DEFINE q == id[d].policy
             k == Len(prev[d])
  <2>1. LinkOK(d)
    BY DEF CallsInv
  <2>2. q \in Policies /\ k \in Nat /\ id'[d] = id[d] /\ prev'[d] = prev[d]
        /\ overlap'[d] = overlap[d]
    <3>1. id' = id /\ prev' = prev /\ overlap' = overlap
      BY Returned
    <3>2. q \in Policies
      BY DEF TypeOK, DecisionID
    <3>3. prev[d] \in Seq(Body)
      BY DEF TypeOK, Hashes
    <3> QED BY <3>1, <3>2, <3>3, LenProperties
  <2>3. k <= Len(chain[q]) /\ prev[d] = HashAt(chain[q], k)
    BY <2>1 DEF LinkOK
  <2>4. k <= Len(chain'[q]) /\ prev[d] = HashAt(chain'[q], k)
    BY <1>6, <2>2, <2>3 DEF HashAt
  <2>5. ASSUME Linked(d)', Running(d)', NEW i \in (k + 1)..Len(chain'[q])
        PROVE  chain'[q][i].body.state \in overlap[d]
    <3>1. Linked(d) /\ Running(d) /\ d # c
      BY <2>5, Returned
    <3>2. CASE i \in 1..Len(chain[q])
      <4>1. i \in (k + 1)..Len(chain[q])
        BY <2>2, <2>5, <3>2
      <4>2. chain[q][i].body.state \in overlap[d]
        BY <2>1, <3>1, <4>1 DEF LinkOK
      <4> QED BY <1>6, <2>2, <3>2, <4>2
    <3>3. CASE i \notin 1..Len(chain[q])
      <4>0. q = p
        BY <1>4, <2>2, <2>5, <3>3
      <4>1. q = p /\ i = Len(run) + 1
        <5>1. Len(chain'[q]) = Len(run) + 1 /\ k \in Nat /\ i \in (k + 1)..Len(chain'[q])
          BY <1>4, <2>2, <2>5, <4>0
        <5>2. i \notin 1..Len(run) /\ Len(run) \in Nat
          BY <1>3, <3>3, <4>0
        <5> HIDE DEF run, k
        <5>3. i = Len(run) + 1
          BY <5>1, <5>2
        <5> QED BY <4>0, <5>3
      <4>2. c \in overlap[d]
        BY <1>2, <3>1 DEF CallsInv, OverlapOK
      <4> QED BY <1>2, <1>4, <4>1, <4>2
    <3> QED BY <3>2, <3>3
  <2>6. ASSUME Sealed(d)', Running(d)', k = Len(chain'[q]), NEW i \in 1..k
        PROVE  chain'[q][i].body.seq < rec[d].body.seq
    <3>1. Sealed(d) /\ Running(d)
      BY <2>6, Returned
    <3>2. k = Len(chain[q])
      BY <1>6, <2>2, <2>3, <2>6
    <3>3. chain[q][i].body.seq < rec[d].body.seq
      BY <2>1, <2>6, <3>1, <3>2 DEF LinkOK
    <3> QED BY <1>6, <2>2, <3>2, <3>3
  <2>7. rec' = rec
    BY Returned
  <2>8. q' = q /\ k' = k
    BY <2>2
  <2>9. /\ k' <= Len(chain'[q']) /\ prev'[d] = HashAt(chain[q], k)'
        /\ Linked(d)' /\ Running(d)' =>
             \A i \in (k' + 1)..Len(chain'[q']) : chain'[q'][i].body.state \in overlap'[d]
        /\ Sealed(d)' /\ Running(d)' /\ k' = Len(chain'[q']) =>
             \A i \in 1..k' : chain'[q'][i].body.seq < rec'[d].body.seq
    <3>1. HashAt(chain[q], k)' = HashAt(chain'[q], k)
      BY <2>8 DEF HashAt
    <3> HIDE DEF q, k
    <3> QED BY <2>2, <2>4, <2>5, <2>6, <2>7, <2>8, <3>1
  <2> QED BY <2>9 DEF LinkOK
<1>8. ASSUME NEW q \in Policies, NEW i \in 1..Len(chain[q]) PROVE Placed(q, i)'
  <2>1. Placed(q, i)
    BY DEF ChainInv
  <2>2. PICK d \in Calls : d = chain[q][i].body.state
    BY RunBehind
  <2>3. result[d] = "ok"
    BY <2>1, <2>2 DEF Placed
  <2>4. Same(d)
    BY <2>3, Returned
  <2>5. HashAt(chain'[q], i - 1) = HashAt(chain[q], i - 1)
    BY <1>6 DEF HashAt
  <2> QED BY <1>6, <2>1, <2>2, <2>4, <2>5 DEF Placed, Same
<1>9. ASSUME NEW q \in Policies, NEW j \in Nat, q = p, j = Len(run) + 1
      PROVE  Placed(q, j)'
  <2>1. HashAt(chain'[p], Len(run)) = HashAt(run, Len(run))
    BY <1>3, <1>4 DEF HashAt
  <2>2. j - 1 = Len(run) /\ id' = id /\ rec' = rec
    BY <1>3, <1>9, Returned
  <2>3. chain'[q][j] = rec[c] /\ HashAt(chain'[q], j - 1) = prev[c]
    BY <1>3, <1>4, <1>5, <1>9, <2>1, <2>2
  <2> QED BY <1>1, <1>2, <1>5, <1>9, <2>2, <2>3 DEF Placed
<1>10. ChainInv'
  <2>1. ASSUME NEW q \in Policies, NEW i \in 1..Len(chain'[q]) PROVE Placed(q, i)'
    <3>1. CASE i \in 1..Len(chain[q])
      BY <1>8, <3>1
    <3>2. CASE i \notin 1..Len(chain[q])
      <4>1. q = p /\ i = Len(run) + 1 /\ i \in Nat
        BY <1>3, <1>4, <1>6, <3>2
      <4> QED BY <1>9, <4>1
    <3> QED BY <3>1, <3>2
  <2>2. ASSUME NEW q \in Policies, NEW d \in Calls, result'[d] = "ok", id'[d].policy = q
        PROVE  \E i \in 1..Len(chain'[q]) : chain'[q][i] = rec'[d]
    <3>1. rec' = rec /\ id' = id
      BY Returned
    <3>2. CASE d = c
      BY <1>3, <1>4, <2>2, <3>1, <3>2
    <3>3. CASE d # c
      <4>1. Same(d)
        BY <3>3, Returned
      <4>2. PICK i \in 1..Len(chain[q]) : chain[q][i] = rec[d]
        BY <2>2, <3>1, <4>1 DEF ChainInv, Same
      <4>3. i \in 1..Len(chain'[q]) /\ chain'[q][i] = chain[q][i]
        BY <1>6
      <4> QED BY <3>1, <4>2, <4>3
    <3> QED BY <3>2, <3>3
  <2> QED BY <2>1, <2>2 DEF ChainInv
<1>11. SeqIncreases'
  <2> SUFFICES ASSUME NEW q \in Policies, NEW i \in 1..Len(chain'[q]),
                      NEW j \in 1..Len(chain'[q]), i < j
               PROVE  chain'[q][i].body.seq < chain'[q][j].body.seq
    BY DEF SeqIncreases
  <2>1. CASE j \in 1..Len(chain[q])
    <3>1. i \in 1..Len(chain[q])
      BY <1>6, <2>1
    <3> QED BY <1>6, <2>1, <3>1 DEF SeqIncreases
  <2>2. CASE j \notin 1..Len(chain[q])
    <3>1. q = p /\ j = Len(run) + 1 /\ i \in 1..Len(run)
      BY <1>3, <1>4, <1>6, <2>2
    <3>2. run[i].body.seq < rec[c].body.seq
      <4>1. LinkOK(c)
        BY DEF CallsInv
      <4> QED BY <1>2, <1>5, <3>1, <4>1 DEF LinkOK
    <3> QED BY <1>4, <3>1, <3>2
  <2> QED BY <2>1, <2>2
<1>12. RejectedOnlyByRace'
  <2> SUFFICES ASSUME NEW d \in Calls, result'[d] = "rejected"
               PROVE  \E e \in overlap'[d] : result'[e] = "ok" /\ id'[e].policy = id'[d].policy
    BY DEF RejectedOnlyByRace
  <2>1. d # c /\ Same(d)
    BY <1>1, Returned
  <2>2. PICK e \in overlap[d] : result[e] = "ok" /\ id[e].policy = id[d].policy
    BY <2>1 DEF RejectedOnlyByRace, Same
  <2>3. e \in Calls
    BY <2>2 DEF TypeOK
  <2>4. Same(e)
    BY <2>2, <2>3, Returned
  <2> QED BY <2>1, <2>2, <2>4, Returned DEF Same
<1> QED BY <1>7, <1>10, <1>11, <1>12, Returned DEF CallsInv


-----------------------------------------------------------------------------
(* The theorems *)

LEMMA InvInit == Init => ServiceInv
<1> SUFFICES ASSUME Init PROVE ServiceInv
  OBVIOUS
<1>1. TypeOK
  BY TypeInit
<1>2. \A c \in Calls : /\ ~Recorded(c) /\ ~Sealed(c) /\ ~Linked(c) /\ ~Numbered(c)
                       /\ ~Running(c)
  BY DEF Init, Recorded, Sealed, Linked, Numbered, Running
<1>3. \A p \in Policies : chain[p] = << >> /\ Len(chain[p]) = 0
  BY DEF Init
<1>4. ASSUME NEW c \in Calls PROVE LinkOK(c)
  <2>1. id[c].policy \in Policies /\ prev[c] = Genesis /\ Len(prev[c]) = 0
    BY UnsetTypes DEF Init, Genesis
  <2> QED BY <1>2, <1>3, <2>1 DEF LinkOK, HashAt
<1>5. CallsInv
  BY <1>2, <1>4 DEF Init, CallsInv, CallOK, CountOK, OverlapOK
<1>6. JournalInv
  BY <1>2 DEF Init, JournalInv
<1>7. ChainInv /\ SeqIncreases
  BY <1>3 DEF Init, ChainInv, SeqIncreases
<1>8. RejectedOnlyByRace
  BY DEF Init, RejectedOnlyByRace
<1> QED BY <1>1, <1>5, <1>6, <1>7, <1>8 DEF ServiceInv

LEMMA InvStutter == ServiceInv /\ UNCHANGED vars => ServiceInv'
<1> SUFFICES ASSUME ServiceInv, UNCHANGED vars PROVE ServiceInv'
  OBVIOUS
<1> USE DEF vars
<1>1. \A c : /\ Recorded(c)' <=> Recorded(c)
             /\ Sealed(c)' <=> Sealed(c)
             /\ Linked(c)' <=> Linked(c)
             /\ Numbered(c)' <=> Numbered(c)
             /\ Running(c)' <=> Running(c)
  BY DEF Recorded, Sealed, Linked, Numbered, Running
<1>2. TypeOK' /\ SeqIncreases' /\ RejectedOnlyByRace'
  BY DEF ServiceInv, TypeOK, SeqIncreases, RejectedOnlyByRace
<1>3. CallsInv'
  <2>1. \A c : (CallOK(c)' <=> CallOK(c)) /\ (LinkOK(c)' <=> LinkOK(c))
    BY <1>1 DEF CallOK, LinkOK, HashAt
  <2>2. \A c : CountOK(c)' <=> CountOK(c)
    <3>1. \A c : Behind(c)' = Behind(c)
      BY <1>1 DEF Behind
    <3> QED BY <1>1, <3>1 DEF CountOK
  <2>3. \A c, d : OverlapOK(c, d)' <=> OverlapOK(c, d)
    BY <1>1 DEF OverlapOK
  <2> QED BY <2>1, <2>2, <2>3 DEF ServiceInv, CallsInv
<1>4. JournalInv'
  <2>1. \A i : Recorded(journal[i].body.state)' <=> Recorded(journal[i].body.state)
    BY DEF Recorded
  <2> QED BY <1>1, <2>1 DEF ServiceInv, JournalInv
<1>5. ChainInv'
  <2>1. \A p, i : Placed(p, i)' <=> Placed(p, i)
    BY DEF Placed, HashAt
  <2> QED BY <2>1 DEF ServiceInv, ChainInv
<1> QED BY <1>2, <1>3, <1>4, <1>5 DEF ServiceInv

LEMMA InvNext == ServiceInv /\ [Next]_vars => ServiceInv'
<1> SUFFICES ASSUME ServiceInv, [Next]_vars PROVE ServiceInv'
  OBVIOUS
<1>1. TypeOK'
  BY TypeNext DEF ServiceInv
<1>2. CASE UNCHANGED vars
  BY <1>2, InvStutter
<1>3. ASSUME NEW c \in Calls, Start(c) \/ Fail(c) PROVE ServiceInv'
  BY <1>1, <1>3, InvCall, InvFail DEF Start
<1>4. ASSUME NEW c \in Calls, Proceed(c) PROVE ServiceInv'
  <2>1. CASE NumberDecision(c) \/ ReadHead(c) \/ SealRecord(c)
    BY <1>1, <2>1, InvNumberDecision, InvReadHead, InvSealRecord
  <2>2. CASE LoadEntries(c) \/ SwapEntries(c)
    <3>1. CASE SwapEntries(c) /\ journal = snap[c]
      BY <1>1, <3>1, InvSwap
    <3>2. CASE SwapEntries(c) /\ journal # snap[c]
      BY <1>1, <3>2, InvRetry
    <3>3. CASE LoadEntries(c)
      BY <1>1, <3>3, InvRetry
    <3> QED BY <2>2, <3>1, <3>2, <3>3
  <2>3. CASE AppendRecord(c)
    BY <1>1, <2>3, InvReject, InvAccept
  <2> QED BY <1>4, <2>1, <2>2, <2>3 DEF Proceed
<1> QED BY <1>2, <1>3, <1>4 DEF Next

\* Concurrent OptimizeEpoch calls keep the invariant: each call's record is in
\* the journal once it is recorded, in its run once it is answered, and linked
\* to what the call read.
THEOREM ServiceSafe == Spec => []ServiceInv
  BY InvInit, InvNext, PTL DEF Spec

\* Batch sequences increase strictly along every run.
THEOREM SequencesIncrease == Spec => []SeqIncreases
<1>1. ServiceInv => SeqIncreases
  BY DEF ServiceInv
<1> QED BY <1>1, ServiceSafe, PTL

\* The store refuses a call only when a call that ran while it ran was answered.
THEOREM RefusalsAreRaces == Spec => []RejectedOnlyByRace
<1>1. ServiceInv => RejectedOnlyByRace
  BY DEF ServiceInv
<1> QED BY <1>1, ServiceSafe, PTL

\* The journal has the entry of a call that is past Record once.
THEOREM EntriesOnce == Spec => []EntriesKeptOnce
<1>1. ServiceInv => EntriesKeptOnce
  <2> SUFFICES ASSUME ServiceInv, NEW c \in Calls, Recorded(c)
               PROVE  Cardinality({i \in 1..Len(journal) : journal[i] = rec[c]}) = 1
    BY DEF EntriesKeptOnce, Recorded
  <2>1. PICK i \in 1..Len(journal) : journal[i] = rec[c]
    BY DEF ServiceInv, JournalInv
  <2>2. \A j \in 1..Len(journal) : journal[j] = rec[c] => j = i
    BY <2>1 DEF ServiceInv, JournalInv
  <2>3. {j \in 1..Len(journal) : journal[j] = rec[c]} = {i}
    BY <2>1, <2>2
  <2> QED BY <2>3, FS_Singleton
<1> QED BY <1>1, ServiceSafe, PTL

\* Every record of a run is embedded in an entry of the semantic journal.
THEOREM AuditExplainsChain == Spec => []ChainExplained
<1>1. ServiceInv => ChainExplained
  <2> SUFFICES ASSUME ServiceInv, NEW p \in Policies, NEW i \in 1..Len(chain[p])
               PROVE  Journaled(chain[p][i])
    BY DEF ChainExplained
  <2>1. PICK d \in Calls : d = chain[p][i].body.state
    BY RunBehind
  <2>2. chain[p][i] = rec[d] /\ Recorded(d)
    BY <2>1 DEF ServiceInv, ChainInv, Placed, Recorded
  <2> QED BY <2>2 DEF ServiceInv, JournalInv, Journaled
<1> QED BY <1>1, ServiceSafe, PTL


LEMMA CommitStep ==
  ASSUME TypeOK, [Next]_vars
  PROVE  [Log!LogNext]_chain
<1>1. ASSUME NEW c \in Calls, AppendRecord(c), Log!Admissible(rec[c])
      PROVE  Log!LogNext
  <2> DEFINE run == rec[c].body.run
  <2>1. run \in Policies /\ rec[c] \in Record
    BY DEF TypeOK, Record, Body
  <2>2. chain[run] \in Seq(Record)
    BY <2>1 DEF TypeOK
  <2>3. chain' = [chain EXCEPT ![run] = Append(@, rec[c])]
    BY <1>1 DEF AppendRecord
  <2>4. chain'[run] = Append(chain[run], rec[c])
    BY <2>1, <2>3 DEF TypeOK
  <2>5. Len(chain'[run]) = Len(chain[run]) + 1
        /\ chain'[run][Len(chain[run]) + 1] = rec[c]
    <3> HIDE DEF run
    <3> QED BY <2>1, <2>2, <2>4
  <2>6. Log!Commit(run)
    BY <1>1, <2>3, <2>5 DEF Log!Commit
  <2> QED BY <2>1, <2>6 DEF Log!LogNext
<1>2. CASE UNCHANGED vars
  BY <1>2 DEF vars
<1>3. ASSUME NEW c \in Calls, Start(c) \/ Fail(c) \/ Proceed(c), ~AppendRecord(c)
      PROVE  chain' = chain
  BY <1>3 DEF Start, Call, Fail, Proceed, NumberDecision, ReadHead, SealRecord,
              LoadEntries, SwapEntries
<1>4. ASSUME NEW c \in Calls, AppendRecord(c), ~Log!Admissible(rec[c])
      PROVE  chain' = chain
  BY <1>4 DEF AppendRecord
<1> QED BY <1>1, <1>2, <1>3, <1>4 DEF Next

\* All that concurrent calls do to the store is commit admissible records one
\* by one: OptimizeEpoch implements the log a JournalStore promises.
THEOREM ServiceImplementsLog == Spec => ImplementsLog
<1>1. Init => Log!LogInit
  BY DEF Init, Log!LogInit
<1>2. ServiceInv => TypeOK
  BY DEF ServiceInv
<1>3. TypeOK /\ [Next]_vars => [Log!LogNext]_chain
  BY CommitStep
<1> QED BY <1>1, <1>2, <1>3, ServiceSafe, PTL DEF Spec, ImplementsLog, Log!LogSpec

\* The front doors add nothing to what clients of the service may do.
THEOREM DoorsImplementService == ApiSpec => ImplementsService
<1>1. ApiInit => Init
  BY DEF ApiInit
<1>2. ApiNext => [Next]_vars
  <2>1. ASSUME NEW c \in Calls, NEW q \in ApiRequestSet, Optimize(c, q)
        PROVE  [Next]_vars
    <3>1. CASE Refuses(q)
      BY <2>1, <3>1 DEF Optimize
    <3>2. CASE ~Refuses(q)
      <4>1. [policy |-> PolicyOf(q), epoch |-> q.epoch] \in Requests
        BY <3>2, ApiAssumption
      <4>2. Start(c)
        BY <2>1, <3>2, <4>1 DEF Optimize, Start
      <4> QED BY <4>2 DEF Next
    <3> QED BY <3>1, <3>2
  <2>2. ASSUME NEW c \in Calls, Fail(c) \/ Proceed(c) PROVE [Next]_vars
    BY <2>2 DEF Next
  <2> QED BY <2>1, <2>2 DEF ApiNext, HandleOptimize, GrpcOptimize
<1>3. UNCHANGED apiVars => UNCHANGED vars
  BY DEF apiVars
<1>4. [ApiNext]_apiVars => [Next]_vars
  BY <1>2, <1>3
<1> QED BY <1>1, <1>4, PTL DEF ApiSpec, Spec, ImplementsService

\* The integrity report of the run a response names is valid and counts the
\* responses that named it.
THEOREM AnswersAreAudited == ApiSpec => []AnswersAudited
<1>1. ServiceInv => AnswersAudited
  <2> SUFFICES ASSUME ServiceInv, NEW c \in Answered,
                      NEW n \in 0..Len(chain[Response(c).run])
               PROVE  LET report == VerifyMerkleChain(Response(c).run, n)
                          served == {d \in Answered : Response(d).run = Response(c).run}
                      IN  report.valid /\ report.verified = Cardinality(served)
    BY DEF AnswersAudited
  <2> USE DEF ServiceInv
  <2> DEFINE p == id[c].policy
             run == chain[p]
             served == {d \in Answered : id[d].policy = p}
  <2>1. p \in Policies /\ c \in Calls /\ result[c] = "ok"
    BY DEF Answered, TypeOK, DecisionID
  <2>2. run \in Seq(Record) /\ Len(run) \in Nat
    BY <2>1, HeadLength
  <2>3. ASSUME NEW d \in Calls, result[d] = "ok"
        PROVE  VerifyIntegrity(rec[d]) /\ rec[d].body.state = d
    <3>1. Sealed(d)
      BY <2>3 DEF Sealed, Recorded
    <3> DEFINE b == [run |-> id[d].policy, seq |-> rec[d].body.seq, id |-> id[d],
                     state |-> d]
    <3>2. rec[d] = Seal(prev[d], b)
      BY <3>1 DEF CallsInv, CallOK
    <3> QED BY <3>2 DEF Seal, VerifyIntegrity
  <2>4. ASSUME NEW i \in 1..Len(run)
        PROVE  /\ run[i].body.state \in served /\ VerifyIntegrity(run[i])
               /\ run[i] = rec[run[i].body.state] /\ Len(run[i].hash) = i
               /\ run[i].prev = HashAt(run, i - 1)
    <3>1. PICK d \in Calls : d = run[i].body.state
      BY <2>1, RunBehind
    <3>2. Placed(p, i)
      BY <2>1 DEF ChainInv
    <3> QED BY <2>3, <3>1, <3>2 DEF Placed, Answered
  <2> DEFINE found == SubSeq(run, 1, n)
  <2>5. VerifyChain(found)
    <3>1. n \in 0..Len(run)
      BY DEF Response
    <3>2. /\ Len(found) = n
          /\ \A i \in 1..n : found[i] = run[i]
      <4>1. \A i \in 1..n : run[i] \in Record
        BY <2>2, <3>1
      <4> HIDE DEF run
      <4> QED BY <2>2, <3>1, <4>1, SubSeqProperties
    <3>3. ASSUME NEW i \in 1..n
          PROVE  /\ VerifyIntegrity(found[i])
                 /\ found[i].prev = IF i = 1 THEN Genesis ELSE found[i - 1].hash
      <4>1. i \in 1..Len(run) /\ n \in Nat
        BY <2>2, <3>1
      <4>2. run[i].prev = IF i = 1 THEN Genesis ELSE run[i - 1].hash
        BY <2>2, <2>4, <4>1 DEF HashAt
      <4>3. i # 1 => i - 1 \in 1..n
        BY <4>1
      <4> QED BY <2>4, <3>2, <4>1, <4>2, <4>3
    <3> HIDE DEF found, run
    <3> QED BY <3>2, <3>3 DEF VerifyChain
  <2> DEFINE f == [i \in 1..Len(run) |-> run[i].body.state]
  <2>6. f \in Bijection(1..Len(run), served)
    <3>1. f \in [1..Len(run) -> served]
      BY <2>4
    <3>2. \A i, j \in 1..Len(run) : f[i] = f[j] => i = j
      BY <2>4
    <3>3. ASSUME NEW d \in served PROVE \E i \in 1..Len(run) : f[i] = d
      <4>1. PICK i \in 1..Len(run) : run[i] = rec[d]
        BY <2>1 DEF ChainInv, Answered
      <4>2. rec[d].body.state = d
        BY <2>3 DEF Answered
      <4> QED BY <4>1, <4>2
    <3> HIDE DEF f, served
    <3> QED BY <3>1, <3>2, <3>3 DEF Bijection, Injection, IsInjective, Surjection
  <2>7. Cardinality(served) = Len(run)
    <3>1. IsFiniteSet(1..Len(run)) /\ Cardinality(1..Len(run)) = Len(run)
      <4> HIDE DEF run, served, found
      <4>1. 1 \in Int /\ Len(run) \in Int /\ Len(run) >= 0
        BY <2>2
      <4>2. /\ IsFiniteSet(1..Len(run))
            /\ Cardinality(1..Len(run)) = IF 1 > Len(run) THEN 0 ELSE Len(run) - 1 + 1
        BY <4>1, FS_Interval, Zenon
      <4> QED BY <4>1, <4>2
    <3>2. ExistsBijection(1..Len(run), served)
      BY <2>6 DEF ExistsBijection
    <3> HIDE DEF f, served, run
    <3> QED BY <3>1, <3>2, FS_Bijection
  <2>8. run # << >>
    <3>1. \E i \in 1..Len(run) : run[i] = rec[c]
      BY <2>1 DEF ChainInv
    <3> QED BY <3>1
  <2>9. /\ VerifyMerkleChain(p, n).valid /\ VerifyMerkleChain(p, n).verified = Len(run)
    BY <2>5, <2>8 DEF VerifyMerkleChain
  <2>10. /\ Response(c).run = p
         /\ served = {d \in Answered : Response(d).run = Response(c).run}
    BY DEF Response
  <2> HIDE DEF served, run, p
  <2> QED BY <2>7, <2>9, <2>10
<1> QED BY <1>1, DoorsImplementService, ServiceSafe, PTL DEF ImplementsService

-----------------------------------------------------------------------------
(* What a reader finds under an id *)

\* A call whose entry comes before another's and that it does not know of read
\* a smaller number; answered calls have ids of their own.
EntriesOrdered ==
  \A i, j \in 1..Len(journal) :
    i < j /\ journal[i].body.state \notin overlap[journal[j].body.state] =>
      journal[i].body.id.num < journal[j].body.id.num
IDsUnique ==
  \A c, d \in Calls : result[c] = "ok" /\ result[d] = "ok" /\ id[c] = id[d] => c = d

ReadInv == ServiceInv /\ EntriesOrdered /\ IDsUnique

LEMMA SealedBody ==
  ASSUME ServiceInv, NEW c \in Calls, Sealed(c)
  PROVE  rec[c].body.id = id[c] /\ rec[c].body.state = c
<1> DEFINE b == [run |-> id[c].policy, seq |-> rec[c].body.seq, id |-> id[c], state |-> c]
<1>1. rec[c] = Seal(prev[c], b)
  BY DEF ServiceInv, CallsInv, CallOK
<1> QED BY <1>1 DEF Seal

LEMMA RecordedBody ==
  ASSUME ServiceInv, NEW c \in Calls, Recorded(c)
  PROVE  rec[c].body.id = id[c] /\ rec[c].body.state = c
BY SealedBody DEF Sealed

\* A call with an entry keeps it, and goes on learning of others.
LEMMA OverlapGrows ==
  ASSUME ServiceInv, [Next]_vars, NEW c \in Calls, Recorded(c)
  PROVE  overlap[c] \subseteq overlap'[c]
<1>1. TypeOK /\ pc[c] # "idle"
  BY DEF ServiceInv, CallsInv, CallOK, Recorded
<1>2. CASE \E d \in Calls : Start(d)
  <2>1. PICK d \in Calls, q \in Requests : Call(d, q)
    BY <1>2 DEF Start
  <2>2. d # c
    BY <1>1, <2>1 DEF Call
  <2> QED BY <1>1, <2>1, <2>2 DEF Call
<1>3. CASE UNCHANGED overlap
  BY <1>3
<1> QED BY <1>2, <1>3 DEF Next, vars, Fail, Proceed, NumberDecision, ReadHead, SealRecord,
           LoadEntries, SwapEntries, AppendRecord

LEMMA EntriesStayOrdered ==
  ASSUME ServiceInv, ServiceInv', EntriesOrdered, [Next]_vars
  PROVE  EntriesOrdered'
<1>1. TypeOK /\ JournalInv /\ CallsInv
  BY DEF ServiceInv
<1>2. ASSUME NEW i \in 1..Len(journal)
      PROVE  /\ journal[i].body.state \in Calls
             /\ Recorded(journal[i].body.state)
             /\ journal[i] = rec[journal[i].body.state]
             /\ overlap[journal[i].body.state] \subseteq overlap'[journal[i].body.state]
  <2>1. journal[i].body.state \in Calls
    BY <1>1, EntryState
  <2>2. Recorded(journal[i].body.state) /\ journal[i] = rec[journal[i].body.state]
    BY <1>1 DEF JournalInv
  <2> QED BY <2>1, <2>2, OverlapGrows
<1>3. CASE journal' = journal
  BY <1>2, <1>3 DEF EntriesOrdered
<1>4. ASSUME NEW c \in Calls, SwapEntries(c), journal = snap[c]
      PROVE  EntriesOrdered'
  <2> DEFINE n == Len(journal)
  <2>1. /\ journal' = Append(journal, rec[c]) /\ UNCHANGED <<overlap, id, rec>>
        /\ pc[c] = "swap" /\ pc'[c] = "append"
    BY <1>1, <1>4 DEF SwapEntries, Goto, TypeOK
  <2>2. /\ n \in Nat /\ Len(journal') = n + 1 /\ journal'[n + 1] = rec[c]
        /\ \A i \in 1..n : journal'[i] = journal[i]
    BY <1>1, <2>1 DEF TypeOK
  <2>3. ~ Recorded(c) /\ Running(c) /\ Numbered(c) /\ Recorded(c)'
    <3>1. result[c] = "none"
      BY <1>1, <2>1 DEF CallsInv, CallOK, TypeOK, Results
    <3> QED BY <2>1, <3>1 DEF Recorded, Running, Numbered, Linked, Sealed
  <2>4. rec[c].body.id = id[c] /\ rec[c].body.state = c
    <3>1. Sealed(c)
      BY <2>1 DEF Sealed
    <3> QED BY <3>1, SealedBody
  <2>5. ASSUME NEW i \in 1..n, journal[i].body.state \notin overlap[c]
        PROVE  journal[i].body.id.num < id[c].num
    <3> DEFINE d == journal[i].body.state
    <3>1. d \in Calls /\ Recorded(d) /\ journal[i] = rec[d]
      BY <1>2
    <3> HIDE DEF d
    <3>2. rec[d].body.id = id[d]
      BY <3>1, RecordedBody
    <3>3. d # c
      BY <2>3, <3>1
    <3>4. OverlapOK(c, d)
      BY <1>1, <3>1, <3>3 DEF CallsInv
    <3>5. id[d].num < id[c].num
      BY <2>3, <2>5, <3>1, <3>4 DEF OverlapOK, d
    <3> QED BY <3>1, <3>2, <3>5
  <2>6. ASSUME NEW i \in 1..(n + 1), NEW j \in 1..(n + 1), i < j,
               journal'[i].body.state \notin overlap[journal'[j].body.state]
        PROVE  journal'[i].body.id.num < journal'[j].body.id.num
    <3>1. i \in 1..n /\ journal'[i] = journal[i]
      BY <2>2, <2>6
    <3>2. CASE j = n + 1
      <4>1. journal'[j] = rec[c]
        BY <2>2, <3>2
      <4> QED BY <2>4, <2>5, <2>6, <3>1, <4>1
    <3>3. CASE j # n + 1
      <4>1. j \in 1..n /\ journal'[j] = journal[j]
        BY <2>2, <3>3
      <4> QED BY <2>6, <3>1, <4>1 DEF EntriesOrdered
    <3> QED BY <3>2, <3>3
  <2>7. overlap' = overlap /\ Len(journal') = n + 1
    BY <2>1, <2>2
  <2> HIDE DEF n
  <2> QED BY <2>6, <2>7 DEF EntriesOrdered
<1> QED BY <1>3, <1>4 DEF Next, vars, Start, Call, Fail, Proceed, NumberDecision, ReadHead,
           SealRecord, LoadEntries, SwapEntries, AppendRecord

LEMMA IDsStayUnique ==
  ASSUME ServiceInv, IDsUnique, [Next]_vars
  PROVE  IDsUnique'
<1>1. TypeOK /\ ChainInv /\ CallsInv
  BY DEF ServiceInv
<1>2. ASSUME NEW c \in Calls, Start(c) \/ Fail(c) \/ NumberDecision(c)
      PROVE  IDsUnique'
  <2>1. result[c] # "ok"
    BY <1>1, <1>2 DEF Start, Call, Fail, NumberDecision, CallsInv, CallOK
  <2>2. /\ \A d \in Calls \ {c} : result'[d] = result[d] /\ id'[d] = id[d]
        /\ result'[c] # "ok"
    BY <1>1, <1>2, <2>1 DEF Start, Call, Fail, NumberDecision, TypeOK
  <2> QED BY <2>2 DEF IDsUnique
<1>3. ASSUME NEW c \in Calls, AppendRecord(c)
      PROVE  IDsUnique'
  <2>1. /\ id' = id /\ pc[c] = "append" /\ Recorded(c)
        /\ \A d \in Calls \ {c} : result'[d] = result[d]
    BY <1>1, <1>3 DEF AppendRecord, TypeOK, Recorded
  <2>2. CASE ~ Log!Admissible(rec[c])
    <3>1. result'[c] = "rejected"
      BY <1>1, <1>3, <2>2 DEF AppendRecord, TypeOK
    <3> QED BY <2>1, <3>1 DEF IDsUnique
  <2>3. CASE Log!Admissible(rec[c])
    <3>1. ASSUME NEW d \in Calls, d # c, result[d] = "ok"
          PROVE  id[d] # id[c]
      <4>1. id[d].policy \in Policies
        BY <1>1 DEF TypeOK, DecisionID
      <4>2. PICK i \in 1..Len(chain[id[d].policy]) : chain[id[d].policy][i] = rec[d]
        BY <1>1, <3>1, <4>1 DEF ChainInv
      <4>3. chain[id[d].policy][i].body.id # rec[c].body.id
        BY <2>3, <4>1 DEF Log!Admissible
      <4>4. rec[d].body.id = id[d] /\ rec[c].body.id = id[c]
        BY <2>1, <3>1, RecordedBody DEF Recorded
      <4> QED BY <4>2, <4>3, <4>4
    <3> QED BY <2>1, <3>1 DEF IDsUnique
  <2> QED BY <2>2, <2>3
<1>4. CASE UNCHANGED <<id, result>>
  BY <1>4 DEF IDsUnique
<1>5. ASSUME NEW c \in Calls, ReadHead(c) \/ SealRecord(c) \/ LoadEntries(c) \/ SwapEntries(c)
      PROVE  UNCHANGED <<id, result>>
  BY <1>5 DEF ReadHead, SealRecord, LoadEntries, SwapEntries
<1> QED BY <1>2, <1>3, <1>4, <1>5 DEF Next, Proceed, vars

LEMMA LeastMember ==
  ASSUME NEW T \in SUBSET Nat, T # {}
  PROVE  \E m \in T : \A k \in T : m <= k
<1> DEFINE R == OpToRel(<, Nat)
<1>1. IsWellFoundedOn(R, Nat)
  BY NatLessThanWellFounded
<1>2. \A x, y \in Nat : <<x, y>> \in R <=> x < y
  BY DEF OpToRel
<1> HIDE DEF R
<1>3. PICK m \in T : \A k \in T : ~ (<<k, m>> \in R)
  BY <1>1, WFMin
<1>4. ASSUME NEW k \in T PROVE m <= k
  <2>1. m \in Nat /\ k \in Nat
    OBVIOUS
  <2>2. ~ (k < m)
    BY <1>2, <1>3, <2>1, Zenon
  <2> QED BY <2>1, <2>2
<1> QED BY <1>4

\* GetEntry returns the first entry with the id.
LEMMA FirstEntry ==
  ASSUME NEW d, Found(d), Len(journal) \in Nat
  PROVE  \E k \in 1..Len(journal) :
           /\ GetEntry(d) = journal[k] /\ journal[k].body.id = d
           /\ \A j \in 1..(k - 1) : journal[j].body.id # d
<1> DEFINE T == {i \in 1..Len(journal) : journal[i].body.id = d}
           First(i) == journal[i].body.id = d /\ \A j \in 1..(i - 1) : journal[j].body.id # d
<1>1. T \in SUBSET Nat /\ T # {}
  BY DEF Found
<1>2. PICK m \in T : \A k \in T : m <= k
  <2> HIDE DEF T
  <2> QED BY <1>1, LeastMember
<1>3. m \in 1..Len(journal) /\ First(m)
  <2>1. ASSUME NEW j \in 1..(m - 1) PROVE journal[j].body.id # d
    <3>1. j \in 1..Len(journal) /\ ~ (m <= j)
      OBVIOUS
    <3> QED BY <1>2, <3>1
  <2> QED BY <2>1
<1> DEFINE k == CHOOSE i \in 1..Len(journal) : First(i)
<1>4. k \in 1..Len(journal) /\ First(k)
  BY <1>3, Zenon
<1>5. GetEntry(d) = journal[k]
  BY Zenon DEF GetEntry
<1> HIDE DEF k
<1> QED BY <1>4, <1>5

\* The id a call was answered with shows the call's own entry, or that of a call
\* it overlapped and whose record the store refused or will.
THEOREM AnswersReadable == ApiSpec => []AnswerReadable
<1>1. Init => ReadInv
  BY InvInit DEF Init, ReadInv, EntriesOrdered, IDsUnique
<1>2. ReadInv /\ [Next]_vars => ReadInv'
  BY InvNext, EntriesStayOrdered, IDsStayUnique DEF ReadInv
<1>3. ReadInv => AnswerReadable
  <2> SUFFICES ASSUME ReadInv, NEW c \in Answered
               PROVE  /\ Found(Response(c).decision)
                      /\ LET d == GetEntry(Response(c).decision).body.state
                         IN  d = c \/ (d \in overlap[c] /\ d \notin Answered /\ id[d] = id[c])
    BY DEF AnswerReadable
  <2>1. /\ ServiceInv /\ JournalInv /\ c \in Calls /\ result[c] = "ok" /\ Recorded(c)
        /\ Response(c).decision = id[c] /\ TypeOK
    BY DEF ReadInv, ServiceInv, Answered, Recorded, Response
  <2>2. rec[c].body.id = id[c] /\ rec[c].body.state = c
    BY <2>1, RecordedBody
  <2>3. PICK i \in 1..Len(journal) : journal[i] = rec[c]
    BY <2>1 DEF JournalInv
  <2>4. Found(id[c]) /\ Len(journal) \in Nat
    BY <2>1, <2>2, <2>3 DEF Found, TypeOK
  <2>5. PICK k \in 1..Len(journal) :
               /\ GetEntry(id[c]) = journal[k] /\ journal[k].body.id = id[c]
               /\ \A j \in 1..(k - 1) : journal[j].body.id # id[c]
    BY <2>4, FirstEntry
  <2>6. PICK d \in Calls : d = journal[k].body.state
    BY <2>1, EntryState
  <2>7. Recorded(d) /\ journal[k] = rec[d]
    BY <2>1, <2>6 DEF JournalInv
  <2>8. id[d] = id[c]
    BY <2>1, <2>5, <2>7, RecordedBody
  <2>9. CASE d # c
    <3>1. k < i
      <4>1. k # i
        BY <2>2, <2>3, <2>6, <2>9
      <4>2. i \notin 1..(k - 1)
        BY <2>2, <2>3, <2>5
      <4> QED BY <2>4, <4>1, <4>2
    <3>2. d \in overlap[c]
      <4> SUFFICES ASSUME d \notin overlap[c] PROVE FALSE
        OBVIOUS
      <4>1. journal[k].body.id.num < journal[i].body.id.num
        BY <2>2, <2>3, <2>6, <3>1 DEF ReadInv, EntriesOrdered
      <4>2. id[c].num < id[c].num /\ id[c].num \in Nat
        BY <2>1, <2>2, <2>3, <2>5, <4>1 DEF TypeOK, DecisionID
      <4> QED BY <4>2
    <3>3. d \notin Answered
      BY <2>1, <2>8, <2>9 DEF ReadInv, IDsUnique, Answered
    <3> QED BY <2>1, <2>4, <2>5, <2>6, <2>8, <3>2, <3>3
  <2> QED BY <2>1, <2>4, <2>5, <2>6, <2>9
<1> QED BY <1>1, <1>2, <1>3, DoorsImplementService, PTL DEF ImplementsService, Spec

-----------------------------------------------------------------------------
(* Replay *)

\* Nothing CFA decides on a decoded state says more than it would on the state
\* that was encoded.
LEMMA BitExactMeans ==
  ASSUME NEW s, NEW config,
         Replay(Encode(s), HashState(s), Evaluate(s, config)).bitExact
  PROVE  s.scale = 0 /\ Evaluate(s, config) = Evaluate(s, "default")
<1> DEFINE again == Evaluate(Decode(Encode(s)), "default")
<1>1. HashState(Decode(Encode(s))) = HashState(s) /\ again = Evaluate(s, config)
  BY DEF Replay
<1>2. Encode(Decode(Encode(s))).dimension = 0 /\ Encode(s).dimension = s.scale
  BY DEF Encode, Decode
<1>3. s.scale = 0
  BY <1>1, <1>2 DEF HashState
<1> DEFINE met == s.drivers /\ s.loads # "none" /\ CanHandle(s)
<1>4. \A k : Evaluate(s, k) = IF met THEN [matches |-> 1, contribution |-> k]
                                     ELSE [matches |-> 0, contribution |-> "nothing"]
  BY DEF Evaluate
<1>5. /\ again.matches = 1 => again.contribution = "default"
      /\ again.matches = 1 \/ again.matches = 0
  BY DEF Evaluate
<1> HIDE DEF again, met
<1>6. CASE met
  <2>1. Evaluate(s, config).matches = 1 /\ Evaluate(s, config).contribution = config
    BY <1>4, <1>6
  <2> QED BY <1>1, <1>3, <1>5, <2>1
<1>7. CASE ~ met
  BY <1>3, <1>4, <1>7
<1> QED BY <1>6, <1>7

\* A replay that reports bit exact vouches for what the explanation shows.
THEOREM ReplaysVouch == ApiSpec => []ReplaySound
<1>1. ReplaySound
  <2> SUFFICES ASSUME NEW c \in Calls, ReplayDecision(id[c]).bitExact
               PROVE  LET r == GetEntry(id[c])
                      IN  /\ RecordedState(r).scale = 0
                          /\ ExplainDecision(id[c]) = Evaluate(RecordedState(r), "default")
    BY DEF ReplaySound
  <2> DEFINE r == GetEntry(id[c])
             s == RecordedState(r)
             config == asked[r.body.state].config
  <2>1. RecordedAction(r) = Evaluate(s, config)
    BY DEF RecordedAction
  <2>2. Replay(Encode(s), HashState(s), Evaluate(s, config)).bitExact
    BY <2>1 DEF ReplayDecision
  <2>3. ExplainDecision(id[c]) = Evaluate(s, config)
    BY <2>1 DEF ExplainDecision
  <2> HIDE DEF s, config
  <2>4. s.scale = 0 /\ Evaluate(s, config) = Evaluate(s, "default")
    BY <2>2, BitExactMeans
  <2> QED BY <2>3, <2>4 DEF s
<1> QED BY <1>1, PTL

=============================================================================
