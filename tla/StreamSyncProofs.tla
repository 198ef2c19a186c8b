------------------------- MODULE StreamSyncProofs --------------------------
(***************************************************************************)
(* Proofs about StreamSync, for any producers, drivers, loads, batches and *)
(* time stamps: the buffer holds a tender or a cancellation of a load, the *)
(* newest ping of a window is the one that is merged, and buffer and merge *)
(* together implement the book that knows no buffering.                    *)
(***************************************************************************)
EXTENDS StreamSync, SequenceTheorems, TLAPS

\* A running call stands at an item of its batch.
AtItem == \A p \in Producers : Running(p) => call[p].next \in 1..Len(call[p].batch)

\* Between two synchronizations nothing is drained.
NothingDrained == ~ syncing => drained = Empty

StreamInv == TypeOK /\ AtItem /\ NothingDrained /\ TenderXorCancel /\ NewestWins

-----------------------------------------------------------------------------
(* Calls and their items *)

LEMMA ItemType ==
  ASSUME TypeOK, AtItem, NEW p \in Producers, Running(p)
  PROVE  /\ Item(p).kind = "ping" => Item(p) \in Pings
         /\ Item(p).kind = "tender" => Item(p) \in Tenders
         /\ Item(p).kind = "cancel" => Item(p) \in Cancels
<1>1. /\ call[p].batch \in Batches
      /\ call[p].next \in 1..Len(call[p].batch)
  BY DEF TypeOK, Call, AtItem
<1>2. HttpBody(call[p].batch)
  BY <1>1, FeedAssumption
<1>3. \/ Item(p) \in Pings \cup Invalid
      \/ Item(p) \in Tenders \cup Invalid
      \/ Item(p) \in Cancels \cup Invalid
  <2>1. CASE call[p].batch \in Seq(Pings \cup Invalid)
    BY <1>1, <2>1, ElementOfSeq DEF Item
  <2>2. CASE call[p].batch \in Seq(Tenders \cup Invalid)
    BY <1>1, <2>2, ElementOfSeq DEF Item
  <2>3. CASE call[p].batch \in Seq(Cancels \cup Invalid)
    BY <1>1, <2>3, ElementOfSeq DEF Item
  <2> QED BY <1>2, <2>1, <2>2, <2>3 DEF HttpBody
<1>4. /\ \A x \in Pings : x.kind = "ping"
      /\ \A x \in Tenders : x.kind = "tender"
      /\ \A x \in Cancels : x.kind = "cancel"
      /\ \A x \in Invalid : x.kind = "invalid"
  BY DEF Pings, Tenders, Cancels, Invalid
<1>5. "ping" # "tender" /\ "ping" # "cancel" /\ "ping" # "invalid"
      /\ "tender" # "cancel" /\ "tender" # "invalid" /\ "cancel" # "invalid"
  OBVIOUS
<1> QED BY <1>3, <1>4, <1>5

LEMMA FinishedType ==
  ASSUME NEW result \in {"none", "ok", "rejected"}, NEW next \in Nat \ {0}
  PROVE  Finished(result, next) \in Call /\ Finished(result, next).result = result
<1>1. AnyBatch \in Batches
  BY FeedAssumption DEF AnyBatch
<1> QED BY <1>1 DEF Finished, Call

\* What the calls are after any step of a producer.
LEMMA CallsStep ==
  ASSUME call \in [Producers -> Call], AtItem, NEW p \in Producers,
         BeginBatch(p) \/ (Running(p) /\ (Advance(p) \/ Reject(p)))
  PROVE  call' \in [Producers -> Call] /\ AtItem'
<1>1. CASE BeginBatch(p)
  <2>1. PICK b \in Batches : call' = [call EXCEPT ![p] =
                               [batch |-> b, next |-> 1, result |-> "running"]]
    BY <1>1 DEF BeginBatch, HttpStream, RpcStream, Begin
  <2>2. 1 \in 1..Len(b)
    <3>1. HttpBody(b)
      BY FeedAssumption
    <3>2. b # << >> /\ \E S : b \in Seq(S)
      BY <3>1 DEF HttpBody
    <3>3. Len(b) \in Nat /\ Len(b) # 0
      BY <3>2, EmptySeq
    <3> QED BY <3>3
  <2>3. [batch |-> b, next |-> 1, result |-> "running"] \in Call
    BY DEF Call
  <2>4. call' \in [Producers -> Call]
    BY <2>1, <2>3
  <2>5. /\ call'[p].next = 1 /\ call'[p].batch = b
        /\ \A x \in Producers \ {p} : call'[x] = call[x]
    BY <2>1
  <2>6. AtItem'
    BY <2>2, <2>5 DEF AtItem, Running
  <2> QED BY <2>4, <2>6
<1>2. CASE Running(p) /\ Advance(p)
  <2>1. /\ call[p] \in Call /\ call[p].next \in 1..Len(call[p].batch)
        /\ call[p].result = "running"
    BY <1>2 DEF AtItem, Running
  <2>2. Len(call[p].batch) \in Nat
    <3>1. HttpBody(call[p].batch)
      BY <2>1, FeedAssumption DEF Call
    <3> QED BY <3>1, LenProperties DEF HttpBody
  <2>3. CASE call[p].next = Len(call[p].batch)
    <3>1. call' = [call EXCEPT ![p] = Finished("ok", 1)]
      BY <1>2, <2>3 DEF Advance
    <3>2. Finished("ok", 1) \in Call /\ Finished("ok", 1).result = "ok"
      BY FinishedType
    <3>3. call' \in [Producers -> Call]
      BY <3>1, <3>2
    <3>4. call'[p].result = "ok" /\ \A x \in Producers \ {p} : call'[x] = call[x]
      BY <3>1, <3>2
    <3> QED BY <3>3, <3>4 DEF AtItem, Running
  <2>4. CASE call[p].next # Len(call[p].batch)
    <3>0. call' = [call EXCEPT ![p].next = @ + 1]
      BY <1>2, <2>4 DEF Advance
    <3>1. call' = [call EXCEPT ![p] = [call[p] EXCEPT !.next = call[p].next + 1]]
      BY <3>0
    <3>2. [call[p] EXCEPT !.next = call[p].next + 1] \in Call
      BY <2>1 DEF Call
    <3>3. call' \in [Producers -> Call]
      BY <3>1, <3>2
    <3>4. /\ call'[p].next = call[p].next + 1 /\ call'[p].batch = call[p].batch
          /\ \A x \in Producers \ {p} : call'[x] = call[x]
      <4>1. \A x \in Call, k \in Nat : /\ [x EXCEPT !.next = k].next = k
                                     /\ [x EXCEPT !.next = k].batch = x.batch
        BY DEF Call
      <4>2. call[p].next + 1 \in Nat
        BY <2>1, <2>2
      <4>3. call'[p] = [call[p] EXCEPT !.next = call[p].next + 1]
        BY <3>1, call \in [Producers -> Call]
      <4>4. \A x \in Producers \ {p} : call'[x] = call[x]
        BY <3>1
      <4> QED BY <2>1, <4>1, <4>2, <4>3, <4>4
    <3>5. call'[p].next \in 1..Len(call'[p].batch)
      BY <2>1, <2>2, <2>4, <3>4
    <3> QED BY <3>3, <3>4, <3>5 DEF AtItem, Running
  <2> QED BY <2>3, <2>4
<1>3. CASE Running(p) /\ Reject(p)
  <2>1. call[p].next \in Nat \ {0}
    BY DEF Call
  <2>2. call' = [call EXCEPT ![p] = Finished("rejected", call[p].next)]
    BY <1>3 DEF Reject
  <2>3. /\ Finished("rejected", call[p].next) \in Call
        /\ Finished("rejected", call[p].next).result = "rejected"
    BY <2>1, FinishedType
  <2>4. call' \in [Producers -> Call]
    BY <2>2, <2>3
  <2>5. call'[p].result = "rejected" /\ \A x \in Producers \ {p} : call'[x] = call[x]
    BY <2>2, <2>3
  <2> QED BY <2>4, <2>5 DEF AtItem, Running
<1> QED BY <1>1, <1>2, <1>3

-----------------------------------------------------------------------------
(* The invariant *)

LEMMA EmptyType ==
  /\ NoPings \in [Drivers -> Pings \cup {NoPing}]
  /\ NoTenders \in [Loads -> Terms \cup {NoTerms}]
  /\ Empty \in [pings : [Drivers -> Pings \cup {NoPing}],
                tenders : [Loads -> Terms \cup {NoTerms}], cancels : SUBSET Loads]
BY DEF NoPings, NoTenders, Empty

LEMMA InitSound == Init => StreamInv
<1> SUFFICES ASSUME Init PROVE StreamInv
  OBVIOUS
<1>1. call \in [Producers -> Call] /\ AtItem
  <2>1. Finished("none", 1) \in Call /\ Finished("none", 1).result = "none"
    BY FinishedType
  <2> QED BY <2>1 DEF Init, FeedInit, AtItem, Running
<1>2. TypeOK
  BY <1>1, EmptyType DEF Init, TypeOK
<1>3. TenderXorCancel /\ NewestWins /\ NothingDrained
  BY DEF Init, TenderXorCancel, NewestWins, NothingDrained, NoTenders, NoPings
<1> QED BY <1>1, <1>2, <1>3 DEF StreamInv

\* The buffered ping after one more is ingested: the newer one.
LEMMA NewestKept ==
  ASSUME StreamInv, NEW p \in Producers, IngestDriverPing(p)
  PROVE  NewestWins'
<1> DEFINE ping == Item(p)
<1>1. ping \in Pings /\ ping.driver \in Drivers /\ ping.ts \in Int
  <2>1. ping \in Pings
    BY ItemType DEF StreamInv, IngestDriverPing
  <2> QED BY <2>1 DEF Pings
<1>2. /\ window' = window \cup {ping} /\ window \subseteq Pings
      /\ driverPings' = IF Outdated(ping) THEN driverPings
                        ELSE [driverPings EXCEPT ![ping.driver] = ping]
      /\ driverPings \in [Drivers -> Pings \cup {NoPing}]
  BY DEF IngestDriverPing, StreamInv, TypeOK
<1>3. \A x \in Pings : x.ts \in Int /\ x # NoPing
  <2>1. NoPing \notin Pings
    BY PingAssumption
  <2> QED BY <2>1 DEF Pings
<1> HIDE DEF ping
<1> SUFFICES ASSUME NEW d \in Drivers
             PROVE  LET seen == {x \in window' : x.driver = d}
                    IN IF seen = {} THEN driverPings'[d] = NoPing
                       ELSE /\ driverPings'[d] \in seen
                            /\ \A x \in seen : x.ts <= driverPings'[d].ts
  BY DEF NewestWins
<1> DEFINE before == {x \in window : x.driver = d}
           seen == {x \in window' : x.driver = d}
<1>4. IF before = {} THEN driverPings[d] = NoPing
      ELSE /\ driverPings[d] \in before
           /\ \A x \in before : x.ts <= driverPings[d].ts
  BY DEF StreamInv, NewestWins
<1>5. CASE d # ping.driver
  <2>1. seen = before
    BY <1>2, <1>5
  <2>2. driverPings'[d] = driverPings[d]
    BY <1>2, <1>5
  <2> QED BY <1>4, <2>1, <2>2
<1>6. CASE d = ping.driver
  <2>1. seen = before \cup {ping} /\ before \subseteq Pings
    BY <1>2, <1>6
  <2>2. CASE Outdated(ping)
    <3>1. driverPings[d] # NoPing /\ driverPings[d].ts > ping.ts /\ driverPings' = driverPings
      BY <1>2, <1>6, <2>2 DEF Outdated
    <3>2. driverPings[d] \in before /\ \A x \in before : x.ts <= driverPings[d].ts
      BY <1>4, <3>1
    <3>3. ping.ts <= driverPings[d].ts
      BY <1>1, <1>3, <2>1, <3>1, <3>2
    <3> QED BY <2>1, <3>1, <3>2, <3>3
  <2>3. CASE ~ Outdated(ping)
    <3>1. driverPings'[d] = ping
      BY <1>1, <1>2, <1>6, <2>3
    <3>2. \A x \in before : x.ts <= ping.ts
      <4>1. CASE before = {}
        BY <4>1
      <4>2. CASE before # {}
        <5>1. driverPings[d] \in before /\ \A x \in before : x.ts <= driverPings[d].ts
          BY <1>4, <4>2
        <5>2. driverPings[d].ts \in Int /\ driverPings[d] # NoPing
          BY <1>3, <2>1, <5>1
        <5>3. driverPings[d].ts <= ping.ts
          BY <1>1, <1>6, <2>3, <5>2 DEF Outdated
        <5>4. \A x \in before : x.ts \in Int
          BY <1>3, <2>1
        <5> QED BY <1>1, <5>1, <5>2, <5>3, <5>4
      <4> QED BY <4>1, <4>2
    <3>3. ping.ts <= ping.ts
      BY <1>1
    <3> QED BY <2>1, <3>1, <3>2, <3>3
  <2> QED BY <2>2, <2>3
<1> QED BY <1>5, <1>6

LEMMA StepSound == StreamInv /\ [Next]_vars => StreamInv'
<1> SUFFICES ASSUME StreamInv, [Next]_vars PROVE StreamInv'
  OBVIOUS
<1> USE DEF bufferVars, resourceVars
<1>1. ASSUME NEW p \in Producers, Receive(p) \/ RejectItem(p) PROVE StreamInv'
  <2>1. /\ UNCHANGED <<bufferVars, resourceVars, window>>
        /\ BeginBatch(p) \/ (Running(p) /\ Reject(p))
    BY <1>1 DEF Receive, RejectItem
  <2>2. call' \in [Producers -> Call] /\ AtItem'
    BY <2>1, CallsStep DEF StreamInv, TypeOK
  <2>3. TypeOK'
    BY <2>1, <2>2 DEF StreamInv, TypeOK
  <2>4. NothingDrained' /\ TenderXorCancel'
    BY <2>1 DEF StreamInv, NothingDrained, TenderXorCancel
  <2>5. NewestWins'
    BY <2>1 DEF StreamInv, NewestWins
  <2> QED BY <2>2, <2>3, <2>4, <2>5 DEF StreamInv
<1>2. ASSUME NEW p \in Producers, IngestDriverPing(p) PROVE StreamInv'
  <2>1. /\ Running(p) /\ Advance(p) /\ Item(p) \in Pings
        /\ UNCHANGED <<loadTenders, cancellations, resourceVars>>
    BY <1>2, ItemType DEF StreamInv, IngestDriverPing
  <2>2. call' \in [Producers -> Call] /\ AtItem'
    BY <2>1, CallsStep DEF StreamInv, TypeOK
  <2>3. driverPings' \in [Drivers -> Pings \cup {NoPing}] /\ window' \subseteq Pings
    BY <1>2, <2>1 DEF StreamInv, TypeOK, IngestDriverPing
  <2>4. TypeOK'
    BY <2>1, <2>2, <2>3 DEF StreamInv, TypeOK
  <2>5. NothingDrained' /\ TenderXorCancel'
    BY <2>1 DEF StreamInv, NothingDrained, TenderXorCancel
  <2> QED BY <1>2, <2>2, <2>4, <2>5, NewestKept DEF StreamInv
<1>3. ASSUME NEW p \in Producers, IngestLoadTender(p) PROVE StreamInv'
  <2>1. /\ Running(p) /\ Advance(p) /\ Item(p).load \in Loads /\ Item(p).terms \in Terms
        /\ cancellations' = cancellations \ {Item(p).load}
        /\ loadTenders' = [loadTenders EXCEPT ![Item(p).load] = Item(p).terms]
        /\ UNCHANGED <<driverPings, resourceVars, window>>
    <3>1. Item(p) \in Tenders
      BY <1>3, ItemType DEF StreamInv, IngestLoadTender
    <3>2. Item(p).load \in Loads /\ Item(p).terms \in Terms
      BY <3>1 DEF Tenders
    <3> QED BY <1>3, <3>2 DEF IngestLoadTender
  <2>2. call' \in [Producers -> Call] /\ AtItem'
    BY <2>1, CallsStep DEF StreamInv, TypeOK
  <2>3. TypeOK'
    BY <2>1, <2>2 DEF StreamInv, TypeOK
  <2>4. TenderXorCancel'
    BY <2>1 DEF StreamInv, TypeOK, TenderXorCancel
  <2>5. NothingDrained' /\ NewestWins'
    BY <2>1 DEF StreamInv, NothingDrained, NewestWins
  <2> QED BY <2>2, <2>3, <2>4, <2>5 DEF StreamInv
<1>4. ASSUME NEW p \in Producers, CancelTender(p) PROVE StreamInv'
  <2>1. /\ Running(p) /\ Advance(p) /\ Item(p).load \in Loads
        /\ cancellations' = cancellations \cup {Item(p).load}
        /\ loadTenders' = [loadTenders EXCEPT ![Item(p).load] = NoTerms]
        /\ UNCHANGED <<driverPings, resourceVars, window>>
    <3>1. Item(p) \in Cancels
      BY <1>4, ItemType DEF StreamInv, CancelTender
    <3>2. Item(p).load \in Loads
      BY <3>1 DEF Cancels
    <3> QED BY <1>4, <3>2 DEF CancelTender
  <2>2. call' \in [Producers -> Call] /\ AtItem'
    BY <2>1, CallsStep DEF StreamInv, TypeOK
  <2>3. TypeOK'
    BY <2>1, <2>2 DEF StreamInv, TypeOK
  <2>4. TenderXorCancel'
    BY <2>1 DEF StreamInv, TypeOK, TenderXorCancel
  <2>5. NothingDrained' /\ NewestWins'
    BY <2>1 DEF StreamInv, NothingDrained, NewestWins
  <2> QED BY <2>2, <2>3, <2>4, <2>5 DEF StreamInv
<1>5. CASE Drain
  <2>1. TypeOK'
    BY <1>5, EmptyType DEF Drain, StreamInv, TypeOK
  <2>2. AtItem' /\ NothingDrained'
    BY <1>5 DEF Drain, StreamInv, AtItem, Running, NothingDrained
  <2>3. TenderXorCancel' /\ NewestWins'
    BY <1>5 DEF Drain, TenderXorCancel, NewestWins, NoTenders, NoPings
  <2> QED BY <2>1, <2>2, <2>3 DEF StreamInv
<1>6. CASE Assemble
  <2>1. drivers' \in [Drivers -> Drivable \cup {NoDriver}]
    <3>1. ASSUME NEW d \in Drivers
          PROVE  MergePing(drivers[d], drained.pings[d]) \in Drivable \cup {NoDriver}
      <4>1. /\ drivers[d] \in Drivable \cup {NoDriver}
            /\ drained.pings[d] \in Pings \cup {NoPing}
        BY DEF StreamInv, TypeOK
      <4> QED BY <4>1 DEF MergePing, Drivable, Pings
    <3> QED BY <1>6, <3>1 DEF Assemble
  <2>2. loads' \in [Loads -> Terms \cup {NoTerms}]
    BY <1>6 DEF Assemble, StreamInv, TypeOK, MergeLoads, WithoutCanceled
  <2>3. TypeOK'
    BY <1>6, <2>1, <2>2, EmptyType DEF Assemble, StreamInv, TypeOK
  <2>4. AtItem' /\ NothingDrained'
    BY <1>6 DEF Assemble, StreamInv, AtItem, Running, NothingDrained
  <2>5. TenderXorCancel' /\ NewestWins'
    BY <1>6 DEF Assemble, StreamInv, TenderXorCancel, NewestWins
  <2> QED BY <2>3, <2>4, <2>5 DEF StreamInv
<1>7. CASE UNCHANGED vars
  BY <1>7 DEF vars, StreamInv, TypeOK, AtItem, Running, NothingDrained, TenderXorCancel, NewestWins
<1> QED BY <1>1, <1>2, <1>3, <1>4, <1>5, <1>6, <1>7 DEF Next, Ingest

\* The invariant of the buffer and its synchronizer (buffer.go,
\* synchronizer.go).
THEOREM StreamSafe == Spec => []StreamInv
BY InitSound, StepSound, PTL DEF Spec

\* However producers interleave, a load has no tender and no cancellation in
\* the buffer at the same time (IngestLoadTender and CancelTender).
THEOREM TendersExcludeCancels == Spec => []TenderXorCancel
<1>1. StreamInv => TenderXorCancel
  BY DEF StreamInv
<1> QED BY <1>1, StreamSafe, PTL

\* The buffered ping of a driver is the newest accepted since the last Drain,
\* in whatever order they came (IngestDriverPing).
THEOREM NewestPingWins == Spec => []NewestWins
<1>1. StreamInv => NewestWins
  BY DEF StreamInv
<1> QED BY <1>1, StreamSafe, PTL

-----------------------------------------------------------------------------
(* Refinement: buffer and merge implement the unbuffered book *)

\* The book's producers are the stream's.
LEMMA SameFeed ==
  /\ FeedInit <=> Book!FeedInit
  /\ \A p \in Producers :
       /\ Running(p) <=> Book!Running(p)
       /\ Item(p) = Book!Item(p)
       /\ BeginBatch(p) <=> Book!BeginBatch(p)
       /\ Advance(p) <=> Book!Advance(p)
       /\ Reject(p) <=> Book!Reject(p)
<1>1. FeedInit <=> Book!FeedInit
  BY DEF FeedInit, Finished, AnyBatch, Book!FeedInit, Book!Finished, Book!AnyBatch
<1>2. ASSUME NEW p \in Producers
      PROVE  (Running(p) <=> Book!Running(p)) /\ Item(p) = Book!Item(p)
  BY DEF Running, Item, Book!Running, Book!Item
<1>3. ASSUME NEW p \in Producers PROVE BeginBatch(p) <=> Book!BeginBatch(p)
  BY DEF BeginBatch, HttpStream, RpcStream, RpcBody, Begin, Running, Tenders, Invalid,
     Book!BeginBatch, Book!HttpStream, Book!RpcStream, Book!RpcBody, Book!Begin, Book!Running,
     Book!Tenders, Book!Invalid
<1>4. ASSUME NEW p \in Producers
      PROVE  (Advance(p) <=> Book!Advance(p)) /\ (Reject(p) <=> Book!Reject(p))
  BY DEF Advance, Reject, Finished, AnyBatch, Book!Advance, Book!Reject, Book!Finished,
     Book!AnyBatch
<1> QED BY <1>1, <1>2, <1>3, <1>4

LEMMA BookStarts == Init => Book!BookInit
BY SameFeed DEF Init, Book!BookInit, Effective, MergeLoads, WithoutCanceled, NoTenders, Empty

LEMMA BookSteps ==
  ASSUME StreamInv, [Next]_vars
  PROVE  [Book!BookNext]_<<call, Effective>>
<1> USE DEF bufferVars, resourceVars
<1>1. ASSUME NEW p \in Producers, Receive(p) \/ RejectItem(p) \/ IngestDriverPing(p)
      PROVE  Book!BookNext
  <2>1. UNCHANGED <<loadTenders, cancellations, drained, loads>>
    BY <1>1 DEF Receive, RejectItem, IngestDriverPing
  <2>2. UNCHANGED Effective
    BY <2>1 DEF Effective, MergeLoads, WithoutCanceled
  <2>3. Book!Other(p)
    BY <1>1, <2>2, SameFeed DEF Book!Other, Receive, RejectItem, IngestDriverPing
  <2> QED BY <2>3 DEF Book!BookNext
<1>2. ASSUME NEW p \in Producers, IngestLoadTender(p) PROVE Book!BookNext
  <2>1. Item(p).load \in Loads /\ Item(p).terms # NoTerms
    <3>1. Item(p) \in Tenders
      BY <1>2, ItemType DEF StreamInv, IngestLoadTender
    <3> QED BY <3>1, FeedAssumption DEF Tenders
  <2>2. /\ cancellations' = cancellations \ {Item(p).load}
        /\ loadTenders' = [loadTenders EXCEPT ![Item(p).load] = Item(p).terms]
        /\ UNCHANGED <<drained, loads>>
        /\ loadTenders \in [Loads -> Terms \cup {NoTerms}]
    BY <1>2 DEF IngestLoadTender, StreamInv, TypeOK
  <2>3. Effective' = [Effective EXCEPT ![Item(p).load] = Item(p).terms]
    BY <2>1, <2>2 DEF Effective, MergeLoads, WithoutCanceled
  <2>4. Book!Tender(p)
    BY <1>2, <2>3, SameFeed DEF Book!Tender, IngestLoadTender
  <2> QED BY <2>4 DEF Book!BookNext
<1>3. ASSUME NEW p \in Producers, CancelTender(p) PROVE Book!BookNext
  <2>1. Item(p).load \in Loads
    <3>1. Item(p) \in Cancels
      BY <1>3, ItemType DEF StreamInv, CancelTender
    <3> QED BY <3>1 DEF Cancels
  <2>2. /\ cancellations' = cancellations \cup {Item(p).load}
        /\ loadTenders' = [loadTenders EXCEPT ![Item(p).load] = NoTerms]
        /\ UNCHANGED <<drained, loads>>
        /\ loadTenders \in [Loads -> Terms \cup {NoTerms}]
    BY <1>3 DEF CancelTender, StreamInv, TypeOK
  <2>3. Effective' = [Effective EXCEPT ![Item(p).load] = NoTerms]
    BY <2>1, <2>2 DEF Effective, MergeLoads, WithoutCanceled
  <2>4. Book!Cancel(p)
    BY <1>3, <2>3, SameFeed DEF Book!Cancel, CancelTender
  <2> QED BY <2>4 DEF Book!BookNext
<1>4. CASE Drain
  <2>1. /\ drained = Empty /\ loads \in [Loads -> Terms \cup {NoTerms}]
        /\ drained' = [pings |-> driverPings, tenders |-> loadTenders,
                       cancels |-> cancellations]
        /\ loadTenders' = NoTenders /\ cancellations' = {}
        /\ UNCHANGED <<call, loads>>
    BY <1>4 DEF Drain, StreamInv, NothingDrained, TypeOK
  <2>2. MergeLoads(loads, drained.tenders, drained.cancels) = loads
    BY <2>1 DEF MergeLoads, WithoutCanceled, Empty, NoTenders
  <2>3. Effective = MergeLoads(loads, loadTenders, cancellations)
    BY <2>2 DEF Effective
  <2>4. Effective' = MergeLoads(MergeLoads(loads, loadTenders, cancellations), NoTenders, {})
    BY <2>1 DEF Effective, MergeLoads, WithoutCanceled
  <2>5. Effective' = Effective
    BY <2>3, <2>4 DEF MergeLoads, WithoutCanceled, NoTenders
  <2> QED BY <2>1, <2>5
<1>5. CASE Assemble
  <2>1. /\ loads' = MergeLoads(loads, drained.tenders, drained.cancels)
        /\ drained' = Empty /\ UNCHANGED <<call, loadTenders, cancellations>>
    BY <1>5 DEF Assemble
  <2>2. MergeLoads(loads', drained'.tenders, drained'.cancels) = loads'
    BY <2>1 DEF MergeLoads, WithoutCanceled, Empty, NoTenders
  <2>3. Effective' = MergeLoads(loads', loadTenders', cancellations')
    BY <2>2 DEF Effective, MergeLoads, WithoutCanceled
  <2>4. Effective' = Effective
    BY <2>1, <2>3 DEF Effective, MergeLoads, WithoutCanceled
  <2> QED BY <2>1, <2>4
<1>6. CASE UNCHANGED vars
  BY <1>6 DEF vars, Effective, MergeLoads, WithoutCanceled
<1> QED BY <1>1, <1>2, <1>3, <1>4, <1>5, <1>6 DEF Next, Ingest

\* Refinement: with any number of producers, buffering, draining and merging
\* neither lose nor resurrect nor reorder a tender or a cancellation.
THEOREM BookImplemented == Spec => ImplementsBook
<1>1. Init => Book!BookInit
  BY BookStarts
<1>2. StreamInv /\ [Next]_vars => [Book!BookNext]_<<call, Effective>>
  BY BookSteps
<1> QED BY <1>1, <1>2, StreamSafe, PTL DEF Spec, ImplementsBook, Book!BookSpec

=============================================================================
