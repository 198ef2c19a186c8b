---------------------------- MODULE StreamFeed -----------------------------
(***************************************************************************)
(* The feeds of internal/adapter/stream: HTTP handlers and the gRPC server *)
(* hand over batches of driver pings, load tenders or tender cancellations *)
(* and a batch is ingested item by item up to its first invalid item.      *)
(***************************************************************************)
EXTENDS Naturals, Sequences

CONSTANTS
  Producers,   \* goroutines serving the stream endpoints
  Drivers,
  Loads,
  Terms,       \* what a tender says of its load
  NoTerms,     \* the load is not offered
  NoLoad,      \* a ping that names no assigned load
  MaxTime,     \* bound on the time stamps of pings
  Batches      \* the request bodies that arrive

Pings   == [kind : {"ping"}, driver : Drivers, ts : 1..MaxTime,
            load : Loads \cup {NoLoad}]
Tenders == [kind : {"tender"}, load : Loads, terms : Terms]
Cancels == [kind : {"cancel"}, load : Loads]
Invalid == [kind : {"invalid"}]    \* fails its Validate function

\* The three POST bodies; an empty one is refused, or changes nothing.
HttpBody(b) ==
  /\ b # << >>
  /\ \/ b \in Seq(Pings \cup Invalid)
     \/ b \in Seq(Tenders \cup Invalid)
     \/ b \in Seq(Cancels \cup Invalid)

\* gRPC takes one ping, which cannot name a load, or some tenders; it has no
\* way to cancel one.
RpcBody(b) ==
  /\ b # << >>
  /\ \/ Len(b) = 1 /\ b[1].kind = "ping" /\ b[1].load = NoLoad
     \/ b \in Seq(Tenders \cup Invalid)

ASSUME FeedAssumption ==
  /\ NoTerms \notin Terms
  /\ NoLoad \notin Loads
  /\ MaxTime \in Nat \ {0}
  /\ Batches # {} /\ \A b \in Batches : HttpBody(b)

VARIABLE call     \* producer -> the batch it ingests, and how far it is

Call == [batch : Batches, next : Nat \ {0}, result : {"none", "running", "ok", "rejected"}]

AnyBatch == CHOOSE b \in Batches : TRUE
Finished(result, next) == [batch |-> AnyBatch, next |-> next, result |-> result]

FeedInit == call = [p \in Producers |-> Finished("none", 1)]

Running(p) == call[p].result = "running"
Item(p) == call[p].batch[call[p].next]

Begin(p, b) ==
  /\ ~ Running(p)
  /\ call' = [call EXCEPT ![p] = [batch |-> b, next |-> 1, result |-> "running"]]

HttpStream(p) == \E b \in Batches : Begin(p, b)
RpcStream(p) == \E b \in Batches : RpcBody(b) /\ Begin(p, b)
BeginBatch(p) == HttpStream(p) \/ RpcStream(p)

\* The item was ingested; the loop goes on or the handler answers 200.
Advance(p) ==
  call' = IF call[p].next = Len(call[p].batch)
            THEN [call EXCEPT ![p] = Finished("ok", 1)]
            ELSE [call EXCEPT ![p].next = @ + 1]

\* The loop returns the validation error of an item; the handler answers 400.
Reject(p) == call' = [call EXCEPT ![p] = Finished("rejected", @.next)]
=============================================================================
