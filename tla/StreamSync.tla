---------------------------- MODULE StreamSync -----------------------------
(***************************************************************************)
(* StreamBuffer (buffer.go) and StateSynchronizer (synchronizer.go) of     *)
(* internal/adapter/stream.  Producers ingest under the buffer's mutex,    *)
(* one item per critical section.  Synchronize drains the three maps in    *)
(* one critical section and then merges them, outside of it, into a new    *)
(* resource state; producers refill the buffer meanwhile.  One dispatcher  *)
(* calls Synchronize, passing the state the previous call returned.        *)
(***************************************************************************)
EXTENDS StreamFeed

CONSTANTS
  NoPing,      \* nothing buffered for the driver
  NoDriver     \* the driver is not in the resource state

VARIABLES
  driverPings,     \* driver -> the buffered ping
  loadTenders,     \* load -> the terms of the buffered tender
  cancellations,   \* loads with a buffered cancellation
  drained,         \* the maps the running Synchronize took, or empty ones
  syncing,         \* Synchronize is between Drain and its return
  drivers, loads,  \* the resource state: driver -> its state, load -> terms
  window           \* history: the pings accepted since the last Drain

bufferVars == <<driverPings, loadTenders, cancellations>>
resourceVars == <<drained, syncing, drivers, loads>>
vars == <<call, bufferVars, resourceVars, window>>

ASSUME PingAssumption == NoPing \notin Pings

NoPings   == [d \in Drivers |-> NoPing]
NoTenders == [l \in Loads |-> NoTerms]
Drivable  == [ts : 1..MaxTime, load : Loads \cup {NoLoad}]
Empty     == [pings |-> NoPings, tenders |-> NoTenders, cancels |-> {}]

Init ==
  /\ FeedInit
  /\ driverPings = NoPings
  /\ loadTenders = NoTenders
  /\ cancellations = {}
  /\ drained = Empty
  /\ syncing = FALSE
  /\ drivers = [d \in Drivers |-> NoDriver]
  /\ loads = NoTenders
  /\ window = {}

-----------------------------------------------------------------------------
(* Ingestion *)

\* Mutant: the last ping to arrive wins.
NeverOutdated(ping) == FALSE

\* An older ping that arrives late does not replace a newer one.
Outdated(ping) ==
  /\ driverPings[ping.driver] # NoPing
  /\ driverPings[ping.driver].ts > ping.ts

IngestDriverPing(p) ==
  /\ Running(p)
  /\ Item(p).kind = "ping"
  /\ driverPings' = IF Outdated(Item(p)) THEN driverPings
                    ELSE [driverPings EXCEPT ![Item(p).driver] = Item(p)]
  /\ window' = window \cup {Item(p)}
  /\ Advance(p)
  /\ UNCHANGED <<loadTenders, cancellations, resourceVars>>

\* Mutant: a tender leaves the cancellation of its load in place.
IngestLoadTenderOnly(p) ==
  /\ Running(p)
  /\ Item(p).kind = "tender"
  /\ loadTenders' = [loadTenders EXCEPT ![Item(p).load] = Item(p).terms]
  /\ Advance(p)
  /\ UNCHANGED <<driverPings, cancellations, resourceVars, window>>

IngestLoadTender(p) ==
  /\ Running(p)
  /\ Item(p).kind = "tender"
  /\ cancellations' = cancellations \ {Item(p).load}
  /\ loadTenders' = [loadTenders EXCEPT ![Item(p).load] = Item(p).terms]
  /\ Advance(p)
  /\ UNCHANGED <<driverPings, resourceVars, window>>

\* Mutant: a cancellation leaves the buffered tender in place.
CancelTenderOnly(p) ==
  /\ Running(p)
  /\ Item(p).kind = "cancel"
  /\ cancellations' = cancellations \cup {Item(p).load}
  /\ Advance(p)
  /\ UNCHANGED <<driverPings, loadTenders, resourceVars, window>>
CancelTender(p) ==
  /\ Running(p)
  /\ Item(p).kind = "cancel"
  /\ loadTenders' = [loadTenders EXCEPT ![Item(p).load] = NoTerms]
  /\ cancellations' = cancellations \cup {Item(p).load}
  /\ Advance(p)
  /\ UNCHANGED <<driverPings, resourceVars, window>>

\* Validation fails before the mutex is taken; the items before this one stay.
RejectItem(p) ==
  /\ Running(p)
  /\ Item(p).kind = "invalid"
  /\ Reject(p)
  /\ UNCHANGED <<bufferVars, resourceVars, window>>

Receive(p) == BeginBatch(p) /\ UNCHANGED <<bufferVars, resourceVars, window>>

-----------------------------------------------------------------------------
(* Synchronize *)

Drain ==
  /\ ~ syncing
  /\ syncing' = TRUE
  /\ drained' = [pings |-> driverPings, tenders |-> loadTenders,
                 cancels |-> cancellations]
  /\ driverPings' = NoPings
  /\ loadTenders' = NoTenders
  /\ cancellations' = {}
  /\ window' = {}
  /\ UNCHANGED <<call, drivers, loads>>

\* A ping that names no load leaves the assignment of a known driver alone.
MergePing(driver, ping) ==
  IF ping = NoPing THEN driver
  ELSE [ts   |-> ping.ts,
        load |-> IF driver # NoDriver /\ ping.load = NoLoad
                 THEN driver.load ELSE ping.load]

WithoutCanceled(base, cancels) ==
  [l \in Loads |-> IF l \in cancels THEN NoTerms ELSE base[l]]

\* Cancellations first, then tenders.
MergeLoads(base, tenders, cancels) ==
  [l \in Loads |-> IF tenders[l] # NoTerms THEN tenders[l]
                   ELSE WithoutCanceled(base, cancels)[l]]

Assemble ==
  /\ syncing
  /\ syncing' = FALSE
  /\ drivers' = [d \in Drivers |-> MergePing(drivers[d], drained.pings[d])]
  /\ loads' = MergeLoads(loads, drained.tenders, drained.cancels)
  /\ drained' = Empty
  /\ UNCHANGED <<call, bufferVars, window>>

-----------------------------------------------------------------------------
Ingest(p) ==
  \/ IngestDriverPing(p) \/ IngestLoadTender(p) \/ CancelTender(p)
  \/ RejectItem(p)

Next ==
  \/ \E p \in Producers : Receive(p) \/ Ingest(p)
  \/ Drain
  \/ Assemble

Spec == Init /\ [][Next]_vars

-----------------------------------------------------------------------------
\* Types of the buffer, of the drained maps and of the resource state.
TypeOK ==
  /\ call \in [Producers -> Call]
  /\ driverPings \in [Drivers -> Pings \cup {NoPing}]
  /\ loadTenders \in [Loads -> Terms \cup {NoTerms}]
  /\ cancellations \subseteq Loads
  /\ drained \in [pings : [Drivers -> Pings \cup {NoPing}],
                  tenders : [Loads -> Terms \cup {NoTerms}],
                  cancels : SUBSET Loads]
  /\ syncing \in BOOLEAN
  /\ drivers \in [Drivers -> Drivable \cup {NoDriver}]
  /\ loads \in [Loads -> Terms \cup {NoTerms}]
  /\ window \subseteq Pings

\* The buffer never holds both a tender and a cancellation of a load, so the
\* order in which Synchronize applies the two maps cannot matter.
TenderXorCancel ==
  \A l \in Loads : loadTenders[l] # NoTerms => l \notin cancellations

\* Whatever order the pings of a driver arrive in, the buffer keeps the newest
\* one accepted since the last Drain, and loses none to a concurrent Drain.
NewestWins ==
  \A d \in Drivers :
    LET seen == {ping \in window : ping.driver = d}
    IN IF seen = {} THEN driverPings[d] = NoPing
       ELSE /\ driverPings[d] \in seen
            /\ \A ping \in seen : ping.ts <= driverPings[d].ts

\* The loads in force: the resource state under the maps being merged, under
\* the maps being filled.
Effective ==
  MergeLoads(MergeLoads(loads, drained.tenders, drained.cancels),
             loadTenders, cancellations)

\* Buffering, draining and merging lose, resurrect and reorder no tender and
\* no cancellation: the last one accepted for a load is the one in force.
Book == INSTANCE DispatchBook WITH book <- Effective
ImplementsBook == Book!BookSpec
=============================================================================
