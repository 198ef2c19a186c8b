---------------------------- MODULE MemoryStore ----------------------------
(***************************************************************************)
(* MemoryStore of pkg/journal/store.go.  Append runs under a mutex and     *)
(* publishes two immutable snapshots, recordsMap and then runMap, with two *)
(* separate atomic stores.  Get, ListByRun and VerifyRunChain take no      *)
(* lock: each loads a snapshot pointer and may run between the two stores. *)
(***************************************************************************)
EXTENDS MerkleChain

CONSTANTS
  DecisionIDs,  \* keys of recordsMap
  Writers,      \* goroutines that call Append
  Readers,      \* goroutines that call VerifyRunChain with a decision id
  Free          \* the mutex is held by nobody

ASSUME StoreAssumption ==
  /\ Bodies # {}
  /\ \A b \in Bodies : b.run \in RunIDs /\ b.id \in DecisionIDs
  /\ Free \notin Writers

VARIABLES
  recordsMap,   \* the records Get can find, one per decision id
  runMap,       \* run -> its records, what ListByRun and LastRecord see
  mu,           \* the holder of the append mutex
  pc,           \* writer -> where it stands in Append
  rec,          \* writer -> the record it appends
  ret,          \* writer -> the result of its last Append
  reader        \* reader -> its VerifyRunChain call

writerVars == <<mu, pc, rec, ret>>
vars == <<recordsMap, runMap, mu, pc, rec, ret, reader>>

WriterPC == {"idle", "lock", "check", "publish"}
Results  == {"none", "ok", "duplicate", "corrupted"}

\* A verification: what it is about, whether Append of that decision had
\* returned before it began, and the records it judged.
Verification == [at    : {"idle", "list", "done"},
                 id    : DecisionIDs,
                 run   : RunIDs,
                 acked : BOOLEAN,
                 recs  : Seq(Record)]

NoBody == CHOOSE b \in Bodies : TRUE
NoRecord == Seal(Genesis, NoBody)

Stored(id) == \E r \in recordsMap : r.body.id = id
InRun(run, id) == \E i \in 1..Len(runMap[run]) : runMap[run][i].body.id = id

\* The digests a caller may hold: genesis and those of published records.
KnownHashes == {Genesis} \cup {r.hash : r \in recordsMap}

Init ==
  /\ recordsMap = {}
  /\ runMap = [run \in RunIDs |-> << >>]
  /\ mu = Free
  /\ pc = [w \in Writers |-> "idle"]
  /\ rec = [w \in Writers |-> NoRecord]
  /\ ret = [w \in Writers |-> "none"]
  /\ reader = [v \in Readers |->
       [at |-> "idle", id |-> NoBody.id, run |-> NoBody.run,
        acked |-> FALSE, recs |-> << >>]]

-----------------------------------------------------------------------------
(* Append *)

Return(w, result) ==
  /\ pc' = [pc EXCEPT ![w] = "idle"]
  /\ rec' = [rec EXCEPT ![w] = NoRecord]
  /\ ret' = [ret EXCEPT ![w] = result]

\* Mutant: the integrity check is left out.
CallAppendUnchecked(w) ==
  /\ pc[w] = "idle"
  /\ \E body \in Bodies, prev \in KnownHashes :
       \E hash \in {RecordHash(prev, body), Genesis} :
         /\ rec' = [rec EXCEPT ![w] = [prev |-> prev, body |-> body, hash |-> hash]]
         /\ pc' = [pc EXCEPT ![w] = "lock"]
         /\ ret' = [ret EXCEPT ![w] = "none"]
  /\ UNCHANGED <<recordsMap, runMap, mu, reader>>

\* The call, with the integrity check it makes before it takes the mutex.
CallAppend(w) ==
  /\ pc[w] = "idle"
  /\ \E body \in Bodies, prev \in KnownHashes :
       \E hash \in {RecordHash(prev, body), Genesis} :
         LET r == [prev |-> prev, body |-> body, hash |-> hash]
         IN IF VerifyIntegrity(r)
            THEN /\ rec' = [rec EXCEPT ![w] = r]
                 /\ pc' = [pc EXCEPT ![w] = "lock"]
                 /\ ret' = [ret EXCEPT ![w] = "none"]
            ELSE Return(w, "corrupted")
  /\ UNCHANGED <<recordsMap, runMap, mu, reader>>

\* Mutant: the checks run without the mutex.
LockNothing(w) ==
  /\ pc[w] = "lock"
  /\ mu' = w
  /\ pc' = [pc EXCEPT ![w] = "check"]
  /\ UNCHANGED <<recordsMap, runMap, rec, ret, reader>>

Lock(w) ==
  /\ pc[w] = "lock"
  /\ mu = Free
  /\ mu' = w
  /\ pc' = [pc EXCEPT ![w] = "check"]
  /\ UNCHANGED <<recordsMap, runMap, rec, ret, reader>>

RejectDuplicate(w) ==
  /\ pc[w] = "check"
  /\ Stored(rec[w].body.id)
  /\ mu' = Free
  /\ Return(w, "duplicate")
  /\ UNCHANGED <<recordsMap, runMap, reader>>

RejectLink(w) ==
  /\ pc[w] = "check"
  /\ ~ Stored(rec[w].body.id)
  /\ rec[w].prev # HeadHash(runMap[rec[w].body.run])
  /\ mu' = Free
  /\ Return(w, "corrupted")
  /\ UNCHANGED <<recordsMap, runMap, reader>>

\* Both checks passed: the first of the two atomic stores.
StoreRecords(w) ==
  /\ pc[w] = "check"
  /\ ~ Stored(rec[w].body.id)
  /\ rec[w].prev = HeadHash(runMap[rec[w].body.run])
  /\ recordsMap' = recordsMap \cup {rec[w]}
  /\ pc' = [pc EXCEPT ![w] = "publish"]
  /\ UNCHANGED <<runMap, mu, rec, ret, reader>>

\* The second store, and the deferred unlock on the way out.
StoreRuns(w) ==
  /\ pc[w] = "publish"
  /\ runMap' = [runMap EXCEPT ![rec[w].body.run] = Append(@, rec[w])]
  /\ mu' = Free
  /\ Return(w, "ok")
  /\ UNCHANGED <<recordsMap, reader>>

-----------------------------------------------------------------------------
(* VerifyRunChain called with a decision id (and, through its last step,   *)
(* with a run id): no run has that name, so the record is looked up for    *)
(* its run, and the run is listed in a second load.                        *)

RunOf(id) == (CHOOSE r \in recordsMap : r.body.id = id).body.run

\* Mutant: the run of the previous call is listed.
StartVerifyStale(v) ==
  /\ reader[v].at # "list"
  /\ \E id \in DecisionIDs :
       reader' = [reader EXCEPT ![v] =
         [@ EXCEPT !.at    = IF Stored(id) THEN "list" ELSE "done",
                   !.id    = id,
                   !.acked = \E run \in RunIDs : InRun(run, id),
                   !.recs  = << >>]]
  /\ UNCHANGED <<recordsMap, runMap, writerVars>>

StartVerify(v) ==
  /\ reader[v].at # "list"
  /\ \E id \in DecisionIDs :
       reader' = [reader EXCEPT ![v] =
         [at    |-> IF Stored(id) THEN "list" ELSE "done",
          id    |-> id,
          run   |-> IF Stored(id) THEN RunOf(id) ELSE @.run,
          acked |-> \E run \in RunIDs : InRun(run, id),
          recs  |-> << >>]]
  /\ UNCHANGED <<recordsMap, runMap, writerVars>>

ListRun(v) ==
  /\ reader[v].at = "list"
  /\ reader' = [reader EXCEPT ![v].at = "done",
                              ![v].recs = runMap[reader[v].run]]
  /\ UNCHANGED <<recordsMap, runMap, writerVars>>

-----------------------------------------------------------------------------
AppendStep(w) ==
  \/ RejectDuplicate(w) \/ RejectLink(w) \/ StoreRecords(w) \/ StoreRuns(w)

Next ==
  \/ \E w \in Writers : CallAppend(w) \/ Lock(w) \/ AppendStep(w)
  \/ \E v \in Readers : StartVerify(v) \/ ListRun(v)

Spec == Init /\ [][Next]_vars

-----------------------------------------------------------------------------
\* Types of the snapshots and of the calls in progress.
TypeOK ==
  /\ recordsMap \subseteq Record
  /\ runMap \in [RunIDs -> Seq(Record)]
  /\ mu \in Writers \cup {Free}
  /\ pc \in [Writers -> WriterPC]
  /\ rec \in [Writers -> Record]
  /\ ret \in [Writers -> Results]
  /\ reader \in [Readers -> Verification]

\* Every published run verifies and its digests commit to its whole history,
\* whatever interleaving of Append calls built it.
ChainsVerify ==
  \A run \in RunIDs : VerifyChain(runMap[run]) /\ HashesCommit(runMap[run])

\* The index runs ahead of the runs and never behind: a record a reader finds
\* in ListByRun is one Get returns.  The two stores of Append are in the order
\* that makes this so.
RunsIndexed ==
  \A run \in RunIDs : \A i \in 1..Len(runMap[run]) : runMap[run][i] \in recordsMap

\* A decision id names one record, and the record sits once in one run.
IDsUnique ==
  /\ \A r1, r2 \in recordsMap : r1.body.id = r2.body.id => r1 = r2
  /\ \A run1, run2 \in RunIDs :
       \A i \in 1..Len(runMap[run1]) : \A j \in 1..Len(runMap[run2]) :
         runMap[run1][i].body.id = runMap[run2][j].body.id
           => run1 = run2 /\ i = j

\* A lock-free VerifyRunChain never reports a broken chain, and one that began
\* after Append of its decision returned judges a run that holds the decision:
\* it does not answer "empty_run".
VerifierSound ==
  \A v \in Readers :
    reader[v].at = "done" =>
      /\ VerifyChain(reader[v].recs)
      /\ reader[v].acked =>
           \E i \in 1..Len(reader[v].recs) : reader[v].recs[i].body.id = reader[v].id

\* The store is append-only: no step drops or rewrites a record of either
\* snapshot.
AppendOnly ==
  [][/\ recordsMap \subseteq recordsMap'
     /\ \A run \in RunIDs :
          /\ Len(runMap[run]) <= Len(runMap'[run])
          /\ \A i \in 1..Len(runMap[run]) : runMap'[run][i] = runMap[run][i]]_vars

\* What holds between the two stores of an Append and makes the properties
\* above inductive.  Only the holder of the mutex is past Lock.
MutexHeld == \A w \in Writers : pc[w] \in {"check", "publish"} => mu = w

\* A record past the integrity check is sealed; one between the two stores is
\* indexed, continues its run and has an id that no run holds yet.
PendingAppends ==
  \A w \in Writers :
    /\ pc[w] # "idle" => VerifyIntegrity(rec[w])
    /\ pc[w] = "publish" =>
         /\ rec[w] \in recordsMap
         /\ rec[w].prev = HeadHash(runMap[rec[w].body.run])
         /\ \A run \in RunIDs : ~ InRun(run, rec[w].body.id)

\* Runs hold their own records only.
RecordsFiled ==
  \A run \in RunIDs : \A i \in 1..Len(runMap[run]) : runMap[run][i].body.run = run

\* A verifier that looked its decision up after the Append returned will find
\* it in the run it is about to list.
ListingSound ==
  \A v \in Readers :
    reader[v].at = "list" /\ reader[v].acked => InRun(reader[v].run, reader[v].id)

\* The whole of it, which every step of Next preserves: at any point between
\* the two stores the snapshots, the pending record and the readers agree.
StoreInv ==
  /\ TypeOK
  /\ MutexHeld
  /\ PendingAppends
  /\ RecordsFiled
  /\ ListingSound
  /\ ChainsVerify
  /\ RunsIndexed
  /\ IDsUnique
  /\ VerifierSound

\* The two-store Append implements the atomic commit of ChainLog; the commit
\* takes effect at the second store.
Log == INSTANCE ChainLog WITH log <- runMap
ImplementsLog == Log!LogSpec
=============================================================================
