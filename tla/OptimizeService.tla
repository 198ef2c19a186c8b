-------------------------- MODULE OptimizeService --------------------------
(***************************************************************************)
(* OptimizationService.OptimizeEpoch (internal/service/orchestrator.go)    *)
(* executed by concurrent requests over one MemoryJournal and one          *)
(* MemoryStore, the wiring of cmd/server/main.go without a database.       *)
(* OptimizeEpoch holds no lock: it reads Count for the decision id,        *)
(* LastRecord for the link, Count again for the batch sequence, then       *)
(* records the semantic entry and appends the sealed record.               *)
(*                                                                         *)
(* The store's operations are the atomic ones of ChainLog, which           *)
(* MemoryStore implements.  A semantic entry is represented by the sealed  *)
(* record it embeds.                                                       *)
(***************************************************************************)
EXTENDS DecisionRecords

VARIABLES
  chain,    \* cryptoStore: policy -> records of its run
  journal,  \* the semantic journal's entries
  pc,       \* call -> where it stands in OptimizeEpoch
  id,       \* call -> its decision id
  prev,     \* call -> the digest LastRecord gave
  rec,      \* call -> the sealed record
  snap,     \* call -> the entries its CAS loop loaded
  result,   \* call -> what it returned
  overlap   \* call -> the calls that ran at some time while it ran (history)

vars == <<chain, journal, pc, id, prev, rec, snap, result, overlap>>

PC == {"idle", "evaluate", "numbered", "linked", "sealed", "swap", "append", "done"}

\* "failed": an error before anything was recorded.
\* "rejected": the error of cryptoStore.Append.
Results == {"none", "ok", "failed", "rejected"}

Running(c) == pc[c] \notin {"idle", "done"}

Log == INSTANCE ChainLog WITH RunIDs <- Policies, Bodies <- Body, log <- chain

Init ==
  /\ chain = [p \in Policies |-> << >>]
  /\ journal = << >>
  /\ pc = [c \in Calls |-> "idle"]
  /\ id = [c \in Calls |-> NoID]
  /\ prev = [c \in Calls |-> Genesis]
  /\ rec = [c \in Calls |-> NoRecord]
  /\ snap = [c \in Calls |-> << >>]
  /\ result = [c \in Calls |-> "none"]
  /\ overlap = [c \in Calls |-> {}]

Goto(c, label) == pc' = [pc EXCEPT ![c] = label]

-----------------------------------------------------------------------------
\* OptimizeEpoch is called with policy q.policy and a state of epoch q.epoch;
\* the number is read later.
Call(c, q) ==
  /\ pc[c] = "idle"
  /\ id' = [id EXCEPT ![c] = [policy |-> q.policy, epoch |-> q.epoch, num |-> 0]]
  /\ overlap' = [d \in Calls |->
       IF d = c THEN {x \in Calls : Running(x)}
       ELSE IF Running(d) THEN overlap[d] \cup {c} ELSE overlap[d]]
  /\ Goto(c, "evaluate")
  /\ UNCHANGED <<chain, journal, prev, rec, snap, result>>

Start(c) == \E q \in Requests : Call(c, q)

\* Evaluation, validation, hashing, the resource, belief and information
\* transitions or parameter hashing fail: nothing has been recorded, and the
\* caller is given no decision id.
Fail(c) ==
  /\ pc[c] \in {"evaluate", "numbered", "linked"}
  /\ result' = [result EXCEPT ![c] = "failed"]
  /\ id' = [id EXCEPT ![c] = NoID]
  /\ prev' = [prev EXCEPT ![c] = Genesis]
  /\ Goto(c, "done")
  /\ UNCHANGED <<chain, journal, rec, snap, overlap>>

\* decisionID from journal.Count() + 1.
NumberDecision(c) ==
  /\ pc[c] = "evaluate"
  /\ id' = [id EXCEPT ![c].num = Len(journal) + 1]
  /\ Goto(c, "numbered")
  /\ UNCHANGED <<chain, journal, prev, rec, snap, result, overlap>>

\* Mutant: the link is always genesis.
ReadHeadGenesis(c) ==
  /\ pc[c] = "numbered"
  /\ prev' = [prev EXCEPT ![c] = Genesis]
  /\ Goto(c, "linked")
  /\ UNCHANGED <<chain, journal, id, rec, snap, result, overlap>>

\* prevHash from cryptoStore.LastRecord(runID).
ReadHead(c) ==
  /\ pc[c] = "numbered"
  /\ prev' = [prev EXCEPT ![c] = HeadHash(chain[id[c].policy])]
  /\ Goto(c, "linked")
  /\ UNCHANGED <<chain, journal, id, rec, snap, result, overlap>>

\* Mutant: the batch sequence is the number of the decision id.
SealRecordNumbered(c) ==
  /\ pc[c] = "linked"
  /\ rec' = [rec EXCEPT ![c] =
       Seal(prev[c], [run |-> id[c].policy, seq |-> id[c].num,
                      id |-> id[c], state |-> c])]
  /\ Goto(c, "sealed")
  /\ UNCHANGED <<chain, journal, id, prev, snap, result, overlap>>

\* BatchSeq from a second journal.Count() + 1, then Seal.
SealRecord(c) ==
  /\ pc[c] = "linked"
  /\ rec' = [rec EXCEPT ![c] =
       Seal(prev[c], [run |-> id[c].policy, seq |-> Len(journal) + 1,
                      id |-> id[c], state |-> c])]
  /\ Goto(c, "sealed")
  /\ UNCHANGED <<chain, journal, id, prev, snap, result, overlap>>

\* MemoryJournal.Record: load the pointer and build the longer slice ...
LoadEntries(c) ==
  /\ pc[c] = "sealed"
  /\ snap' = [snap EXCEPT ![c] = journal]
  /\ Goto(c, "swap")
  /\ UNCHANGED <<chain, journal, id, prev, rec, result, overlap>>

\* Mutants: a plain store; a failed swap retried without loading the pointer
\* again.
StoreEntries(c) ==
  /\ pc[c] = "swap"
  /\ journal' = Append(snap[c], rec[c])
  /\ Goto(c, "append")
  /\ snap' = [snap EXCEPT ![c] = << >>]
  /\ UNCHANGED <<chain, id, prev, rec, result, overlap>>
SwapEntriesStale(c) ==
  /\ pc[c] = "swap"
  /\ IF journal = snap[c]
     THEN journal' = Append(snap[c], rec[c]) /\ Goto(c, "append")
     ELSE UNCHANGED <<journal, pc>>
  /\ UNCHANGED <<chain, id, prev, rec, snap, result, overlap>>

\* ... and swap it in if nobody else did.  The pointer changes exactly when
\* the entries do: slices only grow.
SwapEntries(c) ==
  /\ pc[c] = "swap"
  /\ IF journal = snap[c]
     THEN journal' = Append(snap[c], rec[c]) /\ Goto(c, "append")
     ELSE journal' = journal /\ Goto(c, "sealed")
  /\ snap' = [snap EXCEPT ![c] = << >>]
  /\ UNCHANGED <<chain, id, prev, rec, result, overlap>>

\* Mutant: the store checks nothing.
AppendRecordUnchecked(c) ==
  /\ pc[c] = "append"
  /\ chain' = [chain EXCEPT ![rec[c].body.run] = Append(@, rec[c])]
  /\ result' = [result EXCEPT ![c] = "ok"]
  /\ Goto(c, "done")
  /\ UNCHANGED <<journal, id, prev, rec, snap, overlap>>

\* cryptoStore.Append, which commits the record or rejects it.
AppendRecord(c) ==
  /\ pc[c] = "append"
  /\ IF Log!Admissible(rec[c])
     THEN /\ chain' = [chain EXCEPT ![rec[c].body.run] = Append(@, rec[c])]
          /\ result' = [result EXCEPT ![c] = "ok"]
     ELSE /\ chain' = chain
          /\ result' = [result EXCEPT ![c] = "rejected"]
  /\ Goto(c, "done")
  /\ UNCHANGED <<journal, id, prev, rec, snap, overlap>>

-----------------------------------------------------------------------------
Proceed(c) ==
  \/ NumberDecision(c) \/ ReadHead(c) \/ SealRecord(c)
  \/ LoadEntries(c) \/ SwapEntries(c) \/ AppendRecord(c)

Next == \E c \in Calls : Start(c) \/ Fail(c) \/ Proceed(c)

Spec == Init /\ [][Next]_vars

\* Nothing here blocks, so some goroutine runs, whichever the scheduler likes.
FairSpec == Spec /\ WF_vars(\E c \in Calls : Proceed(c))

-----------------------------------------------------------------------------
TypeOK ==
  /\ chain \in [Policies -> Seq(Record)]
  /\ journal \in Seq(Record)
  /\ pc \in [Calls -> PC]
  /\ id \in [Calls -> DecisionID]
  /\ prev \in [Calls -> Hashes]
  /\ rec \in [Calls -> Record]
  /\ snap \in [Calls -> Seq(Record)]
  /\ result \in [Calls -> Results]
  /\ overlap \in [Calls -> SUBSET Calls]

Journaled(r) == \E i \in 1..Len(journal) : journal[i] = r

\* Batch sequences increase strictly along a run, although each is computed
\* from a journal length read long before the record is appended.
\* (ListByRun and the database order a run's records by batch_seq.)
SeqIncreases ==
  \A p \in Policies : \A i, j \in 1..Len(chain[p]) :
    i < j => chain[p][i].body.seq < chain[p][j].body.seq

\* The audit trail explains the chain: every record of a run is embedded in an
\* entry of the semantic journal.
ChainExplained ==
  \A p \in Policies : \A i \in 1..Len(chain[p]) : Journaled(chain[p][i])

\* The compare-and-swap loop loses no entry and repeats none: each call past
\* Record has its entry in the journal once.
EntriesKeptOnce ==
  \A c \in Calls :
    pc[c] = "append" \/ result[c] \in {"ok", "rejected"} =>
      Cardinality({i \in 1..Len(journal) : journal[i] = rec[c]}) = 1

\* A call's record is refused only because another call of the same run that
\* ran while it ran got its own record in.
RejectedOnlyByRace ==
  \A c \in Calls :
    result[c] = "rejected" =>
      \E d \in overlap[c] : result[d] = "ok" /\ id[d].policy = id[c].policy

\* The loop of Record is lock-free: whichever goroutines run, those there are
\* do not keep each other in it, and when no request comes any more each is
\* answered.  So of requests that never stop coming some get through without
\* end; that one call is overtaken by them for ever is not excluded.
CallsAnswered == \A c \in Calls : Running(c) ~> (pc[c] = "done")

\* OptimizeEpoch as a client of the store: all it does to the chain is commit
\* admissible records one by one.  So each run verifies, and no two records
\* of the store have the same decision id, although calls that read Count
\* together compute the same one.
ImplementsLog == Log!LogSpec

=============================================================================
