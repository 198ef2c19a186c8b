-------------------------- MODULE PostgresJournal --------------------------
(***************************************************************************)
(* PostgresJournalStore (internal/adapter/db/journal_store.go) under       *)
(* concurrent OptimizeEpoch calls, the wiring of cmd/server/main.go with a *)
(* database: one store is both the semantic journal and the crypto store.  *)
(*                                                                         *)
(* The database is PostgreSQL at its default READ COMMITTED level: each    *)
(* statement sees the rows committed when it starts, SELECT ... FOR UPDATE *)
(* locks the row it found and waits for its holder, an INSERT waits for an *)
(* uncommitted row with the same key.  A row that was locked but not       *)
(* changed is returned to the waiter as it found it.  A commit whose answer *)
(* does not come back takes effect, or none, when the database gets to it. *)
(***************************************************************************)
EXTENDS DecisionRecords

CONSTANTS
  Faults,       \* the database errors that may happen
  MaxRestarts,  \* bound on restarts of the server
  NoRow         \* a query found nothing

ASSUME PostgresAssumption ==
  /\ Faults \subseteq {"count", "last", "tx", "commit"}
  /\ MaxRestarts \in Nat
  /\ NoRow \notin Record

VARIABLES
  rows,        \* committed rows of decision_journal
  runRows,     \* committed rows of optimization_runs
  memJournal,  \* entries retained in memory by Record
  pc,          \* call -> where it stands
  id,          \* call -> its decision id
  prev,        \* call -> the digest LastRecord gave
  rec,         \* call -> the sealed record
  last,        \* call -> the last record its transaction found
  holdsRun,    \* calls whose transaction inserted an uncommitted run row
  locked,      \* call -> the row its transaction locked
  result,      \* call -> what it returned
  overlap,     \* the pairs of calls one of which started when the other was
               \* running or its commit in doubt (history)
  miscounted,  \* calls that numbered their record when Count failed (history)
  restarts     \* number of restarts of the server

callVars == <<id, prev, rec>>
txVars == <<last, holdsRun, locked>>
histories == <<overlap, miscounted>>
vars == <<rows, runRows, memJournal, pc, callVars, txVars, result, histories, restarts>>

InTx == {"ensure", "select", "lock", "insert", "commit"}
PC == {"idle", "head", "seq", "record", "doubt", "done"} \cup InTx

\* A call returns, and its transaction may still be open: its commit is in doubt.
Open(c) == pc[c] \notin {"idle", "done"}
Running(c) == Open(c) /\ pc[c] # "doubt"
RowsOf(p) == {r \in rows : r.body.run = p}

\* ORDER BY batch_seq DESC LIMIT 1 returns one of these.
LastRows(p) ==
  IF RowsOf(p) = {} THEN {NoRow}
  ELSE {r \in RowsOf(p) : \A q \in RowsOf(p) : q.body.seq <= r.body.seq}

\* Count() + 1; Count answers 0 when the query fails.
NextNumber(failed) == IF failed THEN 1 ELSE Cardinality(rows) + 1
CountFailures == IF "count" \in Faults THEN BOOLEAN ELSE {FALSE}

Init ==
  /\ rows = {}
  /\ runRows = {}
  /\ memJournal = << >>
  /\ pc = [c \in Calls |-> "idle"]
  /\ id = [c \in Calls |-> NoID]
  /\ prev = [c \in Calls |-> Genesis]
  /\ rec = [c \in Calls |-> NoRecord]
  /\ last = [c \in Calls |-> NoRow]
  /\ holdsRun = {}
  /\ locked = [c \in Calls |-> NoRow]
  /\ result = [c \in Calls |-> "none"]
  /\ overlap = {}
  /\ miscounted = {}
  /\ restarts = 0

Goto(c, label) == pc' = [pc EXCEPT ![c] = label]

-----------------------------------------------------------------------------
(* OptimizeEpoch up to the call of Record *)

\* The request is evaluated, which is the caller's own affair, and numbered.
Start(c) ==
  /\ pc[c] = "idle"
  /\ \E q \in Requests, failed \in CountFailures :
       id' = [id EXCEPT ![c] =
         [policy |-> q.policy, epoch |-> q.epoch, num |-> NextNumber(failed)]]
  /\ overlap' = overlap \cup {{c, d} : d \in {x \in Calls : Open(x)}}
  /\ Goto(c, "head")
  /\ UNCHANGED <<rows, runRows, memJournal, prev, rec, txVars, result, miscounted, restarts>>

\* LastRecord answers "none" when the query fails.
ReadHead(c) ==
  /\ pc[c] = "head"
  /\ \E r \in LastRows(id[c].policy) \cup (IF "last" \in Faults THEN {NoRow} ELSE {}) :
       prev' = [prev EXCEPT ![c] = IF r = NoRow THEN Genesis ELSE r.hash]
  /\ Goto(c, "seq")
  /\ UNCHANGED <<rows, runRows, memJournal, id, rec, txVars, result, histories, restarts>>

SealRecord(c) ==
  /\ pc[c] = "seq"
  /\ \E failed \in CountFailures :
       /\ rec' = [rec EXCEPT ![c] = Seal(prev[c],
            [run |-> id[c].policy, seq |-> NextNumber(failed), id |-> id[c], state |-> c])]
       /\ miscounted' = IF failed THEN miscounted \cup {c} ELSE miscounted
  /\ Goto(c, "record")
  /\ UNCHANGED <<rows, runRows, memJournal, id, prev, txVars, result, overlap, restarts>>

\* Record keeps the entry in memory before it calls Append.
KeepEntry(c) ==
  /\ pc[c] = "record"
  /\ memJournal' = Append(memJournal, rec[c])
  /\ Goto(c, "ensure")
  /\ UNCHANGED <<rows, runRows, callVars, txVars, result, histories, restarts>>

-----------------------------------------------------------------------------
(* The transaction of Append *)

\* Mutant: the deferred rollback is missing, the run row stays locked.
EndTxOpen(c, outcome) ==
  /\ last' = [last EXCEPT ![c] = NoRow]
  /\ locked' = [locked EXCEPT ![c] = NoRow]
  /\ result' = [result EXCEPT ![c] = outcome]
  /\ Goto(c, "done")
  /\ UNCHANGED <<holdsRun, memJournal, callVars, histories, restarts>>

\* The call returns, its transaction over; an acknowledged record is kept.
EndTx(c, outcome) ==
  /\ holdsRun' = holdsRun \ {c}
  /\ last' = [last EXCEPT ![c] = NoRow]
  /\ locked' = [locked EXCEPT ![c] = NoRow]
  /\ result' = [result EXCEPT ![c] = outcome]
  /\ id' = [id EXCEPT ![c] = NoID]
  /\ prev' = [prev EXCEPT ![c] = Genesis]
  /\ rec' = IF outcome = "ok" THEN rec ELSE [rec EXCEPT ![c] = NoRecord]
  /\ Goto(c, "done")
  /\ UNCHANGED <<memJournal, histories, restarts>>

Rollback(c) == EndTx(c, "rejected") /\ UNCHANGED <<rows, runRows>>

\* Mutant: the parent row is not inserted first, so first decisions do not
\* wait for each other.
EnsureNoRun(c) ==
  /\ pc[c] = "ensure" /\ VerifyIntegrity(rec[c])
  /\ Goto(c, "select")
  /\ UNCHANGED <<rows, runRows, memJournal, callVars, txVars, result, histories, restarts>>

\* A record that is not sealed is not let in.
\* INSERT INTO optimization_runs ... ON CONFLICT DO NOTHING.
EnsureRun(c) ==
  /\ pc[c] = "ensure" /\ VerifyIntegrity(rec[c])
  /\ \A d \in holdsRun : id[d].policy # id[c].policy
  /\ holdsRun' = IF id[c].policy \in runRows THEN holdsRun ELSE holdsRun \cup {c}
  /\ Goto(c, "select")
  /\ UNCHANGED <<rows, runRows, memJournal, callVars, last, locked, result, histories, restarts>>

\* The snapshot of SELECT ... FOR UPDATE.
SelectLast(c) ==
  /\ pc[c] = "select"
  /\ \E r \in LastRows(id[c].policy) : last' = [last EXCEPT ![c] = r]
  /\ Goto(c, "lock")
  /\ UNCHANGED <<rows, runRows, memJournal, callVars, holdsRun, locked, result, histories, restarts>>

\* Mutant: no link check.
LinkUnchecked(c) == TRUE

LinkOK(c) == rec[c].prev = IF last[c] = NoRow THEN Genesis ELSE last[c].hash

LockFree(c) == last[c] # NoRow => \A d \in Calls \ {c} : locked[d] # last[c]

\* Its row lock, and the link check on the row it returns.
LockLast(c) ==
  /\ pc[c] = "lock" /\ LockFree(c)
  /\ LinkOK(c)
  /\ locked' = [locked EXCEPT ![c] = last[c]]
  /\ Goto(c, "insert")
  /\ UNCHANGED <<rows, runRows, memJournal, callVars, last, holdsRun, result, histories, restarts>>

\* ErrCorruptedChain, of a record or of its link.
RejectCorrupted(c) ==
  /\ pc[c] \in {"ensure", "lock"}
  /\ pc[c] = "ensure" => ~ VerifyIntegrity(rec[c])
  /\ pc[c] = "lock" => LockFree(c) /\ ~ LinkOK(c)
  /\ Rollback(c)

\* Another transaction has inserted this decision id and not ended.
IDPending(c) == \E d \in Calls \ {c} : pc[d] \in {"commit", "doubt"} /\ id[d] = id[c]
IDTaken(c) == \E r \in rows : r.body.id = id[c]

InsertRow(c) ==
  /\ pc[c] = "insert"
  /\ ~ IDPending(c) /\ ~ IDTaken(c)
  /\ Goto(c, "commit")
  /\ UNCHANGED <<rows, runRows, memJournal, callVars, txVars, result, histories, restarts>>

\* Mutant: INSERT ... ON CONFLICT DO NOTHING, and the call goes on to succeed.
IgnoreDuplicate(c) ==
  /\ pc[c] = "insert"
  /\ ~ IDPending(c) /\ IDTaken(c)
  /\ EndTx(c, "ok")
  /\ UNCHANGED <<rows, runRows>>

RejectDuplicate(c) ==
  /\ pc[c] = "insert"
  /\ ~ IDPending(c) /\ IDTaken(c)
  /\ Rollback(c)

\* Mutant: the insert counts the rows again and numbers the sealed record so.
StoreRenumbered(c) ==
  /\ rows' = rows \cup {[rec[c] EXCEPT !.body.seq = NextNumber(FALSE)]}
  /\ runRows' = runRows \cup {id[c].policy}

Store(c) == rows' = rows \cup {rec[c]} /\ runRows' = runRows \cup {id[c].policy}

Commit(c) == pc[c] = "commit" /\ Store(c) /\ EndTx(c, "ok")

\* The ten seconds run out, or the connection breaks, before the answer to the
\* commit is back: the call returns an error and the transaction is where it was.
DoubtCommit(c) ==
  /\ "commit" \in Faults
  /\ pc[c] = "commit"
  /\ result' = [result EXCEPT ![c] = "rejected"]
  /\ Goto(c, "doubt")
  /\ UNCHANGED <<rows, runRows, memJournal, callVars, txVars, histories, restarts>>

\* The commit reaches the database after all, or the database gives up on it.
Land(c) == pc[c] = "doubt" /\ Store(c) /\ EndTx(c, result[c])
Abort(c) == pc[c] = "doubt" /\ EndTx(c, result[c]) /\ UNCHANGED <<rows, runRows>>

\* A statement fails or the ten seconds of the transaction run out; locks that
\* the database is slow to give back only make others wait.
TxFails(c) ==
  /\ "tx" \in Faults
  /\ pc[c] \in InTx
  /\ Rollback(c)

\* The server process restarts: calls in progress are lost, their open
\* transactions roll back but for the commits on their way, the retained
\* entries are gone.
Restart ==
  /\ restarts < MaxRestarts
  /\ restarts' = restarts + 1
  /\ memJournal' = << >>
  /\ \E sent \in SUBSET {c \in Calls : pc[c] = "commit"} :
       LET stays(c) == c \in sent \/ pc[c] = "doubt"
       IN  /\ pc' = [c \in Calls |-> IF stays(c) THEN "doubt"
                                    ELSE IF Running(c) THEN "done" ELSE pc[c]]
           /\ last' = [c \in Calls |-> IF stays(c) THEN last[c] ELSE NoRow]
           /\ locked' = [c \in Calls |-> IF stays(c) THEN locked[c] ELSE NoRow]
           /\ holdsRun' = {c \in holdsRun : stays(c)}
           /\ id' = [c \in Calls |-> IF stays(c) THEN id[c] ELSE NoID]
           /\ prev' = [c \in Calls |-> IF stays(c) THEN prev[c] ELSE Genesis]
           /\ rec' = [c \in Calls |-> IF stays(c) \/ result[c] = "ok" THEN rec[c]
                                     ELSE NoRecord]
  /\ result' = [c \in Calls |-> IF Running(c) THEN "lost" ELSE result[c]]
  /\ UNCHANGED <<rows, runRows, histories>>

-----------------------------------------------------------------------------
Proceed(c) ==
  \/ ReadHead(c) \/ SealRecord(c) \/ KeepEntry(c)
  \/ EnsureRun(c) \/ SelectLast(c) \/ LockLast(c) \/ RejectCorrupted(c)
  \/ InsertRow(c) \/ RejectDuplicate(c) \/ Commit(c)

Settle(c) == Land(c) \/ Abort(c)

Next ==
  \/ \E c \in Calls : Start(c) \/ Proceed(c) \/ Settle(c) \/ DoubtCommit(c) \/ TxFails(c)
  \/ Restart

Spec == Init /\ [][Next]_vars

-----------------------------------------------------------------------------
TypeOK ==
  /\ rows \subseteq Record
  /\ runRows \subseteq Policies
  /\ memJournal \in Seq(Record)
  /\ pc \in [Calls -> PC]
  /\ id \in [Calls -> DecisionID]
  /\ prev \in [Calls -> Hashes]
  /\ rec \in [Calls -> Record]
  /\ last \in [Calls -> Record \cup {NoRow}]
  /\ holdsRun \subseteq Calls
  /\ locked \in [Calls -> Record \cup {NoRow}]
  /\ result \in [Calls -> {"none", "ok", "rejected", "lost"}]
  /\ \A pair \in overlap : pair \subseteq Calls
  /\ miscounted \subseteq Calls
  /\ restarts \in 0..MaxRestarts

\* Every committed row is sealed and extends genesis or another committed row
\* of its run: a run is a tree without loose records, whatever fails.
RowsLinked ==
  \A r \in rows :
    /\ VerifyIntegrity(r)
    /\ r.prev # Genesis =>
         \E q \in rows : q.body.run = r.body.run /\ q.hash = r.prev

\* A run has one genesis row: racing first decisions wait for each other on
\* the run row and the loser finds the winner's record.
OneGenesis ==
  \A r, q \in rows : r.body.run = q.body.run /\ r.prev = Genesis /\ q.prev = Genesis => r = q

\* The orders in which ListByRun may return a run's rows.
Listings(p) ==
  LET n == Cardinality(RowsOf(p))
  IN {s \in [1..n -> RowsOf(p)] :
        /\ \A i, j \in 1..n : i # j => s[i] # s[j]
        /\ \A i, j \in 1..n : i < j => s[i].body.seq <= s[j].body.seq}

RunVerifies(p) == \A s \in Listings(p) : VerifyChain(s)

\* Two rows with the same predecessor, written by calls one of which started
\* before the other was over or its commit settled.
Raced(r, q) == r # q /\ r.prev = q.prev /\ {r.body.state, q.body.state} \in overlap

\* A row with no higher number than its predecessor, numbered when Count failed.
Misnumbered(r, q) ==
  r.prev = q.hash /\ r.body.seq <= q.body.seq /\ r.body.state \in miscounted

\* A run that does not verify has two rows of calls that raced, or a row that
\* was given a wrong number.
ForksAreRaces ==
  \A p \in Policies :
    ~ RunVerifies(p) => \E r, q \in RowsOf(p) : Raced(r, q) \/ Misnumbered(r, q)

\* An acknowledged decision is committed, before and after a restart, and
\* until a restart its entry, with the attribution the rows lack, is retained.
AckedCommitted ==
  \A c \in Calls : result[c] = "ok" =>
    /\ rec[c] \in rows
    /\ restarts = 0 => \E i \in 1..Len(memJournal) : memJournal[i] = rec[c]

\* What c waits for at its statement is held by the transaction of d: the run
\* row, the lock on the last row, or the key it inserts.
Blocks(d, c) ==
  /\ d # c
  /\ \/ pc[c] = "ensure" /\ d \in holdsRun /\ id[d].policy = id[c].policy
     \/ pc[c] = "lock" /\ last[c] # NoRow /\ locked[d] = last[c]
     \/ pc[c] = "insert" /\ pc[d] \in {"commit", "doubt"} /\ id[d] = id[c]

\* Nobody waits for a transaction that is over, and however many calls wait
\* for each other, one of them waits for none of the others: no deadlock.
WaitsEnd ==
  /\ \A c, d \in Calls : Blocks(d, c) => Open(d)
  /\ \A S \in (SUBSET Calls) \ {{}} : \E c \in S : \A d \in S : ~ Blocks(d, c)

-----------------------------------------------------------------------------
(* What the comments of journal_store.go say and the code does not keep *)

\* "every dispatch decision is committed within a transaction verifying hash
\* chain continuity": each run verifies at all times.
RunsVerify == \A p \in Policies : RunVerifies(p)
=============================================================================
