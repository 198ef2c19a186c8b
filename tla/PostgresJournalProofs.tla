----------------------- MODULE PostgresJournalProofs -----------------------
(***************************************************************************)
(* Proofs about PostgresJournal, for any number of calls, policies,        *)
(* restarts and any of its database errors: committed rows are sealed and  *)
(* linked, a run has one genesis row, what was acknowledged is committed,  *)
(* transactions do not wait in circles, and a run forks only where calls   *)
(* raced or a count of the rows failed.                                    *)
(***************************************************************************)
EXTENDS PostgresJournal, SequenceTheorems, FiniteSetTheorems, TLAPS

Checked(c) == pc[c] \in {"insert", "commit", "doubt"}
Selected(c) == pc[c] = "lock" \/ Checked(c)
Ensured(c) == pc[c] = "select" \/ Selected(c)
Sealed(c) == pc[c] \in {"record", "ensure"} \/ Ensured(c)

\* What a call brings to its transaction, and keeps when it is acknowledged.
SealedOK(c) ==
  /\ VerifyIntegrity(rec[c]) /\ rec[c].body.run = id[c].policy
  /\ pc[c] \notin {"record", "doubt"} => \E i \in 1..Len(memJournal) : memJournal[i] = rec[c]
AckedOK(c) ==
  /\ pc[c] = "done" /\ rec[c] \in rows
  /\ restarts = 0 => \E i \in 1..Len(memJournal) : memJournal[i] = rec[c]

\* A transaction has its run row: committed, or its own that it has inserted;
\* what it selected is a committed row of the run, or there was none and the
\* run row is its own.
EnsuredOK(c) == id[c].policy \in runRows \/ c \in holdsRun
SelectedOK(c) ==
  /\ last[c] = NoRow => c \in holdsRun
  /\ last[c] # NoRow => last[c] \in rows /\ last[c].body.run = id[c].policy

CallOK(c) ==
  /\ Sealed(c) => SealedOK(c)
  /\ result[c] = "ok" => AckedOK(c)
  /\ Ensured(c) => EnsuredOK(c)
  /\ Selected(c) => SelectedOK(c)
  /\ Checked(c) => LinkOK(c)

\* Uncommitted run rows exclude each other, and a committed run row comes with
\* a row of the run.
RunsOK ==
  /\ \A c \in holdsRun : Ensured(c) /\ id[c].policy \notin runRows
  /\ \A c, d \in holdsRun : id[c].policy = id[d].policy => c = d
  /\ \A p \in Policies : p \in runRows <=> RowsOf(p) # {}

Results == {"none", "ok", "rejected", "lost"}

Typed == TypeOK /\ IsFiniteSet(rows)

JournalInv == Typed /\ (\A c \in Calls : CallOK(c)) /\ RunsOK /\ RowsLinked /\ OneGenesis

-----------------------------------------------------------------------------
(* Types *)

LEMMA SealType ==
  ASSUME NEW h \in Hashes, NEW b \in Body
  PROVE  /\ Seal(h, b) \in Record /\ VerifyIntegrity(Seal(h, b))
         /\ Seal(h, b).body = b
BY DEF Seal, RecordHash, VerifyIntegrity, Record, Hashes

LEMMA UnsetTypes ==
  NoID \in DecisionID /\ NoID.policy \in Policies /\ Genesis \in Hashes /\ NoRecord \in Record
<1>1. /\ (CHOOSE p \in Policies : TRUE) \in Policies
      /\ (CHOOSE e \in Epochs : TRUE) \in Epochs
      /\ (CHOOSE c \in Calls : TRUE) \in Calls
  BY ServiceAssumption
<1>2. NoID \in DecisionID /\ NoID.policy \in Policies /\ Genesis \in Hashes
  BY <1>1 DEF NoID, DecisionID, Genesis, Hashes
<1>3. [run |-> NoID.policy, seq |-> 0, id |-> NoID,
       state |-> CHOOSE c \in Calls : TRUE] \in Body
  BY <1>1, <1>2 DEF Body
<1> QED BY <1>2, <1>3, SealType DEF NoRecord

LEMMA NumberType == IsFiniteSet(rows) => \A failed : NextNumber(failed) \in Nat
BY FS_CardinalityType DEF NextNumber

LEMMA TypeInit == Init => Typed
<1>1. Init => TypeOK
  BY UnsetTypes, PostgresAssumption DEF Init, TypeOK, PC
<1> QED BY <1>1, FS_EmptySet DEF Init, Typed

LEMMA EndType ==
  ASSUME Typed, NEW c \in Calls, NEW outcome \in Results, EndTx(c, outcome)
  PROVE  /\ memJournal' \in Seq(Record) /\ pc' \in [Calls -> PC]
         /\ id' \in [Calls -> DecisionID] /\ prev' \in [Calls -> Hashes]
         /\ rec' \in [Calls -> Record] /\ last' \in [Calls -> Record \cup {NoRow}]
         /\ holdsRun' \subseteq Calls /\ locked' \in [Calls -> Record \cup {NoRow}]
         /\ result' \in [Calls -> Results]
         /\ (\A pair \in overlap' : pair \subseteq Calls) /\ miscounted' \subseteq Calls
         /\ restarts' \in 0..MaxRestarts
BY UnsetTypes DEF Typed, TypeOK, Results, EndTx, Goto, PC, histories

LEMMA TypeNext == Typed /\ [Next]_vars => Typed'
<1> SUFFICES ASSUME Typed, [Next]_vars PROVE Typed'
  OBVIOUS
<1> USE DEF Typed, TypeOK, Results, callVars, txVars, histories
<1>1. ASSUME NEW c \in Calls, Start(c) PROVE Typed'
  <2>1. PICK q \in Requests, failed \in CountFailures :
          id' = [id EXCEPT ![c] =
            [policy |-> q.policy, epoch |-> q.epoch, num |-> NextNumber(failed)]]
    BY <1>1 DEF Start
  <2>2. [policy |-> q.policy, epoch |-> q.epoch, num |-> NextNumber(failed)] \in DecisionID
    BY ServiceAssumption, NumberType DEF DecisionID
  <2>3. \A pair \in overlap' : pair \subseteq Calls
    BY <1>1 DEF Start
  <2> QED BY <1>1, <2>1, <2>2, <2>3 DEF Start, Goto, PC, InTx
<1>2. ASSUME NEW c \in Calls, ReadHead(c) PROVE Typed'
  <2>1. prev' \in [Calls -> Hashes]
    <3>1. PICK r \in LastRows(id[c].policy) \cup {NoRow} :
            prev' = [prev EXCEPT ![c] = IF r = NoRow THEN Genesis ELSE r.hash]
      BY <1>2 DEF ReadHead
    <3>2. r = NoRow \/ r \in Record
      BY DEF LastRows, RowsOf
    <3>3. (IF r = NoRow THEN Genesis ELSE r.hash) \in Hashes
      BY <3>2, UnsetTypes DEF Record
    <3> QED BY <3>1, <3>3
  <2> QED BY <1>2, <2>1 DEF ReadHead, Goto, PC, InTx
<1>3. ASSUME NEW c \in Calls, SealRecord(c) PROVE Typed'
  <2>1. PICK failed \in CountFailures : rec' = [rec EXCEPT ![c] = Seal(prev[c],
          [run |-> id[c].policy, seq |-> NextNumber(failed), id |-> id[c], state |-> c])]
    BY <1>3 DEF SealRecord
  <2> DEFINE k == NextNumber(failed)
  <2>2. [run |-> id[c].policy, seq |-> k, id |-> id[c], state |-> c] \in Body
    <3>1. k \in Nat /\ id[c] \in DecisionID
      BY NumberType
    <3> QED BY <3>1 DEF Body, DecisionID
  <2>3. Seal(prev[c], [run |-> id[c].policy, seq |-> k, id |-> id[c], state |-> c]) \in Record
    BY <2>2, SealType
  <2>4. miscounted' \subseteq Calls
    BY <1>3 DEF SealRecord
  <2> QED BY <1>3, <2>1, <2>3, <2>4 DEF SealRecord, Goto, PC, InTx
<1>4. ASSUME NEW c \in Calls, KeepEntry(c) PROVE Typed'
  BY <1>4 DEF KeepEntry, Goto, PC, InTx
<1>5. ASSUME NEW c \in Calls, EnsureRun(c) PROVE Typed'
  BY <1>5 DEF EnsureRun, Goto, PC, InTx
<1>6. ASSUME NEW c \in Calls, SelectLast(c) PROVE Typed'
  <2>1. LastRows(id[c].policy) \subseteq Record \cup {NoRow}
    BY DEF LastRows, RowsOf
  <2> QED BY <1>6, <2>1 DEF SelectLast, Goto, PC, InTx
<1>7. ASSUME NEW c \in Calls, LockLast(c) PROVE Typed'
  BY <1>7 DEF LockLast, Goto, PC, InTx
<1>8. ASSUME NEW c \in Calls, InsertRow(c) PROVE Typed'
  BY <1>8 DEF InsertRow, Goto, PC, InTx
<1>9. ASSUME NEW c \in Calls, RejectCorrupted(c) \/ RejectDuplicate(c) \/ TxFails(c) PROVE Typed'
  <2>1. EndTx(c, "rejected") /\ UNCHANGED <<rows, runRows>>
    BY <1>9 DEF RejectCorrupted, RejectDuplicate, TxFails, Rollback
  <2> QED BY <2>1, EndType
<1>10. ASSUME NEW c \in Calls, Commit(c) \/ Land(c) PROVE Typed'
  <2>1. Store(c) /\ \E outcome \in Results : EndTx(c, outcome)
    BY <1>10 DEF Commit, Land
  <2>2. rows' \subseteq Record /\ IsFiniteSet(rows')
    BY <2>1, FS_AddElement DEF Store
  <2>3. runRows' \subseteq Policies
    BY <2>1 DEF Store, DecisionID
  <2> QED BY <2>1, <2>2, <2>3, EndType
<1>11. ASSUME NEW c \in Calls, Abort(c) PROVE Typed'
  <2>1. UNCHANGED <<rows, runRows>> /\ \E outcome \in Results : EndTx(c, outcome)
    BY <1>11 DEF Abort
  <2> QED BY <2>1, EndType
<1>12. ASSUME NEW c \in Calls, DoubtCommit(c) PROVE Typed'
  BY <1>12 DEF DoubtCommit, Goto, PC, InTx
<1>13. CASE Restart
  <2>1. rows' \subseteq Record /\ IsFiniteSet(rows') /\ runRows' \subseteq Policies
        /\ restarts' \in 0..MaxRestarts
    BY <1>13, PostgresAssumption DEF Restart
  <2>2. memJournal' \in Seq(Record) /\ pc' \in [Calls -> PC] /\ holdsRun' \subseteq Calls
        /\ result' \in [Calls -> Results]
    BY <1>13 DEF Restart, PC
  <2>3. /\ id' \in [Calls -> DecisionID] /\ prev' \in [Calls -> Hashes]
        /\ rec' \in [Calls -> Record]
    BY <1>13, UnsetTypes DEF Restart
  <2> QED BY <1>13, <2>1, <2>2, <2>3 DEF Restart
<1>14. CASE UNCHANGED vars
  BY <1>14 DEF vars
<1> QED BY <1>1, <1>2, <1>3, <1>4, <1>5, <1>6, <1>7, <1>8, <1>9, <1>10, <1>11, <1>12,
           <1>13, <1>14
        DEF Next, Proceed, Settle

-----------------------------------------------------------------------------
(* Steps that commit nothing *)

Same(d) ==
  /\ pc'[d] = pc[d] /\ id'[d] = id[d] /\ rec'[d] = rec[d] /\ last'[d] = last[d]
  /\ result'[d] = result[d] /\ (d \in holdsRun' <=> d \in holdsRun)

\* Rows are added, entries retained, and the server does not restart.
Grown ==
  /\ rows \subseteq rows' /\ runRows \subseteq runRows' /\ restarts' = restarts
  /\ \A i \in 1..Len(memJournal) : i \in 1..Len(memJournal') /\ memJournal'[i] = memJournal[i]

LEMMA Others ==
  ASSUME NEW d \in Calls, CallOK(d), Same(d), Grown
  PROVE  CallOK(d)'
<1>1. /\ (Sealed(d)' <=> Sealed(d)) /\ (Ensured(d)' <=> Ensured(d))
      /\ (Selected(d)' <=> Selected(d)) /\ (Checked(d)' <=> Checked(d))
  BY DEF Same, Sealed, Ensured, Selected, Checked
<1>2. SealedOK(d) => SealedOK(d)'
  BY DEF SealedOK, Same, Grown
<1>3. AckedOK(d) => AckedOK(d)'
  BY DEF AckedOK, Same, Grown
<1>4. (EnsuredOK(d) => EnsuredOK(d)') /\ (SelectedOK(d) => SelectedOK(d)')
  BY DEF EnsuredOK, SelectedOK, Same, Grown
<1>5. LinkOK(d) => LinkOK(d)'
  BY DEF LinkOK, Same
<1> QED BY <1>1, <1>2, <1>3, <1>4, <1>5 DEF CallOK, Same

LEMMA RowsStay ==
  ASSUME RowsLinked, OneGenesis, rows' = rows
  PROVE  RowsLinked' /\ OneGenesis'
BY DEF RowsLinked, OneGenesis

LEMMA RunsStay ==
  ASSUME RunsOK, holdsRun' \subseteq holdsRun, rows' = rows, runRows' = runRows,
         \A d \in holdsRun' : Ensured(d)' /\ id'[d] = id[d]
  PROVE  RunsOK'
<1>1. \A p : RowsOf(p)' = RowsOf(p)
  BY DEF RowsOf
<1> QED BY <1>1 DEF RunsOK

Safe == (\A c \in Calls : CallOK(c)) /\ RunsOK /\ RowsLinked /\ OneGenesis

\* A step of one call that commits nothing and inserts no run row leaves all
\* but that call as it was.
LEMMA QuietStep ==
  ASSUME JournalInv, NEW c \in Calls, rows' = rows, runRows' = runRows, Grown,
         \A d \in Calls \ {c} : Same(d), holdsRun' \subseteq holdsRun,
         c \in holdsRun' => Ensured(c)' /\ id'[c] = id[c], CallOK(c)'
  PROVE  Safe'
<1>1. \A d \in Calls : CallOK(d)'
  <2> SUFFICES ASSUME NEW d \in Calls, d # c PROVE CallOK(d)'
    OBVIOUS
  <2>1. CallOK(d) /\ Same(d)
    BY DEF JournalInv
  <2> QED BY <2>1, Others
<1>2. \A d \in holdsRun' : Ensured(d)' /\ id'[d] = id[d]
  <2> SUFFICES ASSUME NEW d \in holdsRun', d # c PROVE Ensured(d)' /\ id'[d] = id[d]
    OBVIOUS
  <2>1. d \in Calls /\ Ensured(d)
    BY DEF JournalInv, RunsOK, Typed, TypeOK
  <2> QED BY <2>1 DEF Same, Ensured, Selected, Checked
<1>3. RunsOK'
  BY <1>2, RunsStay DEF JournalInv
<1>4. RowsLinked' /\ OneGenesis'
  BY RowsStay DEF JournalInv
<1> QED BY <1>1, <1>3, <1>4 DEF Safe

\* A call that has not returned was not acknowledged.
LEMMA Unanswered ==
  ASSUME JournalInv, NEW c \in Calls
  PROVE  result[c] = "ok" => pc[c] = "done"
BY DEF JournalInv, CallOK, AckedOK

\* Before its transaction a call holds no run row and no row of the run binds it.
LEMMA HeadSteps ==
  ASSUME JournalInv, NEW c \in Calls, Start(c) \/ ReadHead(c)
  PROVE  Safe'
<1> USE DEF Start, ReadHead, Goto, txVars, callVars
<1>1. pc \in [Calls -> PC] /\ id \in [Calls -> DecisionID]
  BY DEF JournalInv, Typed, TypeOK
<1>2. pc[c] \in {"idle", "head"} /\ pc'[c] \in {"head", "seq"}
  BY <1>1
<1>3. /\ rows' = rows /\ runRows' = runRows /\ holdsRun' = holdsRun
      /\ result'[c] = result[c] /\ Grown
  BY DEF Grown
<1>4. \A d \in Calls \ {c} : Same(d)
  BY <1>1 DEF Same
<1>5. CallOK(c)'
  BY <1>2, <1>3, Unanswered DEF CallOK, Sealed, Ensured, Selected, Checked
<1>6. c \notin holdsRun
  BY <1>2 DEF JournalInv, RunsOK, Ensured, Selected, Checked
<1> QED BY <1>3, <1>4, <1>5, <1>6, QuietStep

LEMMA SealStep ==
  ASSUME JournalInv, NEW c \in Calls, SealRecord(c)
  PROVE  Safe'
<1> USE DEF SealRecord, Goto, txVars
<1>1. /\ pc \in [Calls -> PC] /\ id \in [Calls -> DecisionID] /\ rec \in [Calls -> Record]
      /\ prev \in [Calls -> Hashes] /\ IsFiniteSet(rows)
  BY DEF JournalInv, Typed, TypeOK
<1>2. pc[c] = "seq" /\ pc'[c] = "record"
  BY <1>1
<1>3. /\ rows' = rows /\ runRows' = runRows /\ holdsRun' = holdsRun /\ id' = id
      /\ result'[c] = result[c] /\ Grown
  BY DEF Grown
<1>4. \A d \in Calls \ {c} : Same(d)
  BY <1>1 DEF Same
<1>5. VerifyIntegrity(rec'[c]) /\ rec'[c].body.run = id[c].policy
  <2>1. PICK failed \in CountFailures : rec' = [rec EXCEPT ![c] = Seal(prev[c],
          [run |-> id[c].policy, seq |-> NextNumber(failed), id |-> id[c], state |-> c])]
    OBVIOUS
  <2> DEFINE k == NextNumber(failed)
  <2>2. k \in Nat /\ id[c] \in DecisionID /\ id[c].policy \in Policies
    BY <1>1, NumberType DEF DecisionID
  <2>3. [run |-> id[c].policy, seq |-> k, id |-> id[c], state |-> c] \in Body
    BY <2>2 DEF Body
  <2>4. rec'[c] = Seal(prev[c], [run |-> id[c].policy, seq |-> k, id |-> id[c], state |-> c])
    BY <1>1, <2>1
  <2> QED BY <1>1, <2>3, <2>4, SealType
<1>6. CallOK(c)'
  <2>1. SealedOK(c)'
    BY <1>2, <1>3, <1>5 DEF SealedOK
  <2> QED BY <1>2, <1>3, <2>1, Unanswered DEF CallOK, Sealed, Ensured, Selected, Checked
<1>7. c \notin holdsRun
  BY <1>2 DEF JournalInv, RunsOK, Ensured, Selected, Checked
<1> QED BY <1>3, <1>4, <1>6, <1>7, QuietStep

LEMMA KeepStep ==
  ASSUME JournalInv, NEW c \in Calls, KeepEntry(c)
  PROVE  Safe'
<1> USE DEF KeepEntry, Goto, txVars, callVars
<1>1. pc \in [Calls -> PC] /\ rec \in [Calls -> Record] /\ memJournal \in Seq(Record)
  BY DEF JournalInv, Typed, TypeOK
<1>2. pc[c] = "record" /\ pc'[c] = "ensure"
  BY <1>1
<1>3. /\ rows' = rows /\ runRows' = runRows /\ holdsRun' = holdsRun /\ id' = id
      /\ rec' = rec /\ result'[c] = result[c] /\ restarts' = restarts
  OBVIOUS
<1>4. /\ Len(memJournal') = Len(memJournal) + 1 /\ Len(memJournal) \in Nat
      /\ memJournal'[Len(memJournal) + 1] = rec[c]
      /\ \A i \in 1..Len(memJournal) : memJournal'[i] = memJournal[i]
  BY <1>1
<1>5. Grown
  BY <1>3, <1>4 DEF Grown
<1>6. \A d \in Calls \ {c} : Same(d)
  BY <1>1 DEF Same
<1>7. CallOK(c)'
  <2>1. SealedOK(c)
    BY <1>2 DEF JournalInv, CallOK, Sealed, Ensured, Selected, Checked
  <2>2. Len(memJournal) + 1 \in 1..Len(memJournal')
    BY <1>4
  <2>3. SealedOK(c)'
    BY <1>3, <1>4, <2>1, <2>2 DEF SealedOK
  <2> QED BY <1>2, <1>3, <2>3, Unanswered DEF CallOK, Sealed, Ensured, Selected, Checked
<1>8. c \notin holdsRun
  BY <1>2 DEF JournalInv, RunsOK, Ensured, Selected, Checked
<1> QED BY <1>3, <1>5, <1>6, <1>7, <1>8, QuietStep

\* The run row a transaction inserts is its own until it ends.
LEMMA EnsureStep ==
  ASSUME JournalInv, NEW c \in Calls, EnsureRun(c)
  PROVE  Safe'
<1> USE DEF EnsureRun, Goto, callVars
<1>1. /\ pc \in [Calls -> PC] /\ id \in [Calls -> DecisionID] /\ holdsRun \subseteq Calls
  BY DEF JournalInv, Typed, TypeOK
<1>2. pc[c] = "ensure" /\ pc'[c] = "select"
  BY <1>1
<1>3. /\ rows' = rows /\ runRows' = runRows /\ id' = id
      /\ rec' = rec /\ result' = result /\ last' = last /\ Grown
  BY DEF Grown
<1>4. c \notin holdsRun
  BY <1>2 DEF JournalInv, RunsOK, Ensured, Selected, Checked
<1>5. \A d \in Calls \ {c} : Same(d)
  BY <1>1, <1>3 DEF Same
<1>6. CallOK(c)'
  <2>1. SealedOK(c)'
    <3>1. SealedOK(c)
      BY <1>2 DEF JournalInv, CallOK, Sealed, Ensured, Selected, Checked
    <3> QED BY <1>2, <1>3, <3>1 DEF SealedOK
  <2>2. EnsuredOK(c)'
    BY <1>3 DEF EnsuredOK
  <2> QED BY <1>2, <1>3, <2>1, <2>2, Unanswered DEF CallOK, Selected, Ensured, Checked
<1>7. \A d \in Calls : CallOK(d)'
  <2> SUFFICES ASSUME NEW d \in Calls, d # c PROVE CallOK(d)'
    BY <1>6
  <2>1. CallOK(d) /\ Same(d)
    BY <1>5 DEF JournalInv
  <2> QED BY <2>1, <1>3, Others
<1>8. RunsOK'
  <2>1. \A d \in holdsRun' : Ensured(d)' /\ id'[d].policy \notin runRows'
    <3> SUFFICES ASSUME NEW d \in holdsRun' PROVE Ensured(d)' /\ id'[d].policy \notin runRows'
      OBVIOUS
    <3>1. CASE d = c
      BY <3>1, <1>2, <1>3, <1>4 DEF Ensured, Selected, Checked
    <3>2. CASE d # c
      <4>1. d \in holdsRun /\ d \in Calls
        BY <3>2, <1>1
      <4>2. Ensured(d) /\ id[d].policy \notin runRows
        BY <4>1 DEF JournalInv, RunsOK
      <4> QED BY <3>2, <4>1, <4>2, <1>3, <1>5 DEF Same, Ensured, Selected, Checked
    <3> QED BY <3>1, <3>2
  <2>2. \A d, e \in holdsRun' : id'[d].policy = id'[e].policy => d = e
    BY <1>3 DEF JournalInv, RunsOK
  <2>3. \A p \in Policies : p \in runRows' <=> RowsOf(p)' # {}
    BY <1>3 DEF JournalInv, RunsOK, RowsOf
  <2> QED BY <2>1, <2>2, <2>3 DEF RunsOK
<1>9. RowsLinked' /\ OneGenesis'
  BY <1>3, RowsStay DEF JournalInv
<1> QED BY <1>7, <1>8, <1>9 DEF Safe

\* A transaction that finds no row of its run has inserted the run row itself.
LEMMA SelectStep ==
  ASSUME JournalInv, NEW c \in Calls, SelectLast(c)
  PROVE  Safe'
<1> USE DEF SelectLast, Goto, callVars
<1>1. /\ pc \in [Calls -> PC] /\ id \in [Calls -> DecisionID] /\ rows \subseteq Record
      /\ last \in [Calls -> Record \cup {NoRow}] /\ id[c].policy \in Policies
  BY DEF JournalInv, Typed, TypeOK, DecisionID
<1>2. pc[c] = "select" /\ pc'[c] = "lock"
  BY <1>1
<1>3. /\ rows' = rows /\ runRows' = runRows /\ holdsRun' = holdsRun /\ id' = id
      /\ rec' = rec /\ result' = result /\ Grown
  BY DEF Grown
<1>4. \A d \in Calls \ {c} : Same(d)
  BY <1>1, <1>3 DEF Same
<1>5. SealedOK(c) /\ EnsuredOK(c)
  BY <1>2 DEF JournalInv, CallOK, Sealed, Ensured, Selected, Checked
<1>6. SelectedOK(c)'
  <2>1. last'[c] \in LastRows(id[c].policy)
    BY <1>1
  <2>2. CASE RowsOf(id[c].policy) = {}
    <3>1. last'[c] = NoRow
      BY <2>1, <2>2 DEF LastRows
    <3>2. id[c].policy \notin runRows
      BY <2>2, <1>1 DEF JournalInv, RunsOK
    <3> QED BY <3>1, <3>2, <1>3, <1>5 DEF SelectedOK, EnsuredOK
  <2>3. CASE RowsOf(id[c].policy) # {}
    <3>1. last'[c] \in RowsOf(id[c].policy)
      BY <2>1, <2>3 DEF LastRows
    <3>2. last'[c] \in rows /\ last'[c].body.run = id[c].policy /\ last'[c] # NoRow
      BY <3>1, <1>1, PostgresAssumption DEF RowsOf
    <3> QED BY <3>2, <1>3 DEF SelectedOK
  <2> QED BY <2>2, <2>3
<1>7. CallOK(c)'
  <2>1. SealedOK(c)' /\ EnsuredOK(c)'
    BY <1>2, <1>3, <1>5 DEF SealedOK, EnsuredOK
  <2> QED BY <1>2, <1>3, <1>6, <2>1, Unanswered DEF CallOK, Selected, Ensured, Checked
<1>8. Ensured(c)'
  BY <1>2 DEF Ensured, Selected, Checked
<1> QED BY <1>3, <1>4, <1>7, <1>8, QuietStep

LEMMA CheckSteps ==
  ASSUME JournalInv, NEW c \in Calls, LockLast(c) \/ InsertRow(c) \/ DoubtCommit(c)
  PROVE  Safe'
<1> USE DEF LockLast, InsertRow, DoubtCommit, Goto, callVars, txVars
<1>1. pc \in [Calls -> PC] /\ result \in [Calls -> Results]
  BY DEF JournalInv, Typed, TypeOK, Results
<1>2. /\ pc[c] \in {"lock", "insert", "commit"} /\ pc'[c] \in {"insert", "commit", "doubt"}
      /\ pc[c] = "lock" => LinkOK(c)
  BY <1>1
<1>3. /\ rows' = rows /\ runRows' = runRows /\ holdsRun' = holdsRun /\ id' = id
      /\ rec' = rec /\ last' = last /\ memJournal' = memJournal /\ Grown
      /\ result'[c] = "ok" => result[c] = "ok"
  BY <1>1 DEF Grown
<1>4. \A d \in Calls \ {c} : Same(d)
  BY <1>1, <1>3 DEF Same
<1>5. SealedOK(c) /\ EnsuredOK(c) /\ SelectedOK(c) /\ LinkOK(c)
  BY <1>2 DEF JournalInv, CallOK, Sealed, Ensured, Selected, Checked
<1>6. CallOK(c)'
  <2>1. SealedOK(c)'
    BY <1>2, <1>3, <1>5 DEF SealedOK
  <2>2. EnsuredOK(c)' /\ SelectedOK(c)' /\ LinkOK(c)'
    BY <1>3, <1>5 DEF EnsuredOK, SelectedOK, LinkOK
  <2> QED BY <1>2, <1>3, <2>1, <2>2, Unanswered DEF CallOK
<1>7. Ensured(c)'
  BY <1>2 DEF Ensured, Selected, Checked
<1> QED BY <1>3, <1>4, <1>6, <1>7, QuietStep

LEMMA RollbackStep ==
  ASSUME JournalInv, NEW c \in Calls, NEW outcome \in Results \ {"ok"}, EndTx(c, outcome),
         UNCHANGED <<rows, runRows>>
  PROVE  Safe'
<1> USE DEF EndTx, Goto
<1>1. /\ pc \in [Calls -> PC] /\ result \in [Calls -> Results]
  BY DEF JournalInv, Typed, TypeOK, Results
<1>2. pc'[c] = "done" /\ result'[c] # "ok"
  BY <1>1
<1>3. /\ rows' = rows /\ runRows' = runRows /\ holdsRun' = holdsRun \ {c} /\ Grown
  BY DEF Grown
<1>4. \A d \in Calls \ {c} : Same(d)
  BY DEF Same, JournalInv, Typed, TypeOK
<1>5. CallOK(c)'
  BY <1>2 DEF CallOK, Sealed, Ensured, Selected, Checked
<1> QED BY <1>3, <1>4, <1>5, QuietStep

-----------------------------------------------------------------------------
(* The commit *)

\* What a call commits: a sealed record of its run that extends genesis, when
\* the run is still empty, or a committed row of the run.
LEMMA CommitsLinked ==
  ASSUME JournalInv, NEW c \in Calls, pc[c] \in {"commit", "doubt"}
  PROVE  /\ VerifyIntegrity(rec[c]) /\ rec[c].body.run = id[c].policy
         /\ rec[c].prev = Genesis => RowsOf(id[c].policy) = {}
         /\ rec[c].prev # Genesis =>
              \E q \in rows : q.body.run = id[c].policy /\ q.hash = rec[c].prev
<1>1. SealedOK(c) /\ SelectedOK(c) /\ LinkOK(c)
  BY DEF JournalInv, CallOK, Sealed, Ensured, Selected, Checked
<1>2. id[c].policy \in Policies /\ rows \subseteq Record
  BY DEF JournalInv, Typed, TypeOK, DecisionID
<1>3. CASE last[c] = NoRow
  <2>1. c \in holdsRun /\ rec[c].prev = Genesis
    BY <1>1, <1>3 DEF SelectedOK, LinkOK
  <2>2. RowsOf(id[c].policy) = {}
    BY <1>2, <2>1 DEF JournalInv, RunsOK
  <2> QED BY <1>1, <2>1, <2>2 DEF SealedOK
<1>4. CASE last[c] # NoRow
  <2>1. last[c] \in rows /\ last[c].body.run = id[c].policy /\ rec[c].prev = last[c].hash
    BY <1>1, <1>4 DEF SelectedOK, LinkOK
  <2>2. last[c] \in Record /\ last[c].hash = Append(last[c].prev, last[c].body)
    BY <1>2, <2>1 DEF JournalInv, RowsLinked, VerifyIntegrity, RecordHash
  <2>3. last[c].hash # Genesis
    BY <2>2 DEF Record, Hashes, Genesis
  <2> QED BY <1>1, <2>1, <2>3 DEF SealedOK
<1> QED BY <1>3, <1>4

LEMMA CommitStep ==
  ASSUME JournalInv, NEW c \in Calls, Commit(c) \/ Land(c)
  PROVE  Safe'
<1>1. PICK outcome \in Results : EndTx(c, outcome) /\ (outcome = "ok" => pc[c] = "commit")
  BY Unanswered DEF Commit, Land, JournalInv, Typed, TypeOK, Results
<1>2. /\ pc \in [Calls -> PC] /\ rec \in [Calls -> Record] /\ id[c].policy \in Policies
      /\ result \in [Calls -> Results] /\ holdsRun \subseteq Calls
      /\ rows \subseteq Record
  BY DEF JournalInv, Typed, TypeOK, DecisionID, Results
<1>3. /\ pc[c] \in {"commit", "doubt"} /\ rows' = rows \cup {rec[c]} /\ holdsRun' = holdsRun \ {c}
      /\ runRows' = runRows \cup {id[c].policy}
  BY <1>1 DEF Commit, Land, Store, EndTx
<1>4. Grown
  BY <1>1, <1>3 DEF Grown, EndTx
<1>5. \A d \in Calls \ {c} : Same(d)
  BY <1>1 DEF Same, EndTx, Goto, JournalInv, Typed, TypeOK
<1>6. pc'[c] = "done" /\ result'[c] = outcome /\ (outcome = "ok" => rec'[c] = rec[c])
  BY <1>1, <1>2 DEF EndTx, Goto
<1>7. \A d \in Calls : CallOK(d)'
  <2> SUFFICES ASSUME NEW d \in Calls PROVE CallOK(d)'
    OBVIOUS
  <2>1. CASE d # c
    <3>1. CallOK(d) /\ Same(d)
      BY <1>5, <2>1 DEF JournalInv
    <3> QED BY <3>1, <1>4, Others
  <2>2. CASE d = c
    <3>1. outcome = "ok" => \E i \in 1..Len(memJournal) : memJournal[i] = rec[c]
      BY <1>1 DEF JournalInv, CallOK, Sealed, Ensured, Selected, Checked, SealedOK
    <3>2. memJournal' = memJournal
      BY <1>1 DEF EndTx
    <3>3. outcome = "ok" => AckedOK(c)'
      BY <1>3, <1>6, <3>1, <3>2 DEF AckedOK
    <3> QED BY <1>6, <2>2, <3>3 DEF CallOK, Sealed, Ensured, Selected, Checked
  <2> QED BY <2>1, <2>2
<1>8. RunsOK'
  <2>1. \A d \in holdsRun' : Ensured(d)' /\ id'[d] = id[d] /\ id[d].policy \notin runRows'
    <3> SUFFICES ASSUME NEW d \in holdsRun'
                 PROVE  Ensured(d)' /\ id'[d] = id[d] /\ id[d].policy \notin runRows'
      OBVIOUS
    <3>1. d \in holdsRun /\ d # c /\ d \in Calls
      BY <1>2, <1>3
    <3>2. Ensured(d)' /\ id'[d] = id[d]
      BY <1>5, <3>1 DEF JournalInv, RunsOK, Same, Ensured, Selected, Checked
    <3>3. EnsuredOK(c)
      BY <1>3 DEF JournalInv, CallOK, Ensured, Selected, Checked
    <3>4. id[d].policy # id[c].policy
      BY <3>1, <3>3 DEF EnsuredOK, JournalInv, RunsOK
    <3> QED BY <1>3, <3>1, <3>2, <3>4 DEF JournalInv, RunsOK
  <2>2. \A d, e \in holdsRun' : id'[d].policy = id'[e].policy => d = e
    BY <1>3, <2>1 DEF JournalInv, RunsOK
  <2>3. \A p \in Policies : p \in runRows' <=> RowsOf(p)' # {}
    <3> SUFFICES ASSUME NEW p \in Policies PROVE p \in runRows' <=> RowsOf(p)' # {}
      OBVIOUS
    <3>1. rec[c].body.run = id[c].policy
      BY <1>3, CommitsLinked
    <3>2. RowsOf(p)' = RowsOf(p) \cup (IF p = id[c].policy THEN {rec[c]} ELSE {})
      BY <1>3, <3>1 DEF RowsOf
    <3>3. p \in runRows <=> RowsOf(p) # {}
      BY DEF JournalInv, RunsOK
    <3> QED BY <1>3, <3>2, <3>3
  <2> QED BY <2>1, <2>2, <2>3 DEF RunsOK
<1>9. RowsLinked'
  BY <1>3, CommitsLinked DEF JournalInv, RowsLinked
<1>10. OneGenesis'
  <2>1. \A q \in rows : q.body.run = rec[c].body.run => rec[c].prev # Genesis
    BY <1>3, CommitsLinked DEF RowsOf
  <2> QED BY <1>3, <2>1 DEF JournalInv, OneGenesis
<1> QED BY <1>7, <1>8, <1>9, <1>10 DEF Safe

\* A restart ends every transaction whose commit is not on its way; nothing
\* committed is lost.
LEMMA RestartStep ==
  ASSUME JournalInv, Restart
  PROVE  Safe'
<1>1. restarts \in Nat /\ restarts' # 0 /\ rows' = rows /\ runRows' = runRows
  BY PostgresAssumption DEF JournalInv, Typed, TypeOK, Restart
<1>2. PICK stays \in SUBSET {c \in Calls : pc[c] \in {"commit", "doubt"}} :
        /\ holdsRun' = holdsRun \cap stays
        /\ \A d \in stays : /\ pc'[d] = "doubt" /\ id'[d] = id[d] /\ rec'[d] = rec[d]
                              /\ last'[d] = last[d]
        /\ \A d \in Calls \ stays : pc'[d] \in {"idle", "done"}
  <2>1. PICK sent \in SUBSET {c \in Calls : pc[c] = "commit"} :
          LET stays(c) == c \in sent \/ pc[c] = "doubt"
          IN  /\ pc' = [c \in Calls |-> IF stays(c) THEN "doubt"
                                        ELSE IF Running(c) THEN "done" ELSE pc[c]]
              /\ last' = [c \in Calls |-> IF stays(c) THEN last[c] ELSE NoRow]
              /\ holdsRun' = {c \in holdsRun : stays(c)}
              /\ id' = [c \in Calls |-> IF stays(c) THEN id[c] ELSE NoID]
              /\ rec' = [c \in Calls |-> IF stays(c) \/ result[c] = "ok" THEN rec[c]
                                         ELSE NoRecord]
    BY DEF Restart
  <2> DEFINE stays == {c \in Calls : c \in sent \/ pc[c] = "doubt"}
  <2>2. holdsRun' = holdsRun \cap stays
    BY <2>1 DEF JournalInv, Typed, TypeOK
  <2>3. \A d \in Calls \ stays : pc'[d] \in {"idle", "done"}
    BY <2>1 DEF JournalInv, Typed, TypeOK, PC, InTx, Running, Open
  <2>4. \A d \in stays : /\ pc'[d] = "doubt" /\ id'[d] = id[d] /\ rec'[d] = rec[d]
                          /\ last'[d] = last[d]
    BY <2>1
  <2> QED BY <2>2, <2>3, <2>4
<1>3. \A d \in Calls : result'[d] = "ok" => result[d] = "ok" /\ pc'[d] = pc[d] /\ rec'[d] = rec[d]
  <2> SUFFICES ASSUME NEW d \in Calls, result'[d] = "ok"
               PROVE  result[d] = "ok" /\ pc'[d] = pc[d] /\ rec'[d] = rec[d]
    OBVIOUS
  <2>1. result[d] = "ok"
    BY DEF Restart
  <2>2. pc[d] = "done"
    BY <2>1, Unanswered
  <2> QED BY <2>1, <2>2 DEF Restart, Running, Open
<1>4. \A d \in Calls : CallOK(d)'
  <2> SUFFICES ASSUME NEW d \in Calls PROVE CallOK(d)'
    OBVIOUS
  <2>1. result'[d] = "ok" => AckedOK(d)'
    BY <1>1, <1>3 DEF JournalInv, CallOK, AckedOK
  <2>2. CASE d \notin stays
    BY <1>2, <2>1, <2>2 DEF CallOK, Sealed, Ensured, Selected, Checked
  <2>3. CASE d \in stays
    <3>1. SealedOK(d) /\ EnsuredOK(d) /\ SelectedOK(d) /\ LinkOK(d)
      BY <1>2, <2>3 DEF JournalInv, CallOK, Sealed, Ensured, Selected, Checked
    <3>2. SealedOK(d)' /\ EnsuredOK(d)' /\ SelectedOK(d)' /\ LinkOK(d)'
      BY <1>1, <1>2, <2>3, <3>1 DEF SealedOK, EnsuredOK, SelectedOK, LinkOK
    <3> QED BY <2>1, <3>2 DEF CallOK
  <2> QED BY <2>2, <2>3
<1>5. RunsOK'
  <2>1. holdsRun' \subseteq holdsRun /\ \A d \in holdsRun' : Ensured(d)' /\ id'[d] = id[d]
    BY <1>2 DEF Ensured, Selected, Checked
  <2> QED BY <1>1, <2>1, RunsStay DEF JournalInv
<1>6. RowsLinked' /\ OneGenesis'
  BY <1>1, RowsStay DEF JournalInv
<1> QED BY <1>4, <1>5, <1>6 DEF Safe

-----------------------------------------------------------------------------
(* The theorems *)

LEMMA SafeInit == Init => Safe
<1> SUFFICES ASSUME Init PROVE Safe
  OBVIOUS
<1> USE DEF Init
<1>1. \A c \in Calls : CallOK(c)
  BY DEF CallOK, Sealed, Ensured, Selected, Checked
<1>2. RunsOK
  BY DEF RunsOK, RowsOf
<1>3. RowsLinked /\ OneGenesis
  BY DEF RowsLinked, OneGenesis
<1> QED BY <1>1, <1>2, <1>3 DEF Safe

LEMMA SafeNext == JournalInv /\ [Next]_vars => Safe'
<1> SUFFICES ASSUME JournalInv, [Next]_vars PROVE Safe'
  OBVIOUS
<1>1. ASSUME NEW c \in Calls, Start(c) PROVE Safe'
  BY <1>1, HeadSteps
<1>2. ASSUME NEW c \in Calls, ReadHead(c) PROVE Safe'
  BY <1>2, HeadSteps
<1>3. ASSUME NEW c \in Calls, SealRecord(c) PROVE Safe'
  BY <1>3, SealStep
<1>4. ASSUME NEW c \in Calls, KeepEntry(c) PROVE Safe'
  BY <1>4, KeepStep
<1>5. ASSUME NEW c \in Calls, EnsureRun(c) PROVE Safe'
  BY <1>5, EnsureStep
<1>6. ASSUME NEW c \in Calls, SelectLast(c) PROVE Safe'
  BY <1>6, SelectStep
<1>7. ASSUME NEW c \in Calls, LockLast(c) PROVE Safe'
  BY <1>7, CheckSteps
<1>8. ASSUME NEW c \in Calls, InsertRow(c) PROVE Safe'
  BY <1>8, CheckSteps
<1>9. ASSUME NEW c \in Calls, RejectCorrupted(c) \/ RejectDuplicate(c) \/ TxFails(c) PROVE Safe'
  <2>1. EndTx(c, "rejected") /\ UNCHANGED <<rows, runRows>>
    BY <1>9 DEF RejectCorrupted, RejectDuplicate, TxFails, Rollback
  <2> QED BY <2>1, RollbackStep DEF Results
<1>10. ASSUME NEW c \in Calls, Commit(c) \/ Land(c) PROVE Safe'
  BY <1>10, CommitStep
<1>11. ASSUME NEW c \in Calls, Abort(c) PROVE Safe'
  <2>1. /\ EndTx(c, result[c]) /\ UNCHANGED <<rows, runRows>>
        /\ result[c] \in Results \ {"ok"}
    BY <1>11, Unanswered DEF Abort, JournalInv, Typed, TypeOK, Results
  <2> QED BY <2>1, RollbackStep
<1>12. ASSUME NEW c \in Calls, DoubtCommit(c) PROVE Safe'
  BY <1>12, CheckSteps
<1>13. CASE Restart
  BY <1>13, RestartStep
<1>14. CASE UNCHANGED vars
  <2> USE <1>14 DEF vars, callVars, txVars, histories
  <2>1. Grown /\ \A d \in Calls : Same(d)
    BY DEF Grown, Same
  <2>2. \A d \in Calls : CallOK(d)'
    BY <2>1, Others DEF JournalInv
  <2>3. RunsOK'
    <3>1. \A d \in holdsRun' : Ensured(d)' /\ id'[d] = id[d]
      BY DEF Ensured, JournalInv, RunsOK, Selected, Checked
    <3> QED BY <3>1, RunsStay DEF JournalInv
  <2>4. RowsLinked' /\ OneGenesis'
    BY RowsStay DEF JournalInv
  <2> QED BY <2>2, <2>3, <2>4 DEF Safe
<1> QED BY <1>1, <1>2, <1>3, <1>4, <1>5, <1>6, <1>7, <1>8, <1>9, <1>10, <1>11, <1>12,
           <1>13, <1>14
        DEF Next, Proceed, Settle

\* The invariant of the store: what each call holds follows from where its
\* transaction stands, and run rows exclude each other until they commit.
THEOREM JournalSafe == Spec => []JournalInv
<1>1. Init => JournalInv
  BY TypeInit, SafeInit DEF JournalInv, Safe
<1>2. JournalInv /\ [Next]_vars => JournalInv'
  <2>1. JournalInv /\ [Next]_vars => Typed'
    BY TypeNext DEF JournalInv
  <2> QED BY <2>1, SafeNext DEF JournalInv, Safe
<1> QED BY <1>1, <1>2, PTL DEF Spec

\* Every variable of the store keeps its type.
THEOREM TypeCorrect == Spec => []TypeOK
<1>1. JournalInv => TypeOK
  BY DEF JournalInv, Typed
<1> QED BY <1>1, JournalSafe, PTL

\* The transaction of Append commits no loose record: every row is sealed and
\* extends genesis or a committed row of its run, whatever fails.
THEOREM RowsAlwaysLinked == Spec => []RowsLinked
<1>1. JournalInv => RowsLinked
  BY DEF JournalInv
<1> QED BY <1>1, JournalSafe, PTL

\* Racing first decisions of a run commit one genesis row: the insert of the
\* run row makes the second transaction wait for the first.
THEOREM GenesisUnique == Spec => []OneGenesis
<1>1. JournalInv => OneGenesis
  BY DEF JournalInv
<1> QED BY <1>1, JournalSafe, PTL

\* An acknowledged Append is in the database, across restarts, and its entry
\* is retained in memory until the first of them.
THEOREM AcksAreCommitted == Spec => []AckedCommitted
<1>1. JournalInv => AckedCommitted
  BY DEF JournalInv, CallOK, AckedOK, AckedCommitted
<1> QED BY <1>1, JournalSafe, PTL

-----------------------------------------------------------------------------
(* Waits *)

\* A row is locked between the link check and the end of the transaction.
LocksHeld == \A c \in Calls : locked[c] # NoRow => Checked(c)

LEMMA LocksNext ==
  ASSUME TypeOK, LocksHeld, [Next]_vars
  PROVE  LocksHeld'
<1> USE DEF LocksHeld, Checked, TypeOK
<1>1. CASE \E c \in Calls : Start(c) \/ ReadHead(c) \/ SealRecord(c) \/ KeepEntry(c) \/ EnsureRun(c)
  BY <1>1 DEF Start, ReadHead, SealRecord, KeepEntry, EnsureRun, Goto, txVars
<1>2. CASE \E c \in Calls : SelectLast(c) \/ LockLast(c) \/ InsertRow(c) \/ DoubtCommit(c)
  BY <1>2 DEF SelectLast, LockLast, InsertRow, DoubtCommit, Goto, txVars
<1>3. CASE \E c \in Calls : RejectCorrupted(c) \/ RejectDuplicate(c) \/ TxFails(c)
  BY <1>3 DEF RejectCorrupted, RejectDuplicate, TxFails, Rollback, EndTx, Goto
<1>4. CASE \E c \in Calls : Commit(c) \/ Land(c) \/ Abort(c)
  BY <1>4 DEF Commit, Land, Abort, EndTx, Goto
<1>5. CASE Restart
  BY <1>5 DEF Restart
<1>6. CASE UNCHANGED vars
  BY <1>6 DEF vars, txVars
<1> QED BY <1>1, <1>2, <1>3, <1>4, <1>5, <1>6 DEF Next, Proceed, Settle

\* The order in which a transaction takes the run row, the last row and its
\* key: who is blocked waits for a call that is further on.
LEMMA BlockedByLater ==
  ASSUME JournalInv, LocksHeld, NEW c \in Calls, NEW d \in Calls, Blocks(d, c)
  PROVE  /\ Ensured(d) /\ Open(d)
         /\ pc[c] \in {"ensure", "lock", "insert"}
         /\ pc[c] = "lock" => Checked(d)
         /\ pc[c] = "insert" => pc[d] \in {"commit", "doubt"}
BY DEF Blocks, JournalInv, RunsOK, LocksHeld, Ensured, Selected, Checked, Open

\* No call waits for a transaction that is over, and calls do not wait for each
\* other in a circle: Append takes its locks in one order, and a commit in doubt
\* waits for nobody.
THEOREM TransactionsNeverDeadlock == Spec => []WaitsEnd
<1>1. Init => LocksHeld
  BY DEF Init, LocksHeld
<1>2. JournalInv /\ LocksHeld /\ [Next]_vars => LocksHeld'
  BY LocksNext DEF JournalInv, Typed
<1>3. JournalInv /\ LocksHeld => WaitsEnd
  <2> SUFFICES ASSUME JournalInv, LocksHeld PROVE WaitsEnd
    OBVIOUS
  <2>1. ASSUME NEW S \in SUBSET Calls, S # {}
        PROVE  \E c \in S : \A d \in S : ~ Blocks(d, c)
    <3>1. CASE \E c \in S : pc[c] \notin {"ensure", "lock", "insert"}
      BY <2>1, <3>1, BlockedByLater
    <3>2. CASE ~ (\E c \in S : pc[c] \notin {"ensure", "lock", "insert"}) /\ \E c \in S : pc[c] = "insert"
      BY <2>1, <3>2, BlockedByLater
    <3>3. CASE (\A c \in S : pc[c] \in {"ensure", "lock"}) /\ \E c \in S : pc[c] = "lock"
      BY <2>1, <3>3, BlockedByLater DEF Checked
    <3>4. CASE \A c \in S : pc[c] = "ensure"
      BY <2>1, <3>4, BlockedByLater DEF Ensured, Selected, Checked
    <3> QED BY <2>1, <3>1, <3>2, <3>3, <3>4
  <2>2. \A c, d \in Calls : Blocks(d, c) => Open(d)
    BY BlockedByLater
  <2> QED BY <2>1, <2>2 DEF WaitsEnd
<1> QED BY <1>1, <1>2, <1>3, JournalSafe, PTL DEF Spec

-----------------------------------------------------------------------------
(* Forks *)

Past(c) == pc[c] = "seq" \/ Sealed(c)

\* An older row of the run that a record with predecessor h and number n extends.
Older(h, run, n) ==
  \E q \in rows : q.body.run = run /\ q.hash = h /\ q.body.seq < n

\* The rows of a run extend rows with smaller numbers.
InOrder(p) == \A r, q \in RowsOf(p) : r.prev = q.hash => q.body.seq < r.body.seq

\* Batch numbers grow with the table: no row has a number above the count, and
\* the row a record extends has a smaller number, unless Count failed.
RowsNumbered ==
  \A r \in rows :
    /\ r.body.seq <= Cardinality(rows)
    /\ r.prev # Genesis /\ r.body.state \notin miscounted =>
         Older(r.prev, r.body.run, r.body.seq)

\* A call's head is a committed row's, and its record extends that head.
HeadOK(c) ==
  prev[c] # Genesis => \E q \in rows : q.body.run = id[c].policy /\ q.hash = prev[c]
RecordOK(c) ==
  /\ rec[c].prev = prev[c] /\ rec[c].body.state = c
  /\ rec[c].body.seq <= Cardinality(rows) + 1
  /\ prev[c] # Genesis /\ c \notin miscounted => Older(prev[c], id[c].policy, rec[c].body.seq)

\* A call writes one row, at its end.
OneRowEach ==
  /\ \A r \in rows : pc[r.body.state] = "done"
  /\ \A r, q \in rows : r.body.state = q.body.state => r = q

\* Open calls have met; in a run in order, a call has met the writer of every row
\* that extends its head, because no row did when it read that head.
CallsMet ==
  /\ \A c, d \in Calls : c # d /\ Open(c) /\ Open(d) => {c, d} \in overlap
  /\ \A c \in Calls : Past(c) /\ prev[c] # Genesis /\ InOrder(id[c].policy) =>
       \A r \in rows : r.body.run = id[c].policy /\ r.prev = prev[c] =>
         {c, r.body.state} \in overlap

\* Two rows of a run in order that extend the same row were written by calls
\* that met.
TwinsMet ==
  \A r, q \in rows :
    /\ r # q /\ r.body.run = q.body.run /\ r.prev = q.prev /\ r.prev # Genesis
    /\ InOrder(r.body.run)
    => {r.body.state, q.body.state} \in overlap

CallHistory(c) == (Past(c) => HeadOK(c)) /\ (Sealed(c) => RecordOK(c))

ForkInv ==
  RowsNumbered /\ (\A c \in Calls : CallHistory(c)) /\ OneRowEach /\ CallsMet /\ TwinsMet

-----------------------------------------------------------------------------
(* What twins have to do with verdicts *)

\* A set of natural numbers that is not empty has a least element.
LEMMA LeastMember ==
  ASSUME NEW T \in SUBSET Nat, T # {}
  PROVE  \E m \in T : \A k \in T : m <= k
<1> DEFINE R == OpToRel(<, Nat)
<1>1. IsWellFoundedOn(R, Nat)
  BY NatLessThanWellFounded
<1>2. \A x, y \in Nat : <<x, y>> \in R <=> x < y
  BY DEF OpToRel
<1> HIDE DEF R
<1>3. PICK m \in T : \A k \in T : ~ (<<k, m>> \in R)
  BY <1>1, WFMin
<1>4. ASSUME NEW k \in T PROVE m <= k
  <2>1. m \in Nat /\ k \in Nat
    OBVIOUS
  <2>2. ~ (k < m)
    BY <1>2, <1>3, <2>1, Zenon
  <2> QED BY <2>1, <2>2
<1> QED BY <1>4

\* Rows with the same digest say the same.
LEMMA SameHash ==
  ASSUME rows \subseteq Record, RowsLinked, NEW o \in rows, NEW r \in rows, o.hash = r.hash
  PROVE  o.body = r.body
<1>1. o \in Record /\ r \in Record /\ Append(o.prev, o.body) = Append(r.prev, r.body)
  BY DEF RowsLinked, VerifyIntegrity, RecordHash
<1>2. o.prev \in Seq(Body) /\ r.prev \in Seq(Body) /\ o.body \in Body /\ r.body \in Body
  BY <1>1 DEF Record, Hashes
<1> QED BY <1>1, <1>2, AppendProperties

\* A listing shows every row of the run.
LEMMA ListingComplete ==
  ASSUME NEW p, IsFiniteSet(RowsOf(p)), NEW s \in Listings(p), NEW r \in RowsOf(p)
  PROVE  \E i \in 1..Len(s) : s[i] = r
<1> DEFINE n == Cardinality(RowsOf(p))
<1>1. n \in Nat
  BY FS_CardinalityType
<1>2. s \in [1..n -> RowsOf(p)] /\ \A i, j \in 1..n : i # j => s[i] # s[j]
  BY DEF Listings
<1>3. IsFiniteSet(1..n) /\ Cardinality(1..n) = n
  BY <1>1, FS_Interval
<1>4. s \in Injection(1..n, RowsOf(p))
  BY <1>2 DEF Injection, IsInjective
<1>5. s \in Surjection(1..n, RowsOf(p))
  BY <1>3, <1>4, FS_Injection
<1>6. Len(s) = n
  BY <1>1, <1>2
<1> QED BY <1>5, <1>6 DEF Surjection

\* No two rows of run p extend the same row.
NoTwins(p) == \A r, q \in RowsOf(p) : r.prev = q.prev => r = q

\* The rows of a run in order and without twins verify in every order ListByRun may give
\* them: at the first bad link, the row that the record there extends comes
\* earlier, and so does another record that extends it.
LEMMA UntwinnedVerifies ==
  ASSUME Typed, RowsLinked, NEW p \in Policies, InOrder(p), NoTwins(p)
  PROVE  RunVerifies(p)
<1> SUFFICES ASSUME NEW s \in Listings(p) PROVE VerifyChain(s)
  BY DEF RunVerifies
<1> DEFINE n == Cardinality(RowsOf(p))
           Linked(i) == s[i].prev = IF i = 1 THEN Genesis ELSE s[i-1].hash
           Bad == {i \in 1..n : ~ Linked(i)}
<1>1. IsFiniteSet(RowsOf(p)) /\ n \in Nat /\ RowsOf(p) \subseteq rows /\ RowsOf(p) \subseteq Record
  <2>1. RowsOf(p) \subseteq rows /\ IsFiniteSet(rows) /\ rows \subseteq Record
    BY DEF RowsOf, Typed, TypeOK
  <2> QED BY <2>1, FS_Subset, FS_CardinalityType
<1>2. s \in [1..n -> RowsOf(p)] /\ Len(s) = n
  BY <1>1 DEF Listings
<1>3. \A i, j \in 1..n : /\ i # j => s[i] # s[j]
                         /\ i < j => s[i].body.seq <= s[j].body.seq
  BY DEF Listings
<1>4. \A i \in 1..n : s[i] \in RowsOf(p) /\ VerifyIntegrity(s[i])
  BY <1>1, <1>2 DEF RowsLinked
<1>5. \A r \in RowsOf(p) : r.body.seq \in Nat /\ r.body.run = p
  BY <1>1 DEF Record, Body, RowsOf
<1>6. ASSUME NEW i \in 1..n, s[i].prev # Genesis
      PROVE  \E j \in 1..n : j < i /\ s[j].hash = s[i].prev
  <2>1. s[i] \in RowsOf(p) /\ s[i] \in rows /\ s[i].body.run = p
    BY <1>1, <1>4, <1>5
  <2>2. PICK q \in rows : q.body.run = p /\ q.hash = s[i].prev
    BY <1>6, <2>1 DEF RowsLinked
  <2>3. q \in RowsOf(p) /\ q.body.seq < s[i].body.seq
    BY <2>1, <2>2 DEF RowsOf, InOrder
  <2>4. PICK j \in 1..n : s[j] = q
    BY <1>1, <1>2, <2>3, ListingComplete
  <2>5. s[j].body.seq \in Nat /\ s[i].body.seq \in Nat /\ s[j].body.seq < s[i].body.seq
    BY <1>5, <2>1, <2>2, <2>3, <2>4
  <2>6. j < i
    <3>1. i < j => s[i].body.seq <= s[j].body.seq
      BY <1>3
    <3>2. i # j
      BY <2>5
    <3> QED BY <2>5, <3>1, <3>2
  <2> QED BY <2>2, <2>4, <2>6
<1>7. Bad = {}
  <2> SUFFICES ASSUME Bad # {} PROVE FALSE
    OBVIOUS
  <2>1. Bad \in SUBSET Nat
    BY <1>1
  <2>2. PICK i \in Bad : \A k \in Bad : i <= k
    BY <2>1, LeastMember
  <2>3. i \in 1..n /\ ~ Linked(i) /\ \A k \in 1..n : k < i => Linked(k)
    BY <1>1, <2>2
  <2>4. s[i].prev # Genesis
    <3> SUFFICES ASSUME s[i].prev = Genesis PROVE FALSE
      OBVIOUS
    <3>1. i # 1 /\ 1 \in 1..n
      BY <1>1, <2>3
    <3>2. s[1].prev = Genesis
      BY <2>3, <3>1
    <3>3. s[i] = s[1]
      BY <1>4, <2>3, <3>1, <3>2 DEF NoTwins
    <3> QED BY <1>3, <2>3, <3>1, <3>3
  <2>5. PICK j \in 1..n : j < i /\ s[j].hash = s[i].prev
    BY <1>6, <2>3, <2>4
  <2>6. i # 1 /\ j # i - 1
    BY <2>3, <2>5
  <2>7. j + 1 \in 1..n /\ j + 1 < i /\ j + 1 # 1 /\ (j + 1) - 1 = j
    BY <1>1, <2>3, <2>5, <2>6
  <2>8. s[j + 1].prev = s[j].hash
    BY <2>3, <2>7
  <2>9. s[j + 1] = s[i]
    BY <1>4, <2>3, <2>5, <2>7, <2>8 DEF NoTwins
  <2> QED BY <1>3, <2>3, <2>7, <2>9
<1>8. \A i \in 1..n : Linked(i)
  BY <1>7
<1> QED BY <1>2, <1>4, <1>8 DEF VerifyChain

\* So a fork shows twins, which have met, or a row that is not in order.
LEMMA ForksShowTwins ==
  ASSUME Typed, RowsLinked, OneGenesis, RowsNumbered, TwinsMet
  PROVE  ForksAreRaces
<1> SUFFICES ASSUME NEW p \in Policies, ~ RunVerifies(p)
             PROVE  \E r, q \in RowsOf(p) : Raced(r, q) \/ Misnumbered(r, q)
  BY DEF ForksAreRaces
<1>1. rows \subseteq Record /\ \A r \in rows : r.body.seq \in Nat
  BY DEF Typed, TypeOK, Record, Body
<1>2. CASE InOrder(p)
  <2>1. PICK r \in RowsOf(p), q \in RowsOf(p) : r.prev = q.prev /\ r # q
    BY <1>2, UntwinnedVerifies DEF NoTwins
  <2>2. r \in rows /\ q \in rows /\ r.body.run = p /\ q.body.run = p
    BY DEF RowsOf
  <2>3. r.prev # Genesis
    BY <2>1, <2>2 DEF OneGenesis
  <2>4. {r.body.state, q.body.state} \in overlap
    BY <1>2, <2>1, <2>2, <2>3 DEF TwinsMet
  <2> QED BY <2>1, <2>4 DEF Raced
<1>3. CASE ~ InOrder(p)
  <2>1. PICK r \in RowsOf(p), q \in RowsOf(p) : r.prev = q.hash /\ ~ (q.body.seq < r.body.seq)
    BY <1>3 DEF InOrder
  <2>2. /\ r \in rows /\ q \in rows /\ r.body.run = p
        /\ r.body.seq \in Nat /\ q.body.seq \in Nat
    BY <1>1 DEF RowsOf
  <2>3. q.hash # Genesis
    <3>1. q \in Record /\ q.hash = Append(q.prev, q.body)
      BY <1>1, <2>2 DEF RowsLinked, VerifyIntegrity, RecordHash
    <3> QED BY <3>1 DEF Record, Hashes, Genesis
  <2>4. ASSUME r.body.state \notin miscounted PROVE FALSE
    <3>1. Older(r.prev, p, r.body.seq)
      BY <2>1, <2>2, <2>3, <2>4 DEF RowsNumbered
    <3>2. PICK o \in rows : o.hash = q.hash /\ o.body.seq < r.body.seq
      BY <2>1, <3>1 DEF Older
    <3>3. o.body = q.body
      BY <1>1, <2>2, <3>2, SameHash
    <3> QED BY <2>1, <2>2, <3>2, <3>3
  <2>5. Misnumbered(r, q)
    BY <2>1, <2>2, <2>4 DEF Misnumbered
  <2> QED BY <2>5
<1> QED BY <1>2, <1>3

-----------------------------------------------------------------------------
(* Steps and forks *)

SameCall(d) ==
  /\ pc'[d] = pc[d] /\ id'[d] = id[d] /\ prev'[d] = prev[d] /\ rec'[d] = rec[d]
  /\ (d \in miscounted' <=> d \in miscounted)

\* A step of call c that commits nothing leaves it to show that c has met
\* whom it has to have met.
LEMMA ForkQuiet ==
  ASSUME Typed, ForkInv, NEW c \in Calls, pc[c] # "done",
         rows' = rows, overlap \subseteq overlap', \A d \in Calls \ {c} : SameCall(d),
         CallHistory(c)',
         Open(c)' => \A d \in Calls \ {c} : Open(d) => {c, d} \in overlap',
         Past(c)' /\ prev'[c] # Genesis /\ InOrder(id'[c].policy) =>
           \A r \in rows : r.body.run = id'[c].policy /\ r.prev = prev'[c] =>
             {c, r.body.state} \in overlap'
  PROVE  ForkInv'
<1>1. rows \subseteq Record /\ \A r \in rows : r.body.state \in Calls
  BY DEF Typed, TypeOK, Record, Body
<1>2. \A r \in rows : r.body.state # c
  BY DEF ForkInv, OneRowEach
<1>3. \A p : (InOrder(p)' <=> InOrder(p))
  BY DEF InOrder, RowsOf
<1>4. RowsNumbered' /\ TwinsMet'
  <2>1. \A r \in rows : r.body.state \in miscounted' <=> r.body.state \in miscounted
    BY <1>1, <1>2 DEF SameCall
  <2> QED BY <1>3, <2>1 DEF ForkInv, RowsNumbered, Older, TwinsMet
<1>5. \A d \in Calls : CallHistory(d)'
  <2> SUFFICES ASSUME NEW d \in Calls, d # c PROVE CallHistory(d)'
    OBVIOUS
  <2>1. CallHistory(d) /\ SameCall(d)
    BY DEF ForkInv
  <2>2. (Past(d)' <=> Past(d)) /\ (Sealed(d)' <=> Sealed(d))
    BY <2>1 DEF SameCall, Past, Sealed, Ensured, Selected, Checked
  <2>3. (HeadOK(d)' <=> HeadOK(d)) /\ (RecordOK(d)' <=> RecordOK(d))
    BY <2>1 DEF SameCall, HeadOK, RecordOK, Older
  <2> QED BY <2>1, <2>2, <2>3 DEF CallHistory
<1>6. OneRowEach'
  <2>1. \A r \in rows : pc'[r.body.state] = "done"
    BY <1>1, <1>2 DEF ForkInv, OneRowEach, SameCall
  <2> QED BY <2>1 DEF ForkInv, OneRowEach
<1>7. CallsMet'
  <2>1. \A d \in Calls \ {c} : Open(d)' <=> Open(d)
    BY DEF SameCall, Open
  <2>2. \A d, e \in Calls : d # e /\ Open(d)' /\ Open(e)' => {d, e} \in overlap'
    <3> SUFFICES ASSUME NEW d \in Calls, NEW e \in Calls, d # e, Open(d)', Open(e)'
                 PROVE  {d, e} \in overlap'
      OBVIOUS
    <3>1. CASE d = c
      BY <2>1, <3>1
    <3>2. CASE e = c
      <4>1. {c, d} \in overlap'
        BY <2>1, <3>2
      <4> QED BY <3>2, <4>1
    <3>3. CASE d # c /\ e # c
      BY <2>1, <3>3 DEF ForkInv, CallsMet
    <3> QED BY <3>1, <3>2, <3>3
  <2>3. ASSUME NEW d \in Calls, Past(d)', prev'[d] # Genesis, InOrder(id[d].policy)',
               NEW r \in rows,
               r.body.run = id'[d].policy, r.prev = prev'[d]
        PROVE  {d, r.body.state} \in overlap'
    <3>1. CASE d = c
      BY <1>3, <2>3, <3>1
    <3>2. CASE d # c
      <4>1. /\ Past(d) /\ prev[d] # Genesis /\ InOrder(id[d].policy)
            /\ r.body.run = id[d].policy /\ r.prev = prev[d]
        BY <1>3, <2>3, <3>2 DEF SameCall, Past, Sealed, Ensured, Selected, Checked
      <4> QED BY <4>1 DEF ForkInv, CallsMet
    <3> QED BY <3>1, <3>2
  <2> QED BY <2>2, <2>3 DEF CallsMet
<1> QED BY <1>4, <1>5, <1>6, <1>7 DEF ForkInv

\* A sealed call that goes on with its record has met them already.
LEMMA ForkKeeps ==
  ASSUME Typed, ForkInv, NEW c \in Calls, Sealed(c), Sealed(c)',
         rows' = rows, histories' = histories, id' = id, prev' = prev, rec' = rec,
         \A d \in Calls \ {c} : pc'[d] = pc[d]
  PROVE  ForkInv'
<1> USE DEF histories
<1>1. \A d \in Calls \ {c} : SameCall(d)
  BY DEF SameCall
<1>2. pc[c] # "done" /\ Open(c) /\ Past(c)
  BY DEF Sealed, Ensured, Selected, Checked, Open, Past
<1>3. CallHistory(c)'
  <2>1. HeadOK(c) /\ RecordOK(c)
    BY <1>2 DEF ForkInv, CallHistory
  <2>2. HeadOK(c)' /\ RecordOK(c)'
    BY <2>1 DEF HeadOK, RecordOK, Older
  <2> QED BY <2>2 DEF CallHistory
<1>4. \A d \in Calls \ {c} : Open(d) => {c, d} \in overlap'
  BY <1>2 DEF ForkInv, CallsMet
<1>5. prev'[c] # Genesis /\ InOrder(id'[c].policy) =>
        \A r \in rows : r.body.run = id'[c].policy /\ r.prev = prev'[c] =>
          {c, r.body.state} \in overlap'
  BY <1>2 DEF ForkInv, CallsMet
<1> QED BY <1>1, <1>2, <1>3, <1>4, <1>5, ForkQuiet

LEMMA ForkStart ==
  ASSUME Typed, ForkInv, NEW c \in Calls, Start(c)
  PROVE  ForkInv'
<1> USE DEF Start, Goto, txVars
<1>1. pc \in [Calls -> PC] /\ id \in [Calls -> DecisionID]
  BY DEF Typed, TypeOK
<1>2. pc[c] = "idle" /\ pc'[c] = "head"
  BY <1>1
<1>3. \A d \in Calls \ {c} : SameCall(d)
  BY <1>1 DEF SameCall
<1>4. CallHistory(c)' /\ ~ Past(c)'
  BY <1>2 DEF CallHistory, Past, Sealed, Ensured, Selected, Checked
<1>5. \A d \in Calls : Open(d) => {c, d} \in overlap'
  OBVIOUS
<1>6. rows' = rows /\ overlap \subseteq overlap'
  OBVIOUS
<1> QED BY <1>2, <1>3, <1>4, <1>5, <1>6, ForkQuiet

\* The head a call reads has the highest number of its run: in a run in order no
\* row extends it.
LEMMA ForkReadHead ==
  ASSUME JournalInv, ForkInv, NEW c \in Calls, ReadHead(c)
  PROVE  ForkInv'
<1> USE DEF ReadHead, Goto, txVars, histories
<1>1. /\ Typed /\ pc \in [Calls -> PC] /\ prev \in [Calls -> Hashes] /\ rows \subseteq Record
  BY DEF JournalInv, Typed, TypeOK
<1>2. pc[c] = "head" /\ pc'[c] = "seq" /\ Open(c)
  BY <1>1 DEF Open
<1>3. \A d \in Calls \ {c} : SameCall(d)
  BY <1>1 DEF SameCall
<1>4. PICK r \in LastRows(id[c].policy) \cup {NoRow} :
        prev'[c] = IF r = NoRow THEN Genesis ELSE r.hash
  BY <1>1
<1>5. prev'[c] # Genesis =>
        /\ r \in rows /\ r.body.run = id[c].policy /\ prev'[c] = r.hash
        /\ \A q \in RowsOf(id[c].policy) : q.body.seq <= r.body.seq
  BY <1>4 DEF LastRows, RowsOf
<1>6. ASSUME prev'[c] # Genesis, InOrder(id[c].policy),
             NEW q \in rows, q.body.run = id[c].policy, q.prev = prev'[c]
      PROVE  FALSE
  <2>1. r \in RowsOf(id[c].policy) /\ q \in RowsOf(id[c].policy)
    BY <1>5, <1>6 DEF RowsOf
  <2>2. r.body.seq < q.body.seq /\ q.body.seq <= r.body.seq
    BY <1>5, <1>6, <2>1 DEF InOrder
  <2>3. q.body.seq \in Nat /\ r.body.seq \in Nat
    BY <1>1, <1>5, <1>6 DEF Record, Body
  <2> QED BY <2>2, <2>3
<1>7. CallHistory(c)'
  <2>1. HeadOK(c)'
    BY <1>5 DEF HeadOK
  <2>2. ~ Sealed(c)'
    BY <1>2 DEF Sealed, Ensured, Selected, Checked
  <2> QED BY <2>1, <2>2 DEF CallHistory
<1>8. \A d \in Calls \ {c} : Open(d) => {c, d} \in overlap'
  BY <1>2 DEF ForkInv, CallsMet
<1>9. prev'[c] # Genesis /\ InOrder(id'[c].policy) =>
        \A q \in rows : q.body.run = id'[c].policy /\ q.prev = prev'[c] =>
          {c, q.body.state} \in overlap'
  BY <1>6
<1>10. rows' = rows /\ overlap \subseteq overlap' /\ pc[c] # "done"
  BY <1>2
<1> QED BY <1>1, <1>3, <1>7, <1>8, <1>9, <1>10, ForkQuiet

\* A call is sealed with a number above that of every row, unless Count fails.
LEMMA ForkSeal ==
  ASSUME Typed, ForkInv, NEW c \in Calls, SealRecord(c)
  PROVE  ForkInv'
<1> USE DEF SealRecord, Goto, txVars
<1>1. /\ pc \in [Calls -> PC] /\ rec \in [Calls -> Record] /\ rows \subseteq Record
      /\ IsFiniteSet(rows)
  BY DEF Typed, TypeOK
<1>2. pc[c] = "seq" /\ pc'[c] = "record" /\ Open(c) /\ Past(c) /\ ~ Sealed(c)
  BY <1>1 DEF Open, Past, Sealed, Ensured, Selected, Checked
<1>3. \A d \in Calls \ {c} : SameCall(d)
  BY <1>1 DEF SameCall
<1>4. Cardinality(rows) \in Nat
  BY <1>1, FS_CardinalityType
<1>5. PICK failed \in BOOLEAN :
        /\ rec'[c] = Seal(prev[c], [run |-> id[c].policy, seq |-> NextNumber(failed),
                                    id |-> id[c], state |-> c])
        /\ miscounted' = IF failed THEN miscounted \cup {c} ELSE miscounted
  BY <1>1 DEF CountFailures
<1>6. /\ rec'[c].prev = prev[c] /\ rec'[c].body.state = c
      /\ rec'[c].body.seq = NextNumber(failed)
  BY <1>5 DEF Seal
<1>7. HeadOK(c)
  BY <1>2 DEF ForkInv, CallHistory
<1>8. prev[c] # Genesis => Older(prev[c], id[c].policy, Cardinality(rows) + 1)
  <2> SUFFICES ASSUME prev[c] # Genesis PROVE Older(prev[c], id[c].policy, Cardinality(rows) + 1)
    OBVIOUS
  <2>1. PICK q \in rows : q.body.run = id[c].policy /\ q.hash = prev[c]
    BY <1>7 DEF HeadOK
  <2>2. q.body.seq \in Nat /\ q.body.seq <= Cardinality(rows)
    BY <1>1 DEF ForkInv, RowsNumbered, Record, Body
  <2> QED BY <1>4, <2>1, <2>2 DEF Older
<1>9. CallHistory(c)'
  <2>1. HeadOK(c)'
    BY <1>7 DEF HeadOK
  <2>2. CASE failed
    <3>1. c \in miscounted' /\ rec'[c].body.seq = 1
      BY <1>5, <1>6, <2>2 DEF NextNumber
    <3> QED BY <1>4, <1>6, <2>1, <3>1 DEF CallHistory, RecordOK
  <2>3. CASE ~ failed
    <3>1. rec'[c].body.seq = Cardinality(rows) + 1
      BY <1>6, <2>3 DEF NextNumber
    <3>2. RecordOK(c)'
      BY <1>4, <1>6, <1>8, <3>1 DEF RecordOK, Older
    <3> QED BY <2>1, <3>2 DEF CallHistory
  <2> QED BY <2>2, <2>3
<1>10. \A d \in Calls \ {c} : Open(d) => {c, d} \in overlap'
  BY <1>2 DEF ForkInv, CallsMet
<1>11. prev'[c] # Genesis /\ InOrder(id'[c].policy) =>
        \A q \in rows : q.body.run = id'[c].policy /\ q.prev = prev'[c] =>
          {c, q.body.state} \in overlap'
  BY <1>2 DEF ForkInv, CallsMet
<1>12. rows' = rows /\ overlap \subseteq overlap' /\ pc[c] # "done"
  BY <1>2
<1> QED BY <1>3, <1>9, <1>10, <1>11, <1>12, ForkQuiet

LEMMA ForkRollback ==
  ASSUME Typed, ForkInv, NEW c \in Calls, pc[c] # "done", NEW outcome, EndTx(c, outcome),
         UNCHANGED <<rows, runRows>>
  PROVE  ForkInv'
<1> USE DEF EndTx, Goto, histories
<1>1. pc'[c] = "done" /\ \A d \in Calls \ {c} : SameCall(d)
  BY DEF SameCall, Typed, TypeOK
<1>2. CallHistory(c)' /\ ~ Open(c)' /\ ~ Past(c)'
  BY <1>1 DEF CallHistory, Open, Past, Sealed, Ensured, Selected, Checked
<1>3. rows' = rows /\ overlap \subseteq overlap'
  OBVIOUS
<1> QED BY <1>1, <1>2, <1>3, ForkQuiet

\* A call commits one row more; every call in progress has met it.
LEMMA ForkCommit ==
  ASSUME JournalInv, ForkInv, NEW c \in Calls, Commit(c) \/ Land(c)
  PROVE  ForkInv'
<1>1. PICK outcome : EndTx(c, outcome)
  BY DEF Commit, Land
<1>2. /\ Typed /\ pc \in [Calls -> PC] /\ rec \in [Calls -> Record] /\ rows \subseteq Record
      /\ IsFiniteSet(rows) /\ \A r \in rows : r.body.state \in Calls /\ r.body.seq \in Nat
  BY DEF JournalInv, Typed, TypeOK, Record, Body
<1>3. /\ pc[c] \in {"commit", "doubt"} /\ rows' = rows \cup {rec[c]}
      /\ overlap' = overlap /\ miscounted' = miscounted
  BY <1>1 DEF Commit, Land, Store, EndTx, histories
<1>4. pc'[c] = "done" /\ \A d \in Calls \ {c} : SameCall(d)
  <2>1. prev \in [Calls -> Hashes] /\ id \in [Calls -> DecisionID]
    BY <1>2 DEF Typed, TypeOK
  <2> QED BY <1>1, <1>2, <1>3, <2>1 DEF SameCall, EndTx, Goto
<1>5. Sealed(c) /\ Past(c) /\ Open(c)
  BY <1>3 DEF Sealed, Ensured, Selected, Checked, Past, Open
<1>6. RecordOK(c) /\ rec[c].body.run = id[c].policy
  BY <1>3, <1>5, CommitsLinked DEF ForkInv, CallHistory
<1>7. \A r \in rows : r.body.state # c
  BY <1>3 DEF ForkInv, OneRowEach
<1>8. Cardinality(rows') = Cardinality(rows) + 1 /\ Cardinality(rows) \in Nat
  <2>1. rec[c] \notin rows
    BY <1>6, <1>7 DEF RecordOK
  <2> QED BY <1>2, <1>3, <2>1, FS_AddElement, FS_CardinalityType
<1>9. /\ \A h, p, k : Older(h, p, k) => Older(h, p, k)'
      /\ \A p : InOrder(p)' => InOrder(p)
  BY <1>3 DEF Older, InOrder, RowsOf
<1>10. RowsNumbered'
  <2> SUFFICES ASSUME NEW r \in rows'
               PROVE  /\ r.body.seq <= Cardinality(rows')
                      /\ r.prev # Genesis /\ r.body.state \notin miscounted =>
                           Older(r.prev, r.body.run, r.body.seq)'
    BY <1>3 DEF RowsNumbered
  <2>1. CASE r \in rows
    <3>1. r.body.seq <= Cardinality(rows) /\ r.body.seq \in Nat
      BY <1>2, <2>1 DEF ForkInv, RowsNumbered
    <3>2. r.prev # Genesis /\ r.body.state \notin miscounted =>
            Older(r.prev, r.body.run, r.body.seq)
      BY <2>1 DEF ForkInv, RowsNumbered
    <3> QED BY <1>8, <1>9, <3>1, <3>2
  <2>2. CASE r = rec[c]
    BY <1>6, <1>8, <1>9, <2>2 DEF RecordOK
  <2> QED BY <1>3, <2>1, <2>2
<1>11. \A d \in Calls : CallHistory(d)'
  <2> SUFFICES ASSUME NEW d \in Calls PROVE CallHistory(d)'
    OBVIOUS
  <2>1. CASE d = c
    BY <1>4, <2>1 DEF CallHistory, Past, Sealed, Ensured, Selected, Checked
  <2>2. CASE d # c
    <3>1. CallHistory(d) /\ SameCall(d)
      BY <1>4, <2>2 DEF ForkInv
    <3>2. (Past(d)' <=> Past(d)) /\ (Sealed(d)' <=> Sealed(d))
      BY <3>1 DEF SameCall, Past, Sealed, Ensured, Selected, Checked
    <3>3. HeadOK(d) => HeadOK(d)'
      BY <1>3, <3>1 DEF SameCall, HeadOK
    <3>4. Sealed(d) /\ RecordOK(d) => RecordOK(d)'
      <4>1. rec[d].body.seq \in Nat
        BY <1>2 DEF Record, Body
      <4> QED BY <1>8, <1>9, <3>1, <4>1 DEF SameCall, RecordOK
    <3> QED BY <3>1, <3>2, <3>3, <3>4 DEF CallHistory
  <2> QED BY <2>1, <2>2
<1>12. OneRowEach'
  <2>1. rec[c].body.state = c
    BY <1>6 DEF RecordOK
  <2>2. \A r \in rows : pc'[r.body.state] = "done"
    BY <1>2, <1>4, <1>7 DEF ForkInv, OneRowEach, SameCall
  <2>3. \A r \in rows' : pc'[r.body.state] = "done"
    BY <1>3, <1>4, <2>1, <2>2
  <2>4. \A r, q \in rows' : r.body.state = q.body.state => r = q
    BY <1>3, <1>7, <2>1 DEF ForkInv, OneRowEach
  <2> QED BY <2>3, <2>4 DEF OneRowEach
<1>13. CallsMet'
  <2>1. ASSUME NEW d \in Calls, Open(d)' PROVE d # c /\ Open(d)
    BY <1>4, <2>1 DEF Open, SameCall
  <2>2. \A d, e \in Calls : d # e /\ Open(d)' /\ Open(e)' => {d, e} \in overlap'
    BY <1>3, <2>1 DEF ForkInv, CallsMet
  <2>3. ASSUME NEW d \in Calls, Past(d)', prev'[d] # Genesis, InOrder(id[d].policy)',
               NEW r \in rows',
               r.body.run = id'[d].policy, r.prev = prev'[d]
        PROVE  {d, r.body.state} \in overlap'
    <3>1. d # c
      BY <1>4, <2>3 DEF Past, Sealed, Ensured, Selected, Checked
    <3>2. /\ Past(d) /\ prev[d] # Genesis /\ InOrder(id[d].policy)
          /\ r.body.run = id[d].policy /\ r.prev = prev[d]
      BY <1>4, <1>9, <2>3, <3>1 DEF SameCall, Past, Sealed, Ensured, Selected, Checked
    <3>3. CASE r \in rows
      BY <1>3, <3>2, <3>3 DEF ForkInv, CallsMet
    <3>4. CASE r = rec[c]
      <4>1. Open(d) /\ r.body.state = c
        BY <1>6, <3>2, <3>4 DEF Past, Sealed, Ensured, Selected, Checked, Open, RecordOK
      <4> QED BY <1>3, <1>5, <3>1, <4>1 DEF ForkInv, CallsMet
    <3> QED BY <1>3, <3>3, <3>4
  <2> QED BY <2>2, <2>3 DEF CallsMet
<1>14. TwinsMet'
  <2>1. ASSUME NEW r \in rows, r.body.run = rec[c].body.run, r.prev = rec[c].prev,
               r.prev # Genesis, InOrder(r.body.run)
        PROVE  {r.body.state, c} \in overlap
    <3>1. {c, r.body.state} \in overlap
      BY <1>5, <1>6, <2>1 DEF ForkInv, CallsMet, RecordOK
    <3> QED BY <3>1
  <2>2. rec[c].body.state = c
    BY <1>6 DEF RecordOK
  <2> SUFFICES ASSUME NEW r \in rows', NEW q \in rows', r # q, r.body.run = q.body.run,
                      r.prev = q.prev, r.prev # Genesis, InOrder(r.body.run)
               PROVE  {r.body.state, q.body.state} \in overlap
    BY <1>3, <1>9 DEF TwinsMet
  <2>3. CASE r \in rows /\ q \in rows
    BY <2>3 DEF ForkInv, TwinsMet
  <2>4. CASE r \in rows /\ q = rec[c]
    BY <2>1, <2>2, <2>4
  <2>5. CASE r = rec[c] /\ q \in rows
    <3>1. {q.body.state, c} \in overlap
      BY <2>1, <2>5
    <3> QED BY <2>2, <2>5, <3>1
  <2> QED BY <1>3, <2>3, <2>4, <2>5
<1> QED BY <1>10, <1>11, <1>12, <1>13, <1>14 DEF ForkInv

\* After a restart only the calls with a commit on its way are open, as before.
LEMMA ForkRestart ==
  ASSUME Typed, ForkInv, Restart
  PROVE  ForkInv'
<1>1. rows' = rows /\ overlap' = overlap /\ miscounted' = miscounted
  BY DEF Restart, histories
<1>2. /\ \A r \in rows : r.body.state \in Calls
      /\ \A c \in Calls : pc[c] \in PC
  BY DEF Typed, TypeOK, Record, Body
<1>3. \A d \in Calls :
        /\ pc[d] = "done" => pc'[d] = "done"
        /\ Open(d)' => /\ Open(d) /\ Past(d) /\ Sealed(d)
                       /\ id'[d] = id[d] /\ prev'[d] = prev[d] /\ rec'[d] = rec[d]
  <2> SUFFICES ASSUME NEW d \in Calls
               PROVE  /\ pc[d] = "done" => pc'[d] = "done"
                      /\ Open(d)' => /\ Open(d) /\ Past(d) /\ Sealed(d)
                                     /\ id'[d] = id[d] /\ prev'[d] = prev[d]
                                     /\ rec'[d] = rec[d]
    OBVIOUS
  <2>1. PICK sent \in SUBSET {c \in Calls : pc[c] = "commit"} :
          LET stays(c) == c \in sent \/ pc[c] = "doubt"
          IN  /\ pc' = [c \in Calls |-> IF stays(c) THEN "doubt"
                                        ELSE IF Running(c) THEN "done" ELSE pc[c]]
              /\ id' = [c \in Calls |-> IF stays(c) THEN id[c] ELSE NoID]
              /\ prev' = [c \in Calls |-> IF stays(c) THEN prev[c] ELSE Genesis]
              /\ rec' = [c \in Calls |-> IF stays(c) \/ result[c] = "ok" THEN rec[c]
                                         ELSE NoRecord]
    BY DEF Restart
  <2>2. CASE d \in sent \/ pc[d] = "doubt"
    <3>1. pc[d] \in {"commit", "doubt"}
      BY <2>2
    <3>2. id'[d] = id[d] /\ prev'[d] = prev[d] /\ rec'[d] = rec[d]
      BY <2>1, <2>2
    <3> QED BY <3>1, <3>2 DEF Open, Past, Sealed, Ensured, Selected, Checked
  <2>3. CASE ~ (d \in sent \/ pc[d] = "doubt")
    <3>1. pc'[d] = IF Running(d) THEN "done" ELSE pc[d]
      BY <2>1, <2>3
    <3> QED BY <2>3, <3>1 DEF Running, Open
  <2> QED BY <2>2, <2>3
<1>4. \A d \in Calls : Past(d)' => Open(d)'
  BY DEF Past, Sealed, Ensured, Selected, Checked, Open
<1>5. (\A p : (InOrder(p)' <=> InOrder(p))) /\ \A h, p, k : (Older(h, p, k)' <=> Older(h, p, k))
  BY <1>1 DEF InOrder, RowsOf, Older
<1>6. RowsNumbered' /\ TwinsMet'
  BY <1>1, <1>5 DEF ForkInv, RowsNumbered, TwinsMet
<1>7. OneRowEach'
  BY <1>1, <1>2, <1>3 DEF ForkInv, OneRowEach
<1>8. CallsMet'
  <2>1. \A c, d \in Calls : c # d /\ Open(c)' /\ Open(d)' => {c, d} \in overlap'
    BY <1>1, <1>3 DEF ForkInv, CallsMet
  <2>2. ASSUME NEW d \in Calls, Past(d)', prev'[d] # Genesis, InOrder(id[d].policy)',
               NEW r \in rows, r.body.run = id'[d].policy, r.prev = prev'[d]
        PROVE  {d, r.body.state} \in overlap'
    <3>1. /\ Past(d) /\ prev[d] # Genesis /\ InOrder(id[d].policy)
          /\ r.body.run = id[d].policy /\ r.prev = prev[d]
      BY <1>3, <1>4, <1>5, <2>2
    <3> QED BY <1>1, <3>1 DEF ForkInv, CallsMet
  <2> QED BY <1>1, <2>1, <2>2 DEF CallsMet
<1>9. \A d \in Calls : CallHistory(d)'
  <2> SUFFICES ASSUME NEW d \in Calls, Open(d)' PROVE HeadOK(d)' /\ RecordOK(d)'
    BY <1>4 DEF CallHistory, Past
  <2>1. HeadOK(d) /\ RecordOK(d)
    BY <1>3 DEF ForkInv, CallHistory
  <2> QED BY <1>1, <1>3, <1>5, <2>1 DEF HeadOK, RecordOK
<1> QED BY <1>6, <1>7, <1>8, <1>9 DEF ForkInv

LEMMA ForkInit == Init => ForkInv
<1> SUFFICES ASSUME Init PROVE ForkInv
  OBVIOUS
<1> USE DEF Init
<1>1. \A c \in Calls : ~ Open(c) /\ ~ Past(c) /\ ~ Sealed(c)
  BY DEF Open, Past, Sealed, Ensured, Selected, Checked
<1> QED BY <1>1 DEF ForkInv, RowsNumbered, OneRowEach, TwinsMet, CallsMet, CallHistory

LEMMA ForkNext ==
  ASSUME JournalInv, ForkInv, [Next]_vars
  PROVE  ForkInv'
<1>0. Typed /\ pc \in [Calls -> PC]
  BY DEF JournalInv, Typed, TypeOK
<1>1. ASSUME NEW c \in Calls, Start(c) PROVE ForkInv'
  BY <1>0, <1>1, ForkStart
<1>2. ASSUME NEW c \in Calls, ReadHead(c) PROVE ForkInv'
  BY <1>2, ForkReadHead
<1>3. ASSUME NEW c \in Calls, SealRecord(c) PROVE ForkInv'
  BY <1>0, <1>3, ForkSeal
<1>4. ASSUME NEW c \in Calls,
             \/ KeepEntry(c) \/ EnsureRun(c) \/ SelectLast(c) \/ LockLast(c)
             \/ InsertRow(c) \/ DoubtCommit(c)
      PROVE  ForkInv'
  <2>1. /\ rows' = rows /\ histories' = histories /\ id' = id /\ prev' = prev /\ rec' = rec
        /\ \E l \in {"ensure", "select", "lock", "insert", "commit", "doubt"} :
             pc' = [pc EXCEPT ![c] = l]
        /\ pc[c] \in {"record", "ensure", "select", "lock", "insert", "commit"}
    BY <1>4 DEF KeepEntry, EnsureRun, SelectLast, LockLast, InsertRow, DoubtCommit, Goto,
                callVars
  <2>2. Sealed(c) /\ Sealed(c)' /\ \A d \in Calls \ {c} : pc'[d] = pc[d]
    BY <1>0, <2>1 DEF Sealed, Ensured, Selected, Checked
  <2> QED BY <1>0, <2>1, <2>2, ForkKeeps
<1>5. ASSUME NEW c \in Calls,
             RejectCorrupted(c) \/ RejectDuplicate(c) \/ TxFails(c) \/ Abort(c)
      PROVE  ForkInv'
  <2>1. /\ EndTx(c, "rejected") \/ EndTx(c, result[c])
        /\ UNCHANGED <<rows, runRows>> /\ pc[c] # "done"
    BY <1>5 DEF RejectCorrupted, RejectDuplicate, TxFails, Abort, Rollback, InTx
  <2> QED BY <1>0, <2>1, ForkRollback
<1>6. ASSUME NEW c \in Calls, Commit(c) \/ Land(c) PROVE ForkInv'
  BY <1>6, ForkCommit
<1>7. CASE Restart
  BY <1>0, <1>7, ForkRestart
<1>8. CASE UNCHANGED vars
  BY <1>8 DEF vars, callVars, histories, ForkInv, RowsNumbered, Older, CallHistory, HeadOK,
              RecordOK, OneRowEach, CallsMet, TwinsMet, InOrder, RowsOf, Open, Past, Sealed,
              Ensured, Selected, Checked
<1> QED BY <1>1, <1>2, <1>3, <1>4, <1>5, <1>6, <1>7, <1>8 DEF Next, Proceed, Settle

\* A run whose rows do not verify has two rows of calls that raced, a commit in
\* doubt among them, or a row that got the number 1 because Count failed: the link
\* check of Append is made against the row with the highest number.
THEOREM ForksOnlyByRaces == Spec => []ForksAreRaces
<1>1. Init => ForkInv
  BY ForkInit
<1>2. JournalInv /\ ForkInv /\ [Next]_vars => ForkInv'
  BY ForkNext
<1>3. JournalInv /\ ForkInv => ForksAreRaces
  BY ForksShowTwins DEF JournalInv, ForkInv
<1> QED BY <1>1, <1>2, <1>3, JournalSafe, PTL DEF Spec

=============================================================================
